# A verification model of the nut-picking cell

The repository drives a robot cell that picks nuts to order: a web or voice
front end produces an order, a task manager works through it with a camera and
a robot arm, and a conveyor carries each nut away.  This directory models the
concurrent and failure-prone parts of it in TLA+, checks them with TLC, and
proves the main safety results of the task manager, the robot node, the
gripper, the conveyor, the scripts and the audio thread with TLAPS.

Source paths below are relative to `src/`.

## 1. Inventory

| component | state it keeps | operations | talks to |
|---|---|---|---|
| `cobot_task_manager/task_manager_node.py` | `_worker`, `_stop_event`, `_cluster_push_counts`, the primary and the correction `OrderBook`, initial counts | `/task/start`, stop, one worker thread per cycle: fetch, home, count, process the book, verify up to N rounds | detect_once, robot home, pick_and_place, database; publishes `/task/status`, `/task/result` |
| `order_provider.py`, `retry_policy.py` | counts, retry counters, skipped classes; last request id | consume, record a miss or a failure, skip, next class; fetch | Firestore, Supabase, file, service |
| `target_selector.py`, `cluster_policy.py`, `pick_offsets.py` | none | choice of the next nut, of a push, and the goal's numbers | called by the worker |
| `cobot_robot_control/robot_control_node.py` | `_busy_lock`, `_stop_event`, `_place_ready` and its lock, 10 Hz timer | accept, execute and cancel a goal, `/robot/home`, `/robot/stop`, pose, publish `place_ready` | arm, gripper; the conveyor listens |
| `motion_sequence.py` | none | pick-and-place and closed-gripper push, stage by stage | arm, gripper, callbacks into the node |
| `gripper_controller.py`, `doosan_motion_client.py` | bus connections | open, close, move, idle wait; move, read the pose | hardware |
| `conveyor_controller` node and Arduino sketch | serial port, `_last_place_ready`, stop timer; `running`, direction, input line | manual command, place_ready edge, timer, reconnect, shutdown; read and handle a line | `place_ready`, serial line |
| `cobot_perception`, `cobot_object_detection` | latest frames, intrinsics, aggregation buffer | detect_once: capture, infer, fuse, measure depth, transform | camera, robot pose |
| `cobot_voice` | audio thread, update queue, `latest_order.json` | audio loop and order flow, typed orders, session updates, status bridges | Supabase, Firebase, ROS |
| `web_stt_supabase_v2`, `web_stt_firebase_v2` | session row, rosbridge connection, page handle | record, recommend, dispatch, wait for completion, reset | Supabase or Firestore, rosbridge |
| `cobot_db` | Supabase tables | atomic stock update, exception log, session row | database |
| `scripts/pick_all.py`, `pick_one.py` | quotas, counters | detect, choose, send one goal, repeat | detect_once, pick_and_place |

What is hard here:

* **Account of what moved.**  The worker believes what the action reports, then
  recounts through a camera.  Dropped nuts, pushes, retries and correction
  rounds must not add up to too many nuts or to an untrue success.
* **Interleaving in the robot node.**  Goals, the stop service, the home
  service and the 10 Hz publisher run in threads of their own; `_on_goal` only
  looks at the lock; the flag is published outside its lock.
* **One row, many writers.**  Browser and bridge write the same session row,
  and an order, a status and a reset overwrite one another; a provider reads it
  whenever a start arrives.
* **Old data that looks new.**  Frames on their way when the arm moved, a depth
  image no stamp is compared for, a grip bit of the movement before.
* **Partial failure.**  Every step of a sequence may raise; the flag and the
  lock must come back.  A serial write may fail, and reconnecting restarts the
  controller of the belt.
* **Termination.**  Four bounded retries are nested in one another.

Each hazard is listed at its line, with the properties that cover it, under
`hazards` in `PROJECT.json`.

## 2. Modules

| module | models |
|---|---|
| `OrderBook` | `OrderBook`, `RetryPolicy` and the count arithmetic, constant-level |
| `TaskManager` | the worker thread; extends `OrderBook` |
| `Fulfilment` | abstract: what an order's owner is promised |
| `TaskManagerRefinement` | the mapping under which the worker implements it |
| `TaskManagerTrail` | `TaskManager` with a history of what became of every attempt at a class |
| `RobotControl` | action server, sequences, services, place_ready |
| `Gripper` | the RG2 and `wait_until_idle` in time, under one pick |
| `Conveyor` | serial node, serial line and sketch |
| `ConfigFiles` | the loaders of the shared YAML files, constant-level |
| `Selection` | one detection to one goal: gates, choice, push, offsets, width; extends `ConfigFiles` |
| `Perception` | one detect_once call over a camera and a scene; extends `ConfigFiles` |
| `PickAll` | the scripts `pick_all.py` and `pick_one.py` |
| `Combo` | what an order is made of and when a provider takes it, constant-level |
| `Voice` | audio loop, flow, typed command, update queue, order file; extends `Combo` |
| `WebOrder` | browser, session row, dispatch, provider, worker's reports, status bridge; extends `Combo` |
| `TaskManagerProofs` | theorems: the count arithmetic, skips, over-delivery, verified success, stock, and the step-by-step refinement of `Fulfilment` |
| `RobotControlProofs` | lock, stops and place_ready |
| `GraspProofs` | what `Selection` makes of a scene, and the grip bit of `Gripper` |
| `ConveyorProofs`, `PickAllProofs`, `VoiceProofs` | node and belt; quota, balance, exit code; the audio thread, the screen, the order file |
| `WebOrderProofs`, `PerceptionProofs` | one service per order and what a flow is told; frames, holes and the fusion of detections |
| `MC...` | instances for TLC |

### TaskManager

One action is one return of a call the worker blocks on, with everything the
worker does until the next one: no other thread reads its local variables, and
the only shared one, `_stop_event`, is read at the loop head (`BeginIteration`,
`Stopped`, `BookDone`) and inside `_await_future`, where it makes the call come
back as unanswered, which is among the outcomes of every call.

`pc` names the call: `fetch`, `home`, `initial`, `loop`, `detect`, `select`,
`push`, `pick`, `verify`, `recount`, `done`.  `order` and `correction` are the
two books (`Current` is the one `_process_order_book` was given), `ordered` the
copy taken at line 862, `shortage` the COUNT_MISMATCH amounts of line 914.

`table`, `tray` and `lost` are the world and never read by the code.  A pick
that reports success delivered its nut, lost it, or let it slip back; a pick
that failed or never answered may have done any of these; a push may sweep a
nut away.  A detection overlooks up to `Blind` nuts of each class, and counts
only classes of the priority list.  Nuts are not added during a cycle.

Abstracted: which candidate is chosen and where it lies (that is `Selection`),
waiting times, and the text of messages.  A class missing from the Python
dictionary and one with count 0 are the same, as they are for every method of
`OrderBook`.

`TaskManagerTrail` adds what an observer of the detector, the gripper and the
robot would note of each class since its last nut: `unseen`, `pushed`, `empty`.
It reads none of the book's counters, so that what is said of a skip is not a
comparison of the counters with themselves.

### Selection and ConfigFiles

`Selection` is the geometry `TaskManager` leaves out: one detection, and the
goal one iteration makes of it (`Miss`, `SendPush`, `SendPick`), beside the
count of the same detection (`Count`).  Lengths are tenths of a millimetre, a
yaw is a Pythagorean pair in fifths, and only scenes with whole distances from
the target are taken, so `hypot`, the projections and the oriented boxes are
exact.  The three definitions of a gate in the code (`choose_target`,
`_count_detected_objects`, `_filter_valid`) stay separate definitions here.  A
scene is a list that the code only walks in order, so what is left when some of
its elements are dropped keeps their indices.

### RobotControl

A goal's thread is `stage[g]`; the tables `Checks`, `Moves`, `Settles` and
`Opens` hold the two sequences, one entry per call, and each action steps
through one table.  `FinishWith` is the result message and the first half of
the `finally` block.  `call[t]` is where thread `t` is in
`_set_place_ready`/`_publish_place_ready`: write under the lock, read under the
lock, publish with no lock held.

A move may return without having moved the arm: `docs/01_system_architecture.md`
describes a controller that is not servo-on and answers with success.  It may
also never return: `movej`, `movel`, `mwait` and `get_current_posx` are called
without a timeout (`Hang`, `hung`).  `Breaks` is an exception before or after
the command took effect.

Of the pose the code looks at the y only, and so does the model: `abreast` says
that it is that of the place point within the margin, where the arm may be
because it is at that point or because it is over one of the goals in
`PlaceRow`, whose nuts lie at that y.  The home pose is not there.  A gripper command
may be lost without an error (nobody looks at the answer of
`write_registers`), and the move to the pre-grasp width need not let go of a
nut wider than it, so `Open` may leave the fingers as they are.

`held` is the nut between the fingers, `opened` the goals that told them to open
for the place point at that y.  The code learns of them only through
`is_grip_detected` and the pose.  `told[g]`
records where a goal was when a stop was first signalled and influences nothing.

Abstracted: poses (named places and `abreast`), feedback, settling time (that is
`Gripper`), the number of threads of the executor, and `set_speed`, which only
stores two numbers.

### Gripper

Time in poll periods of 50 ms.  `Tick` is the device: a command waits, is
obeyed, moves, ends or jams, and the busy bit may read idle once in the middle
of a movement.  `Poll` is one turn of a loop of `wait_until_idle`; `phase` says
which (`start`, `run`, `debounce`).  `GripperAssumption` is a gripper that obeys
and moves within the two windows of the code.  A width of 0 stands for no
pre-grasp move (`NoPreGrasp`); the mock counts widths below 30 mm as closed
(`MockMoves`, `Mock_closed`).

### Conveyor

The node has a single-threaded executor, so a callback is a step.  `line` holds
what has been written and not yet read.  `Send` is `_send_command` with its
reconnect: opening the port restarts the UNO, so the line is emptied and the
belt stopped.  A failed write may or may not have reached the line.  Speeds are
reduced to the direction; the sketch's silence timeout is 0, that is off.

### Perception

The handler is a `phase`; the subscriptions (`OnColor`, `OnDepth`,
`OnCameraInfo`) run between any two of its steps, as the reentrant callback
group lets them.  A frame on a wire has an age, whether its stamp is after the
trigger, and whether the scene is still the one it shows; `SceneChanges` makes
everything stale.  A detection is a class and a place on a line, off by at most
the jitter of its nut; `Fuse` is the greedy clustering, frame by frame.
Medians are doubled to stay whole.

### PickAll

Both scripts are single threads.  The wait for the reply to a goal (`sending`,
`GoalReply`) has no timeout, the one for its result has.  `inflight` is the
robot's goal, which the script may have given up on: it ends on its own
(`AbandonedEnds`), and until then the robot rejects the next one.  `answer` is
the last result that came.

### Combo, Voice and WebOrder

`Combo` follows an order from the model's answer (`BuildCombo`,
`NormalizeCombo`, `LatestOrder`) to a provider's gates (`Refuses`,
`Remembered`).

`Voice` has the threads of the HTTP server, the audio thread (`at[t]`) and the
queue workers of `firebase_bridge`.  The stream of the wake word is opened, and
its model loaded, outside the `try` that closes it: `OpenMic` and `Wake` have a
branch in which it stays open, as has a close that raises
(`CloseStreamRaises`).  A stream left open so is replaced, not closed, when the
next flow opens one.  The file is opened (truncated) and written in two steps,
so two writers may overlap and leave it torn.  `Told` is the text the customer
hears, `format_combo_text` of the combo before it is normalised.  One command is
typed at a time, and at most two queue workers run, which is as many as two
publishers can start.

`WebOrder` has one row.  `Write` changes some fields and notifies the
subscriptions in `live`; `SafeUpdate` is a write of the browser, which may be
lost and is then only logged.  `Stop` ends a flow's handle and lets the flow run
on, as the code does, so two flows may write.  The task manager is what the row
and the topics see of it: `HandleStart` and `StartWorker` look for a living
worker and start a thread in two steps, so that two may run; each thread
(`worker[w]`) reads the row (`FetchReads`), checks the order against the
remembered id (`FetchAccepts`, `FetchRaises`) and remembers it
(`FetchSupabase`, `FetchFirestore`) in three.  `OnStatus` and `OnResult` are the
bridge, whose writes may be lost as well.  `store` chooses Supabase or
Firestore, which differ in the reset of `robot_state`, in the first snapshot of
a subscription, and in who writes.

## 3. Runs

| run | asks | bounds |
|---|---|---|
| `TaskManagerOne` | type, over-delivery, verified success, stock, when a class is given up | one class, orders -1..2, 0..3 nuts, 2 rounds, 2 pushes, every budget 2 |
| `TaskManagerTwo` | every cycle ends; refinement of `Fulfilment` | orders of 1+1 and 0+2, two nuts each, 1 round |
| `RobotControlStops` | lock, flag, stop | a pick (may be cancelled) and a push, one stop |
| `RobotControlPicks` | truth of place_ready; every goal answered, the flag comes down | two picks, one at the y of the place point, any step may fail or hang, one home call |
| `Conveyor` | node and belt agree, movements end | three commands on the line, write faults, restarts |
| `WebOrder` | one service per order, truthful completion, nothing left in the row | two flows that may be stopped, one worker at a time, one restart, one lost write of the browser, one message per topic |
| `Voice` | one listener, stops, the file, the newest update | two audio threads, one typed order at a time, two nuts and one that does not exist, two waiting updates, two queue workers |
| `Perception` | one scene, one object per nut, depth, answers | three nuts, two frames within four periods |
| `Selection` | gates, push, goal | scenes of up to three detections, two yaws, four places of the target |
| `PickAll` | quota, balance, exit code, end | ten command lines, two classes, four picks, two failures |
| `Gripper` | grip bit, end of a wait | lag 1, movement 3, polls 1 late; windows 6 and 12 |
| `AuditDeduplicated` | a statement of the documents that the code does not meet | as `WebOrder`, two workers and a start by hand; no stops, restart or lost writes |

Why these are enough: the account of a class depends on others only through the
book, the skip set and the round, which two classes exercise; more than two
nuts ordered adds repetitions of one iteration; two rounds give a correction of
a correction; two goals give every pair of threads.  Two flows are the flow and
its predecessor or successor, which is all the row can mix up.  Three
detections are a target, its neighbour and one in the way.  Two frames fuse two
sightings of a nut, and a third changes a mean, not a rule.  Two quotas exceed
each other by two within four picks.  Of two updates that wait one may be
written while the other is taken, which is all that two queue workers can cross.
`WebOrder` loses one write of the browser, any one, and has one worker thread at
a time: a start that comes late, after the flow it belongs to has ended, does
what a start by hand does.  Two workers that run together, and a start by hand
beside the page, are in `AuditDeduplicated`, and the theorems of section 5 hold
for any number of workers, starts and lost writes.  `MaxStops`,
`MaxHomes`, `MaxPending`, `MaxBacklog`, `MaxLost`, `Workers`, `ByHand` and the
length of `Flows` cap environment calls, failures, threads and queues, and
`MayStop` and `MayRestart` switch stops and the one restart of `WebOrder`, where
checking everything at once is out of reach; the models have no other bound.
The proofs remove these bounds for the results of section 5.  In
`TaskManagerOne` few states have more nuts on the table than at the start, so the
clamp for them is exercised little; `Perception` runs with cameras without lag,
and the theorem covers the lag.

Deadlock is checked in every run but those of `WebOrder` and `PickAll`, which
stop when every flow, or the script, has ended.

Every property of a passing run has a mutant (`...Swapped`, `...Late`,
`BusyClearing` and so on, placed before the definition each one perturbs): the
run finds the property violated when it replaces the original.

### What the properties exempt

What the code does not protect is exempt by name:

* `WebOrder`: a stopped flow writes the row beside the next (`cancelled`), a
  restarted task manager forgets the last id (`restarted`), workers that run
  together both pass the check of the id (`raced`; `AuditDeduplicated` shows it),
  a flow whose last reset was lost leaves its order (`unreset`), and `DoneIsOwn`
  begins with a `publishDispatching` that came through while nothing of a cycle
  was under way (`clean`): a lost one leaves the `task_done` of the cycle before
  in the row, where Firestore's first snapshot takes it for an answer.
* `NothingLeftOver` speaks of flows that ended: one that is stopped in its final
  display never does (`stuck`, section 4).
* `LastUpdateShown`: the newest update was taken while the other queue worker was
  still writing an older one (`crossed`), which may be written last.
* `OnlyAsTold` compares nuts that exist: others are told and not prepared.  It
  says of a spoken order in the file that it is the one being dispatched: a typed
  one may be in its place (section 4).
* `SkippedForCause` counts misses whether or not they follow one another, as the
  code does and a comment does not (section 4).
* `VerifiedSuccess` needs a last recount that found nothing missing: the code
  publishes success without one after the last round (section 4).
* `Answered` and `BeaconDrops`: a goal whose thread hangs in a call to the arm.
* `Finishes`: a script that waits for a reply to its goal which does not come.
* `ReadyMeansOpened` asks what the code can know: whether a nut fell, and at
  which x, it cannot (section 4).
* `DepthOfThisScene` needs a depth stream that does not stall
  (`DepthMayStall = FALSE`) and a capture longer than its lag.
* `NoOrphanRun` and `MovementEnds` allow a closed port, since STOP is written
  once.

### Fairness

`TaskManager`: `WF(Work)`; every call the worker makes carries a timeout, so
its thread goes on.  Nobody is obliged to start or stop a cycle.
`RobotControl`: weak fairness of each thread that does not hang; no handler
waits for another, and the waits on the gripper have timeouts (of the socket,
and of `wait_until_idle`).  Calls to the arm have none and nothing is assumed of
them: `Hang` may take any of them, and a thread in `hung` takes no more steps.
The home and stop services are called by others and not fair.  `Conveyor`: the
armed timer fires and the sketch keeps reading; manual commands are not obliged
to come.  `Perception`: the camera keeps its clock (not its frames), the
executor delivers, and the handler, a loop with a deadline, runs; an exception
of inference, which would end the executor, is not modelled.  `PickAll`:
`WF(Script)`, a single thread; every wait in it has a timeout but the one for
the robot's reply, and `GoalReply` is not fair.  `Gripper`: time passes and the
loop polls.  `Selection`, `Voice` and `WebOrder` have safety properties only.

## 4. Where code and documents differ

`AuditDeduplicated` states a sentence of the documents as an invariant, and TLC
shows how the code breaks it (the quotation is under `findings`).  A start by hand
and one of the page both find no living worker; both threads read the same order
and pass the check of the remembered id before either has remembered it, and the
order is served twice.

Others that were met while modelling, and can be read off the code:

* the last correction order is satisfied by what the picks report and is not
  verified again (`task_manager_node.py:938`).  Two nuts are ordered, three are on
  the table; the primary phase loses one on the way and reports another that
  slipped back, the recount asks for one more, which is picked, reported and
  dropped again, and the cycle is published as success, where
  `docs/07_verification_and_correction_loop.md:247-258` says failure;
* a miss, a detection that found the class and pushed a cluster apart, and another
  miss skip the class, since only a successful pick clears the counter
  (`order_provider.py:63`; `retry_policy.py:13` says "consecutive misses");
* a stop just past the last look at `is_cancelled` (`motion_sequence.py:234`) drops
  the nut over the table; the sequence goes on, opens the empty fingers at the
  place point and raises `place_ready` (line 253; line 247 says "only at the moment
  an object was put down");
* a flow that is stopped while it displays its outcome never resets the row: the
  timer is cleared and the promise it would resolve is never kept
  (`orchestrator.ts:346`; line 329 says that no stale state is to remain);
* a nut outside VALID_NUTS is in the spoken confirmation and dropped from the file
  (`keyword_extractor.py:197`; `question_flow.json:7` says it will be prepared);
* between the save of a spoken order and its dispatch the file may come to hold a
  typed one (`keyword_extractor.py:232`; `task_manager_dispatcher.py:12-14` says
  that the task manager reads what the voice flow just wrote);
* a push that came back with safety_stop is followed by a pick
  (`task_manager_node.py:745`; `retry_policy.py:55` asks for a human first);
* a value of `place_ready` that was read earlier may be published later, so one
  placement may come out as two edges (`robot_control_node.py:438`;
  `motion_sequence.py:247` says exactly one);
* a stop between acceptance and execution is erased (`robot_control_node.py:324`;
  `docs/02_ros_node_architecture.md:176`);
* `completed` may be shown for an order that was never taken: the answer of the
  dispatch is ignored (`orchestrator.ts:296`), and the cycle of another start
  completes it; or the write that clears the old `task_done` is lost
  (`session.ts:105`);
* a failed push may be repeated up to the cap (`task_manager_node.py:747` says
  not); `place_ready` is lowered after the retreat and not as it starts
  (`motion_sequence.py:258`).

## 5. Theorems

`THEOREM` names are in `PROJECT.json`; all hold for every value of the
constants.  Assumed are only the named assumption on the constants of each
module, which its run evaluates, and what a theorem names itself.

The task manager (`TaskManagerProofs`), for every set of classes, priority
list, budget, order, table and number of rounds:

* `TypeCorrect`: `Spec => []TypeOK`, by induction, one case per action, on
  typing lemmas for the operations of a book.
* `SkipsAreCorrect`: `TrailSpec => []SkippedForCause`.  The trail knows nothing of
  the counters, so the invariant ties the two together: `Told` says that a class's
  counters are what its trail says, for the book at hand, and `SkipInv` that a
  class is skipped exactly when one of them is used up.  Since the latter resets with
  a successful pick, it also needs that the class being worked on is not skipped
  (`TargetOpen`).
* `NeverOverPicks` and `SuccessIsVerified` (`Blind = 0`) share the inductive
  invariant `DeliveryInv`.  `NoOverPick` alone is not inductive: nothing in it
  says why one more delivery fits.  The strengthening has
  - `Untouched`: before the first pick the tray and the lost heap are empty,
  - `Accounted`: once counted, `initial = table + tray + lost` for a ranked class,
  - `Within`: what is on the tray plus what the current book still asks for is
    at most what was ordered; a recount restores it by `Accounted`, a delivery
    moves one from the second to the first,
  - `RecountSane`, `Settled`: what a recount that found nothing missing says
    about the tray, and that only `Finish` publishes a success.
* `StockIsDeducted`: `tray` and `deducted` move together while no write may be
  lost; a pick that fails may have delivered one more, but ends in ABORTED.
* `ShortageIsCorrection`: the two formulas of lines 526-527 and 915-917 agree.
* `WorkerImplementsFulfilment` (`Blind = 0`): under the mapping of
  `TaskManagerRefinement`, every step of the worker is a step of `Fulfilment` or
  a stutter.  It needs `DeliveryInv` (a delivery still fits) and `Unlearned`
  (nothing is ordered before the fetch).  `EndingCyclesFulfil` adds the liveness
  part from `CycleEnds`, which is its hypothesis and only model-checked.

The robot node (`RobotControlProofs`), for any set of goals and pushes:

* `RobotTypeCorrect` and `GoalsExclusive`: the invariant behind the second is
  `LockOwned`, a goal inside its sequence holds the lock; `Exclusive` alone does
  not say who may enter next.
* `StopsAreHeeded`: `StopInv` says where a goal that was told to stop may be
  (`Heeding`): before a check that will see the event, on the way out of an
  empty grasp, or over without success.  It is inductive only with the lock: the
  event is cleared by the goal that takes the lock, so not under this one.
* `ReadyOwned`: `ReadyInv` adds to `ReadyIsOwned` who may be about to raise the
  flag (`Raisers`) and that a push never gets to a stage that does (`Pushes`).
* `ReadyOpened`: `OpenedInv` says, for a goal between the opening of the fingers
  and the look at the pose, that a TCP at the y of the place point was there when
  they opened (`Opened`): in between only the home service moves the arm, and not
  to that y.  Nothing is assumed of the moves, the fingers or the stops.

The conveyor (`ConveyorProofs`):

* `BeltAsTold` (`ResetDelay = TRUE`): `LastIsBelieved`, the last command on the
  line, or the belt when it is empty, is what the node believes.
* `RunsAreEnded`: `RunsAttended`, the same as `NoOrphanRun` for each position of
  the line: a movement still on its way has its STOP ahead as well.

The scripts (`PickAllProofs`), assuming `RequestsTyped`: the counts of a command
line are naturals and its classes known ones, which the parsers ensure except
for a negative `--per-class`.

* `QuotaIsKept`: `QuotaInv`; the goal in flight is the unit that is still
  `Awaited`, and a goal given up on is in `unreported`.
* `PicksAreBalanced`: `LeastFirst`, the class of the goal in flight was the one
  with the fewest picks of those seen (the minimum exists by well-foundedness).
* `ExitCodeTells`: `CapKept`, the counter of picks never passes the cap; `pick_one`
  leaves with 0 only when its answer was a success or it was a dry run.

The voice order (`VoiceProofs`), for any number of threads, any answers of the
model and any interleaving with typed commands and queue workers:

* `OneThreadListens` and `StopLosesAtMostOne` share `AudioInv`: whoever has not
  ended is the thread created last (`OnlyNewest`); a stream that is open means that
  no thread is past the wake word and still in its flow (`ClosedToAnswer`), since
  every path that leaves it open raises; and a stop not heeded yet has let through
  at most one flow, the one that is not at `run_once` any more (`StopInTime`).
* `LastUpdateStays`: `ScreenInv`.  That the newest update is shown says nothing
  while others wait; `LastInQueue` says that nothing is queued behind it,
  `WrittenAlone` that it is written by itself unless it was taken early, and
  `NewestAhead` that it is on its way as long as writes come through.
* `OrdersAreAsTold`: `FileInv`, the file is torn or one of the orders that are
  saved, whichever of the two writers was last, and a spoken order found there by
  a flow that has saved is its own (`OwnSpoken`), which needs `OnlyNewest`.  The
  rest is about the conversion: `build_combo` has one item per nut with as many as
  the text names (`BuildComboCounts`, `TextCounts`), and `normalize_combo`, run
  twice on the way, changes no count of a nut that exists (`NormalizeKeepsCounts`).
  `CountsOf` is a fold over the items; `CountIsSum`, `NoItem` and `OneItem`
  evaluate it without an induction, since a nut has at most one item here.
  `ComboAssumption`: finitely many nuts.

A detection and a grasp (`GraspProofs`, over `Selection` and `Gripper`; the
state of `Selection` has its initial predicate, next-state relation and
specification under names of their own for that).  For every scene of typed
detections:

* `CountsArePickable` and `RejectsAreIgnored`: choices are made with CHOOSE, so
  what they return has to be shown to exist and to be the only one.  `First` is a
  least counterexample over prefixes of the list; `TargetChosen`,
  `NeighborChosen`, `BetterOnce` and `NearerOnce` apply it to the two orders.
* `PushesFree`: the candidates that are left are in no box (`EntryFree`); the
  entry lies across the line to the neighbour and as far as the offset says
  (`EntryAcross`, `EntryFar`), the end on the other side (`EndFrees`), each but
  for what a rounding cuts off; by `DistanceIs` the rounded distance exists.  The
  premise `RoundingIsSmall` says that the push outweighs these rounding errors;
  the code computes with floats, so the premise is about the model's lengths.  The
  run evaluates it (`InstanceRounds`).
* `FingersFit`: premises `Pre_grasp_min <= Pre_grasp_max`, and a margin that is
  not zero, with which the fingers would open exactly as wide as the nut.
* `GripBitIsFresh` follows from `GripInv`, for every lag, movement, lateness and
  pair of windows that satisfy `GripperAssumption`.  `Clock` bounds the time left of a movement by the time
  since the command; `Hidden` says how recent a movement that no poll has seen
  must be, so that the first window cannot run out over it; `SecondLook` says why
  the second poll of the debounce is not deceived by an idle moment; `Fingers`
  says where they are at each step of the pick.

The web order (`WebOrderProofs`), for any number of flows, wishes, starts,
workers at a time and failed writes, and any backlog of the bridge, by one
inductive invariant, `OrderInv`.  The row is one record that browser, worker and
bridge write; what each may find in it is

* `Unheard`, `Confirmed`: who can have heard an outcome, and that a confirmed
  order, in the row or read by a worker, carries its own request_id, for every
  interleaving, stops and lost writes included; `InTurn`: the row names a flow
  that has begun;
* `OneFlow`, `InHand`, `SeenOffered` while no flow was stopped: one flow runs, and
  a confirmed order in the row, or read from it, is shown as confirmed or is what
  a failed last reset left;
* `Ledger` while the task manager was not restarted and no worker started beside
  another (`raced`): orders are served in the order of their flows, so the one the
  provider remembers is the newest of those served and no newer than what a worker
  has read, from which `OrderServedOnce`;
* `OwnNews`: while the order of a flow that cleared the row in a quiet moment is
  not taken, no message under way and nothing in the row is of a finished cycle,
  and no worker has read another order, from which `OrderDoneIsOwn`.

`OrderServedAsShown` is an action property, of the step that serves.
`OrderNothingLeftOver` is part of the invariant, which keeps it without `Alone`.

Perception (`PerceptionProofs`), for any pace of the camera and any failure of
the services:

* `FusedFramesAreCurrent`: `ColourInv`; `Stamps` says, for each place a frame can
  be in (wire, cache, buffer), that a stamp after the trigger means it shows the
  scene.
* `DepthIsCurrent`: the code takes the cached depth image without looking at its
  stamp.  `DepthInv` shows why that works when the stream does not stall and both
  `Num_capture_frames` and `Capture_timeout` are at least `DepthLag + 2`:
  `Paced` bounds the frames collected by the ticks that passed, so a capture is
  not over too soon; `FirstDepth` follows the first image exposed during the call
  until it is cached; `FreshInOrder` says that no older one comes after it.
* `HolesAreLeftOut`: whatever the pixels of a box, the median of those in range is
  within the range (`MedianInRange`), so the clamp of `_handle_detect_once` only
  ever raises it to the lowest pick.  Premise: the nearest depth the camera can
  measure lies above that.
* `OneObjectEach`: premise `WellApart`, nuts of a class are more than two
  thresholds apart and no detection is off by more than half of one.  A cluster
  compares with its mean, which moves with each detection that joins; the lemma is
  that the mean stays within half a threshold of the nut, so a cluster takes
  exactly the detections of its nut (`JoinsItsOwn`).  `Sorted` is the invariant of
  the loop of `fuse`: one cluster for each nut seen, everything seen in one;
  `FusedAtPlace` and `OneEach` are the objects made of them.  The library's
  induction needs an operator as parameter; `Iteration` does the same for a
  function defined by steps, by a least counterexample.  The run evaluates
  `WellApart` on its instance (`InstanceIsApart`).

Only model-checked is liveness (`CycleEnds`, `Answered`, `BeaconDrops`,
`MovementEnds`, `Answers`, `Finishes`, `WaitEnds`), and with it the second half
of `FulfilsOrders`: fairness needs ENABLED, which the prover does not handle.
Every other property of a passing run is stated by a theorem.

## 6. Not modelled

The arithmetic of hand-eye transforms and box orientations; neural inference
and recognition of speech; Modbus framing and DSR service calls; SQL schema and
the exception log; pages and styles, the older `web_stt_firebase`; launch
files, messages and parameters; `voice_to_robot.py` and other operator scripts,
experiments and data.  The mirrored `place_ready` and intermediate robot states,
which nothing waits for, are left out of `WebOrder`; two workers that run
together are in `WebOrder` and not in `TaskManager`, where they would share
books, table and arm.  `components` in `PROJECT.json` gives the reason for each.

## 7. What is left

1. `Cell`: `TaskManager` with `RobotControl` (a goal that was abandoned against
   the home call of the next cycle), and `RobotControl` with `Conveyor` (edges
   against movements, a nut placed during one).
2. Two workers at a time in `TaskManager`, and the two remaining robot states in
   `WebOrder`.
3. Proofs: the account of stock when a write may be lost.

