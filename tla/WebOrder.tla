------------------------------- MODULE WebOrder -------------------------------
(***************************************************************************)
(* An order from the browser to the robot and back: the voice flow of      *)
(* web_stt_supabase_v2 and web_stt_firebase_v2, the one row                *)
(* robot_session.current both ends write, /task/start, the order provider, *)
(* and the status bridge that mirrors the worker into the row.             *)
(*                                                                         *)
(* A flow is numbered by its request_id; its combo is Wish[f].  Stop ends  *)
(* the handle of a flow, not the flow, so two flows may run at a time.     *)
(* Of the robot's states only the final ones are told from the others.     *)
(***************************************************************************)
EXTENDS Combo

CONSTANTS
  Flows,        (* 1 .. the number of flows started (bound)                *)
  Wish,         (* the combo of each                                       *)
  None,
  MaxBacklog,   (* bound: messages the bridge has not taken, per topic     *)
  MaxLost,      (* bound: writes of the browser that fail                  *)
  Workers,      (* bound: threads of _run at a time                        *)
  ByHand,       (* bound: {None} for one start by hand, or {}              *)
  MayStop, MayRestart  (* bounds: whether a run has stops, and one restart *)

ASSUME WebOrderAssumption ==
  /\ Flows \subseteq Nat \ {0} /\ {None, NoId} \cap Flows = {} /\ None \notin Workers
  /\ MaxBacklog \in Nat /\ MaxLost \in Nat /\ ByHand \subseteq {None}

VARIABLES
  store,        (* supabase or firestore                                   *)
  row,          (* robot_session.current                                   *)
  outcome,      (* the first final robot_state each subscription saw       *)
  lost,         (* how many writes of the browser failed                   *)
  at,           (* where each flow is                                      *)
  handle,       (* handleRef.current of the page                           *)
  cancelled,    (* flows that were stopped                                 *)
  ros,          (* the connection of rosbridge.ts; absent without its URL  *)
  live,         (* flows whose subscription delivers changes               *)
  requests,     (* calls of /task/start to come; None is one by hand       *)
  admitted,     (* those whose handler found no worker alive               *)
  worker,       (* each thread of _run: idle, fetch, read, take, work      *)
  current,      (* _worker, the thread that was started last               *)
  seen,         (* the order each has read                                 *)
  last,         (* _last_request_id                                        *)
  statuses, results,    (* /task/status, /task/result, not yet mirrored    *)
  served,       (* how often each order was given to a worker              *)
  clean,        (* flows that cleared the row to dispatch while nothing of *)
                (* a cycle was left                                        *)
  unreset,      (* flows whose last reset failed                           *)
  raced,        (* a thread was started while another ran                  *)
  restarted     (* of task_manager_node, at most once (bound)              *)

web  == << row, outcome, lost >>
page == << handle, cancelled, ros, live >>
task == << requests, admitted, worker, current, seen, last, statuses, results, served >>
past == << clean, unreset, raced, restarted >>
vars == << store, web, at, page, task, past >>

NoOrder == [display |-> "idle", id |-> NoId, combo |-> None, success |-> FALSE, robot_state |-> ""]

Init ==
  /\ store \in {"supabase", "firestore"}
  /\ row = NoOrder /\ outcome = [f \in Flows |-> "none"] /\ lost = 0
  /\ at = [f \in Flows |-> "new"] /\ handle = None /\ cancelled = {} /\ live = {}
  /\ ros \in {"none", "absent"}
  /\ requests \in {{}, ByHand} /\ admitted = {}
  /\ worker = [w \in Workers |-> "idle"] /\ current = None /\ seen = [w \in Workers |-> NoOrder]
  /\ last = NoId /\ statuses = << >> /\ results = << >>
  /\ served = [f \in Flows |-> 0]
  /\ clean = {} /\ unreset = {} /\ raced = FALSE /\ restarted = FALSE

-----------------------------------------------------------------------------
(* A write of some fields.  Who is subscribed gets the whole row.          *)
Notified(flows, state) ==
  [f \in Flows |-> IF f \in flows /\ outcome[f] = "none" /\ state \in {"task_done", "error"}
                   THEN state ELSE outcome[f]]

Write(fields) == row' = fields /\ outcome' = Notified(live, fields.robot_state)

(* safeUpdate of session.ts: a failure is logged, no more.                 *)
SafeUpdate(fields) ==
  \/ Write(fields) /\ UNCHANGED lost
  \/ lost < MaxLost /\ lost' = lost + 1 /\ UNCHANGED << row, outcome >>

(* session.ts: the row with some fields changed.  That of Supabase loses   *)
(* its robot_state at a reset, that of Firestore keeps it.                 *)
ResetFields ==
  [row EXCEPT !.display = "idle", !.combo = None, !.success = FALSE,
              !.robot_state = IF store = "supabase" THEN "" ELSE @]

OrderFields(f, shown) ==
  [row EXCEPT !.display = shown, !.id = f, !.combo = f, !.success = TRUE]

DispatchingFieldsKept(f) == OrderFields(f, "dispatching") (* mutant *)
DispatchingFields(f) == [OrderFields(f, "dispatching") EXCEPT !.robot_state = ""]
ErrorFieldsConfirmed == [row EXCEPT !.display = "error"] (* mutant: success stays *)
ErrorFields == [row EXCEPT !.display = "error", !.success = FALSE]

Shows(shown) == [row EXCEPT !.display = shown]

-----------------------------------------------------------------------------
(* useVoiceOrchestrator: a flow begins with a reset.                       *)
Start(f) ==
  /\ handle = None /\ at[f] = "new" /\ \A g \in Flows : g < f => at[g] # "new"
  /\ handle' = f /\ at' = [at EXCEPT ![f] = "wake"] /\ SafeUpdate(ResetFields)
  /\ UNCHANGED << store, cancelled, ros, live, task, past >>

(* cancel() clears the timer of the final sleep: its promise is never kept.*)
Stop ==
  /\ MayStop /\ handle # None
  /\ cancelled' = cancelled \cup {handle} /\ handle' = None
  /\ at' = IF at[handle] = "display" THEN [at EXCEPT ![handle] = "stuck"] ELSE at
  /\ UNCHANGED << store, web, ros, live, task, past >>

Goto(f, from, to) == at[f] = from /\ at' = [at EXCEPT ![f] = to]

(* The finally of the flow: five seconds of display, unless it was stopped.*)
Finally(f) == IF f \in cancelled THEN "final" ELSE "display"

(* The wake word is heard, or the listener ends without it.                *)
Wake(f) ==
  /\ \/ f \notin cancelled /\ Goto(f, "wake", "listen") /\ SafeUpdate(Shows("asking"))
     \/ Goto(f, "wake", Finally(f)) /\ SafeUpdate(Shows("idle"))
  /\ UNCHANGED << store, page, task, past >>

(* The answers, with a check for a stop before and after each recording;   *)
(* then publishRecommendationResult.  Whatever raises in between, stopped  *)
(* or not, is shown as an error.                                           *)
Listen(f) ==
  /\ \/ Goto(f, "listen", "publish") /\ SafeUpdate(OrderFields(f, "result_ready"))
     \/ f \in cancelled /\ Goto(f, "listen", "final") /\ SafeUpdate(Shows("idle"))
     \/ Goto(f, "listen", Finally(f)) /\ SafeUpdate(ErrorFields)
  /\ UNCHANGED << store, page, task, past >>

(* Nothing of a cycle is under way.                                        *)
Quiet == (\A w \in Workers : worker[w] = "idle") /\ statuses = << >> /\ results = << >>

PublishDispatching(f) ==
  /\ ros # "absent" /\ Goto(f, "publish", "connect") /\ SafeUpdate(DispatchingFields(f))
  /\ clean' = IF Quiet /\ lost' = lost THEN clean \cup {f} ELSE clean
  /\ UNCHANGED << store, page, task, unreset, raced, restarted >>

(* Without VITE_ROSBRIDGE_URL there is no onDispatch.                      *)
SkipDispatch(f) ==
  /\ ros = "absent" /\ Goto(f, "publish", Finally(f))
  /\ UNCHANGED << store, web, page, task, past >>

-----------------------------------------------------------------------------
(* rosbridge.ts: a connection that was made or refused is never made anew, *)
(* and on one that was lost meanwhile the call goes nowhere.  The flow goes*)
(* on after an answer, whatever it says, or after five seconds.            *)
Dispatch(f) ==
  /\ Goto(f, "connect", "subscribe")
  /\ ros' \in IF ros = "none" THEN {"open", "rejected"} ELSE {ros}
  /\ requests' \in {requests} \cup IF ros' = "open" THEN {requests \cup {f}} ELSE {}
  /\ UNCHANGED << store, web, handle, cancelled, live, admitted, worker, current, seen,
                  last, statuses, results, served, past >>

(* waitForRobotCompletion: a subscription that fails counts as an error.   *)
(* Firestore begins with the document as it is, Supabase with the next     *)
(* change.                                                                 *)
Subscribe(f) ==
  /\ Goto(f, "subscribe", "waiting")
  /\ \/ /\ live' = live \cup {f}
        /\ outcome' = IF store = "firestore" THEN Notified({f}, row.robot_state) ELSE outcome
     \/ outcome' = Notified({f}, "error") /\ UNCHANGED live
  /\ UNCHANGED << store, row, lost, handle, cancelled, ros, task, past >>

(* The wait ends with what was seen first, or with its timeout, and that   *)
(* is published: publishCompleted or publishError.                         *)
Complete(f) ==
  /\ Goto(f, "waiting", Finally(f)) /\ live' = live \ {f} /\ clean' = clean \ {f}
  /\ LET fields == IF outcome[f] = "task_done" THEN OrderFields(f, "completed") ELSE ErrorFields
         heard(o) == [o EXCEPT ![f] = "none"]
     IN  \/ row' = fields /\ outcome' = heard(Notified(live, row.robot_state)) /\ UNCHANGED lost
         \/ lost < MaxLost /\ lost' = lost + 1 /\ outcome' = heard(outcome) /\ UNCHANGED row
  /\ UNCHANGED << store, handle, cancelled, ros, task, unreset, raced, restarted >>

FinalResetShy(f) ==    (* mutant: a flow that was stopped resets nothing    *)
  /\ \/ Goto(f, "display", "ended") /\ SafeUpdate(ResetFields)
     \/ Goto(f, "final", "ended") /\ UNCHANGED web
  /\ unreset' = IF lost' = lost THEN unreset ELSE unreset \cup {f}
  /\ handle' = None
  /\ UNCHANGED << store, cancelled, ros, live, task, clean, raced, restarted >>

(* The last reset, and the page forgets its handle, whichever flow that is *)
(* by now.                                                                 *)
FinalReset(f) ==
  /\ Goto(f, "display", "ended") \/ Goto(f, "final", "ended")
  /\ handle' = None /\ SafeUpdate(ResetFields)
  /\ unreset' = IF lost' = lost THEN unreset ELSE unreset \cup {f}
  /\ UNCHANGED << store, cancelled, ros, live, task, clean, raced, restarted >>

-----------------------------------------------------------------------------
(* task_manager_node, as far as the row and the topics see it.             *)
Room == Len(statuses) < MaxBacklog /\ Len(results) < MaxBacklog

Say(status) == Room /\ statuses' = Append(statuses, status)

Alive(w) == worker[w] # "idle"

(* _handle_start and start_worker look for a living worker, both without a *)
(* lock; what the first look lets by, the second may still send away.      *)
HandleStart(r) ==
  /\ r \in requests /\ requests' = requests \ {r}
  /\ admitted' = IF current # None /\ Alive(current) THEN admitted ELSE admitted \cup {r}
  /\ UNCHANGED << store, web, at, page, worker, current, seen, last, statuses, results,
                  served, past >>

(* A new thread takes the place of the one before, whether that has ended  *)
(* or was started in between; _run says that it begins.                    *)
StartWorker(r, w) ==
  /\ r \in admitted /\ admitted' = admitted \ {r}
  /\ ~Alive(w) /\ worker' = [worker EXCEPT ![w] = "fetch"] /\ current' = w
  /\ raced' = (raced \/ \E v \in Workers : Alive(v))
  /\ Say("init")
  /\ UNCHANGED << store, web, at, page, requests, seen, last, results, served,
                  clean, unreset, restarted >>

(* read_robot_session.                                                     *)
FetchReads(w) ==
  /\ worker[w] = "fetch" /\ worker' = [worker EXCEPT ![w] = "read"]
  /\ seen' = [seen EXCEPT ![w] = [row EXCEPT !.robot_state = ""]]
  /\ UNCHANGED << store, web, at, page, requests, admitted, current, last, statuses,
                  results, served, past >>

(* What the provider makes of it.                                          *)
OrderRead(w) ==
  [request_id |-> seen[w].id, success |-> seen[w].success,
   combo |-> IF seen[w].combo = None THEN << >> ELSE Wish[seen[w].combo]]

FetchAccepts(w) ==
  /\ worker[w] = "read" /\ ~Refuses(OrderRead(w), last)
  /\ worker' = [worker EXCEPT ![w] = "take"]
  /\ UNCHANGED << store, web, at, page, requests, admitted, current, seen, last, statuses,
                  results, served, past >>

(* fetch raises for a read that fails, and for an order it refuses.        *)
FetchRaises(w) ==
  /\ \/ worker[w] = "fetch"
     \/ worker[w] = "read" /\ Refuses(OrderRead(w), last)
  /\ worker' = [worker EXCEPT ![w] = "idle"] /\ seen' = [seen EXCEPT ![w] = NoOrder]
  /\ Say("aborted") /\ results' = Append(results, "failure")
  /\ UNCHANGED << store, web, at, page, requests, admitted, current, last, served, past >>

FetchReturns(asked, w) ==
  /\ store = asked /\ worker[w] = "take" /\ worker' = [worker EXCEPT ![w] = "work"]
  /\ last' = Remembered(OrderRead(w), last)
  /\ served' = [served EXCEPT ![seen[w].combo] = IF @ < 2 THEN @ + 1 ELSE @]
  /\ seen' = [seen EXCEPT ![w] = NoOrder]
  /\ UNCHANGED << store, web, at, page, requests, admitted, current, statuses, results, past >>

FetchSupabase(w) == FetchReturns("supabase", w)
FetchFirestore(w) == FetchReturns("firestore", w)

(* DONE is published before the result, which may still be a failure.      *)
CycleEnds(w) ==
  /\ worker[w] = "work" /\ worker' = [worker EXCEPT ![w] = "idle"]
  /\ \E end \in {<< "done", "success" >>, << "done", "failure" >>, << "aborted", "failure" >>} :
        Say(end[1]) /\ results' = Append(results, end[2])
  /\ UNCHANGED << store, web, at, page, requests, admitted, current, seen, last, served, past >>

(* The node is killed and launched again: the provider has no memory.      *)
Restart ==
  /\ MayRestart /\ ~restarted /\ restarted' = TRUE
  /\ worker' = [w \in Workers |-> "idle"] /\ seen' = [w \in Workers |-> NoOrder]
  /\ current' = None /\ last' = NoId /\ requests' = {} /\ admitted' = {}
  /\ UNCHANGED << store, web, at, page, statuses, results, served, clean, unreset, raced >>

-----------------------------------------------------------------------------
(* supabase_status_bridge and firebase_status_bridge.                      *)
RobotStates == [init |-> "detecting", done |-> "task_done", aborted |-> "error"]

SetRobotState(state) == Write([row EXCEPT !.robot_state = state])

RobotProgress(state) == Write([row EXCEPT !.robot_state = state])

(* _publish of either bridge: a write that fails is logged, no more.       *)
PublishSupabase(state) ==
  store = "supabase" /\ (SetRobotState(state) \/ UNCHANGED << row, outcome >>)

PublishFirestore(state) ==
  store = "firestore" /\ (RobotProgress(state) \/ UNCHANGED << row, outcome >>)

Publish(state) == PublishSupabase(state) \/ PublishFirestore(state)

OnStatus ==
  /\ statuses # << >> /\ statuses' = Tail(statuses)
  /\ Publish(RobotStates[Head(statuses)])
  /\ UNCHANGED << store, lost, at, page, requests, admitted, worker, current, seen, last,
                  results, served, past >>

OnResult ==
  /\ results # << >> /\ results' = Tail(results)
  /\ Publish(IF Head(results) = "failure" THEN "error" ELSE "task_done")
  /\ UNCHANGED << store, lost, at, page, requests, admitted, worker, current, seen, last,
                  statuses, served, past >>

-----------------------------------------------------------------------------
Fetch(w) ==
  FetchReads(w) \/ FetchAccepts(w) \/ FetchRaises(w) \/ FetchSupabase(w) \/ FetchFirestore(w)

TaskManager ==
  \/ \E r \in requests : HandleStart(r)
  \/ \E r \in admitted, w \in Workers : StartWorker(r, w)
  \/ \E w \in Workers : Fetch(w) \/ CycleEnds(w)
  \/ Restart

Bridge == OnStatus \/ OnResult

Flow(f) ==
  \/ Start(f) \/ Wake(f) \/ Listen(f) \/ PublishDispatching(f) \/ SkipDispatch(f)
  \/ Dispatch(f) \/ Subscribe(f) \/ Complete(f) \/ FinalReset(f)

Next == Stop \/ TaskManager \/ Bridge \/ \E f \in Flows : Flow(f)

Spec == Init /\ [][Next]_vars

-----------------------------------------------------------------------------
(* "the second fetch() with the same id raises": while workers run one     *)
(* after the other, no start, by a page or by hand, early or late, serves  *)
(* an order twice, whatever becomes of the writes of the browser.  A       *)
(* restart loses the memory of the provider, and a flow that had been      *)
(* stopped may write its order back over another (fetch of the providers). *)
ServedOnce == restarted \/ raced \/ cancelled # {} \/ \A f \in Flows : served[f] <= 1

(* The same of workers that run together, which the code does not exclude. *)
Deduplicated == \A f \in Flows : served[f] <= 1

Confirming == {"result_ready", "dispatching", "completed"}

(* What the screen no longer offers is not picked: an order a worker takes *)
(* was shown confirmed when it was read, or is what a failed last reset    *)
(* left over (publishError, resetSession, and the success flag of fetch),  *)
(* unless two flows share the row.                                         *)
ServedAsShown ==
  [][ cancelled = {} =>
        \A w \in Workers : worker[w] = "take" /\ worker'[w] = "work" =>
          seen[w].display \in Confirming \/ seen[w].id \in unreset ]_vars

(* "the task_done of the cycle before must not be taken for a result":     *)
(* a flow whose publishDispatching cleared the row while nothing of an     *)
(* earlier cycle was under way hears of a finished task only when its own  *)
(* order was taken (publishDispatching, waitForRobotCompletion, the status *)
(* bridge, and workers that read the row at any moment).                   *)
DoneIsOwn ==
  cancelled = {} => \A f \in clean : outcome[f] = "task_done" => served[f] > 0

(* An order outlives its flow in the row only when the last reset failed:  *)
(* whatever flow wrote last, stopped ones included, the row offers an      *)
(* order of a flow that has not ended (the finally of the flows).          *)
NothingLeftOver ==
  row.success => at[row.id] # "ended" \/ row.id \in unreset
=============================================================================
