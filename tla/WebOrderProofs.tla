----------------------------- MODULE WebOrderProofs -----------------------------
(***************************************************************************)
(* What holds of an order between the browser and the robot, for any number*)
(* of flows, of workers at a time and of failed writes, any wishes and any *)
(* backlog of the bridge.                                                  *)
(***************************************************************************)
EXTENDS WebOrder, TLAPS

Stages == { "new", "wake", "listen", "publish", "connect", "subscribe", "waiting",
            "display", "final", "stuck", "ended" }

(* Between the first publication of its order and its outcome.             *)
Placed == { "publish", "connect", "subscribe", "waiting" }

Displays == { "idle", "asking", "result_ready", "dispatching", "completed", "error" }

States == {"", "detecting", "task_done", "error"}

Rows == [ display : Displays, id : Flows \cup {NoId}, combo : Flows \cup {None},
          success : BOOLEAN, robot_state : States ]

FlowType ==
  /\ store \in {"supabase", "firestore"} /\ row \in Rows
  /\ outcome \in [Flows -> {"none", "task_done", "error"}] /\ lost \in Nat
  /\ at \in [Flows -> Stages] /\ handle \in Flows \cup {None}
  /\ cancelled \in SUBSET Flows /\ live \in SUBSET Flows
  /\ clean \in SUBSET Flows /\ unreset \in SUBSET Flows

TaskType ==
  /\ worker \in [Workers -> {"idle", "fetch", "read", "take", "work"}]
  /\ seen \in [Workers -> Rows] /\ last \in Flows \cup {NoId}
  /\ statuses \in Seq({"init", "done", "aborted"}) /\ results \in Seq({"success", "failure"})
  /\ served \in [Flows -> 0 .. 2] /\ raced \in BOOLEAN

Type == FlowType /\ TaskType

(* Only a flow that waits hears anything.                                  *)
Unheard == \A f \in Flows : at[f] # "waiting" => f \notin live /\ outcome[f] = "none"

(* A confirmed order carries the request_id it was confirmed under, and a  *)
(* worker takes only confirmed ones.                                       *)
Sound(order) == order.success => order.id \in Flows /\ order.combo = order.id

Confirmed ==
  /\ Sound(row) /\ \A w \in Workers : Sound(seen[w])
  /\ \A w \in Workers : worker[w] = "take" => seen[w].success

(* Flows begin in the order of their numbers, and the row names one that   *)
(* has begun.                                                              *)
InTurn ==
  /\ \A f, g \in Flows : g < f /\ at[f] # "new" => at[g] # "new"
  /\ row.id \in Flows => at[row.id] # "new"

Alone == cancelled = {}

(* While no flow was stopped, one runs at a time, that of the handle, and  *)
(* it is the last that began.                                              *)
OneFlow ==
  \A f \in Flows :
    /\ at[f] \notin {"new", "ended"} =>
         handle = f /\ \A g \in Flows : g > f => at[g] = "new"
    /\ at[f] \notin {"final", "stuck"}

Offered(order) == order.display \in Confirming \/ order.id \in unreset

(* What is in the row, and what a worker read there.                       *)
InHand ==
  row.success => row.id \in unreset \/ (at[row.id] \in Placed \cup {"display"} /\ row.display \in Confirming)

SeenOffered == \A w \in Workers : seen[w].success => Offered(seen[w])

Holds(w) == worker[w] \in {"read", "take"} /\ seen[w].success

(* Orders are served in the order of their flows, by one worker at a time: *)
(* the one the provider remembers is the newest of those served, and no    *)
(* newer than what a worker has read, which is no newer than the row.      *)
OneWorker == \A v, w \in Workers : Alive(v) /\ Alive(w) => v = w

Ledger ==
  /\ OneWorker
  /\ \A f \in Flows : served[f] > 0 => served[f] = 1 /\ last \in Flows /\ f <= last
  /\ last \in Flows => row.id \in Flows /\ last <= row.id
  /\ \A w \in Workers : Holds(w) =>
       /\ row.id \in Flows /\ seen[w].id <= row.id
       /\ last \in Flows => last <= seen[w].id
  /\ \A w \in Workers : worker[w] = "take" => seen[w].id # last

(* While an order that was dispatched in a quiet moment is not taken, none *)
(* of the news under way is of a finished cycle, and no worker has read    *)
(* another order.                                                          *)
NoNews ==
  /\ \A w \in Workers : worker[w] # "work"
  /\ row.robot_state # "task_done"
  /\ \A i \in DOMAIN statuses : statuses[i] # "done"
  /\ \A i \in DOMAIN results : results[i] # "success"

OwnNews ==
  \A f \in clean :
    /\ at[f] \in {"connect", "subscribe", "waiting"} /\ row.success /\ row.id = f
    /\ \A w \in Workers : worker[w] \in {"read", "take"} => seen[w].id = f
    /\ served[f] = 0 => NoNews /\ outcome[f] # "task_done"

OrderInv ==
  /\ Type /\ Unheard /\ Confirmed /\ InTurn /\ NothingLeftOver
  /\ Alone => OneFlow /\ InHand /\ SeenOffered /\ OwnNews
  /\ Alone /\ ~restarted /\ ~raced => Ledger

-----------------------------------------------------------------------------
(* What the browser writes.                                                *)

LEMMA FieldsTyped ==
  ASSUME row \in Rows, NEW f \in Flows, NEW shown \in Displays, NEW state \in States
  PROVE  /\ ResetFields \in Rows /\ OrderFields(f, shown) \in Rows /\ DispatchingFields(f) \in Rows
         /\ ErrorFields \in Rows /\ Shows(shown) \in Rows
         /\ [row EXCEPT !.robot_state = state] \in Rows
BY DEF Rows, ResetFields, OrderFields, DispatchingFields, ErrorFields, Shows, Displays, States

LEMMA NotifiedTyped ==
  ASSUME outcome \in [Flows -> {"none", "task_done", "error"}], NEW flows, NEW state
  PROVE  /\ Notified(flows, state) \in [Flows -> {"none", "task_done", "error"}]
         /\ \A f \in Flows : f \notin flows => Notified(flows, state)[f] = outcome[f]
         /\ \A f \in Flows : state # "task_done" /\ outcome[f] # "task_done"
                               => Notified(flows, state)[f] # "task_done"
BY DEF Notified

LEMMA Updated ==
  ASSUME FlowType, NEW fields, SafeUpdate(fields)
  PROVE  /\ row' \in {row, fields} /\ outcome' \in {outcome, Notified(live, fields.robot_state)}
         /\ lost' \in Nat /\ lost' = lost => row' = fields
BY DEF SafeUpdate, Write, FlowType

(* What a flow may make of the row.                                        *)
Written(f) ==
  { row, ResetFields, ErrorFields, Shows("asking"), Shows("idle"), DispatchingFields(f),
    OrderFields(f, "result_ready"), OrderFields(f, "completed") }

Resets(r) == r.id = row.id /\ r.combo \in {row.combo, None} /\ r.display \notin Confirming

Offers(r, f) == r.id = f /\ r.combo = f /\ r.success /\ r.display \in Confirming

LEMMA WrittenTyped ==
  ASSUME row \in Rows, NEW f \in Flows
  PROVE  /\ \A r \in Written(f) : r \in Rows
         /\ \A r \in {ResetFields, ErrorFields} : Resets(r) /\ ~r.success
         /\ \A r \in {Shows("asking"), Shows("idle")} :
              Resets(r) /\ r.success = row.success /\ r.combo = row.combo
         /\ \A r \in {DispatchingFields(f), OrderFields(f, "result_ready"), OrderFields(f, "completed")} :
              Offers(r, f)
         /\ DispatchingFields(f).robot_state = ""
<1>1. {"asking", "idle", "result_ready", "completed"} \subseteq Displays
  BY DEF Displays
<1>2. \A r \in Written(f) : r \in Rows
  BY <1>1, FieldsTyped DEF Written, States
<1>3. \A r \in {ResetFields, ErrorFields} : Resets(r) /\ ~r.success
  BY DEF ResetFields, ErrorFields, Rows, Resets, Confirming
<1>4. \A r \in {Shows("asking"), Shows("idle")} :
        Resets(r) /\ r.success = row.success /\ r.combo = row.combo
  BY DEF Shows, Rows, Resets, Confirming
<1>5. \A r \in {DispatchingFields(f), OrderFields(f, "result_ready"), OrderFields(f, "completed")} :
        Offers(r, f)
  BY DEF DispatchingFields, OrderFields, Rows, Offers, Confirming
<1>6. DispatchingFields(f).robot_state = ""
  BY DEF DispatchingFields, OrderFields, Rows
<1> QED BY <1>2, <1>3, <1>4, <1>5, <1>6

LEMMA FlowTaskStill ==
  ASSUME NEW f \in Flows, Flow(f)
  PROVE  UNCHANGED << store, cancelled, worker, current, seen, last, statuses, results, served,
                      raced, restarted >>
BY DEF Flow, Start, Wake, Listen, PublishDispatching, SkipDispatch, Dispatch, Subscribe, Complete,
       FinalReset, page, task, past

LEMMA FlowWrites ==
  ASSUME FlowType, NEW f \in Flows, Flow(f)
  PROVE  /\ row' \in Written(f) /\ lost' \in Nat
         /\ outcome' \in [Flows -> {"none", "task_done", "error"}]
<1>1. row \in Rows /\ outcome \in [Flows -> {"none", "task_done", "error"}] /\ lost \in Nat
  BY DEF FlowType
<1>2. ASSUME NEW fields \in Written(f), SafeUpdate(fields)
      PROVE  /\ row' \in Written(f) /\ lost' \in Nat
             /\ outcome' \in [Flows -> {"none", "task_done", "error"}]
  <2>1. /\ row' \in {row, fields} /\ lost' \in Nat
        /\ outcome' \in {outcome, Notified(live, fields.robot_state)}
    BY <1>1, <1>2 DEF SafeUpdate, Write
  <2>2. Notified(live, fields.robot_state) \in [Flows -> {"none", "task_done", "error"}]
    BY <1>1, NotifiedTyped
  <2>3. row \in Written(f)
    BY DEF Written
  <2> QED BY <1>1, <1>2, <2>1, <2>2, <2>3
<1>3. CASE Start(f) \/ Wake(f) \/ Listen(f) \/ PublishDispatching(f) \/ FinalReset(f)
  <2>1. \/ SafeUpdate(ResetFields) \/ SafeUpdate(Shows("asking")) \/ SafeUpdate(Shows("idle"))
        \/ SafeUpdate(OrderFields(f, "result_ready")) \/ SafeUpdate(ErrorFields)
        \/ SafeUpdate(DispatchingFields(f))
    BY <1>3 DEF Start, Wake, Listen, PublishDispatching, FinalReset
  <2> QED BY <1>2, <2>1 DEF Written
<1>4. CASE SkipDispatch(f) \/ Dispatch(f)
  BY <1>1, <1>4 DEF SkipDispatch, Dispatch, Written, web
<1>5. CASE Subscribe(f)
  BY <1>1, <1>5, NotifiedTyped DEF Subscribe, Written
<1>6. CASE Complete(f)
  <2>1. row' \in Written(f) /\ lost' \in Nat
    BY <1>1, <1>6 DEF Complete, Written
  <2>2. \E o \in {outcome, Notified(live, row.robot_state)} : outcome' = [o EXCEPT ![f] = "none"]
    BY <1>6 DEF Complete
  <2> QED BY <1>1, <2>1, <2>2, NotifiedTyped
<1> QED BY <1>3, <1>4, <1>5, <1>6 DEF Flow

(* A confirmed row is that of before, or holds the order of the flow.      *)
LEMMA RowAfter ==
  ASSUME FlowType, NEW f \in Flows, Flow(f)
  PROVE  /\ row' \in Rows /\ row'.id \in {row.id, f}
         /\ row'.success => \/ Offers(row', f)
                            \/ row.success /\ row'.id = row.id /\ row'.combo = row.combo
<1>1. row \in Rows /\ row' \in Written(f)
  BY FlowWrites DEF FlowType
<1>2. row' \in Rows
  BY <1>1, WrittenTyped
<1>3. CASE row' = row
  BY <1>2, <1>3
<1>4. CASE row' \in {ResetFields, ErrorFields}
  BY <1>1, <1>2, <1>4, WrittenTyped DEF Resets
<1>5. CASE row' \in {Shows("asking"), Shows("idle")}
  BY <1>1, <1>2, <1>5, WrittenTyped DEF Resets
<1>6. CASE row' \in {DispatchingFields(f), OrderFields(f, "result_ready"), OrderFields(f, "completed")}
  BY <1>1, <1>2, <1>6, WrittenTyped DEF Offers
<1> QED BY <1>1, <1>3, <1>4, <1>5, <1>6 DEF Written

LEMMA FlowMoves ==
  ASSUME FlowType, NEW f \in Flows, Flow(f)
  PROVE  /\ \E to \in Stages \ {"new"} : at' = [at EXCEPT ![f] = to]
         /\ handle' \in {handle, f, None} /\ live' \in {live, live \cup {f}, live \ {f}}
         /\ clean' \in {clean, clean \cup {f}, clean \ {f}}
         /\ unreset' \in {unreset, unreset \cup {f}}
<1>1. \E to \in Stages \ {"new"} : at' = [at EXCEPT ![f] = to]
  BY DEF Flow, Start, Wake, Listen, PublishDispatching, SkipDispatch, Dispatch, Subscribe, Complete,
         FinalReset, Goto, Finally, Stages
<1>2. /\ handle' \in {handle, f, None} /\ live' \in {live, live \cup {f}, live \ {f}}
      /\ clean' \in {clean, clean \cup {f}, clean \ {f}}
      /\ unreset' \in {unreset, unreset \cup {f}}
  BY DEF Flow, Start, Wake, Listen, PublishDispatching, SkipDispatch, Dispatch, Subscribe, Complete,
         FinalReset, page, past
<1> QED BY <1>1, <1>2

LEMMA FlowTyped ==
  ASSUME FlowType, NEW f \in Flows, Flow(f)
  PROVE  FlowType'
<1>1. row' \in Rows
  BY FlowWrites, WrittenTyped DEF FlowType
<1>2. at' \in [Flows -> Stages]
  BY FlowMoves DEF FlowType
<1> QED BY <1>1, <1>2, FlowWrites, FlowMoves, FlowTaskStill DEF FlowType

-----------------------------------------------------------------------------
(* What the task manager and the bridge do.                                *)

LEMMA StepCases ==
  ASSUME [Next]_vars
  PROVE  \/ \E f \in Flows : Flow(f)
         \/ Stop \/ TaskManager \/ OnStatus \/ OnResult
         \/ UNCHANGED vars
BY DEF Next, Bridge

LEMMA TaskCases ==
  ASSUME TaskManager
  PROVE  \/ \E r \in requests : HandleStart(r)
         \/ \E r \in admitted, w \in Workers : StartWorker(r, w)
         \/ \E w \in Workers : FetchReads(w) \/ FetchAccepts(w) \/ FetchRaises(w) \/ CycleEnds(w)
         \/ \E w \in Workers : FetchSupabase(w) \/ FetchFirestore(w)
         \/ Restart
BY DEF TaskManager, Fetch

LEMMA TaskFlowStill ==
  ASSUME TaskManager
  PROVE  UNCHANGED << store, row, outcome, lost, at, handle, cancelled, live, clean, unreset >>
<1>1. CASE \E r \in requests : HandleStart(r)
  BY <1>1, Zenon DEF HandleStart, web, page, past
<1>2. CASE \E r \in admitted, w \in Workers : StartWorker(r, w)
  BY <1>2 DEF StartWorker, web, page
<1>3. CASE \E w \in Workers : FetchReads(w) \/ FetchAccepts(w) \/ FetchRaises(w) \/ CycleEnds(w)
  BY <1>3 DEF FetchReads, FetchAccepts, FetchRaises, CycleEnds, web, page, past
<1>4. CASE \E w \in Workers : FetchSupabase(w) \/ FetchFirestore(w)
  BY <1>4 DEF FetchSupabase, FetchFirestore, FetchReturns, web, page, past
<1>5. CASE Restart
  BY <1>5 DEF Restart, web, page
<1> QED BY <1>1, <1>2, <1>3, <1>4, <1>5, TaskCases

LEMMA SayEffect ==
  ASSUME TaskType, NEW status \in {"init", "done", "aborted"}, Say(status)
  PROVE  /\ statuses' \in Seq({"init", "done", "aborted"})
         /\ \A i \in DOMAIN statuses' : statuses'[i] = status \/ \E j \in DOMAIN statuses : statuses'[i] = statuses[j]
BY DEF TaskType, Say

LEMMA ResultAppended ==
  ASSUME TaskType, NEW r \in {"success", "failure"}, results' = Append(results, r)
  PROVE  /\ results' \in Seq({"success", "failure"})
         /\ \A i \in DOMAIN results' : results'[i] = r \/ \E j \in DOMAIN results : results'[i] = results[j]
BY DEF TaskType

(* An order that the provider takes is a confirmed one.                    *)
LEMMA TakeEffect ==
  ASSUME Type, Confirmed, NEW w \in Workers, FetchSupabase(w) \/ FetchFirestore(w)
  PROVE  /\ worker[w] = "take" /\ worker' = [worker EXCEPT ![w] = "work"]
         /\ seen[w].success /\ seen[w].id \in Flows /\ last' = seen[w].id
         /\ served' = [served EXCEPT ![seen[w].id] = IF @ < 2 THEN @ + 1 ELSE @]
         /\ seen' = [seen EXCEPT ![w] = NoOrder]
         /\ UNCHANGED << statuses, results, raced, restarted >>
<1>1. PICK asked \in {"supabase", "firestore"} : FetchReturns(asked, w)
  BY DEF FetchSupabase, FetchFirestore
<1>2. worker[w] = "take" /\ seen[w].success /\ seen[w].id \in Flows /\ seen[w].combo = seen[w].id
  BY <1>1 DEF FetchReturns, Confirmed, Sound
<1>3. OrderRead(w).request_id = seen[w].id /\ seen[w].id # NoId
  BY <1>2, WebOrderAssumption DEF OrderRead
<1> QED BY <1>1, <1>2, <1>3 DEF FetchReturns, Remembered, past

LEMMA AcceptEffect ==
  ASSUME Type, Confirmed, NEW w \in Workers, FetchAccepts(w)
  PROVE  /\ seen[w].success /\ seen[w].id \in Flows /\ seen[w].id # last
         /\ worker[w] = "read" /\ worker' = [worker EXCEPT ![w] = "take"]
         /\ UNCHANGED << seen, last, statuses, results, served, raced, restarted >>
<1>1. OrderRead(w).request_id = seen[w].id /\ OrderRead(w).success = seen[w].success
  BY DEF OrderRead
<1>2. seen[w].success /\ (seen[w].id # NoId => seen[w].id # last)
  BY <1>1 DEF FetchAccepts, Refuses
<1>3. seen[w].id \in Flows /\ seen[w].id # NoId
  BY <1>2, WebOrderAssumption DEF Confirmed, Sound
<1> QED BY <1>2, <1>3 DEF FetchAccepts, past

NoOrderTyped == NoOrder \in Rows /\ ~NoOrder.success /\ NoOrder.robot_state # "task_done"

LEMMA NoOrderFacts == NoOrderTyped
BY DEF NoOrderTyped, NoOrder, Rows, Displays, States

LEMMA TaskTyped ==
  ASSUME Type, Confirmed, TaskManager
  PROVE  TaskType'
<1> USE DEF Type
<1>1. CASE \E r \in requests : HandleStart(r)
  BY <1>1 DEF HandleStart, TaskType, past
<1>2. CASE \E r \in admitted, w \in Workers : StartWorker(r, w)
  BY <1>2, SayEffect DEF StartWorker, TaskType
<1>3. ASSUME NEW w \in Workers, FetchReads(w) PROVE TaskType'
  <2>1. row \in Rows /\ [row EXCEPT !.robot_state = ""] \in Rows
    BY DEF FlowType, Rows, States
  <2> QED BY <1>3, <2>1 DEF FetchReads, TaskType, past
<1>4. ASSUME NEW w \in Workers, FetchAccepts(w) PROVE TaskType'
  BY <1>4 DEF FetchAccepts, TaskType, past
<1>5. ASSUME NEW w \in Workers, FetchRaises(w) PROVE TaskType'
  BY <1>5, SayEffect, ResultAppended, NoOrderFacts DEF FetchRaises, TaskType, NoOrderTyped, past
<1>6. ASSUME NEW w \in Workers, CycleEnds(w) PROVE TaskType'
  BY <1>6, SayEffect, ResultAppended DEF CycleEnds, TaskType, past
<1>7. ASSUME NEW w \in Workers, FetchSupabase(w) \/ FetchFirestore(w) PROVE TaskType'
  <2>1. \A n \in 0 .. 2 : (IF n < 2 THEN n + 1 ELSE n) \in 0 .. 2
    OBVIOUS
  <2>2. served \in [Flows -> 0 .. 2] /\ served' \in [Flows -> 0 .. 2]
    BY <1>7, <2>1, TakeEffect DEF TaskType
  <2> QED BY <1>7, <2>2, TakeEffect, NoOrderFacts DEF TaskType, NoOrderTyped
<1>8. CASE Restart
  BY <1>8, NoOrderFacts DEF Restart, TaskType, NoOrderTyped
<1> QED BY <1>1, <1>2, <1>3, <1>4, <1>5, <1>6, <1>7, <1>8, TaskCases

(* The bridge changes robot_state only, and news takes one place in the    *)
(* topics at most.                                                         *)
LEMMA PublishEffect ==
  ASSUME FlowType, NEW state \in {"detecting", "task_done", "error"}, Publish(state)
  PROVE  /\ row' \in Rows /\ outcome' \in [Flows -> {"none", "task_done", "error"}]
         /\ row'.id = row.id /\ row'.combo = row.combo /\ row'.success = row.success
         /\ row'.display = row.display /\ row'.robot_state \in {row.robot_state, state}
         /\ \/ UNCHANGED << row, outcome >>
            \/ row'.robot_state = state /\ outcome' = Notified(live, state)
<1>1. CASE UNCHANGED << row, outcome >>
  BY <1>1 DEF FlowType
<1>2. CASE row' = [row EXCEPT !.robot_state = state] /\ outcome' = Notified(live, state)
  BY <1>2, FieldsTyped, NotifiedTyped DEF FlowType, Rows, States
<1>3. UNCHANGED << row, outcome >>
        \/ (row' = [row EXCEPT !.robot_state = state] /\ outcome' = Notified(live, state))
  <2>1. row \in Rows
    BY DEF FlowType
  <2>2. [row EXCEPT !.robot_state = state].robot_state = state
    BY <2>1 DEF Rows
  <2> QED BY <2>2 DEF Publish, PublishSupabase, PublishFirestore, SetRobotState, RobotProgress, Write
<1> QED BY <1>1, <1>2, <1>3

BridgeEffect ==
  /\ \E state \in {"detecting", "task_done", "error"} :
       Publish(state) /\ (state = "task_done" => ~NoNews)
  /\ statuses' \in Seq({"init", "done", "aborted"}) /\ results' \in Seq({"success", "failure"})
  /\ \A i \in DOMAIN statuses' : \E j \in DOMAIN statuses : statuses'[i] = statuses[j]
  /\ \A i \in DOMAIN results' : \E j \in DOMAIN results : results'[i] = results[j]
  /\ UNCHANGED << store, lost, at, handle, cancelled, live, worker, seen, last, served,
                  clean, unreset, raced, restarted >>

LEMMA BridgeSteps ==
  ASSUME Type, OnStatus \/ OnResult
  PROVE  BridgeEffect
<1>1. statuses \in Seq({"init", "done", "aborted"}) /\ results \in Seq({"success", "failure"})
  BY DEF Type, TaskType
<1>2. CASE OnStatus
  <2>1. /\ statuses # << >> /\ statuses' = Tail(statuses) /\ Publish(RobotStates[Head(statuses)])
        /\ results' = results
        /\ UNCHANGED << store, lost, at, handle, cancelled, live, worker, seen, last, served,
                        clean, unreset, raced, restarted >>
    BY <1>2 DEF OnStatus, page, past
  <2>2. Head(statuses) = statuses[1] /\ 1 \in DOMAIN statuses /\ Head(statuses) \in {"init", "done", "aborted"}
    BY <1>1, <2>1
  <2>3. /\ RobotStates[Head(statuses)] \in {"detecting", "task_done", "error"}
        /\ RobotStates[Head(statuses)] = "task_done" => ~NoNews
    BY <2>2 DEF RobotStates, NoNews
  <2>4. \A i \in DOMAIN Tail(statuses) : i + 1 \in DOMAIN statuses /\ Tail(statuses)[i] = statuses[i + 1]
    BY <1>1, <2>1
  <2>5. Tail(statuses) \in Seq({"init", "done", "aborted"})
    BY <1>1, <2>1
  <2> QED BY <1>1, <2>1, <2>3, <2>4, <2>5 DEF BridgeEffect
<1>3. CASE OnResult
  <2>1. /\ results # << >> /\ results' = Tail(results) /\ statuses' = statuses
        /\ Publish(IF Head(results) = "failure" THEN "error" ELSE "task_done")
        /\ UNCHANGED << store, lost, at, handle, cancelled, live, worker, seen, last, served,
                        clean, unreset, raced, restarted >>
    BY <1>3 DEF OnResult, page, past
  <2>2. Head(results) = results[1] /\ 1 \in DOMAIN results /\ Head(results) \in {"success", "failure"}
    BY <1>1, <2>1
  <2>3. Head(results) # "failure" => ~NoNews
    BY <2>2 DEF NoNews
  <2>4. \A i \in DOMAIN Tail(results) : i + 1 \in DOMAIN results /\ Tail(results)[i] = results[i + 1]
    BY <1>1, <2>1
  <2>5. Tail(results) \in Seq({"success", "failure"})
    BY <1>1, <2>1
  <2> QED BY <1>1, <2>1, <2>3, <2>4, <2>5 DEF BridgeEffect
<1> QED BY <1>2, <1>3

LEMMA BridgeWrites ==
  ASSUME Type, BridgeEffect
  PROVE  /\ Type'
         /\ row'.id = row.id /\ row'.combo = row.combo /\ row'.success = row.success
         /\ row'.display = row.display
<1>1. PICK state \in {"detecting", "task_done", "error"} : Publish(state)
  BY DEF BridgeEffect
<1> QED BY <1>1, PublishEffect DEF Type, FlowType, TaskType, BridgeEffect

-----------------------------------------------------------------------------
(* Types, subscriptions and confirmed orders.                              *)

LEMMA OrderInit == Init => OrderInv
<1> SUFFICES ASSUME Init PROVE OrderInv
  OBVIOUS
<1>1. /\ store \in {"supabase", "firestore"} /\ row = NoOrder /\ lost = 0
      /\ outcome = [f \in Flows |-> "none"] /\ at = [f \in Flows |-> "new"]
      /\ handle = None /\ cancelled = {} /\ live = {}
      /\ worker = [w \in Workers |-> "idle"] /\ seen = [w \in Workers |-> NoOrder] /\ last = NoId
      /\ statuses = << >> /\ results = << >> /\ served = [f \in Flows |-> 0]
      /\ clean = {} /\ unreset = {} /\ raced = FALSE /\ restarted = FALSE
  BY DEF Init
<1>2. NoOrder \in Rows /\ ~NoOrder.success /\ NoOrder.id = NoId
  BY NoOrderFacts DEF NoOrderTyped, NoOrder
<1>3. NoId \notin Flows
  BY WebOrderAssumption
<1>4. FlowType
  <2>1. at \in [Flows -> Stages] /\ outcome \in [Flows -> {"none", "task_done", "error"}]
    BY <1>1 DEF Stages
  <2> QED BY <1>1, <1>2, <2>1 DEF FlowType
<1>5. TaskType
  <2>1. statuses \in Seq({"init", "done", "aborted"}) /\ results \in Seq({"success", "failure"})
    <3>1. statuses = << >> /\ results = << >>
      BY <1>1
    <3> QED BY <3>1
  <2>2. served \in [Flows -> 0 .. 2]
    <3>1. served = [f \in Flows |-> 0] /\ 0 \in 0 .. 2
      BY <1>1
    <3> QED BY <3>1
  <2>3. worker \in [Workers -> {"idle", "fetch", "read", "take", "work"}] /\ seen \in [Workers -> Rows]
    BY <1>1, <1>2
  <2> QED BY <1>1, <2>1, <2>2, <2>3 DEF TaskType
<1>6. Unheard /\ Confirmed /\ InTurn /\ NothingLeftOver
  <2>1. \A w \in Workers : seen[w] = NoOrder /\ worker[w] = "idle"
    BY <1>1
  <2>2. \A f \in Flows : at[f] = "new"
    BY <1>1
  <2> QED BY <1>1, <1>2, <1>3, <2>1, <2>2 DEF Unheard, Confirmed, Sound, InTurn, NothingLeftOver
<1>7. OneFlow /\ InHand /\ SeenOffered /\ OwnNews
  <2>1. \A w \in Workers : ~seen[w].success
    BY <1>1, <1>2
  <2> QED BY <1>1, <1>2, <2>1 DEF OneFlow, InHand, SeenOffered, OwnNews
<1>8. Ledger
  <2>1. \A w \in Workers : worker[w] = "idle"
    BY <1>1
  <2>2. served = [f \in Flows |-> 0]
    BY <1>1
  <2>3. \A f \in Flows : ~(served[f] > 0)
    BY <2>2
  <2> QED BY <1>1, <1>3, <2>1, <2>3 DEF Ledger, OneWorker, Alive, Holds
<1> QED BY <1>4, <1>5, <1>6, <1>7, <1>8 DEF OrderInv, Type

LEMMA TypeStep ==
  ASSUME Type, Confirmed, [Next]_vars
  PROVE  Type'
<1>1. ASSUME NEW f \in Flows, Flow(f) PROVE Type'
  BY <1>1, FlowTyped, FlowTaskStill DEF Type, TaskType
<1>2. CASE Stop
  <2>1. handle \in Flows
    BY <1>2 DEF Stop, Type, FlowType
  <2>2. at' \in [Flows -> Stages] /\ handle' \in Flows \cup {None} /\ cancelled' \in SUBSET Flows
    BY <1>2, <2>1 DEF Stop, Type, FlowType, Stages
  <2> QED BY <1>2, <2>2 DEF Stop, Type, FlowType, TaskType, web, task, past
<1>3. CASE TaskManager
  BY <1>3, TaskTyped, TaskFlowStill DEF Type, FlowType
<1>4. CASE OnStatus \/ OnResult
  BY <1>4, BridgeSteps, BridgeWrites
<1>5. CASE UNCHANGED vars
  BY <1>5 DEF vars, web, page, task, past, Type, FlowType, TaskType
<1> QED BY <1>1, <1>2, <1>3, <1>4, <1>5, StepCases

LEMMA UnheardStep ==
  ASSUME Type, Unheard, [Next]_vars
  PROVE  Unheard'
<1> USE DEF Unheard
<1>1. /\ at \in [Flows -> Stages] /\ live \in SUBSET Flows
      /\ outcome \in [Flows -> {"none", "task_done", "error"}] /\ FlowType
  BY DEF Type, FlowType
<1>2. ASSUME NEW f \in Flows, Start(f) \/ Wake(f) \/ Listen(f) \/ PublishDispatching(f) \/ SkipDispatch(f)
                                \/ Dispatch(f) \/ FinalReset(f)
      PROVE  Unheard'
  <2>1. /\ live' = live /\ \A g \in Flows : g # f => at'[g] = at[g]
        /\ at[f] # "waiting"
        /\ outcome' = outcome \/ \E fields : outcome' = Notified(live, fields.robot_state)
    <3>1. /\ live' = live /\ at[f] # "waiting" /\ \E to : at' = [at EXCEPT ![f] = to]
          /\ outcome' = outcome \/ \E fields : SafeUpdate(fields)
      BY <1>2 DEF Start, Wake, Listen, PublishDispatching, SkipDispatch, Dispatch, FinalReset, Goto,
                  page, web
    <3>2. ASSUME NEW fields, SafeUpdate(fields)
          PROVE  outcome' = outcome \/ outcome' = Notified(live, fields.robot_state)
      BY <1>1, <3>2, Updated
    <3> QED BY <1>1, <3>1, <3>2
  <2>2. \A g \in Flows : g \notin live => outcome'[g] = outcome[g]
    BY <1>1, <2>1, NotifiedTyped
  <2> QED BY <1>1, <2>1, <2>2
<1>3. ASSUME NEW f \in Flows, Subscribe(f) PROVE Unheard'
  <2>1. /\ at' = [at EXCEPT ![f] = "waiting"] /\ live' \in {live, live \cup {f}}
        /\ outcome' = outcome \/ \E state : outcome' = Notified({f}, state)
    BY <1>3 DEF Subscribe, Goto
  <2>2. \A g \in Flows : g # f => outcome'[g] = outcome[g]
    BY <1>1, <2>1, NotifiedTyped
  <2> QED BY <1>1, <2>1, <2>2
<1>4. ASSUME NEW f \in Flows, Complete(f) PROVE Unheard'
  <2>1. /\ at' = [at EXCEPT ![f] = Finally(f)] /\ live' = live \ {f}
        /\ \E o \in {outcome, Notified(live, row.robot_state)} : outcome' = [o EXCEPT ![f] = "none"]
    BY <1>4 DEF Complete, Goto
  <2>2. /\ outcome'[f] = "none"
        /\ \A g \in Flows : g # f /\ g \notin live => outcome'[g] = outcome[g]
    BY <1>1, <2>1, NotifiedTyped
  <2> QED BY <1>1, <2>1, <2>2
<1>5. CASE Stop
  <2>1. /\ live' = live /\ outcome' = outcome
        /\ \A g \in Flows : at'[g] = at[g] \/ at[g] = "display"
    BY <1>1, <1>5 DEF Stop, web
  <2> QED BY <2>1
<1>6. CASE OnStatus \/ OnResult
  <2>1. BridgeEffect
    BY <1>6, BridgeSteps
  <2>2. PICK state \in {"detecting", "task_done", "error"} : Publish(state)
    BY <2>1 DEF BridgeEffect
  <2>3. outcome' = outcome \/ outcome' = Notified(live, state)
    BY <1>1, <2>2, PublishEffect
  <2>4. \A g \in Flows : g \notin live => outcome'[g] = outcome[g]
    BY <1>1, <2>3, NotifiedTyped
  <2> QED BY <2>1, <2>4 DEF BridgeEffect
<1>7. CASE UNCHANGED << at, live, outcome >>
  BY <1>7
<1>8. CASE TaskManager
  BY <1>7, <1>8, TaskFlowStill
<1>9. CASE UNCHANGED vars
  BY <1>7, <1>9 DEF vars, page, web
<1> QED BY <1>2, <1>3, <1>4, <1>5, <1>6, <1>8, <1>9, StepCases DEF Flow

LEMMA ConfirmedStep ==
  ASSUME Type, Confirmed, [Next]_vars
  PROVE  Confirmed'
<1> USE DEF Confirmed, Sound
<1>1. ASSUME NEW f \in Flows, Flow(f) PROVE Confirmed'
  <2>1. Sound(row')
    BY <1>1, RowAfter DEF Offers, Type
  <2> QED BY <1>1, <2>1, FlowTaskStill
<1>2. CASE OnStatus \/ OnResult
  BY <1>2, BridgeSteps, BridgeWrites DEF BridgeEffect
<1>3. CASE UNCHANGED << row, seen, worker >>
  BY <1>3
<1>4. CASE Stop \/ UNCHANGED vars
  BY <1>3, <1>4 DEF Stop, vars, web, task
<1>5. CASE TaskManager
  <2>1. row' = row /\ row \in Rows /\ seen \in [Workers -> Rows]
        /\ worker \in [Workers -> {"idle", "fetch", "read", "take", "work"}]
    BY <1>5, TaskFlowStill DEF Type, FlowType, TaskType
  <2>2. CASE \E r \in requests : HandleStart(r)
    BY <1>3, <2>1, <2>2 DEF HandleStart
  <2>3. ASSUME NEW r \in admitted, NEW w \in Workers, StartWorker(r, w) PROVE Confirmed'
    BY <2>1, <2>3 DEF StartWorker
  <2>4. ASSUME NEW w \in Workers, FetchReads(w) PROVE Confirmed'
    <3>1. /\ worker' = [worker EXCEPT ![w] = "read"]
          /\ seen' = [seen EXCEPT ![w] = [row EXCEPT !.robot_state = ""]]
      BY <2>4 DEF FetchReads
    <3>2. Sound([row EXCEPT !.robot_state = ""])
      BY <2>1 DEF Rows
    <3> QED BY <2>1, <3>1, <3>2
  <2>5. ASSUME NEW w \in Workers, FetchAccepts(w) PROVE Confirmed'
    BY <2>1, <2>5, AcceptEffect
  <2>6. ASSUME NEW w \in Workers, FetchRaises(w) \/ FetchSupabase(w) \/ FetchFirestore(w) PROVE Confirmed'
    <3>1. /\ worker' = [worker EXCEPT ![w] = "idle"] \/ worker' = [worker EXCEPT ![w] = "work"]
          /\ seen' = [seen EXCEPT ![w] = NoOrder]
      BY <2>6, TakeEffect DEF FetchRaises
    <3> QED BY <2>1, <3>1, NoOrderFacts DEF NoOrderTyped
  <2>7. ASSUME NEW w \in Workers, CycleEnds(w) PROVE Confirmed'
    BY <2>1, <2>7 DEF CycleEnds
  <2>8. CASE Restart
    BY <2>1, <2>8, NoOrderFacts DEF Restart, NoOrderTyped
  <2> QED BY <1>5, <2>2, <2>3, <2>4, <2>5, <2>6, <2>7, <2>8, TaskCases
<1> QED BY <1>1, <1>2, <1>4, <1>5, StepCases

(* The order of the flows.                                                 *)
LEMMA InTurnStep ==
  ASSUME Type, InTurn, [Next]_vars
  PROVE  InTurn'
<1> USE DEF InTurn
<1>1. at \in [Flows -> Stages] /\ row \in Rows /\ FlowType
  BY DEF Type, FlowType
<1>2. ASSUME NEW f \in Flows, Flow(f) PROVE InTurn'
  <2>1. row'.id \in {row.id, f}
    BY <1>1, <1>2, RowAfter
  <2>2. PICK to \in Stages \ {"new"} : at' = [at EXCEPT ![f] = to]
    BY <1>1, <1>2, FlowMoves
  <2>3. at[f] = "new" => \A g \in Flows : g < f => at[g] # "new"
    BY <1>2 DEF Flow, Start, Wake, Listen, PublishDispatching, SkipDispatch, Dispatch, Subscribe,
                Complete, FinalReset, Goto
  <2> QED BY <1>1, <2>1, <2>2, <2>3
<1>3. CASE OnStatus \/ OnResult
  BY <1>3, BridgeSteps, BridgeWrites DEF BridgeEffect
<1>4. CASE Stop
  <2>1. row' = row /\ \A g \in Flows : at'[g] = "new" <=> at[g] = "new"
    BY <1>1, <1>4 DEF Stop, web
  <2> QED BY <2>1
<1>5. CASE TaskManager
  BY <1>5, TaskFlowStill
<1>6. CASE UNCHANGED vars
  BY <1>6 DEF vars, web
<1> QED BY <1>2, <1>3, <1>4, <1>5, <1>6, StepCases

LEMMA LeftOverStep ==
  ASSUME Type, Confirmed, NothingLeftOver, [Next]_vars
  PROVE  NothingLeftOver'
<1> USE DEF NothingLeftOver
<1>1. at \in [Flows -> Stages] /\ row \in Rows /\ FlowType /\ lost \in Nat
  BY DEF Type, FlowType
<1>2. row.success => row.id \in Flows
  BY DEF Confirmed, Sound
<1>3. ASSUME NEW f \in Flows, Flow(f), ~FinalReset(f) PROVE NothingLeftOver'
  <2>1. at' \in [Flows -> Stages] /\ at'[f] # "ended" /\ \A g \in Flows : g # f => at'[g] = at[g]
    BY <1>1, <1>3 DEF Flow, Start, Wake, Listen, PublishDispatching, SkipDispatch, Dispatch, Subscribe,
                      Complete, Goto, Finally, Stages
  <2>2. row'.success => row'.id = f \/ (row'.id = row.id /\ row.success)
    BY <1>1, <1>3, RowAfter DEF Offers
  <2>3. unreset \subseteq unreset'
    BY <1>1, <1>3, FlowMoves
  <2> QED BY <1>2, <2>1, <2>2, <2>3
<1>4. ASSUME NEW f \in Flows, FinalReset(f) PROVE NothingLeftOver'
  <2>1. /\ SafeUpdate(ResetFields) /\ unreset' = IF lost' = lost THEN unreset ELSE unreset \cup {f}
        /\ \E to : at' = [at EXCEPT ![f] = to]
    BY <1>4 DEF FinalReset, Goto
  <2>2. row' \in {row, ResetFields} /\ (lost' = lost => row' = ResetFields)
    BY <1>1, <2>1, Updated
  <2>3. ~ResetFields.success
    BY <1>1, WrittenTyped
  <2> QED BY <1>1, <1>2, <2>1, <2>2, <2>3
<1>5. CASE OnStatus \/ OnResult
  <2>1. at' = at /\ unreset' = unreset
    BY <1>5, BridgeSteps DEF BridgeEffect
  <2>2. row'.id = row.id /\ row'.success = row.success
    BY <1>5, BridgeSteps, BridgeWrites
  <2> QED BY <2>1, <2>2
<1>6. CASE Stop
  <2>1. /\ row' = row /\ unreset' = unreset
        /\ \A g \in Flows : at'[g] = "ended" => at[g] = "ended"
    BY <1>1, <1>6 DEF Stop, web, past
  <2> QED BY <1>2, <2>1
<1>7. CASE TaskManager
  BY <1>7, TaskFlowStill
<1>8. CASE UNCHANGED vars
  BY <1>8 DEF vars, web, past
<1> QED BY <1>3, <1>4, <1>5, <1>6, <1>7, <1>8, StepCases

-----------------------------------------------------------------------------
(* While no flow was stopped.                                              *)

LEMMA FlowAlone ==
  ASSUME Type, Confirmed, InTurn, Alone, OneFlow, InHand, NEW f \in Flows, Flow(f)
  PROVE  OneFlow' /\ InHand'
<1>1. /\ at \in [Flows -> Stages] /\ row \in Rows /\ FlowType /\ Flows \subseteq Nat
      /\ None \notin Flows
  BY WebOrderAssumption DEF Type, FlowType
<1>2. row.success => row.id \in Flows
  BY DEF Confirmed, Sound
<1>3. \A g \in Flows : at[g] \in Placed \cup {"display"} => handle = g
  BY DEF OneFlow, Placed
<1>4. Finally(f) = "display"
  BY DEF Finally, Alone
<1>5. unreset \subseteq unreset'
  BY <1>1, FlowMoves
<1>11. /\ ~ResetFields.success /\ ~ErrorFields.success
       /\ Offers(OrderFields(f, "result_ready"), f)
       /\ \A r \in {Shows("asking"), Shows("idle")} : r.id = row.id /\ r.success = row.success
  BY <1>1, WrittenTyped DEF Resets
<1>12. ASSUME NEW fields, SafeUpdate(fields) PROVE row' = row \/ row' = fields
  BY <1>12 DEF SafeUpdate, Write
<1>6. CASE Start(f)
  <2>1. /\ handle = None /\ at[f] = "new" /\ handle' = f /\ at' = [at EXCEPT ![f] = "wake"]
        /\ SafeUpdate(ResetFields)
    BY <1>6 DEF Start
  <2>2. row' = row \/ ~row'.success
    BY <1>11, <1>12, <2>1
  <2>3. \A g \in Flows : at[g] \in {"new", "ended"}
    BY <1>1, <2>1 DEF OneFlow
  <2>4. \A g \in Flows : g > f => at[g] = "new"
    BY <1>1, <2>1 DEF InTurn
  <2>5. OneFlow'
    BY <1>1, <2>1, <2>3, <2>4 DEF OneFlow
  <2>6. row.success => row.id \in unreset
    BY <1>2, <2>3 DEF InHand, Placed
  <2>7. InHand'
    BY <1>5, <2>2, <2>6 DEF InHand
  <2> QED BY <2>5, <2>7
<1>7. ASSUME NEW to \in Stages \ {"new", "ended", "final", "stuck"}, at' = [at EXCEPT ![f] = to],
             at[f] \notin {"new", "ended"}, handle' = handle
      PROVE  OneFlow'
  BY <1>1, <1>7 DEF OneFlow
<1>8. CASE Wake(f) \/ Listen(f)
  <2>1. /\ at[f] \in {"wake", "listen"} /\ handle' = handle /\ unreset' = unreset
        /\ \E to \in {"listen", "publish", "display"} : at' = [at EXCEPT ![f] = to]
    BY <1>4, <1>8 DEF Wake, Listen, Goto, Alone, page, past
  <2>2. \/ at'[f] = "publish" /\ SafeUpdate(OrderFields(f, "result_ready"))
        \/ SafeUpdate(Shows("asking")) \/ SafeUpdate(Shows("idle")) \/ SafeUpdate(ErrorFields)
    BY <1>1, <1>8 DEF Wake, Listen, Goto
  <2>3. row.success => row.id \in unreset
    BY <1>2, <1>3, <2>1 DEF InHand, Placed, OneFlow
  <2>6. OneFlow'
    BY <1>7, <2>1 DEF Stages
  <2>4. CASE at'[f] = "publish" /\ SafeUpdate(OrderFields(f, "result_ready"))
    <3>1. row' = row \/ Offers(row', f)
      BY <1>11, <1>12, <2>4
    <3>2. Offers(row', f) => row'.id = f /\ row'.display \in Confirming
      BY DEF Offers
    <3>3. at'[f] \in Placed
      BY <2>4 DEF Placed
    <3>4. row' = row => InHand'
      BY <2>1, <2>3 DEF InHand
    <3>5. Offers(row', f) => InHand'
      BY <3>2, <3>3 DEF InHand
    <3> QED BY <2>6, <3>1, <3>4, <3>5
  <2>5. CASE SafeUpdate(Shows("asking")) \/ SafeUpdate(Shows("idle")) \/ SafeUpdate(ErrorFields)
    <3>1. row'.success => row.success /\ row'.id = row.id
      <4>1. \E fields \in {Shows("asking"), Shows("idle"), ErrorFields} : row' = row \/ row' = fields
        BY <1>12, <2>5
      <4> QED BY <1>11, <4>1
    <3> QED BY <2>1, <2>3, <2>6, <3>1 DEF InHand
  <2> QED BY <2>2, <2>4, <2>5
<1>9. CASE \/ PublishDispatching(f) \/ SkipDispatch(f) \/ Dispatch(f) \/ Subscribe(f) \/ Complete(f)
  <2>1. /\ at[f] \in Placed /\ handle' = handle /\ unreset' = unreset
        /\ \E to \in {"connect", "subscribe", "waiting", "display"} : at' = [at EXCEPT ![f] = to]
    BY <1>4, <1>9 DEF PublishDispatching, SkipDispatch, Dispatch, Subscribe, Complete, Goto, Placed, page, past
  <2>2. row' \in {row, DispatchingFields(f), OrderFields(f, "completed"), ErrorFields}
    BY <1>9 DEF PublishDispatching, SkipDispatch, Dispatch, Subscribe, Complete, SafeUpdate, Write, web
  <2>3. row' = row \/ Offers(row', f) \/ ~row'.success
    BY <1>1, <2>2, WrittenTyped
  <2>4. handle = f /\ at'[f] \in Placed \cup {"display"}
    BY <1>1, <1>3, <2>1 DEF Placed
  <2>5. OneFlow'
    BY <1>7, <2>1 DEF Stages, Placed
  <2>6. InHand'
    BY <1>2, <1>3, <2>1, <2>3, <2>4 DEF InHand, Offers
  <2> QED BY <2>5, <2>6
<1>10. CASE FinalReset(f)
  <2>1. /\ at[f] \in {"display", "final"} /\ at' = [at EXCEPT ![f] = "ended"] /\ handle' = None
        /\ SafeUpdate(ResetFields)
        /\ unreset' = IF lost' = lost THEN unreset ELSE unreset \cup {f}
    BY <1>10 DEF FinalReset, Goto
  <2>2. handle = f
    BY <2>1 DEF OneFlow
  <2>3. \A g \in Flows : g # f => at[g] \in {"new", "ended"}
    BY <1>1, <2>2 DEF OneFlow
  <2>4. OneFlow'
    BY <1>1, <2>1, <2>3 DEF OneFlow
  <2>5. ~row'.success \/ (row' = row /\ f \in unreset')
    <3>1. row' = ResetFields \/ (row' = row /\ lost' # lost)
      BY <1>1, <2>1 DEF SafeUpdate, Write, FlowType
    <3> QED BY <1>11, <2>1, <3>1
  <2>6. row.success => row.id \in unreset \cup {f}
    BY <1>2, <2>3 DEF InHand, Placed
  <2>7. InHand'
    BY <1>5, <2>5, <2>6 DEF InHand
  <2> QED BY <2>4, <2>7
<1> QED BY <1>6, <1>8, <1>9, <1>10 DEF Flow

LEMMA AloneBefore ==
  ASSUME Type, [Next]_vars, Alone'
  PROVE  Alone /\ ~Stop
<1>1. ~Stop
  BY DEF Stop, Alone
<1> QED BY <1>1, StepCases, FlowTaskStill, TaskFlowStill, BridgeSteps
     DEF Alone, BridgeEffect, vars, page

LEMMA AloneStep ==
  ASSUME Type, Confirmed, InTurn, Alone, OneFlow, InHand, [Next]_vars, ~Stop
  PROVE  OneFlow' /\ InHand'
<1>1. ASSUME NEW f \in Flows, Flow(f) PROVE OneFlow' /\ InHand'
  BY <1>1, FlowAlone
<1>2. CASE /\ UNCHANGED << at, handle, unreset >>
           /\ row'.id = row.id /\ row'.success = row.success /\ row'.display = row.display
  BY <1>2 DEF OneFlow, InHand
<1>3. CASE OnStatus \/ OnResult
  BY <1>2, <1>3, BridgeSteps, BridgeWrites DEF BridgeEffect
<1>4. CASE TaskManager
  BY <1>2, <1>4, TaskFlowStill
<1>5. CASE UNCHANGED vars
  BY <1>2, <1>5 DEF vars, page, web, past
<1> QED BY <1>1, <1>3, <1>4, <1>5, StepCases

(* What the workers have read was offered then.                            *)
LEMMA SeenStep ==
  ASSUME Type, InHand, SeenOffered, [Next]_vars, ~Stop
  PROVE  SeenOffered'
<1>1. ASSUME NEW f \in Flows, Flow(f) PROVE SeenOffered'
  <2>1. unreset \subseteq unreset' /\ seen' = seen
    BY <1>1, FlowMoves, FlowTaskStill DEF Type
  <2> QED BY <2>1 DEF SeenOffered, Offered
<1>2. CASE UNCHANGED << seen, unreset >>
  BY <1>2 DEF SeenOffered, Offered
<1>3. CASE OnStatus \/ OnResult
  BY <1>2, <1>3, BridgeSteps DEF BridgeEffect
<1>4. CASE UNCHANGED vars
  BY <1>2, <1>4 DEF vars, task, past
<1>5. CASE TaskManager
  <2>1. unreset' = unreset /\ row' = row /\ row \in Rows /\ seen \in [Workers -> Rows]
    BY <1>5, TaskFlowStill DEF Type, FlowType, TaskType
  <2>2. CASE seen' = seen
    BY <1>2, <2>1, <2>2
  <2>3. ASSUME NEW w \in Workers, FetchReads(w) PROVE SeenOffered'
    <3>1. seen' = [seen EXCEPT ![w] = [row EXCEPT !.robot_state = ""]]
      BY <2>3 DEF FetchReads
    <3>2. row.success => Offered(row)
      BY DEF InHand, Offered
    <3>3. Offered([row EXCEPT !.robot_state = ""]) <=> Offered(row)
      BY <2>1 DEF Rows, Offered
    <3>4. [row EXCEPT !.robot_state = ""].success = row.success
      BY <2>1 DEF Rows
    <3>5. \A v \in Workers : v # w => seen'[v] = seen[v]
      BY <2>1, <3>1
    <3>6. seen'[w] = [row EXCEPT !.robot_state = ""]
      BY <2>1, <3>1
    <3> QED BY <2>1, <3>2, <3>3, <3>4, <3>5, <3>6 DEF SeenOffered, Offered
  <2>4. ASSUME NEW w \in Workers, seen' = [seen EXCEPT ![w] = NoOrder] PROVE SeenOffered'
    BY <2>1, <2>4, NoOrderFacts DEF SeenOffered, Offered, NoOrderTyped
  <2>5. CASE Restart
    BY <2>5, NoOrderFacts DEF Restart, SeenOffered, NoOrderTyped
  <2>6. CASE \E r \in requests : HandleStart(r)
    BY <2>2, <2>6 DEF HandleStart
  <2>7. CASE \E r \in admitted, w \in Workers : StartWorker(r, w)
    BY <2>2, <2>7 DEF StartWorker
  <2>8. ASSUME NEW w \in Workers, FetchAccepts(w) \/ CycleEnds(w) PROVE SeenOffered'
    BY <2>2, <2>8 DEF FetchAccepts, CycleEnds
  <2>9. ASSUME NEW w \in Workers, FetchRaises(w) \/ FetchSupabase(w) \/ FetchFirestore(w)
        PROVE SeenOffered'
    BY <2>4, <2>9 DEF FetchRaises, FetchSupabase, FetchFirestore, FetchReturns
  <2> QED BY <1>5, <2>3, <2>5, <2>6, <2>7, <2>8, <2>9, TaskCases
<1> QED BY <1>1, <1>3, <1>4, <1>5, StepCases

-----------------------------------------------------------------------------
(* What was served.                                                        *)

LEMMA FlowLedger ==
  ASSUME Type, Confirmed, InTurn, OneFlow, Ledger, NEW f \in Flows, Flow(f)
  PROVE  Ledger'
<1>1. /\ row \in Rows /\ FlowType /\ Flows \subseteq Nat /\ NoId \notin Flows /\ lost \in Nat
  BY WebOrderAssumption DEF Type, FlowType
<1>2. UNCHANGED << worker, seen, last, served >>
  BY FlowTaskStill
<1>3. ASSUME row.id \in Flows PROVE row'.id \in Flows /\ row.id <= row'.id
  <2>1. row'.id \in {row.id, f}
    BY <1>1, RowAfter
  <2>2. row.id \in Nat /\ f \in Nat
    BY <1>1, <1>3
  <2>3. CASE Start(f)
    <3>1. SafeUpdate(ResetFields) /\ ResetFields.id = row.id
      <4>1. Resets(ResetFields)
        BY <1>1, WrittenTyped
      <4> QED BY <2>3, <4>1 DEF Start, Resets
    <3>2. row'.id = row.id
      BY <3>1 DEF SafeUpdate, Write
    <3> QED BY <1>3, <2>2, <3>2
  <2>4. CASE ~Start(f)
    <3>1. at[f] \notin {"new", "ended"}
      <4>1. \E stage \in {"wake", "listen", "publish", "connect", "subscribe", "waiting", "display", "final"} :
              at[f] = stage
        BY <2>4 DEF Flow, Wake, Listen, PublishDispatching, SkipDispatch, Dispatch, Subscribe, Complete,
                    FinalReset, Goto
      <4> QED BY <4>1
    <3>2. \A g \in Flows : g > f => at[g] = "new"
      BY <3>1 DEF OneFlow
    <3>3. at[row.id] # "new"
      BY <1>3 DEF InTurn
    <3>4. ~(row.id > f)
      BY <1>3, <3>2, <3>3
    <3> QED BY <1>3, <2>1, <2>2, <3>4
  <2> QED BY <2>3, <2>4
<1>4. ASSUME last \in Flows PROVE row'.id \in Flows /\ last <= row'.id
  <2>1. row.id \in Flows /\ last <= row.id
    BY <1>4 DEF Ledger
  <2>2. row'.id \in Flows /\ row.id <= row'.id
    BY <1>3, <2>1
  <2>3. last \in Nat /\ row.id \in Nat /\ row'.id \in Nat
    BY <1>1, <1>4, <2>1, <2>2
  <2> QED BY <2>1, <2>2, <2>3
<1>5. ASSUME NEW w \in Workers, Holds(w)
      PROVE  row'.id \in Flows /\ seen[w].id <= row'.id
  <2>1. row.id \in Flows /\ seen[w].id <= row.id
    BY <1>5 DEF Ledger
  <2>2. row'.id \in Flows /\ row.id <= row'.id
    BY <1>3, <2>1
  <2>3. seen[w].id \in Nat /\ row.id \in Nat /\ row'.id \in Nat
    BY <1>1, <1>5, <2>1, <2>2 DEF Confirmed, Sound, Holds
  <2> QED BY <2>1, <2>2, <2>3
<1> QED BY <1>2, <1>4, <1>5 DEF Ledger, OneWorker, Alive, Holds

(* The provider gives out the order that one worker has read.              *)
LEMMA FetchLedger ==
  ASSUME Type, Confirmed, Ledger, NEW w \in Workers, FetchSupabase(w) \/ FetchFirestore(w), row' = row
  PROVE  Ledger'
<1>1. /\ worker[w] = "take" /\ worker' = [worker EXCEPT ![w] = "work"]
      /\ seen[w].success /\ seen[w].id \in Flows /\ last' = seen[w].id
      /\ served' = [served EXCEPT ![seen[w].id] = IF @ < 2 THEN @ + 1 ELSE @]
      /\ seen' = [seen EXCEPT ![w] = NoOrder]
  BY TakeEffect
<1>2. /\ served \in [Flows -> 0 .. 2] /\ worker \in [Workers -> {"idle", "fetch", "read", "take", "work"}]
      /\ Flows \subseteq Nat
  BY WebOrderAssumption DEF Type, TaskType
<1>3. /\ row.id \in Flows /\ seen[w].id <= row.id /\ (last \in Flows => last <= seen[w].id)
      /\ seen[w].id # last
  BY <1>1 DEF Ledger, Holds
<1>4. \A v \in Workers : v # w => ~Alive(v)
  BY <1>1 DEF Ledger, OneWorker, Alive
<1>5. served[seen[w].id] = 0
  <2>1. served[seen[w].id] > 0 => last \in Flows /\ seen[w].id <= last
    BY <1>1 DEF Ledger
  <2>2. served[seen[w].id] \in 0 .. 2
    BY <1>1, <1>2
  <2>3. seen[w].id \in Nat /\ (last \in Flows => last \in Nat)
    BY <1>1, <1>2
  <2>4. ~(last \in Flows /\ seen[w].id <= last)
    BY <1>3, <2>3
  <2> QED BY <2>1, <2>2, <2>4
<1>6. served'[seen[w].id] = 1 /\ \A g \in Flows : g # seen[w].id => served'[g] = served[g]
  BY <1>1, <1>2, <1>5
<1>7. \A v \in Workers : v # w => worker'[v] = "idle"
  BY <1>1, <1>2, <1>4 DEF Alive
<1>8. worker'[w] = "work"
  BY <1>1, <1>2
<1>9. OneWorker' /\ \A v \in Workers : ~Holds(v)' /\ worker'[v] # "take"
  BY <1>7, <1>8 DEF OneWorker, Alive, Holds
<1>10. ASSUME NEW f \in Flows, served'[f] > 0 PROVE served'[f] = 1 /\ f <= last'
  <2>1. CASE f = seen[w].id
    BY <1>1, <1>2, <1>6, <2>1
  <2>2. CASE f # seen[w].id
    <3>1. served[f] = 1 /\ last \in Flows /\ f <= last
      BY <1>6, <1>10, <2>2 DEF Ledger
    <3>2. last <= seen[w].id /\ f \in Nat /\ last \in Nat /\ seen[w].id \in Nat
      BY <1>1, <1>2, <1>3, <3>1
    <3>3. f <= seen[w].id
      BY <3>1, <3>2
    <3> QED BY <1>1, <1>6, <2>2, <3>1, <3>3
  <2> QED BY <2>1, <2>2
<1> QED BY <1>1, <1>3, <1>9, <1>10 DEF Ledger

LEMMA LedgerStep ==
  ASSUME Type, Confirmed, InTurn, OneFlow, Ledger, [Next]_vars, ~Stop, ~restarted', ~raced'
  PROVE  Ledger'
<1>1. ASSUME NEW f \in Flows, Flow(f) PROVE Ledger'
  BY <1>1, FlowLedger
<1>2. CASE UNCHANGED << worker, seen, served, last >> /\ row'.id = row.id
  BY <1>2 DEF Ledger, OneWorker, Alive, Holds
<1>3. CASE OnStatus \/ OnResult
  BY <1>2, <1>3, BridgeSteps, BridgeWrites DEF BridgeEffect
<1>4. CASE UNCHANGED vars
  BY <1>2, <1>4 DEF vars, web, task
<1>5. CASE TaskManager
  <2>1. /\ row' = row /\ row \in Rows /\ seen \in [Workers -> Rows]
        /\ worker \in [Workers -> {"idle", "fetch", "read", "take", "work"}]
    BY <1>5, TaskFlowStill DEF Type, FlowType, TaskType
  <2>2. CASE \E r \in requests : HandleStart(r)
    BY <1>2, <2>1, <2>2 DEF HandleStart
  <2>3. ASSUME NEW r \in admitted, NEW w \in Workers, StartWorker(r, w) PROVE Ledger'
    <3>1. /\ worker' = [worker EXCEPT ![w] = "fetch"] /\ \A v \in Workers : ~Alive(v)
          /\ UNCHANGED << seen, served, last >>
      BY <2>3 DEF StartWorker
    <3>2. worker'[w] = "fetch" /\ \A v \in Workers : v # w => worker'[v] = "idle"
      BY <2>1, <3>1 DEF Alive
    <3>3. OneWorker' /\ \A v \in Workers : ~Holds(v)' /\ worker'[v] # "take"
      BY <3>2 DEF OneWorker, Alive, Holds
    <3> QED BY <2>1, <3>1, <3>3 DEF Ledger
  <2>4. ASSUME NEW w \in Workers, FetchReads(w) PROVE Ledger'
    <3>1. /\ worker[w] = "fetch" /\ worker' = [worker EXCEPT ![w] = "read"]
          /\ seen' = [seen EXCEPT ![w] = [row EXCEPT !.robot_state = ""]]
          /\ UNCHANGED << served, last >>
      BY <2>4 DEF FetchReads
    <3>2. \A v \in Workers : v # w => worker[v] = "idle"
      BY <3>1 DEF Ledger, OneWorker, Alive
    <3>3. worker'[w] = "read" /\ \A v \in Workers : v # w => worker'[v] = "idle"
      BY <2>1, <3>1, <3>2
    <3>4. seen'[w].success = row.success /\ seen'[w].id = row.id
      BY <2>1, <3>1 DEF Rows
    <3>5. OneWorker' /\ \A v \in Workers : worker'[v] # "take" /\ (Holds(v)' => v = w)
      BY <3>3 DEF OneWorker, Alive, Holds
    <3>6. ASSUME Holds(w)'
          PROVE  row'.id \in Flows /\ seen'[w].id <= row'.id /\ (last' \in Flows => last' <= seen'[w].id)
      <4>1. row.id \in Flows /\ row.id \in Nat
        BY <3>4, <3>6, WebOrderAssumption DEF Holds, Confirmed, Sound
      <4>2. row.id <= row.id
        BY <4>1
      <4>3. last \in Flows => last <= row.id
        BY DEF Ledger
      <4>4. row' = row /\ last' = last /\ seen'[w].id = row.id
        BY <2>1, <3>1, <3>4
      <4> QED BY <4>1, <4>2, <4>3, <4>4
    <3> QED BY <2>1, <3>1, <3>5, <3>6 DEF Ledger
  <2>5. ASSUME NEW w \in Workers, FetchAccepts(w) PROVE Ledger'
    <3>1. /\ seen[w].success /\ seen[w].id # last /\ worker[w] = "read"
          /\ worker' = [worker EXCEPT ![w] = "take"]
          /\ UNCHANGED << seen, last, served >>
      BY <2>5, AcceptEffect
    <3>2. OneWorker' /\ \A v \in Workers : Holds(v)' => Holds(v)
      BY <2>1, <3>1 DEF Ledger, OneWorker, Alive, Holds
    <3>3. \A v \in Workers : worker'[v] = "take" => seen[v].id # last
      BY <2>1, <3>1 DEF Ledger
    <3> QED BY <2>1, <3>1, <3>2, <3>3 DEF Ledger
  <2>6. ASSUME NEW w \in Workers, FetchRaises(w) \/ CycleEnds(w) PROVE Ledger'
    <3>1. /\ worker' = [worker EXCEPT ![w] = "idle"] /\ UNCHANGED << last, served >>
          /\ seen' = seen \/ seen' = [seen EXCEPT ![w] = NoOrder]
      BY <2>6 DEF FetchRaises, CycleEnds
    <3>2. OneWorker' /\ \A v \in Workers : v # w => worker'[v] = worker[v] /\ seen'[v] = seen[v]
      BY <2>1, <3>1 DEF Ledger, OneWorker, Alive
    <3>3. worker'[w] = "idle"
      BY <2>1, <3>1
    <3> QED BY <2>1, <3>1, <3>2, <3>3 DEF Ledger, Holds
  <2>7. ASSUME NEW w \in Workers, FetchSupabase(w) \/ FetchFirestore(w) PROVE Ledger'
    BY <2>1, <2>7, FetchLedger
  <2>8. ~Restart
    BY DEF Restart
  <2> QED BY <1>5, <2>2, <2>3, <2>4, <2>5, <2>6, <2>7, <2>8, TaskCases
<1> QED BY <1>1, <1>3, <1>4, <1>5, StepCases

-----------------------------------------------------------------------------
(* The news of a flow that dispatched in a quiet moment.                   *)

LEMMA FlowNews ==
  ASSUME Type, Unheard, OneFlow, OwnNews, NEW f \in Flows, Flow(f)
  PROVE  OwnNews'
<1>1. /\ row \in Rows /\ at \in [Flows -> Stages] /\ clean \in SUBSET Flows
      /\ outcome \in [Flows -> {"none", "task_done", "error"}] /\ None \notin Flows
  BY WebOrderAssumption DEF Type, FlowType
<1>2. UNCHANGED << worker, seen, served, statuses, results >>
  BY FlowTaskStill
<1>3. ASSUME NEW g \in clean PROVE at[g] \in {"connect", "subscribe", "waiting"} /\ handle = g
  BY <1>1, <1>3 DEF OwnNews, OneFlow
<1>4. CASE clean' = {}
  BY <1>4 DEF OwnNews
<1>5. CASE Start(f)
  <2>1. handle = None /\ clean' = clean
    BY <1>5 DEF Start, past
  <2> QED BY <1>1, <1>3, <1>4, <2>1
<1>6. CASE Wake(f) \/ Listen(f) \/ SkipDispatch(f) \/ FinalReset(f)
  <2>1. at[f] \in {"wake", "listen", "publish", "display", "final"} /\ clean' = clean
    BY <1>6 DEF Wake, Listen, SkipDispatch, FinalReset, Goto, past
  <2>2. handle = f
    BY <2>1 DEF OneFlow
  <2> QED BY <1>3, <1>4, <2>1, <2>2
<1>7. CASE PublishDispatching(f)
  <2>1. /\ at[f] = "publish" /\ at' = [at EXCEPT ![f] = "connect"]
        /\ SafeUpdate(DispatchingFields(f))
        /\ clean' = IF Quiet /\ lost' = lost THEN clean \cup {f} ELSE clean
    BY <1>7 DEF PublishDispatching, Goto
  <2>2. clean = {}
    <3>1. handle = f
      BY <2>1 DEF OneFlow
    <3> QED BY <1>3, <2>1, <3>1
  <2>3. ASSUME Quiet, lost' = lost PROVE OwnNews'
    <3>1. row' = DispatchingFields(f) /\ outcome' = Notified(live, DispatchingFields(f).robot_state)
      <4>1. lost + 1 # lost
        BY DEF Type, FlowType
      <4> QED BY <2>1, <2>3, <4>1 DEF SafeUpdate, Write
    <3>2. row'.success /\ row'.id = f /\ row'.robot_state = ""
      BY <1>1, <3>1, WrittenTyped DEF Offers
    <3>3. outcome'[f] = "none"
      BY <1>1, <2>1, <3>1, NotifiedTyped DEF Unheard
    <3>4. \A w \in Workers : worker'[w] = "idle"
      BY <1>2, <2>3 DEF Quiet
    <3>5. DOMAIN statuses' = {} /\ DOMAIN results' = {}
      <4>1. statuses' = << >> /\ results' = << >>
        BY <1>2, <2>3 DEF Quiet
      <4> QED BY <4>1
    <3>6. NoNews'
      BY <3>2, <3>4, <3>5 DEF NoNews
    <3>7. clean' = {f} /\ at'[f] = "connect"
      BY <1>1, <2>1, <2>2, <2>3
    <3> QED BY <3>2, <3>3, <3>4, <3>6, <3>7 DEF OwnNews
  <2> QED BY <1>4, <2>1, <2>2, <2>3
<1>8. CASE Dispatch(f) \/ Subscribe(f)
  <2>1. /\ at[f] \in {"connect", "subscribe"} /\ at'[f] \in {"subscribe", "waiting"}
        /\ row' = row /\ clean' = clean
    BY <1>1, <1>8 DEF Dispatch, Subscribe, Goto, web, past
  <2>2. \A g \in clean : g = f
    BY <1>3, <2>1 DEF OneFlow
  <2>3. NoNews' <=> NoNews
    BY <1>2, <2>1 DEF NoNews
  <2>4. row.robot_state # "task_done" /\ outcome[f] # "task_done" => outcome'[f] # "task_done"
    BY <1>1, <1>8, NotifiedTyped DEF Dispatch, Subscribe, web
  <2>5. NoNews => row.robot_state # "task_done"
    BY DEF NoNews
  <2> QED BY <1>2, <2>1, <2>2, <2>3, <2>4, <2>5 DEF OwnNews
<1>9. CASE Complete(f)
  <2>1. at[f] = "waiting" /\ clean' = clean \ {f}
    BY <1>9 DEF Complete, Goto
  <2>2. handle = f
    BY <2>1 DEF OneFlow
  <2> QED BY <1>3, <1>4, <2>1, <2>2
<1> QED BY <1>5, <1>6, <1>7, <1>8, <1>9 DEF Flow

(* A step that brings no news and reads nothing else.                      *)
Reading(w) == worker[w] \in {"read", "take"}

LEMMA NewsKept ==
  ASSUME OwnNews, UNCHANGED << at, served, clean >>, row'.success = row.success, row'.id = row.id,
         \A f \in clean : outcome'[f] = "task_done" => outcome[f] = "task_done" \/ ~NoNews,
         NoNews => NoNews',
         \A w \in Workers : Reading(w)' => (Reading(w) /\ seen'[w] = seen[w]) \/ seen'[w].id = row.id
  PROVE  OwnNews'
BY DEF OwnNews, Reading

LEMMA NewsStep ==
  ASSUME Type, Unheard, Confirmed, OneFlow, OwnNews, [Next]_vars, ~Stop
  PROVE  OwnNews'
<1>1. ASSUME NEW f \in Flows, Flow(f) PROVE OwnNews'
  BY <1>1, FlowNews
<1>2. CASE TaskManager
  <2>1. /\ UNCHANGED << row, outcome, at, clean >> /\ row \in Rows /\ seen \in [Workers -> Rows]
        /\ worker \in [Workers -> {"idle", "fetch", "read", "take", "work"}]
        /\ served \in [Flows -> 0 .. 2] /\ clean \in SUBSET Flows
    BY <1>2, TaskFlowStill DEF Type, FlowType, TaskType
  <2>2. CASE \E r \in requests : HandleStart(r)
    <3>1. UNCHANGED << worker, seen, statuses, results, served >>
      BY <2>2 DEF HandleStart
    <3> QED BY <2>1, <3>1, NewsKept DEF NoNews, Reading
  <2>3. ASSUME NEW r \in admitted, NEW w \in Workers, StartWorker(r, w) PROVE OwnNews'
    <3>1. worker' = [worker EXCEPT ![w] = "fetch"] /\ UNCHANGED << seen, results, served >> /\ Say("init")
      BY <2>3 DEF StartWorker
    <3>2. \A i \in DOMAIN statuses' : statuses'[i] = "done" => \E j \in DOMAIN statuses : statuses[j] = "done"
      BY <3>1, SayEffect DEF Type
    <3>3. NoNews => NoNews'
      BY <2>1, <3>1, <3>2 DEF NoNews
    <3>4. \A v \in Workers : Reading(v)' => Reading(v)
      BY <2>1, <3>1 DEF Reading
    <3> QED BY <2>1, <3>1, <3>3, <3>4, NewsKept
  <2>4. ASSUME NEW w \in Workers, FetchReads(w) PROVE OwnNews'
    <3>1. /\ worker' = [worker EXCEPT ![w] = "read"]
          /\ seen' = [seen EXCEPT ![w] = [row EXCEPT !.robot_state = ""]]
          /\ UNCHANGED << statuses, results, served >>
      BY <2>4 DEF FetchReads
    <3>2. seen'[w].id = row.id /\ \A v \in Workers : v # w => worker'[v] = worker[v] /\ seen'[v] = seen[v]
      BY <2>1, <3>1 DEF Rows
    <3>3. NoNews => NoNews'
      BY <2>1, <3>1 DEF NoNews
    <3>4. \A v \in Workers : Reading(v)' => (Reading(v) /\ seen'[v] = seen[v]) \/ seen'[v].id = row.id
      BY <3>2 DEF Reading
    <3> QED BY <2>1, <3>1, <3>3, <3>4, NewsKept
  <2>5. ASSUME NEW w \in Workers, FetchAccepts(w) PROVE OwnNews'
    <3>1. /\ worker[w] = "read" /\ worker' = [worker EXCEPT ![w] = "take"]
          /\ UNCHANGED << seen, statuses, results, served >>
      BY <2>5 DEF FetchAccepts
    <3>2. \A v \in Workers : Reading(v)' => Reading(v)
      BY <2>1, <3>1 DEF Reading
    <3>3. NoNews => NoNews'
      BY <2>1, <3>1 DEF NoNews
    <3> QED BY <2>1, <3>1, <3>2, <3>3, NewsKept
  <2>6. ASSUME NEW w \in Workers, FetchRaises(w) PROVE OwnNews'
    <3>1. /\ worker' = [worker EXCEPT ![w] = "idle"] /\ seen' = [seen EXCEPT ![w] = NoOrder]
          /\ Say("aborted") /\ results' = Append(results, "failure") /\ served' = served
      BY <2>6 DEF FetchRaises
    <3>2. \A i \in DOMAIN statuses' : statuses'[i] = "done" => \E j \in DOMAIN statuses : statuses[j] = "done"
      BY <3>1, SayEffect DEF Type
    <3>3. \A i \in DOMAIN results' : results'[i] = "success" => \E j \in DOMAIN results : results[j] = "success"
      BY <3>1, ResultAppended DEF Type
    <3>4. NoNews => NoNews'
      BY <2>1, <3>1, <3>2, <3>3 DEF NoNews
    <3>5. \A v \in Workers : Reading(v)' => Reading(v) /\ seen'[v] = seen[v]
      BY <2>1, <3>1 DEF Reading
    <3> QED BY <2>1, <3>1, <3>4, <3>5, NewsKept
  <2>7. ASSUME NEW w \in Workers, FetchSupabase(w) \/ FetchFirestore(w) PROVE OwnNews'
    <3>1. /\ worker[w] = "take" /\ worker' = [worker EXCEPT ![w] = "work"] /\ seen[w].id \in Flows
          /\ served' = [served EXCEPT ![seen[w].id] = IF @ < 2 THEN @ + 1 ELSE @]
          /\ seen' = [seen EXCEPT ![w] = NoOrder]
      BY <2>7, TakeEffect
    <3>2. served'[seen[w].id] # 0
      BY <2>1, <3>1
    <3>3. \A f \in clean : f = seen[w].id
      BY <3>1 DEF OwnNews
    <3>4. \A v \in Workers : Reading(v)' => Reading(v) /\ seen'[v] = seen[v]
      BY <2>1, <3>1 DEF Reading
    <3> QED BY <2>1, <3>2, <3>3, <3>4 DEF OwnNews, Reading
  <2>8. ASSUME NEW w \in Workers, CycleEnds(w) PROVE OwnNews'
    <3>1. worker[w] = "work" /\ worker' = [worker EXCEPT ![w] = "idle"] /\ UNCHANGED << seen, served >>
      BY <2>8 DEF CycleEnds
    <3>2. ~NoNews
      BY <3>1 DEF NoNews
    <3>3. \A v \in Workers : Reading(v)' => Reading(v)
      BY <2>1, <3>1 DEF Reading
    <3> QED BY <2>1, <3>1, <3>2, <3>3, NewsKept
  <2>9. CASE Restart
    <3>1. UNCHANGED << statuses, results, served >> /\ \A w \in Workers : worker'[w] = "idle"
      BY <2>9 DEF Restart
    <3> QED BY <2>1, <3>1, NewsKept DEF NoNews, Reading
  <2> QED BY <1>2, <2>2, <2>3, <2>4, <2>5, <2>6, <2>7, <2>8, <2>9, TaskCases
<1>3. CASE OnStatus \/ OnResult
  <2>1. BridgeEffect
    BY <1>3, BridgeSteps
  <2>2. PICK state \in {"detecting", "task_done", "error"} :
          Publish(state) /\ (state = "task_done" => ~NoNews)
    BY <2>1 DEF BridgeEffect
  <2>3. /\ row'.success = row.success /\ row'.id = row.id
        /\ row'.robot_state \in {row.robot_state, state}
        /\ outcome' = outcome \/ outcome' = Notified(live, state)
    BY <2>2, PublishEffect DEF Type
  <2>4. /\ UNCHANGED << at, worker, seen, served, clean >>
        /\ \A i \in DOMAIN statuses' : \E j \in DOMAIN statuses : statuses'[i] = statuses[j]
        /\ \A i \in DOMAIN results' : \E j \in DOMAIN results : results'[i] = results[j]
    BY <2>1 DEF BridgeEffect
  <2>5. NoNews => NoNews'
    BY <2>2, <2>3, <2>4 DEF NoNews
  <2>6. ASSUME NEW f \in clean, outcome'[f] = "task_done" PROVE outcome[f] = "task_done" \/ ~NoNews
    <3>1. outcome \in [Flows -> {"none", "task_done", "error"}] /\ f \in Flows
      BY DEF Type, FlowType
    <3> QED BY <2>2, <2>3, <2>6, <3>1, NotifiedTyped
  <2> QED BY <2>3, <2>4, <2>5, <2>6, NewsKept DEF Reading
<1>4. CASE UNCHANGED vars
  BY <1>4, NewsKept DEF vars, web, task, past, NoNews, Reading
<1> QED BY <1>1, <1>2, <1>3, <1>4, StepCases

-----------------------------------------------------------------------------
(* The invariant, and what follows.                                        *)

LEMMA OrderStep ==
  ASSUME OrderInv, [Next]_vars
  PROVE  OrderInv'
<1>1. Type /\ Unheard /\ Confirmed /\ InTurn /\ NothingLeftOver
  BY DEF OrderInv
<1>2. Type' /\ Unheard' /\ Confirmed' /\ InTurn' /\ NothingLeftOver'
  BY <1>1, TypeStep, UnheardStep, ConfirmedStep, InTurnStep, LeftOverStep
<1>3. ASSUME Alone' PROVE OneFlow' /\ InHand' /\ SeenOffered' /\ OwnNews'
  <2>1. Alone /\ ~Stop
    BY <1>1, <1>3, AloneBefore
  <2>2. OneFlow /\ InHand /\ SeenOffered /\ OwnNews
    BY <2>1 DEF OrderInv
  <2> QED BY <1>1, <2>1, <2>2, AloneStep, SeenStep, NewsStep
<1>4. ASSUME Alone', ~restarted', ~raced' PROVE Ledger'
  <2>1. Alone /\ ~Stop
    BY <1>1, <1>4, AloneBefore
  <2>2. ~restarted /\ ~raced
    <3>1. CASE UNCHANGED << raced, restarted >>
      BY <1>4, <3>1
    <3>2. CASE TaskManager
      <4>1. CASE \E r \in admitted, w \in Workers : StartWorker(r, w)
        <5>1. raced' = (raced \/ \E v \in Workers : Alive(v)) /\ restarted' = restarted
          BY <4>1, Zenon DEF StartWorker
        <5> QED BY <1>4, <5>1, Zenon
      <4>2. CASE Restart
        BY <1>4, <4>2 DEF Restart
      <4>3. CASE \E r \in requests : HandleStart(r)
        BY <3>1, <4>3 DEF HandleStart, past
      <4>4. CASE \E w \in Workers : FetchReads(w) \/ FetchAccepts(w) \/ FetchRaises(w) \/ CycleEnds(w)
        BY <3>1, <4>4 DEF FetchReads, FetchAccepts, FetchRaises, CycleEnds, past
      <4>5. CASE \E w \in Workers : FetchSupabase(w) \/ FetchFirestore(w)
        BY <3>1, <4>5 DEF FetchSupabase, FetchFirestore, FetchReturns, past
      <4> QED BY <3>2, <4>1, <4>2, <4>3, <4>4, <4>5, TaskCases
    <3>3. CASE OnStatus \/ OnResult
      BY <1>1, <3>1, <3>3, BridgeSteps DEF BridgeEffect
    <3>4. CASE \E f \in Flows : Flow(f)
      BY <3>1, <3>4, FlowTaskStill
    <3>5. CASE UNCHANGED vars
      BY <3>1, <3>5 DEF vars, past
    <3> QED BY <2>1, <3>2, <3>3, <3>4, <3>5, StepCases
  <2>3. OneFlow /\ Ledger
    BY <2>1, <2>2 DEF OrderInv
  <2> QED BY <1>1, <1>4, <2>1, <2>3, LedgerStep
<1> QED BY <1>2, <1>3, <1>4 DEF OrderInv

THEOREM OrderInvariant == Spec => []OrderInv
<1>1. OrderInv /\ [Next]_vars => OrderInv'
  BY OrderStep
<1> QED BY OrderInit, <1>1, PTL DEF Spec

(* While workers run one after the other, no start serves an order twice,  *)
(* however the flows, the starts, the worker and the bridge interleave, and*)
(* whichever writes of the browser fail (fetch of the providers).          *)
THEOREM OrderServedOnce == Spec => []ServedOnce
<1>1. OrderInv => ServedOnce
  <2> SUFFICES ASSUME OrderInv, ~restarted, ~raced, cancelled = {}, NEW f \in Flows PROVE served[f] <= 1
    BY DEF ServedOnce
  <2>1. served[f] > 0 => served[f] = 1
    BY DEF OrderInv, Alone, Ledger
  <2>2. served[f] \in 0 .. 2
    BY DEF OrderInv, Type, TaskType
  <2> QED BY <2>1, <2>2
<1> QED BY <1>1, OrderInvariant, PTL

(* Whoever cleared the row to dispatch in a quiet moment hears of a        *)
(* finished task only when its own order was taken (publishDispatching,    *)
(* waitForRobotCompletion).                                                *)
THEOREM OrderDoneIsOwn == Spec => []DoneIsOwn
<1>1. OrderInv => DoneIsOwn
  <2> SUFFICES ASSUME OrderInv, cancelled = {}, NEW f \in clean, outcome[f] = "task_done"
               PROVE  served[f] > 0
    BY DEF DoneIsOwn
  <2>1. served[f] # 0
    BY DEF OrderInv, Alone, OwnNews
  <2>2. f \in Flows /\ served[f] \in 0 .. 2
    BY DEF OrderInv, Type, FlowType, TaskType
  <2> QED BY <2>1, <2>2
<1> QED BY <1>1, OrderInvariant, PTL

(* An order a worker takes was shown confirmed when it was read, or is left*)
(* over of a flow whose last reset failed (publishError, resetSession and  *)
(* the success flag of fetch).                                             *)
THEOREM OrderServedAsShown == Spec => ServedAsShown
<1>1. OrderInv =>
        (cancelled = {} =>
           \A w \in Workers : worker[w] = "take" /\ worker'[w] = "work" =>
             seen[w].display \in Confirming \/ seen[w].id \in unreset)
  BY DEF OrderInv, Alone, Confirmed, SeenOffered, Offered
<1>2. OrderInv =>
        [ cancelled = {} =>
            \A w \in Workers : worker[w] = "take" /\ worker'[w] = "work" =>
              seen[w].display \in Confirming \/ seen[w].id \in unreset ]_vars
  BY <1>1
<1> QED BY <1>2, OrderInvariant, PTL DEF ServedAsShown

(* The row offers an order of a flow that has ended only when the last     *)
(* reset of that flow failed, even after stops and restarts (the finally of*)
(* runRecommendationFlow).                                                 *)
THEOREM OrderNothingLeftOver == Spec => []NothingLeftOver
<1>1. OrderInv => NothingLeftOver
  BY DEF OrderInv
<1> QED BY <1>1, OrderInvariant, PTL

=============================================================================
