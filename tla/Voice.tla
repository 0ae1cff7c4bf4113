-------------------------------- MODULE Voice --------------------------------
(***************************************************************************)
(* The spoken order: the audio loop of web_voice_bridge_server, the flow   *)
(* of voice_order_flow it runs, the Firestore updates it queues, the file  *)
(* latest_order.json it saves.                                             *)
(*                                                                         *)
(* Three kinds of threads share this state: those of the HTTP server       *)
(* (start, stop, and a typed command), the audio thread, and the workers   *)
(* that write the queued updates.  A queued update is reduced to whether it*)
(* is the newest one put, the request id of an order to nothing.           *)
(***************************************************************************)
EXTENDS Combo

CONSTANTS
  Threads, NoThread,   (* audio threads, more than are ever alive at once  *)
  JobAnswers,          (* recommended_nuts of JobAnalyzer.analyze          *)
  SatietyAnswers,
  MenuMode,            (* COBOT_VOICE_PROMPT_MODE = menu                   *)
  MaxBacklog,          (* bound: updates waiting to be written             *)
  Torn, NoFile         (* contents of the file that are no order           *)

ASSUME VoiceAssumption ==
  /\ MenuMode \in BOOLEAN /\ MaxBacklog \in Nat \ {0} /\ NoThread \notin Threads
  /\ JobAnswers \subseteq Seq(STRING)

VARIABLES
  requested,     (* audio_requested                                        *)
  audio_thread,  (* the thread start_audio_workflow created last           *)
  audio_demo,    (* it exists                                              *)
  running,       (* _running of the demo                                   *)
  mic,           (* the stream of its MicController is open                *)
  at,            (* where each audio thread is                             *)
  retried,       (* the question has been asked again                      *)
  wish,          (* the nuts and the satiety heard by the flow             *)
  unheeded,      (* flows begun since the last stop                        *)
  command,       (* where the typed command is                             *)
  typed,         (* its order                                              *)
  starting,      (* publishers about to start a queue worker               *)
  worker_started, queue,
  writing,       (* what each queue worker is writing                      *)
  shown,         (* the screen shows the newest update                     *)
  crossed,       (* it was taken while an older one was still being written*)
  unavailable,   (* _FIREBASE_UNAVAILABLE                                  *)
  file,          (* latest_order.json, whose order it is, what was heard   *)
  clash          (* two writers have it open                               *)

heard  == << retried, wish >>
audio  == << requested, audio_thread, audio_demo, running, mic, at, heard, unheeded >>
text   == << command, typed >>
screen == << starting, worker_started, queue, writing, shown, crossed, unavailable >>
disk   == << file, clash >>
vars   == << audio, text, screen, disk >>

NoWish == [nuts |-> << >>, satiety |-> "normal"]
Workers == {1, 2}
Idle == "no update"

Init ==
  /\ requested = FALSE /\ audio_thread = NoThread /\ audio_demo = FALSE /\ running = FALSE /\ mic = FALSE
  /\ at = [t \in Threads |-> "ended"] /\ retried = FALSE /\ wish = NoWish /\ unheeded = 0
  /\ command = "none" /\ typed = NoWish
  /\ starting = {} /\ worker_started = FALSE /\ queue = << >>
  /\ writing = [w \in {} |-> Idle] /\ shown = TRUE /\ crossed = FALSE /\ unavailable = FALSE
  /\ file = NoFile /\ clash = FALSE

-----------------------------------------------------------------------------
(* firebase_bridge.                                                        *)
Older(update) == IF update = "newest" THEN "older" ELSE update

(* _safe_update: nothing once Firebase failed, else one more update, which *)
(* waits for its publisher to have started the queue worker.               *)
Publish(p) ==
  IF unavailable THEN UNCHANGED screen
  ELSE /\ worker_started /\ p \notin starting /\ Len(queue) < MaxBacklog
       /\ queue' = Append([i \in DOMAIN queue |-> "older"], "newest")
       /\ writing' = [w \in DOMAIN writing |-> Older(writing[w])]
       /\ shown' = FALSE /\ crossed' = FALSE
       /\ UNCHANGED << starting, worker_started, unavailable >>

(* _ensure_worker_started, which tests the flag, starts the thread and     *)
(* only then sets the flag.                                                *)
EnsureWorker(p) ==
  /\ ~worker_started /\ p \notin starting
  /\ starting' = starting \cup {p}
  /\ UNCHANGED << audio, text, worker_started, queue, writing, shown, crossed, unavailable, disk >>

WorkerStarts(p) ==
  /\ p \in starting
  /\ starting' = starting \ {p} /\ worker_started' = TRUE
  /\ \E w \in Workers \ DOMAIN writing :
       writing' = [v \in DOMAIN writing \cup {w} |-> IF v = w THEN Idle ELSE writing[v]]
  /\ UNCHANGED << audio, text, queue, shown, crossed, unavailable, disk >>

(* _worker_loop takes an update and writes it, or finds Firebase gone.     *)
TakeUpdate(w) ==
  /\ writing[w] = Idle /\ queue # << >>
  /\ writing' = [writing EXCEPT ![w] = Head(queue)] /\ queue' = Tail(queue)
  /\ crossed' = (crossed \/ (Head(queue) = "newest" /\ \E v \in DOMAIN writing : writing[v] # Idle))
  /\ UNCHANGED << audio, text, starting, worker_started, shown, unavailable, disk >>

WriteUpdateAgain(w) ==   (* mutant: an update that failed is queued again   *)
  /\ writing[w] # Idle
  /\ writing' = [writing EXCEPT ![w] = Idle]
  /\ \/ shown' = (writing[w] = "newest") /\ UNCHANGED queue
     \/ queue' = Append(queue, writing[w]) /\ UNCHANGED shown
  /\ UNCHANGED << audio, text, starting, worker_started, crossed, unavailable, disk >>

(* _get_session_ref fails, or the write does: nothing is tried again.      *)
SessionUnavailable == unavailable' = TRUE /\ UNCHANGED shown

WriteUpdate(w) ==
  /\ writing[w] # Idle
  /\ writing' = [writing EXCEPT ![w] = Idle]
  /\ \/ ~unavailable /\ shown' = (writing[w] = "newest") /\ UNCHANGED unavailable
     \/ SessionUnavailable
  /\ UNCHANGED << audio, text, starting, worker_started, queue, crossed, disk >>

-----------------------------------------------------------------------------
(* keyword_extractor: the file is truncated when it is opened and written  *)
(* when it is closed.  Two writers that have it open at once may leave the *)
(* end of the longer order behind the shorter one.                         *)
Writers == (IF \E t \in Threads : at[t] = "write" THEN {"flow"} ELSE {})
           \cup (IF command = "write" THEN {"text"} ELSE {})

Open == file' = Torn /\ clash' = (Writers # {})

(* What the customer is told: format_combo_text of the combo as it was     *)
(* built, every nut the model named included.                              *)
ComboText(combo) ==
  [n \in { combo[i].nut : i \in DOMAIN combo } |->
     combo[CHOOSE i \in DOMAIN combo : combo[i].nut = n].count]

Told(w) == ComboText(BuildCombo(w.nuts, w.satiety))

(* When no nut is recognised two are drawn (random.sample).                *)
Drawn == { SetToSeq(two) : two \in kSubset(2, ValidNuts) }

(* JobAnalyzer and SatietyAnalyzer: an answer that is no JSON counts as    *)
(* two nuts drawn, and as normal.                                          *)
AnalyzeJob == JobAnswers \cup Drawn
AnalyzeSatiety == SatietyAnswers \cup {"normal"}

Saved ==
  { [order |-> LatestOrder(NoId, w.nuts, w.satiety), wish |-> w, by |-> writer] :
    w \in [nuts : AnalyzeJob, satiety : AnalyzeSatiety], writer \in {"flow", "text"} }

Write(saved) ==
  /\ file' \in {saved} \cup (IF clash THEN {Torn} ELSE {})
  /\ UNCHANGED clash

-----------------------------------------------------------------------------
(* WebVoiceBridge: start and stop hold audio_lock.                         *)
Alive == audio_thread # NoThread /\ at[audio_thread] # "ended"

NewThread ==
  /\ \E t \in Threads : at[t] = "ended"
  /\ audio_thread' = CHOOSE t \in Threads : at[t] = "ended"
  /\ at' = [at EXCEPT ![audio_thread'] = "begin"]

StartAudioAnyway ==      (* mutant: a thread that is alive is not looked for *)
  /\ requested' = TRUE /\ unheeded' = 0
  /\ NewThread
  /\ UNCHANGED << audio_demo, running, mic, heard, text, screen, disk >>

StartAudio ==
  /\ requested' = TRUE /\ unheeded' = 0
  /\ IF Alive THEN UNCHANGED << audio_thread, at >>
     ELSE NewThread
  /\ UNCHANGED << audio_demo, running, mic, heard, text, screen, disk >>

StopAudio ==
  /\ requested' = FALSE
  /\ running' = (running /\ ~audio_demo)
  /\ UNCHANGED << audio_thread, audio_demo, mic, at, heard, unheeded,
                  text, screen, disk >>

Step(t, from, to) == at[t] = from /\ at' = [at EXCEPT ![t] = to]

(* _run_audio_workflow.                                                    *)
Begin(t) ==
  /\ \/ Step(t, "begin", "check") /\ audio_demo' = TRUE
     \/ Step(t, "begin", "failed") /\ ~audio_demo /\ UNCHANGED audio_demo
  /\ UNCHANGED << requested, audio_thread, running, mic, heard, unheeded,
                  text, screen, disk >>

CheckNothing(t) ==       (* mutant: the loop does not look at the request  *)
  /\ Step(t, "check", "run_once")
  /\ UNCHANGED << requested, audio_thread, audio_demo, running, mic, heard, unheeded,
                  text, screen, disk >>
Check(t) ==
  /\ Step(t, "check", IF requested THEN "run_once" ELSE "finally")
  /\ UNCHANGED << requested, audio_thread, audio_demo, running, mic, heard, unheeded,
                  text, screen, disk >>

RunOnce(t) ==
  /\ Step(t, "run_once", "reset")
  /\ running' = TRUE
  /\ unheeded' = IF requested THEN 0 ELSE Min({unheeded + 1, 2})
  /\ UNCHANGED << requested, audio_thread, audio_demo, mic, heard, text, screen, disk >>

(* MicController.  What close_stream raises may come before the stream is  *)
(* closed, or after.                                                       *)
OpenStream == mic' = TRUE
CloseStream == mic' = FALSE
CloseStreamRaises == mic' \in {mic, FALSE}

(* The finally of run_once, after a flow that returned or raised.  It      *)
(* closes the microphone a second time.                                    *)
RunOnceEnds(t) ==
  /\ \/ Step(t, "returned", "check") /\ CloseStream
     \/ Step(t, "raised", "failed") /\ CloseStream
     \/ Step(t, "returned", "failed") /\ CloseStreamRaises
     \/ Step(t, "raised", "failed") /\ CloseStreamRaises
  /\ running' = FALSE /\ retried' = FALSE /\ wish' = NoWish
  /\ UNCHANGED << requested, audio_thread, audio_demo, unheeded, text, screen, disk >>

Finally(t) ==
  /\ Step(t, "finally", "leaving")
  /\ requested' = FALSE
  /\ UNCHANGED << audio_thread, audio_demo, running, mic, heard, unheeded,
                  text, screen, disk >>

Leave(t) ==
  /\ Step(t, "leaving", "ended")
  /\ UNCHANGED << requested, audio_thread, audio_demo, running, mic, heard, unheeded,
                  text, screen, disk >>

-----------------------------------------------------------------------------
(* run_recommendation_flow.  The steps that only say something, on the     *)
(* screen and aloud, and where they lead.  Updates put one after the other *)
(* count as one; the failures of TTS are swallowed.                        *)
Says ==
  [ reset        |-> "open_mic",     ask_job     |-> "hear_job",
    ask_satiety  |-> "hear_satiety", recommending |-> "open_file",
    result_ready |-> "dispatch",     completed   |-> "returned",
    no_order     |-> "returned",     not_detected |-> "returned",
    error        |-> "raised",       failed      |-> "finally" ]

Say(t) ==
  /\ at[t] \in DOMAIN Says
  /\ Step(t, at[t], Says[at[t]])
  /\ Publish("flow")
  /\ UNCHANGED << requested, audio_thread, audio_demo, running, mic, heard, unheeded,
                  text, disk >>

(* wait_for_wake_word_with_optional_mic.  The microphone is opened, and the*)
(* wake word model loaded, outside the try whose finally closes it.        *)
OpenMic(t) ==
  /\ \/ Step(t, "open_mic", "wake") /\ OpenStream
     \/ Step(t, "open_mic", "error") /\ UNCHANGED mic
     \/ Step(t, "open_mic", "error") /\ OpenStream
  /\ UNCHANGED << requested, audio_thread, audio_demo, running, heard, unheeded,
                  text, screen, disk >>

(* wait_for_wake_word, then the finally.  A wake word that is being looked *)
(* for when the stop comes may still be found.                             *)
Wake(t) ==
  /\ \/ Step(t, "wake", "ask_job") /\ CloseStream
     \/ Step(t, "wake", "not_detected") /\ ~running /\ CloseStream
     \/ Step(t, "wake", "error") /\ CloseStream
     \/ Step(t, "wake", "error") /\ CloseStreamRaises
  /\ UNCHANGED << requested, audio_thread, audio_demo, running, heard, unheeded,
                  text, screen, disk >>

(* listen_text and the analyzer: STT or the model may fail, and an answer  *)
(* without nuts is asked for once more in menu mode.                       *)
HearJob(t, nuts) ==
  /\ \/ nuts = << >> /\ MenuMode /\ ~retried
        /\ Step(t, "hear_job", "ask_job") /\ retried' = TRUE /\ UNCHANGED wish
     \/ ~(nuts = << >> /\ MenuMode /\ ~retried)
        /\ Step(t, "hear_job", "ask_satiety") /\ retried' = FALSE
        /\ \E known \in IF nuts # << >> THEN {nuts} ELSE Drawn :
             wish' = [wish EXCEPT !.nuts = known]
  /\ Publish("flow")
  /\ UNCHANGED << requested, audio_thread, audio_demo, running, mic, unheeded,
                  text, disk >>

HearSatiety(t, satiety) ==
  /\ IF satiety = "none" /\ MenuMode /\ ~retried
     THEN Step(t, "hear_satiety", "ask_satiety") /\ retried' = TRUE /\ UNCHANGED wish
     ELSE /\ Step(t, "hear_satiety", "recommending") /\ retried' = FALSE
          /\ wish' = [wish EXCEPT !.satiety = IF satiety = "none" THEN "normal" ELSE satiety]
  /\ Publish("flow")
  /\ UNCHANGED << requested, audio_thread, audio_demo, running, mic, unheeded,
                  text, disk >>

HearingFails(t) ==
  /\ Step(t, "hear_job", "error") \/ Step(t, "hear_satiety", "error")
  /\ UNCHANGED << requested, audio_thread, audio_demo, running, mic, heard, unheeded,
                  text, screen, disk >>

(* save_recommendation_order.                                              *)
OpenFile(t) ==
  /\ Step(t, "open_file", "write")
  /\ Open
  /\ UNCHANGED << requested, audio_thread, audio_demo, running, mic, heard, unheeded,
                  text, screen >>

WriteFile(t) ==
  /\ \E saved \in Saved :
       /\ saved.wish = wish /\ saved.by = "flow"
       /\ Step(t, "write", IF saved.order.success THEN "result_ready" ELSE "no_order")
       /\ Write(saved)
  /\ UNCHANGED << requested, audio_thread, audio_demo, running, mic, heard, unheeded,
                  text, screen >>

(* dispatch_callback: the dispatcher of voice_to_robot, or the wait of the *)
(* web demo.                                                               *)
Dispatch(t) ==
  /\ Step(t, "dispatch", "completed")
  /\ UNCHANGED << requested, audio_thread, audio_demo, running, mic, heard, unheeded,
                  text, screen, disk >>

-----------------------------------------------------------------------------
(* A typed command: process_text of the web demo.                          *)
Move(from, to) == command = from /\ command' = to

Type ==
  /\ Move("none", "reset")
  /\ UNCHANGED << audio, typed, screen, disk >>

(* The targets extract finds after the order was saved decide whether a    *)
(* dispatch is shown, whatever became of the order.                        *)
TypedSay ==
  /\ \/ Move("reset", "open") \/ Move("result", "none")
     \/ Move("result", "dispatching") \/ Move("dispatching", "none")
  /\ Publish("text")
  /\ UNCHANGED << audio, typed, disk >>

(* build_latest_order: without nuts there is no second question.           *)
TypedOpen(nuts, satiety) ==
  /\ Move("open", "write")
  /\ typed' = [nuts |-> nuts, satiety |-> IF nuts = << >> \/ satiety = "none" THEN "normal" ELSE satiety]
  /\ Open
  /\ UNCHANGED << audio, screen >>

TypedFails ==
  /\ Move("open", "none")
  /\ UNCHANGED << audio, typed, screen, disk >>

TypedWrite ==
  /\ Move("write", "result")
  /\ (\E saved \in Saved : saved.wish = typed /\ saved.by = "text" /\ Write(saved)) /\ typed' = NoWish
  /\ UNCHANGED << audio, screen >>

-----------------------------------------------------------------------------
Flow(t) ==
  \/ Begin(t) \/ Check(t) \/ RunOnce(t) \/ RunOnceEnds(t) \/ Finally(t) \/ Leave(t)
  \/ Say(t) \/ OpenMic(t) \/ Wake(t) \/ HearingFails(t)
  \/ \E nuts \in AnalyzeJob : HearJob(t, nuts)
  \/ \E satiety \in AnalyzeSatiety : HearSatiety(t, satiety)
  \/ OpenFile(t) \/ WriteFile(t) \/ Dispatch(t)

Typing ==
  \/ Type \/ TypedSay \/ TypedFails \/ TypedWrite
  \/ \E nuts \in AnalyzeJob, satiety \in AnalyzeSatiety : TypedOpen(nuts, satiety)

Updating ==
  \/ \E p \in {"flow", "text"} : EnsureWorker(p) \/ WorkerStarts(p)
  \/ \E w \in DOMAIN writing : TakeUpdate(w) \/ WriteUpdate(w)

Next ==
  \/ StartAudio \/ StopAudio \/ (\E t \in Threads : Flow(t))
  \/ Typing \/ Updating

Spec == Init /\ [][Next]_vars

-----------------------------------------------------------------------------
(* Start and stop in any order never leave two threads in the audio loop,  *)
(* and no answer is recorded while the stream the wake word was heard on is*)
(* open: record_audio opens the device itself.  A stream that the model    *)
(* failed to be loaded for, or that could not be closed, ends the flow     *)
(* (start_audio_workflow, wait_for_wake_word_with_optional_mic).           *)
OneListener ==
  /\ \A t, u \in Threads : at[t] # "ended" /\ at[u] # "ended" => t = u
  /\ mic => \A t \in Threads : at[t] \notin {"hear_job", "hear_satiety"}

(* A stop may come between the check of the loop and the start of the      *)
(* flow, which sets _running again: then one more flow runs, never two     *)
(* (_run_audio_workflow, run_once).                                        *)
StopLosesOneFlow == unheeded <= 1

(* An order that whoever reads the file accepts.                           *)
Served == file \notin {NoFile, Torn} /\ ~Refuses(file.order, NoId)

(* The customer has been told what is prepared, and the flow dispatches.   *)
Confirmed(t) == at[t] = "dispatch"

(* Whatever the two writers do to each other's file, who reads it gets as  *)
(* many of each known nut as whoever gave that order was told, or refuses  *)
(* it; and while a spoken order is dispatched, the spoken order in the file*)
(* is that one, never an earlier customer's (format_combo_text,            *)
(* save_latest_order_data; fetch of FileOrderProvider, parse_order_file).  *)
OnlyAsTold ==
  /\ Served => LET counts == CountsOf(file.order.combo)
                   told   == Told(file.wish)
               IN  \A n \in ValidNuts : counts[n] = IF n \in DOMAIN told THEN told[n] ELSE 0
  /\ \A t \in Threads : Confirmed(t) /\ Served /\ file.by = "flow" => file.wish = wish

(* The newest update stays on the screen once all are written, with two    *)
(* queue workers as well, unless it was taken while the other worker was   *)
(* still writing an older one: only such a pair is written in either order *)
(* (_ensure_worker_started, _worker_loop).                                 *)
LastUpdateShown ==
  /\ ~unavailable /\ ~crossed
  /\ queue = << >> /\ \A w \in DOMAIN writing : writing[w] = Idle
  => shown
=============================================================================
