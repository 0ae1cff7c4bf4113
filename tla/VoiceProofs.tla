----------------------------- MODULE VoiceProofs -----------------------------
(***************************************************************************)
(* Proofs about Voice, its audio loop, its screen and the order file, for  *)
(* any number of threads, any answers and any interleaving with typed      *)
(* commands and queue workers.                                             *)
(***************************************************************************)
EXTENDS Voice, FiniteSetTheorems, TLAPS

Places == { "begin", "check", "run_once", "reset", "open_mic", "wake", "ask_job", "hear_job",
  "ask_satiety", "hear_satiety", "recommending", "open_file", "write", "result_ready",
  "dispatch", "completed", "returned", "no_order", "not_detected", "error", "raised",
  "failed", "finally", "leaving", "ended" }

(* From the wake word to the end of a flow that does not raise.            *)
Answering == { "ask_job", "hear_job", "ask_satiety", "hear_satiety", "recommending", "open_file",
  "write", "result_ready", "dispatch", "completed", "returned", "no_order", "not_detected" }

(* The steps of a flow that only say something stay inside the flow.       *)
LEMMA SaysStay ==
  ASSUME NEW s \in DOMAIN Says
  PROVE  /\ s \notin {"ended", "wake", "run_once"}
         /\ Says[s] \in Places \ {"ended", "wake", "run_once"}
         /\ Says[s] \in Answering => s \in Answering
BY DEF Says, Places, Answering

-----------------------------------------------------------------------------
(* Who is not ended is the thread that was created last.                   *)
AudioType ==
  /\ at \in [Threads -> Places] /\ audio_thread \in Threads \cup {NoThread}
  /\ requested \in BOOLEAN /\ mic \in BOOLEAN /\ unheeded \in Nat

OnlyNewest == \A t \in Threads : at[t] # "ended" => t = audio_thread

ClosedToAnswer == mic => \A t \in Threads : at[t] \notin Answering

(* A stop that was not heeded yet has let one flow through at most.        *)
StopInTime ==
  /\ unheeded <= 1
  /\ unheeded # 0 => ~requested
  /\ \A t \in Threads : at[t] = "run_once" => unheeded = 0

AudioInv == AudioType /\ OnlyNewest /\ ClosedToAnswer /\ StopInTime

LEMMA AudioInit == Init => AudioInv
<1> SUFFICES ASSUME Init PROVE AudioInv
  OBVIOUS
<1>1. at = [t \in Threads |-> "ended"]
  BY DEF Init
<1>2. at \in [Threads -> Places] /\ \A t \in Threads : at[t] = "ended"
  BY <1>1 DEF Places
<1>3. audio_thread = NoThread /\ requested = FALSE /\ mic = FALSE /\ unheeded = 0
  BY DEF Init
<1>4. AudioType
  BY <1>2, <1>3 DEF AudioType
<1>5. OnlyNewest /\ ClosedToAnswer
  BY <1>2, <1>3 DEF OnlyNewest, ClosedToAnswer
<1>6. StopInTime
  BY <1>2, <1>3 DEF StopInTime
<1> QED BY <1>4, <1>5, <1>6 DEF AudioInv

(* A step of one thread from one place to another, the request unchanged.  *)
LEMMA Moves ==
  ASSUME AudioInv, NEW t \in Threads, NEW from, NEW to \in Places \ {"ended", "run_once"},
         from # "ended", Step(t, from, to), UNCHANGED << requested, audio_thread, unheeded >>,
         mic' \in BOOLEAN, to \in Answering => ~mic'
  PROVE  AudioInv'
<1>1. at[t] = from /\ at' = [at EXCEPT ![t] = to] /\ t = audio_thread
  BY DEF Step, AudioInv, OnlyNewest
<1>2. \A u \in Threads : u # t => at'[u] = at[u] /\ at[u] = "ended"
  BY <1>1 DEF AudioInv, OnlyNewest, AudioType
<1>3. at'[t] = to
  BY <1>1 DEF AudioInv, AudioType
<1>4. AudioType'
  BY <1>1 DEF AudioInv, AudioType
<1>5. OnlyNewest'
  BY <1>1, <1>2 DEF OnlyNewest
<1>6. ClosedToAnswer'
  BY <1>2, <1>3 DEF ClosedToAnswer, Answering
<1>7. StopInTime'
  BY <1>2, <1>3 DEF AudioInv, StopInTime
<1> QED BY <1>4, <1>5, <1>6, <1>7 DEF AudioInv

LEMMA FlowAudio ==
  ASSUME AudioInv, NEW t \in Threads, Flow(t)
  PROVE  AudioInv'
<1> USE DEF AudioInv, AudioType, OnlyNewest, ClosedToAnswer, StopInTime, Step, heard, Places
<1>1. CASE Begin(t)
  BY <1>1 DEF Begin, Answering
<1>2. CASE Check(t)
  BY <1>2 DEF Check, Answering
<1>3. CASE RunOnce(t)
  <2>1. unheeded = 0 /\ at[t] = "run_once" /\ at' = [at EXCEPT ![t] = "reset"]
    BY <1>3 DEF RunOnce
  <2>2. unheeded' \in {0, 1} /\ (unheeded' # 0 => ~requested')
    <3>1. Min({1, 2}) = 1
      BY DEF Min
    <3> QED BY <1>3, <2>1, <3>1 DEF RunOnce
  <2>3. \A u \in Threads : at'[u] # "run_once"
    BY <2>1
  <2>4. audio_thread' = audio_thread /\ mic' = mic /\ requested' = requested
    BY <1>3 DEF RunOnce
  <2>5. ClosedToAnswer'
    BY <2>1, <2>4 DEF Answering
  <2> QED BY <2>1, <2>2, <2>3, <2>4, <2>5
<1>4. CASE RunOnceEnds(t)
  <2>1. UNCHANGED << requested, audio_thread, unheeded >> /\ mic' \in BOOLEAN
    BY <1>4 DEF RunOnceEnds, CloseStream, CloseStreamRaises
  <2>2. Step(t, "returned", "check") \/ Step(t, "returned", "failed") \/ Step(t, "raised", "failed")
    BY <1>4 DEF RunOnceEnds
  <2> HIDE DEF AudioInv, Step
  <2> QED BY <2>1, <2>2, Moves DEF Answering
<1>5. CASE Finally(t)
  <2>1. at[t] = "finally" /\ at' = [at EXCEPT ![t] = "leaving"] /\ requested' = FALSE
        /\ UNCHANGED << audio_thread, mic, unheeded >>
    BY <1>5 DEF Finally
  <2> QED BY <2>1 DEF Answering
<1>6. CASE Leave(t)
  BY <1>6 DEF Leave, Answering
<1>7. CASE Say(t)
  <2>1. at[t] \in DOMAIN Says /\ Step(t, at[t], Says[at[t]])
        /\ UNCHANGED << requested, audio_thread, unheeded, mic >>
    BY <1>7 DEF Say
  <2>2. Says[at[t]] \in Answering => ~mic
    BY <2>1, SaysStay
  <2> HIDE DEF Step
  <2>3. mic' \in BOOLEAN /\ (Says[at[t]] \in Answering => ~mic')
    BY <2>1, <2>2
  <2>4. Says[at[t]] \in Places \ {"ended", "run_once"} /\ at[t] # "ended"
    BY <2>1, SaysStay DEF Places
  <2> HIDE DEF AudioInv
  <2> QED BY <2>1, <2>3, <2>4, Moves
<1>8. CASE OpenMic(t)
  <2>1. UNCHANGED << requested, audio_thread, unheeded >> /\ mic' \in BOOLEAN
    BY <1>8 DEF OpenMic, OpenStream
  <2>2. Step(t, "open_mic", "wake") \/ Step(t, "open_mic", "error")
    BY <1>8 DEF OpenMic
  <2> HIDE DEF AudioInv, Step
  <2> QED BY <2>1, <2>2, Moves DEF Answering
<1>9. CASE Wake(t)
  <2>1. UNCHANGED << requested, audio_thread, unheeded >> /\ mic' \in BOOLEAN
    BY <1>9 DEF Wake, CloseStream, CloseStreamRaises
  <2>2. \/ Step(t, "wake", "error")
        \/ (Step(t, "wake", "ask_job") \/ Step(t, "wake", "not_detected")) /\ ~mic'
    BY <1>9 DEF Wake, CloseStream
  <2> HIDE DEF AudioInv, Step
  <2> QED BY <2>1, <2>2, Moves DEF Answering
<1>10. CASE HearingFails(t) \/ OpenFile(t) \/ Dispatch(t)
  BY <1>10 DEF HearingFails, OpenFile, Dispatch, Answering
<1>11. ASSUME NEW nuts, HearJob(t, nuts) PROVE AudioInv'
  BY <1>11 DEF HearJob, Answering
<1>12. ASSUME NEW satiety, HearSatiety(t, satiety) PROVE AudioInv'
  BY <1>12 DEF HearSatiety, Answering
<1>13. CASE WriteFile(t)
  BY <1>13 DEF WriteFile, Answering
<1> QED BY <1>1, <1>2, <1>3, <1>4, <1>5, <1>6, <1>7, <1>8, <1>9, <1>10, <1>11, <1>12, <1>13 DEF Flow

LEMMA StartAudioKeeps ==
  ASSUME AudioInv, StartAudio
  PROVE  AudioInv'
<1> USE DEF AudioInv, AudioType, OnlyNewest, ClosedToAnswer, StopInTime, StartAudio, Places
<1>1. CASE Alive
  BY <1>1
<1>2. CASE ~Alive
  <2>1. \A t \in Threads : at[t] = "ended"
    BY <1>2, VoiceAssumption DEF Alive
  <2>2. /\ audio_thread' \in Threads
        /\ at' = [at EXCEPT ![audio_thread'] = "begin"]
    BY <1>2 DEF NewThread
  <2>3. \A t \in Threads : t # audio_thread' => at'[t] = "ended"
    BY <2>1, <2>2
  <2>4. \A t \in Threads : at'[t] # "run_once" /\ at'[t] \notin Answering
    BY <2>1, <2>2 DEF Answering
  <2>5. mic' = mic /\ requested' = TRUE /\ unheeded' = 0
    OBVIOUS
  <2> QED BY <2>2, <2>3, <2>4, <2>5
<1> QED BY <1>1, <1>2

LEMMA AudioStep == AudioInv /\ [Next]_vars => AudioInv'
<1> SUFFICES ASSUME AudioInv, [Next]_vars PROVE AudioInv'
  OBVIOUS
<1>1. CASE StopAudio
  BY <1>1 DEF StopAudio, AudioInv, AudioType, OnlyNewest, ClosedToAnswer, StopInTime
<1>2. CASE Typing \/ Updating \/ UNCHANGED vars
  <2>1. UNCHANGED audio
    BY <1>2 DEF Typing, Updating, Type, TypedSay, TypedFails, TypedWrite, TypedOpen, EnsureWorker,
                WorkerStarts, TakeUpdate, WriteUpdate, vars
  <2> QED BY <2>1 DEF audio, AudioInv, AudioType, OnlyNewest, ClosedToAnswer, StopInTime
<1> QED BY <1>1, <1>2, FlowAudio, StartAudioKeeps DEF Next

LEMMA AudioInvariant == Spec => []AudioInv
BY AudioInit, AudioStep, PTL DEF Spec

(* However often audio is started and stopped, at most one thread is in    *)
(* the audio loop, and no answer is recorded while the stream of the wake  *)
(* word is open, whatever fails when it is opened or closed                *)
(* (start_audio_workflow, wait_for_wake_word_with_optional_mic).           *)
THEOREM OneThreadListens == Spec => []OneListener
<1>1. AudioInv => OneListener
  BY DEF AudioInv, OnlyNewest, ClosedToAnswer, OneListener, Answering
<1> QED BY <1>1, AudioInvariant, PTL

(* A stop that falls between the check of the loop and the start of the    *)
(* flow loses one flow, and never two (_run_audio_workflow, run_once).     *)
THEOREM StopLosesAtMostOne == Spec => []StopLosesOneFlow
<1>1. AudioInv => StopLosesOneFlow
  BY DEF AudioInv, StopInTime, StopLosesOneFlow
<1> QED BY <1>1, AudioInvariant, PTL

-----------------------------------------------------------------------------
(* The queue of updates, from the first one put to the screen.             *)
Update == {"older", "newest"}

ScreenType ==
  /\ DOMAIN writing \subseteq Workers /\ writing \in [DOMAIN writing -> Update \cup {Idle}]
  /\ queue \in Seq(Update) /\ shown \in BOOLEAN /\ crossed \in BOOLEAN /\ unavailable \in BOOLEAN

(* The newest update is the last one in the queue, or nothing is queued any*)
(* more when a worker writes it, or has written it.                        *)
LastInQueue ==
  /\ \A i \in 1 .. Len(queue) : queue[i] = "newest" => i = Len(queue)
  /\ (\E w \in DOMAIN writing : writing[w] = "newest") => queue = << >>
  /\ shown => queue = << >>

(* Unless the newest update was taken too early, who writes it is alone,   *)
(* and nothing is written after it.                                        *)
WrittenAlone ==
  ~crossed =>
    /\ \A v, w \in DOMAIN writing : writing[w] = "newest" /\ v # w => writing[v] = Idle
    /\ shown => \A w \in DOMAIN writing : writing[w] = Idle

(* As long as writes come through, what is not shown yet is on its way.    *)
NewestAhead ==
  ~unavailable /\ ~shown /\ ~crossed =>
    \/ queue # << >> /\ queue[Len(queue)] = "newest"
    \/ \E w \in DOMAIN writing : writing[w] = "newest"

ScreenInv == ScreenType /\ LastInQueue /\ WrittenAlone /\ NewestAhead

LEMMA ScreenInit == Init => ScreenInv
<1> SUFFICES ASSUME Init PROVE ScreenInv
  OBVIOUS
<1>1. DOMAIN writing = {} /\ writing \in [DOMAIN writing -> Update \cup {Idle}]
  BY DEF Init
<1>2. queue = << >> /\ shown = TRUE /\ unavailable = FALSE /\ crossed = FALSE
  BY DEF Init
<1>3. << >> \in Seq(Update) /\ 1 .. Len(<< >>) = {}
  OBVIOUS
<1> QED BY <1>1, <1>2, <1>3 DEF ScreenInv, ScreenType, LastInQueue, WrittenAlone, NewestAhead

(* What is put becomes the newest, and what was the newest is older.       *)
LEMMA PublishKeeps ==
  ASSUME ScreenInv, NEW p, Publish(p)
  PROVE  ScreenInv'
<1>1. CASE unavailable
  BY <1>1 DEF Publish, screen, ScreenInv, ScreenType, LastInQueue, WrittenAlone, NewestAhead
<1>2. CASE ~unavailable
  <2> DEFINE aged == [i \in DOMAIN queue |-> "older"]
  <2>1. /\ unavailable' = unavailable /\ queue' = Append(aged, "newest")
        /\ shown' = FALSE /\ crossed' = FALSE
        /\ writing' = [w \in DOMAIN writing |-> Older(writing[w])]
    BY <1>2 DEF Publish
  <2>2. aged \in Seq(Update) /\ Len(aged) = Len(queue) /\ \A i \in 1 .. Len(queue) : aged[i] = "older"
    BY DEF ScreenInv, ScreenType, Update
  <2> HIDE DEF aged
  <2>3. /\ queue' \in Seq(Update) /\ Len(queue') = Len(aged) + 1 /\ queue'[Len(aged) + 1] = "newest"
        /\ \A i \in 1 .. Len(aged) : queue'[i] = aged[i]
    BY <2>1, <2>2 DEF Update
  <2>4. \A i \in 1 .. Len(queue') : queue'[i] = "newest" => i = Len(queue')
    BY <2>2, <2>3
  <2>5. queue' # << >> /\ queue'[Len(queue')] = "newest"
    BY <2>2, <2>3
  <2>6. DOMAIN writing' = DOMAIN writing /\ \A w \in DOMAIN writing : writing'[w] = Older(writing[w])
    BY <2>1
  <2>7. \A w \in DOMAIN writing : writing'[w] \in {"older", Idle} /\ writing[w] \in Update \cup {Idle}
    BY <2>6 DEF Older, ScreenInv, ScreenType, Update, Idle
  <2>8. writing' \in [DOMAIN writing' -> Update \cup {Idle}]
    BY <2>1, <2>6, <2>7 DEF Update
  <2>9. ScreenType'
    BY <2>1, <2>3, <2>6, <2>8 DEF ScreenInv, ScreenType
  <2>10. \A w \in DOMAIN writing' : writing'[w] # "newest"
    BY <2>6, <2>7 DEF Idle
  <2>11. LastInQueue' /\ WrittenAlone' /\ NewestAhead'
    BY <2>1, <2>4, <2>5, <2>10 DEF LastInQueue, WrittenAlone, NewestAhead
  <2> QED BY <2>9, <2>11 DEF ScreenInv
<1> QED BY <1>1, <1>2

(* A worker that starts writes nothing yet.                                *)
LEMMA WorkerStartsKeeps ==
  ASSUME ScreenInv, NEW p, WorkerStarts(p)
  PROVE  ScreenInv'
<1>1. PICK w \in Workers \ DOMAIN writing :
        writing' = [v \in DOMAIN writing \cup {w} |-> IF v = w THEN Idle ELSE writing[v]]
  BY DEF WorkerStarts
<1>2. UNCHANGED << queue, shown, crossed, unavailable >>
  BY DEF WorkerStarts
<1>3. /\ DOMAIN writing' = DOMAIN writing \cup {w} /\ writing'[w] = Idle /\ w \notin DOMAIN writing
      /\ \A v \in DOMAIN writing : writing'[v] = writing[v]
  BY <1>1
<1>4. ScreenType'
  BY <1>1, <1>2, <1>3 DEF ScreenInv, ScreenType, Idle
<1>5. LastInQueue'
  BY <1>2, <1>3 DEF ScreenInv, LastInQueue, Idle
<1>6. WrittenAlone'
  BY <1>2, <1>3 DEF ScreenInv, WrittenAlone, Idle
<1>7. NewestAhead'
  BY <1>2, <1>3 DEF ScreenInv, NewestAhead
<1> QED BY <1>4, <1>5, <1>6, <1>7 DEF ScreenInv

LEMMA TakeUpdateKeeps ==
  ASSUME ScreenInv, NEW w \in DOMAIN writing, TakeUpdate(w)
  PROVE  ScreenInv'
<1>1. /\ writing[w] = Idle /\ queue # << >>
      /\ writing' = [writing EXCEPT ![w] = Head(queue)] /\ queue' = Tail(queue)
      /\ crossed' = (crossed \/ (Head(queue) = "newest" /\ \E v \in DOMAIN writing : writing[v] # Idle))
      /\ shown' = shown /\ unavailable' = unavailable
  BY DEF TakeUpdate
<1>2. queue \in Seq(Update) /\ crossed \in BOOLEAN
  BY DEF ScreenInv, ScreenType
<1>3. PICK n \in Nat : Len(queue) = n + 1
  <2>1. Len(queue) \in Nat /\ Len(queue) # 0
    BY <1>1, <1>2
  <2>2. Len(queue) - 1 \in Nat /\ Len(queue) = (Len(queue) - 1) + 1
    BY <2>1
  <2> QED BY <2>2
<1>4. /\ Head(queue) = queue[1] /\ Head(queue) \in Update
      /\ queue' \in Seq(Update) /\ Len(queue') = n
      /\ \A i \in 1 .. n : queue'[i] = queue[i + 1]
  BY <1>1, <1>2, <1>3
<1>5. /\ DOMAIN writing' = DOMAIN writing /\ writing'[w] = Head(queue)
      /\ \A v \in DOMAIN writing : v # w => writing'[v] = writing[v]
  BY <1>1
<1>6. ScreenType'
  BY <1>1, <1>2, <1>4, <1>5 DEF ScreenInv, ScreenType
<1>7. ~shown /\ \A v \in DOMAIN writing : writing[v] # "newest"
  BY <1>1 DEF ScreenInv, LastInQueue
<1>8. \A i \in 1 .. n + 1 : queue[i] = "newest" => i = n + 1
  BY <1>3 DEF ScreenInv, LastInQueue
<1>9. \A i \in 1 .. n : queue'[i] = "newest" => i = n
  BY <1>4, <1>8
<1>10. Head(queue) = "newest" => n = 0 /\ queue' = << >>
  BY <1>4, <1>8
<1>11. \A v \in DOMAIN writing' : writing'[v] = "newest" => v = w /\ Head(queue) = "newest"
  BY <1>5, <1>7
<1>12. LastInQueue'
  BY <1>1, <1>4, <1>7, <1>9, <1>10, <1>11 DEF LastInQueue
<1>13. WrittenAlone'
  BY <1>1, <1>5, <1>7, <1>11 DEF WrittenAlone
<1>14. ~unavailable /\ ~crossed => queue[n + 1] = "newest"
  BY <1>1, <1>3, <1>7 DEF ScreenInv, NewestAhead
<1>15. NewestAhead'
  <2>1. CASE n = 0
    <3>1. queue[n + 1] = Head(queue)
      BY <1>4, <2>1
    <3> QED BY <1>1, <1>5, <1>14, <3>1 DEF NewestAhead
  <2>2. CASE n # 0
    <3>1. queue' # << >> /\ queue'[n] = queue[n + 1]
      BY <1>4, <2>2
    <3> QED BY <1>1, <1>4, <1>14, <3>1 DEF NewestAhead
  <2> QED BY <2>1, <2>2
<1> QED BY <1>6, <1>12, <1>13, <1>15 DEF ScreenInv

LEMMA WriteUpdateKeeps ==
  ASSUME ScreenInv, NEW w \in DOMAIN writing, WriteUpdate(w)
  PROVE  ScreenInv'
<1>1. /\ writing[w] # Idle /\ writing' = [writing EXCEPT ![w] = Idle]
      /\ queue' = queue /\ crossed' = crossed
      /\ \/ ~unavailable /\ shown' = (writing[w] = "newest") /\ unavailable' = unavailable
         \/ unavailable' = TRUE /\ shown' = shown
  BY DEF WriteUpdate, SessionUnavailable
<1>2. /\ DOMAIN writing' = DOMAIN writing /\ writing'[w] = Idle
      /\ \A v \in DOMAIN writing : v # w => writing'[v] = writing[v]
  BY <1>1
<1>3. writing' \in [DOMAIN writing' -> Update \cup {Idle}]
  BY <1>1 DEF ScreenInv, ScreenType
<1>4. shown' \in BOOLEAN /\ unavailable' \in BOOLEAN
  BY <1>1 DEF ScreenInv, ScreenType
<1>5. ScreenType'
  BY <1>1, <1>2, <1>3, <1>4 DEF ScreenInv, ScreenType
<1>6. shown' => shown \/ writing[w] = "newest"
  BY <1>1
<1>7. LastInQueue'
  BY <1>1, <1>2, <1>6 DEF ScreenInv, LastInQueue, Idle
<1>8. WrittenAlone'
  BY <1>1, <1>2, <1>6 DEF ScreenInv, WrittenAlone, Idle
<1>9. NewestAhead'
  <2> SUFFICES ASSUME ~unavailable', ~shown', ~crossed'
               PROVE  \/ queue' # << >> /\ queue'[Len(queue')] = "newest"
                      \/ \E v \in DOMAIN writing' : writing'[v] = "newest"
    BY DEF NewestAhead
  <2>1. ~unavailable /\ writing[w] # "newest" /\ ~crossed
    BY <1>1
  <2>2. ~shown
    BY <1>1, <2>1 DEF ScreenInv, WrittenAlone
  <2>3. \/ queue # << >> /\ queue[Len(queue)] = "newest"
        \/ \E v \in DOMAIN writing : writing[v] = "newest"
    BY <2>1, <2>2 DEF ScreenInv, NewestAhead
  <2> QED BY <1>1, <1>2, <2>1, <2>3
<1> QED BY <1>5, <1>7, <1>8, <1>9 DEF ScreenInv

LEMMA ScreenUntouched == ScreenInv /\ UNCHANGED screen => ScreenInv'
BY DEF screen, ScreenInv, ScreenType, LastInQueue, WrittenAlone, NewestAhead

LEMMA ScreenStep == ScreenInv /\ [Next]_vars => ScreenInv'
<1> SUFFICES ASSUME ScreenInv, [Next]_vars PROVE ScreenInv'
  OBVIOUS
<1>1. CASE StartAudio \/ StopAudio \/ UNCHANGED vars
  BY <1>1, ScreenUntouched DEF StartAudio, StopAudio, vars
<1>2. ASSUME NEW t \in Threads, Flow(t) PROVE ScreenInv'
  <2>1. CASE Begin(t) \/ Check(t) \/ RunOnce(t) \/ RunOnceEnds(t) \/ Finally(t) \/ Leave(t)
    BY <2>1, ScreenUntouched DEF Begin, Check, RunOnce, RunOnceEnds, Finally, Leave
  <2>2. CASE OpenMic(t) \/ Wake(t) \/ HearingFails(t) \/ OpenFile(t) \/ WriteFile(t) \/ Dispatch(t)
    BY <2>2, ScreenUntouched DEF OpenMic, Wake, HearingFails, OpenFile, WriteFile, Dispatch
  <2>3. CASE \/ Say(t) \/ \E nuts \in AnalyzeJob : HearJob(t, nuts)
             \/ \E satiety \in AnalyzeSatiety : HearSatiety(t, satiety)
    BY <2>3, PublishKeeps DEF Say, HearJob, HearSatiety
  <2> QED BY <1>2, <2>1, <2>2, <2>3 DEF Flow
<1>3. CASE Typing
  <2>1. CASE TypedSay
    BY <2>1, PublishKeeps DEF TypedSay
  <2>2. CASE Type \/ TypedFails \/ TypedWrite
    BY <2>2, ScreenUntouched DEF Type, TypedFails, TypedWrite
  <2>3. CASE \E nuts \in AnalyzeJob, satiety \in AnalyzeSatiety : TypedOpen(nuts, satiety)
    BY <2>3, ScreenUntouched DEF TypedOpen
  <2> QED BY <1>3, <2>1, <2>2, <2>3 DEF Typing
<1>4. ASSUME NEW p, EnsureWorker(p) PROVE ScreenInv'
  BY <1>4 DEF EnsureWorker, ScreenInv, ScreenType, LastInQueue, WrittenAlone, NewestAhead
<1>5. CASE Updating
  BY <1>4, <1>5, WorkerStartsKeeps, TakeUpdateKeeps, WriteUpdateKeeps DEF Updating
<1> QED BY <1>1, <1>2, <1>3, <1>5 DEF Next

LEMMA ScreenInvariant == Spec => []ScreenInv
BY ScreenInit, ScreenStep, PTL DEF Spec

(* The newest update stays on the screen once all are written, unless it   *)
(* was taken while another worker was still writing, whatever was put when,*)
(* by whom, and however long the writes take (_safe_update, _worker_loop). *)
THEOREM LastUpdateStays == Spec => []LastUpdateShown
<1>1. ScreenInv => LastUpdateShown
  BY DEF ScreenInv, NewestAhead, LastUpdateShown, Idle
<1> QED BY <1>1, ScreenInvariant, PTL

-----------------------------------------------------------------------------
(* The counts of an order, from what was named to what the worker is given.*)

(* The items of a combo that count for a nut.                              *)
Items(combo, n) == { i \in DOMAIN combo : Usable(combo[i]) /\ combo[i].nut = n }

(* The sum over them, as the recursion of MapThenSumSet defines it.        *)
IsSum(iter, combo, J) ==
  iter = [s \in SUBSET J |->
            IF s = {} THEN 0 ELSE LET x == CHOOSE x \in s : TRUE IN combo[x].count + iter[s \ {x}]]

LEMMA CountIsSum ==
  ASSUME NEW combo, NEW n \in ValidNuts
  PROVE  CountsOf(combo)[n] = (CHOOSE iter : IsSum(iter, combo, Items(combo, n)))[Items(combo, n)]
BY DEF CountsOf, MapThenSumSet, MapThenFoldSet, Items, IsSum

(* A nut without items counts zero, a nut with one item what that says.    *)
LEMMA NoItem ==
  ASSUME NEW combo, NEW n \in ValidNuts, Items(combo, n) = {}
  PROVE  CountsOf(combo)[n] = 0
<1> DEFINE sum == [s \in {{}} |-> 0]
<1>1. SUBSET {} = {{}}
  OBVIOUS
<1>2. IsSum(sum, combo, {})
  BY <1>1 DEF IsSum
<1>3. IsSum(CHOOSE iter : IsSum(iter, combo, {}), combo, {})
  BY <1>2
<1>4. \A iter : IsSum(iter, combo, {}) => iter[{}] = 0
  BY <1>1 DEF IsSum
<1> QED BY <1>3, <1>4, CountIsSum

LEMMA OneItem ==
  ASSUME NEW combo, NEW n \in ValidNuts, NEW i, Items(combo, n) = {i}
  PROVE  CountsOf(combo)[n] = combo[i].count
<1> DEFINE sum == [s \in SUBSET {i} |-> IF s = {} THEN 0 ELSE combo[i].count]
<1>1. SUBSET {i} = {{}, {i}}
  OBVIOUS
<1>2. (CHOOSE x \in {i} : TRUE) = i /\ {i} \ {i} = {} /\ {i} # {} /\ combo[i].count \in Nat
  <2>1. i \in Items(combo, n)
    OBVIOUS
  <2> QED BY <2>1 DEF Items, Usable
<1>3. IsSum(sum, combo, {i})
  <2>1. \A s \in SUBSET {i} : sum[s] =
          IF s = {} THEN 0 ELSE LET x == CHOOSE x \in s : TRUE IN combo[x].count + sum[s \ {x}]
    BY <1>1, <1>2
  <2> QED BY <2>1 DEF IsSum
<1>4. IsSum(CHOOSE iter : IsSum(iter, combo, {i}), combo, {i})
  BY <1>3
<1>5. \A iter : IsSum(iter, combo, {i}) => iter[{i}] = combo[i].count
  BY <1>1, <1>2 DEF IsSum
<1> QED BY <1>4, <1>5, CountIsSum

(* A set made a sequence has each of its elements at exactly one place.    *)
LEMMA SetMadeSeq ==
  ASSUME NEW S, IsFiniteSet(S)
  PROVE  /\ IsFiniteSet(DOMAIN SetToSeq(S))
         /\ \A i \in DOMAIN SetToSeq(S) : SetToSeq(S)[i] \in S
         /\ \A i, j \in DOMAIN SetToSeq(S) : SetToSeq(S)[i] = SetToSeq(S)[j] => i = j
         /\ \A x \in S : \E i \in DOMAIN SetToSeq(S) : SetToSeq(S)[i] = x
<1> DEFINE n == Cardinality(S)
<1>1. ExistsBijection(1 .. n, S) /\ n \in Nat
  BY FS_CardinalityType
<1>2. \E f \in [1 .. n -> S] : IsInjective(f)
  BY <1>1 DEF ExistsBijection, Bijection, Injection
<1>3. SetToSeq(S) \in [1 .. n -> S] /\ IsInjective(SetToSeq(S))
  BY <1>2 DEF SetToSeq
<1>4. IsFiniteSet(1 .. n) /\ Cardinality(1 .. n) = n
  BY <1>1, FS_Interval
<1>5. SetToSeq(S) \in Injection(1 .. n, S)
  BY <1>3 DEF Injection
<1>6. SetToSeq(S) \in Surjection(1 .. n, S)
  BY <1>4, <1>5, FS_Injection
<1> HIDE DEF n
<1> QED BY <1>3, <1>4, <1>6 DEF IsInjective, Surjection

(* A combo made of one item for each nut of N counts what the items say.   *)
Item(c, n) == [nut |-> n, count |-> c[n]]

LEMMA ComboCounts ==
  ASSUME NEW N, IsFiniteSet(N), NEW c, NEW n \in ValidNuts
  PROVE  CountsOf(SetToSeq({ Item(c, m) : m \in N }))[n] =
           IF n \in N /\ c[n] \in Nat \ {0} THEN c[n] ELSE 0
<1> DEFINE S == { Item(c, m) : m \in N }
           f == [m \in N |-> Item(c, m)]
<1>1. f \in Surjection(N, S)
  BY DEF Surjection
<1>2. IsFiniteSet(S)
  BY <1>1, FS_Surjection
<1>3. /\ \A i \in DOMAIN SetToSeq(S) : SetToSeq(S)[i] \in S
      /\ \A i, j \in DOMAIN SetToSeq(S) : SetToSeq(S)[i] = SetToSeq(S)[j] => i = j
      /\ \A x \in S : \E i \in DOMAIN SetToSeq(S) : SetToSeq(S)[i] = x
  BY <1>2, SetMadeSeq
<1>4. \A m \in N : Item(c, m) \in S /\ Item(c, m).nut = m /\ Item(c, m).count = c[m]
  BY DEF Item
<1>5. \A x \in S : x.nut \in N /\ x = Item(c, x.nut)
  BY DEF Item
<1> HIDE DEF S, f
<1> DEFINE combo == SetToSeq(S)
<1>6. \A i \in Items(combo, n) : i \in DOMAIN combo /\ n \in N /\ combo[i] = Item(c, n) /\ c[n] \in Nat \ {0}
  BY <1>3, <1>4, <1>5 DEF Items, Usable
<1>7. CASE n \in N /\ c[n] \in Nat \ {0}
  <2>1. PICK i \in DOMAIN combo : combo[i] = Item(c, n)
    BY <1>3, <1>4, <1>7
  <2>2. i \in Items(combo, n)
    BY <1>4, <1>7, <2>1 DEF Items, Usable
  <2>3. Items(combo, n) = {i}
    BY <1>3, <1>6, <2>1, <2>2
  <2> QED BY <1>4, <1>7, <2>1, <2>3, OneItem DEF S
<1>8. CASE ~(n \in N /\ c[n] \in Nat \ {0})
  <2>1. Items(combo, n) = {}
    BY <1>6, <1>8
  <2> QED BY <1>8, <2>1, NoItem DEF S
<1> QED BY <1>7, <1>8

(* How often a nut was named.                                              *)
Named(nuts, n) == Cardinality({ i \in DOMAIN nuts : nuts[i] = n })

LEMMA NamedIsCount ==
  ASSUME NEW nuts, IsFiniteSet(DOMAIN nuts), NEW n
  PROVE  /\ Named(nuts, n) \in Nat
         /\ Named(nuts, n) = 0 <=> n \notin Range(nuts)
<1> DEFINE S == { i \in DOMAIN nuts : nuts[i] = n }
<1>1. IsFiniteSet(S)
  BY FS_Subset, S \in SUBSET DOMAIN nuts
<1>2. Cardinality(S) \in Nat /\ (Cardinality(S) = 0 <=> S = {})
  BY <1>1, FS_CardinalityType, FS_EmptySet
<1> QED BY <1>2 DEF Named, Range

LEMMA IntensityPositive ==
  ASSUME NEW intensity
  PROVE  IntensityCount(intensity) \in 1 .. 3
BY DEF IntensityCount

(* build_combo: as many of each nut as the customer is told.               *)
LEMMA BuildComboCounts ==
  ASSUME NEW nuts, IsFiniteSet(DOMAIN nuts), NEW intensity, NEW n \in ValidNuts
  PROVE  CountsOf(BuildCombo(nuts, intensity))[n] = IntensityCount(intensity) * Named(nuts, n)
<1> DEFINE c == [m \in Range(nuts) |-> IntensityCount(intensity) * Named(nuts, m)]
<1>1. BuildCombo(nuts, intensity) = SetToSeq({ Item(c, m) : m \in Range(nuts) })
  BY DEF BuildCombo, Item, Named
<1>2. IsFiniteSet(Range(nuts))
  <2>1. [i \in DOMAIN nuts |-> nuts[i]] \in Surjection(DOMAIN nuts, Range(nuts))
    BY DEF Surjection, Range
  <2> QED BY <2>1, FS_Surjection
<1>3. Named(nuts, n) \in Nat /\ (Named(nuts, n) = 0 <=> n \notin Range(nuts))
  BY NamedIsCount
<1>4. PICK k \in 1 .. 3 : IntensityCount(intensity) = k
  BY IntensityPositive
<1>5. n \in Range(nuts) => c[n] = k * Named(nuts, n) /\ c[n] \in Nat \ {0}
  BY <1>3, <1>4
<1>6. n \notin Range(nuts) => k * Named(nuts, n) = 0
  BY <1>3
<1> HIDE DEF c
<1>7. CountsOf(BuildCombo(nuts, intensity))[n] =
        IF n \in Range(nuts) /\ c[n] \in Nat \ {0} THEN c[n] ELSE 0
  <2> DEFINE N == Range(nuts)
  <2>1. IsFiniteSet(N)
    BY <1>2
  <2> HIDE DEF N
  <2>2. CountsOf(SetToSeq({ Item(c, m) : m \in N }))[n] =
          IF n \in N /\ c[n] \in Nat \ {0} THEN c[n] ELSE 0
    BY <2>1, ComboCounts
  <2> QED BY <1>1, <2>2 DEF N
<1> QED BY <1>4, <1>5, <1>6, <1>7

(* normalize_combo changes no count.                                       *)
LEMMA NormalizeKeepsCounts ==
  ASSUME NEW combo, \A n \in ValidNuts : CountsOf(combo)[n] \in Nat, NEW n \in ValidNuts
  PROVE  CountsOf(NormalizeCombo(combo))[n] = CountsOf(combo)[n]
<1> DEFINE c == CountsOf(combo)
<1>1. NormalizeCombo(combo) = SetToSeq({ Item(c, m) : m \in Ordered(c) })
  BY DEF NormalizeCombo, Item
<1>2. Ordered(c) \in SUBSET ValidNuts /\ (n \in Ordered(c) <=> c[n] > 0)
  BY DEF Ordered
<1>3. IsFiniteSet(Ordered(c))
  BY <1>2, ComboAssumption, FS_Subset
<1>4. c[n] \in Nat
  OBVIOUS
<1>5. c[n] > 0 <=> c[n] \in Nat \ {0}
  BY <1>4
<1> HIDE DEF c
<1>6. CountsOf(NormalizeCombo(combo))[n] = c[n]
  <2>1. CountsOf(NormalizeCombo(combo))[n] = IF n \in Ordered(c) /\ c[n] \in Nat \ {0} THEN c[n] ELSE 0
    BY <1>1, <1>3, ComboCounts
  <2>2. c[n] = 0 \/ c[n] \in Nat \ {0}
    BY <1>4
  <2> QED BY <1>2, <1>5, <2>1, <2>2
<1> QED BY <1>6 DEF c

(* An order saved has the counts the customer was told.                    *)
LEMMA LatestOrderCounts ==
  ASSUME NEW nuts, IsFiniteSet(DOMAIN nuts), NEW intensity, NEW id, NEW n \in ValidNuts
  PROVE  CountsOf(LatestOrder(id, nuts, intensity).combo)[n] = IntensityCount(intensity) * Named(nuts, n)
<1> DEFINE built == BuildCombo(nuts, intensity)
           once == NormalizeCombo(built)
           twice == NormalizeCombo(once)
<1>1. \A m \in ValidNuts : CountsOf(built)[m] = IntensityCount(intensity) * Named(nuts, m)
  BY BuildComboCounts
<1>2. \A m \in ValidNuts : IntensityCount(intensity) * Named(nuts, m) \in Nat
  <2> SUFFICES ASSUME NEW m \in ValidNuts
               PROVE  IntensityCount(intensity) * Named(nuts, m) \in Nat
    OBVIOUS
  <2>1. PICK k \in 1 .. 3 : IntensityCount(intensity) = k
    BY IntensityPositive
  <2>2. PICK named \in Nat : Named(nuts, m) = named
    BY NamedIsCount
  <2> QED BY <2>1, <2>2
<1>3. LatestOrder(id, nuts, intensity).combo = twice
  BY DEF LatestOrder, NormalizeLatestOrder
<1> HIDE DEF built
<1>4. \A m \in ValidNuts : CountsOf(once)[m] = CountsOf(built)[m]
  BY <1>1, <1>2, NormalizeKeepsCounts
<1> HIDE DEF once
<1>5. \A m \in ValidNuts : CountsOf(twice)[m] = CountsOf(once)[m]
  BY <1>1, <1>2, <1>4, NormalizeKeepsCounts
<1> QED BY <1>1, <1>3, <1>4, <1>5

(* What the flow may have understood is a finite list.                     *)
LEMMA AnalyzeJobFinite ==
  ASSUME NEW nuts \in AnalyzeJob
  PROVE  IsFiniteSet(DOMAIN nuts)
<1>1. CASE nuts \in JobAnswers
  <2>1. nuts \in Seq(STRING)
    BY <1>1, VoiceAssumption
  <2>2. Len(nuts) \in Nat /\ DOMAIN nuts = 1 .. Len(nuts)
    BY <2>1
  <2> QED BY <2>2, FS_Interval
<1>2. CASE nuts \in Drawn
  <2>1. PICK two \in SUBSET ValidNuts : nuts = SetToSeq(two)
    BY <1>2 DEF Drawn, kSubset
  <2>2. IsFiniteSet(two)
    BY ComboAssumption, FS_Subset
  <2> QED BY <2>1, <2>2, SetMadeSeq
<1> QED BY <1>1, <1>2 DEF AnalyzeJob

(* format_combo_text names each nut once, with the count that was built.   *)
LEMMA TextCounts ==
  ASSUME NEW nuts, IsFiniteSet(DOMAIN nuts), NEW intensity
  PROVE  LET said == ComboText(BuildCombo(nuts, intensity))
         IN  /\ DOMAIN said = Range(nuts)
             /\ \A n \in Range(nuts) : said[n] = IntensityCount(intensity) * Named(nuts, n)
<1> DEFINE combo == BuildCombo(nuts, intensity)
           c == [m \in Range(nuts) |-> IntensityCount(intensity) * Named(nuts, m)]
           S == { Item(c, m) : m \in Range(nuts) }
<1>1. combo = SetToSeq(S)
  BY DEF BuildCombo, Item, Named
<1>2. IsFiniteSet(S)
  <2>1. [i \in DOMAIN nuts |-> nuts[i]] \in Surjection(DOMAIN nuts, Range(nuts))
    BY DEF Surjection, Range
  <2>2. [m \in Range(nuts) |-> Item(c, m)] \in Surjection(Range(nuts), S)
    BY DEF Surjection
  <2> QED BY <2>1, <2>2, FS_Surjection
<1>3. /\ \A i \in DOMAIN combo : combo[i] \in S
      /\ \A x \in S : \E i \in DOMAIN combo : combo[i] = x
  BY <1>1, <1>2, SetMadeSeq
<1>4. \A x \in S : x.nut \in Range(nuts) /\ x.count = c[x.nut]
  BY DEF Item
<1>5. \A m \in Range(nuts) : Item(c, m) \in S /\ Item(c, m).nut = m
  BY DEF Item
<1>6. \A n \in Range(nuts) : c[n] = IntensityCount(intensity) * Named(nuts, n)
  OBVIOUS
<1> HIDE DEF combo, c, S
<1>7. { combo[i].nut : i \in DOMAIN combo } = Range(nuts)
  BY <1>3, <1>4, <1>5
<1>8. ASSUME NEW n \in Range(nuts)
      PROVE  combo[CHOOSE i \in DOMAIN combo : combo[i].nut = n].count = c[n]
  <2>1. \E i \in DOMAIN combo : combo[i].nut = n
    BY <1>3, <1>5
  <2> DEFINE k == CHOOSE i \in DOMAIN combo : combo[i].nut = n
  <2>2. k \in DOMAIN combo /\ combo[k].nut = n
    BY <2>1
  <2> HIDE DEF k
  <2>3. combo[k].count = c[n]
    BY <1>3, <1>4, <2>2
  <2> QED BY <2>3 DEF k
<1>9. /\ DOMAIN ComboText(combo) = Range(nuts)
      /\ \A n \in Range(nuts) : ComboText(combo)[n] = c[n]
  BY <1>7, <1>8 DEF ComboText
<1> QED BY <1>6, <1>9 DEF combo

(* Of the nuts there are, the order has as many as the text says, and none *)
(* the text does not name.                                                 *)
AsTold(saved) ==
  \A n \in ValidNuts :
    CountsOf(saved.order.combo)[n] = IF n \in DOMAIN Told(saved.wish) THEN Told(saved.wish)[n] ELSE 0

LEMMA SavedAsTold ==
  ASSUME NEW saved \in Saved
  PROVE  AsTold(saved)
<1>1. PICK w \in [nuts : AnalyzeJob, satiety : AnalyzeSatiety] :
        saved.order = LatestOrder(NoId, w.nuts, w.satiety) /\ saved.wish = w
  BY DEF Saved
<1>2. IsFiniteSet(DOMAIN w.nuts)
  BY AnalyzeJobFinite
<1>3. ASSUME NEW n \in ValidNuts
      PROVE  CountsOf(LatestOrder(NoId, w.nuts, w.satiety).combo)[n]
               = IF n \in DOMAIN Told(w) THEN Told(w)[n] ELSE 0
  <2>1. CountsOf(LatestOrder(NoId, w.nuts, w.satiety).combo)[n]
          = IntensityCount(w.satiety) * Named(w.nuts, n)
    BY <1>2, LatestOrderCounts
  <2>2. /\ DOMAIN Told(w) = Range(w.nuts)
        /\ n \in Range(w.nuts) => Told(w)[n] = IntensityCount(w.satiety) * Named(w.nuts, n)
    BY <1>2, TextCounts DEF Told
  <2>3. n \notin Range(w.nuts) => Named(w.nuts, n) = 0
    BY <1>2, NamedIsCount
  <2>4. PICK k \in 1 .. 3 : IntensityCount(w.satiety) = k
    BY IntensityPositive
  <2>5. n \notin Range(w.nuts) => k * Named(w.nuts, n) = 0
    BY <2>3
  <2> QED BY <2>1, <2>2, <2>4, <2>5
<1> QED BY <1>1, <1>3 DEF AsTold

(* What the file holds is torn or one of the orders that are saved, and    *)
(* from the moment a flow has saved its own it holds no other spoken one.  *)
Holds(orders) == file \in {NoFile, Torn} \/ file \in orders

OwnSpoken(t) ==
  at[t] \in {"result_ready", "dispatch"} /\ ~Holds({}) => (file.by = "flow" => file.wish = wish)

FileInv == Holds(Saved) /\ \A t \in Threads : OwnSpoken(t)

(* The file changes when it is opened, or a saved order is written.        *)
LEMMA OpenHolds ==
  ASSUME Open
  PROVE  Holds(Saved)' /\ \A t \in Threads : OwnSpoken(t)'
BY DEF Open, Holds, OwnSpoken

LEMMA WriteHolds ==
  ASSUME NEW saved \in Saved, Write(saved), Holds(Saved)
  PROVE  Holds(Saved)' /\ (Holds({})' \/ file' = saved)
BY DEF Write, Holds

LEMMA FileStep == AudioInv /\ FileInv /\ [Next]_vars => FileInv'
<1> SUFFICES ASSUME AudioInv, FileInv, [Next]_vars PROVE FileInv'
  OBVIOUS
<1>1. ASSUME file' = file, wish' = wish,
             \A t \in Threads : at'[t] \in {"result_ready", "dispatch"}
                                 => at[t] \in {"result_ready", "dispatch"}
      PROVE  FileInv'
  BY <1>1 DEF FileInv, Holds, OwnSpoken
<1>2. at \in [Threads -> Places] /\ OnlyNewest
  BY DEF AudioInv, AudioType
<1>3. CASE StartAudio
  <2>1. at' = at \/ \E u \in Threads : at' = [at EXCEPT ![u] = "begin"]
    BY <1>3 DEF StartAudio, NewThread, Alive
  <2> QED BY <1>1, <1>2, <1>3, <2>1 DEF StartAudio, heard, disk
<1>4. CASE StopAudio \/ Updating \/ UNCHANGED vars
  BY <1>1, <1>4 DEF StopAudio, Updating, EnsureWorker, WorkerStarts, TakeUpdate, WriteUpdate,
                    vars, audio, heard, disk
<1>5. ASSUME NEW t \in Threads, Flow(t) PROVE FileInv'
  <2>1. CASE RunOnceEnds(t) \/ (\E nuts \in AnalyzeJob : HearJob(t, nuts))
             \/ (\E satiety \in AnalyzeSatiety : HearSatiety(t, satiety))
    <3>1. /\ at[t] \in {"returned", "raised", "hear_job", "hear_satiety"}
          /\ \E to \in {"check", "failed", "ask_job", "ask_satiety", "recommending"} :
               at' = [at EXCEPT ![t] = to]
          /\ file' = file
      BY <2>1 DEF RunOnceEnds, HearJob, HearSatiety, Step, disk
    <3>2. \A u \in Threads : at'[u] \notin {"result_ready", "dispatch"}
      BY <1>2, <3>1 DEF OnlyNewest
    <3> QED BY <3>1, <3>2 DEF FileInv, Holds, OwnSpoken
  <2>2. CASE \/ Begin(t) \/ Check(t) \/ RunOnce(t) \/ Finally(t) \/ Leave(t)
             \/ OpenMic(t) \/ Wake(t) \/ HearingFails(t) \/ Dispatch(t)
    <3>1. /\ \E from, to \in Places \ {"result_ready", "dispatch"} : 
               (at[t] = from \/ at[t] = "dispatch") /\ at' = [at EXCEPT ![t] = to]
          /\ file' = file /\ wish' = wish
      BY <2>2 DEF Begin, Check, RunOnce, Finally, Leave, OpenMic, Wake, HearingFails, Dispatch,
                  Step, disk, heard, Places
    <3> QED BY <1>1, <1>2, <3>1
  <2>3. CASE Say(t)
    <3>1. /\ at[t] \in DOMAIN Says /\ at' = [at EXCEPT ![t] = Says[at[t]]]
          /\ file' = file /\ wish' = wish
      BY <2>3 DEF Say, Step, disk, heard
    <3>2. Says[at[t]] \in {"result_ready", "dispatch"} => at[t] = "result_ready"
      BY <3>1 DEF Says
    <3> QED BY <1>1, <1>2, <3>1, <3>2
  <2>4. CASE OpenFile(t)
    BY <2>4, OpenHolds DEF OpenFile, FileInv
  <2>5. CASE WriteFile(t)
    <3>1. PICK saved \in Saved :
            /\ saved.wish = wish /\ Write(saved) /\ wish' = wish
            /\ at[t] = "write" /\ \E to \in {"result_ready", "no_order"} : at' = [at EXCEPT ![t] = to]
      BY <2>5 DEF WriteFile, Step, heard
    <3>2. Holds(Saved)' /\ (Holds({})' \/ file' = saved)
      BY <3>1, WriteHolds DEF FileInv
    <3>3. \A u \in Threads : OwnSpoken(u)'
      BY <3>1, <3>2 DEF OwnSpoken
    <3> QED BY <3>2, <3>3 DEF FileInv
  <2> QED BY <1>5, <2>1, <2>2, <2>3, <2>4, <2>5 DEF Flow
<1>6. CASE Typing
  <2>1. CASE TypedSay \/ Type \/ TypedFails
    BY <1>1, <2>1 DEF TypedSay, Type, TypedFails, audio, heard, disk
  <2>2. CASE \E nuts \in AnalyzeJob, satiety \in AnalyzeSatiety : TypedOpen(nuts, satiety)
    BY <2>2, OpenHolds DEF TypedOpen, FileInv
  <2>3. CASE TypedWrite
    <3>1. PICK saved \in Saved : saved.by = "text" /\ Write(saved)
      BY <2>3 DEF TypedWrite
    <3>2. Holds(Saved)' /\ (Holds({})' \/ file' = saved)
      BY <3>1, WriteHolds DEF FileInv
    <3>3. \A u \in Threads : OwnSpoken(u)'
      BY <3>1, <3>2 DEF OwnSpoken
    <3> QED BY <3>2, <3>3 DEF FileInv
  <2> QED BY <1>6, <2>1, <2>2, <2>3 DEF Typing
<1> QED BY <1>3, <1>4, <1>5, <1>6 DEF Next

(* Whoever reads the order file, in whatever order the spoken and the typed*)
(* order wrote it, refuses it or gets as many of each known nut as whoever *)
(* gave that order was told, for every answer of the model and every       *)
(* satiety; and during a dispatch no earlier customer's spoken order       *)
(* (format_combo_text, build_latest_order_from_recommendation,             *)
(* save_latest_order_data, parse_order_file).                              *)
THEOREM OrdersAreAsTold == Spec => []OnlyAsTold
<1>1. Init => FileInv
  BY DEF Init, FileInv, Holds, OwnSpoken
<1>2. FileInv => OnlyAsTold
  <2> SUFFICES ASSUME FileInv PROVE OnlyAsTold
    OBVIOUS
  <2>1. Served => AsTold(file)
    BY SavedAsTold DEF FileInv, Holds, Served
  <2>2. \A t \in Threads : Confirmed(t) /\ Served /\ file.by = "flow" => file.wish = wish
    BY DEF FileInv, Holds, OwnSpoken, Confirmed, Served
  <2> QED BY <2>1, <2>2 DEF OnlyAsTold, AsTold
<1> QED BY <1>1, <1>2, FileStep, AudioInvariant, PTL DEF Spec
=============================================================================
