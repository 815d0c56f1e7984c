---------------------------- MODULE CallSession ----------------------------
(***************************************************************************)
(* One telephone call, as CallSession (session.py) runs it under the       *)
(* WebSocket loop of main.py.  All of it is one asyncio event loop: a step *)
(* of this specification is what one coroutine does between two points     *)
(* where it suspends.                                                      *)
(*                                                                         *)
(*   main      the WebSocket loop: start(), handle_media(), close()        *)
(*   stt       the task _consume_stt_events                                *)
(*   Greeting  the task _play_greeting                                     *)
(*   1..       the task _run_response_pipeline for the turn of that index  *)
(*   Notice    the task _run_timeout_after_delay                           *)
(*   upload    the tasks _upload_turn_audio, one per turn                  *)
(*   sentences the tasks _produce_sentence_audio of each of these tasks    *)
(*                                                                         *)
(* Methods of TranscriptStore never suspend while they hold the store's    *)
(* lock, so a call of one of them is part of the step that makes it.  Each *)
(* changes the transcript in memory and then writes its file; when writing *)
(* fails ("store" in Failures) it raises, and memory keeps the change.     *)
(* playback_lock is only taken inside response_lock (lines 237, 315, 453), *)
(* so taking it never suspends and it has no state of its own here.        *)
(* task.cancel() only marks a task: the CancelledError is raised when the  *)
(* task next runs (cancels, and the actions that empty it).                *)
(***************************************************************************)
EXTENDS Naturals, Sequences

CONSTANTS
    MaxTurns,      \* bound: turns in the transcript
    MaxSentences,  \* bound: sentences of one answer
    PriorTurns,    \* answered turns a resumed call id finds in its transcript
    Timed,         \* whether start carries remainingMinutes
    Recorded,      \* turns whose audio is to be uploaded: those before which
                   \* the caller sends some, if an audio bucket is configured
    Failures       \* what may fail: the caller's connection, the services,
                   \* the writes of the transcript store

ASSUME MaxTurnsAssumption == MaxTurns \in Nat \ {0}
ASSUME MaxSentencesAssumption == MaxSentences \in Nat \ {0}
ASSUME PriorTurnsAssumption == PriorTurns \in 0..MaxTurns
ASSUME TimedAssumption == Timed \in BOOLEAN
ASSUME FailuresAssumption ==
    Failures \subseteq {"peer", "stt", "llm", "tts", "s3", "backend", "store"}

Turn == 1..MaxTurns

ASSUME RecordedAssumption == Recorded \subseteq Turn

Greeting == 0
Notice == MaxTurns + 1
Response == 0..MaxTurns      \* the tasks close() and a barge-in look after
Task == 0..(MaxTurns + 1)
NoTask == MaxTurns + 2

VARIABLES
    \* the WebSocket loop and the fields close() and the timeout look at
    main,              \* where the loop is
    ws,                \* "up", "dropped" by the peer, "closed" by the notice
    accepting,         \* _accepting_user_audio
    closed,            \* closed
    expired,           \* _timeout_notice_sent
    backendId,         \* whether backend_session_id is set
    \* the speech-to-text consumer
    stt,               \* _stt_task
    sttUp,             \* whether the STT WebSocket is connected
    interrupted,       \* the tasks a barge-in waits for
    \* the tasks that speak
    task,              \* where each one is
    ahead,             \* who was waiting for response_lock when it queued
    cancels,           \* tasks with a cancellation not yet delivered
    responseTasks,     \* _response_tasks
    responseLock,      \* owner of response_lock
    sentenceBuffer,    \* whose tokens sentence_buffer holds
    sentences,         \* each task's TTS tasks, the played ones removed
    orphans,           \* tasks that are over and left TTS tasks running
    noticed,           \* the caller has heard some of the notice
    \* the transcript
    nTurns,            \* number of turns
    first,             \* first turn of the query sent for a turn, 0 if none
    answered,          \* turns with an assistant response
    audioKeys,         \* turns with an audio key
    lastGenerated,     \* _last_generated_response_turn_index
    ended,             \* ended_at is set
    delivered,         \* the transcript has been sent to the backend
    \* recorded audio
    pendingAudio,      \* _pending_user_audio is not empty
    upload,            \* the task of each turn in _audio_upload_tasks; one that
                       \* ended well has no effect there and counts as "done"
    closeWait          \* what close() still has to await

loopVars == <<main, ws, accepting, closed, expired, backendId>>
sttVars == <<stt, sttUp, interrupted>>
taskVars == <<task, ahead, cancels, responseTasks, responseLock>>
speechVars == <<sentenceBuffer, sentences, orphans, noticed>>
transcriptVars ==
    <<nTurns, first, answered, audioKeys, lastGenerated, ended, delivered>>
uploadVars == <<pendingAudio, upload>>
vars == <<loopVars, sttVars, taskVars, speechVars, transcriptVars,
          uploadVars, closeWait>>

SttListening == {"recv", "interrupting"}
Asking == {"llm", "stream"}  \* before and after the first text of the LLM
Holding == Asking \cup {"play", "cleanup"}
Live == {"queued"} \cup Holding
Finished == {"done", "failed", "cancelled"}
TaskPhase == {"none", "sleep"} \cup Live \cup Finished
SentenceState == {"run", "stopping", "ok", "failed", "cancelled"}
Receiving == {"fresh", "loop"}

TypeOK ==
    /\ main \in {"fresh", "backend", "stt_start", "loop", "await_stt",
                 "await_responses", "await_uploads", "ending", "delivering",
                 "closed", "aborted"}
    /\ ws \in {"up", "dropped", "closed"}
    /\ accepting \in BOOLEAN /\ closed \in BOOLEAN /\ expired \in BOOLEAN
    /\ backendId \in BOOLEAN
    /\ stt \in {"none"} \cup SttListening \cup Finished
    /\ sttUp \in BOOLEAN
    /\ interrupted \subseteq Response
    /\ task \in [Task -> TaskPhase]
    /\ ahead \in [Task -> SUBSET Task]
    /\ cancels \subseteq Task
    /\ responseTasks \subseteq Response
    /\ responseLock \in Task \cup {NoTask}
    /\ sentenceBuffer \subseteq Turn
    /\ sentences \in [Task -> Seq(SentenceState)]
    /\ orphans \subseteq Task
    /\ noticed \in BOOLEAN
    /\ nTurns \in 0..MaxTurns
    /\ first \in [Turn -> 0..MaxTurns]
    /\ answered \subseteq Turn
    /\ audioKeys \subseteq Turn
    /\ lastGenerated \in 0..MaxTurns
    /\ ended \in BOOLEAN /\ delivered \in BOOLEAN
    /\ pendingAudio \in BOOLEAN
    /\ upload \in [Turn -> {"none", "run", "done", "failed"}]
    /\ closeWait \subseteq Response

Init ==
    /\ main = "fresh"
    /\ ws = "up"
    /\ accepting = TRUE /\ closed = FALSE /\ expired = FALSE
    /\ backendId = FALSE
    /\ stt = "none" /\ sttUp = TRUE /\ interrupted = {}
    /\ task = [r \in Task |-> "none"]
    /\ ahead = [r \in Task |-> {}]
    /\ cancels = {} /\ responseTasks = {} /\ responseLock = NoTask
    /\ sentenceBuffer = {}
    /\ sentences = [r \in Task |-> <<>>]
    /\ orphans = {} /\ noticed = FALSE
    /\ nTurns = 0
    /\ first = [k \in Turn |-> 0]
    /\ answered = {} /\ audioKeys = {} /\ lastGenerated = 0
    /\ ended = FALSE /\ delivered = FALSE
    /\ pendingAudio = FALSE
    /\ upload = [k \in Turn |-> "none"]
    /\ closeWait = {}
-----------------------------------------------------------------------------
(***************************************************************************)
(* Tasks and response_lock.                                                *)
(***************************************************************************)
\* Mutant: only a response that is being played counts as active.
ActiveIfPlaying == {r \in responseTasks : task[r] = "play"}

\* _has_active_response, and the list _interrupt_active_responses makes.
ActiveResponses == {r \in responseTasks : task[r] \in Live}

\* task.cancel() on each of S.  A pipeline that is already awaiting its
\* sentence tasks swallows a second CancelledError and goes on (line 323).
MarkCancelled(S) == cancels' = cancels \cup {r \in S : task[r] # "cleanup"}

Waiting == {r \in Task : task[r] = "queued"}

\* create_task of a response, which then waits for response_lock.
Enqueue(r) ==
    /\ task' = [task EXCEPT ![r] = "queued"]
    /\ ahead' = [ahead EXCEPT ![r] = Waiting]

\* Mutant: those that wait behind r go on waiting for it.
DequeueStays(r, phase) ==
    /\ task' = [task EXCEPT ![r] = phase]
    /\ ahead' = [ahead EXCEPT ![r] = {}]

\* r no longer waits for response_lock.
Dequeue(r, phase) ==
    /\ task' = [task EXCEPT ![r] = phase]
    /\ ahead' = [q \in Task |-> IF q = r THEN {} ELSE ahead[q] \ {r}]

\* Mutant: nobody looks whether the lock is free.
LockIsForAnyone(r) ==
    /\ task[r] = "queued"
    /\ r \notin cancels
    /\ ahead[r] \subseteq cancels

\* asyncio.Lock hands the lock to the first waiter that is not cancelled.
LockIsFor(r) ==
    /\ task[r] = "queued"
    /\ r \notin cancels
    /\ responseLock = NoTask
    /\ ahead[r] \subseteq cancels

\* A finished task that did not fail is forgotten at once: its done callback
\* has no other effect than to discard it, and what reads _response_tasks
\* skips it or awaits it without effect.
Forget(r) == responseTasks' = responseTasks \ {r}

\* A task that is over awaits and cancels none of its TTS tasks any more.
Abandon(r) ==
    /\ sentences' = [sentences EXCEPT ![r] = <<>>]
    /\ orphans' = IF \E i \in DOMAIN sentences[r] :
                        sentences[r][i] \in {"run", "stopping"}
                  THEN orphans \cup {r} ELSE orphans

\* Mutants: a cancelled, or a failing, task does not release the lock.
LeaveLockedIf(lost, r, outcome) ==
    /\ task' = [task EXCEPT ![r] = outcome]
    /\ responseLock' = IF outcome = lost THEN responseLock ELSE NoTask
    /\ Abandon(r)
    /\ IF outcome = "failed" THEN UNCHANGED responseTasks ELSE Forget(r)

LeaveLockedWhenCancelled(r, outcome) == LeaveLockedIf("cancelled", r, outcome)
LeaveLockedWhenFailed(r, outcome) == LeaveLockedIf("failed", r, outcome)

\* A task leaves response_lock and is over.
Leave(r, outcome) ==
    /\ task' = [task EXCEPT ![r] = outcome]
    /\ responseLock' = NoTask
    /\ Abandon(r)
    /\ IF outcome = "failed" THEN UNCHANGED responseTasks ELSE Forget(r)

\* r is in this phase and runs undisturbed.
In(r, phase) == task[r] = phase /\ r \notin cancels
-----------------------------------------------------------------------------
(***************************************************************************)
(* The WebSocket loop: start, media, stop, disconnect.                     *)
(***************************************************************************)
\* start_session: a call id that was used before finds its old turns in the
\* transcript.
OpenTranscript ==
    /\ nTurns' = PriorTurns
    /\ answered' = 1..PriorTurns
    /\ first' = [k \in Turn |-> IF k <= PriorTurns THEN k ELSE 0]
    /\ UNCHANGED <<audioKeys, lastGenerated, ended, delivered>>

\* start up to the POST of _send_session_started.
Start ==
    /\ main = "fresh" /\ ws = "up"
    /\ main' = "backend"
    /\ OpenTranscript
    /\ UNCHANGED <<ws, accepting, closed, expired, backendId, sttVars,
                   taskVars, speechVars, uploadVars, closeWait>>

\* start_session raises; the handler's finally closes the session, which has
\* no task yet.
StartFails ==
    /\ "store" \in Failures
    /\ main = "fresh" /\ ws = "up"
    /\ main' = "await_stt"
    /\ OpenTranscript
    /\ closed' = TRUE
    /\ accepting' = FALSE
    /\ UNCHANGED <<ws, expired, backendId, sttVars, taskVars, speechVars,
                   uploadVars, closeWait>>

\* The POST returns, with a session id or without; the greeting task is made.
SessionStarted ==
    /\ main = "backend"
    /\ main' = "stt_start"
    /\ backendId' \in IF "backend" \in Failures THEN BOOLEAN ELSE {TRUE}
    /\ Enqueue(Greeting)
    /\ responseTasks' = responseTasks \cup {Greeting}
    /\ UNCHANGED <<ws, accepting, closed, expired, sttVars, cancels,
                   responseLock, speechVars, transcriptVars, uploadVars,
                   closeWait>>

\* stt_client.start returns: the STT and the timeout task are made.
SttStarted ==
    /\ main = "stt_start"
    /\ main' = "loop"
    /\ stt' = "recv"
    /\ task' = IF Timed THEN [task EXCEPT ![Notice] = "sleep"] ELSE task
    /\ UNCHANGED <<ws, accepting, closed, expired, backendId, sttUp,
                   interrupted, ahead, cancels, responseTasks, responseLock,
                   speechVars, transcriptVars, uploadVars, closeWait>>

\* Mutant: the timeout task is not cancelled.
CloseKeepsTimeout ==
    /\ main' = "await_stt"
    /\ closed' = TRUE
    /\ accepting' = FALSE
    /\ UNCHANGED <<ws, expired, backendId, sttVars, taskVars, speechVars,
                   transcriptVars, uploadVars, closeWait>>

\* close() up to the await of the STT task, which it has just cancelled.
CloseBegins ==
    /\ main' = "await_stt"
    /\ closed' = TRUE
    /\ accepting' = FALSE
    /\ cancels' = IF task[Notice] \in {"sleep"} \cup Live
                  THEN cancels \cup {Notice} ELSE cancels
    /\ UNCHANGED <<ws, expired, backendId, sttVars, task, ahead,
                   responseTasks, responseLock, speechVars, transcriptVars,
                   uploadVars, closeWait>>

\* stt_client.start raises; the handler's finally closes the session.
SttStartFails ==
    /\ "stt" \in Failures
    /\ main = "stt_start"
    /\ CloseBegins

Stop == main \in Receiving /\ ws = "up" /\ CloseBegins

ReceiveDisconnect == main \in Receiving /\ ws # "up" /\ CloseBegins

\* The caller's side goes away without a stop event.
PeerDrops ==
    /\ "peer" \in Failures
    /\ ws = "up"
    /\ ws' = "dropped"
    /\ UNCHANGED <<main, accepting, closed, expired, backendId, sttVars,
                   taskVars, speechVars, transcriptVars, uploadVars,
                   closeWait>>

\* handle_media.  The audio only matters if it is to be uploaded.
Media ==
    /\ main \in Receiving /\ ws = "up" /\ sttUp
    /\ accepting
    /\ pendingAudio' = (nTurns + 1 \in Recorded)
    /\ UNCHANGED <<loopVars, sttVars, taskVars, speechVars, transcriptVars,
                   upload, closeWait>>

\* handle_media when the STT connection is gone: send_audio raises.
MediaFails ==
    /\ main \in Receiving /\ ws = "up" /\ ~sttUp
    /\ accepting
    /\ CloseBegins
-----------------------------------------------------------------------------
(***************************************************************************)
(* The rest of close(): it awaits the STT task, the responses and the      *)
(* uploads in this order, and lets any error but CancelledError escape.    *)
(***************************************************************************)
CloseAborts ==
    /\ main' = "aborted"
    /\ ws' = IF ws = "up" THEN "dropped" ELSE ws
    /\ closeWait' = {}
    /\ UNCHANGED <<accepting, closed, expired, backendId, sttVars, taskVars,
                   speechVars, transcriptVars, uploadVars>>

\* Mutant: only a response that is being played is cancelled.
SttAwaitedPlaying ==
    /\ main = "await_stt"
    /\ stt \notin SttListening \cup {"failed"}
    /\ main' = "await_responses"
    /\ MarkCancelled(ActiveIfPlaying)
    /\ closeWait' = responseTasks
    /\ UNCHANGED <<ws, accepting, closed, expired, backendId, sttVars, task,
                   ahead, responseTasks, responseLock, speechVars,
                   transcriptVars, uploadVars>>

SttAwaited ==
    /\ main = "await_stt"
    /\ stt \notin SttListening \cup {"failed"}
    /\ main' = "await_responses"
    /\ MarkCancelled(ActiveResponses)
    /\ closeWait' = responseTasks
    /\ UNCHANGED <<ws, accepting, closed, expired, backendId, sttVars, task,
                   ahead, responseTasks, responseLock, speechVars,
                   transcriptVars, uploadVars>>

SttAwaitRaises == main = "await_stt" /\ stt = "failed" /\ CloseAborts

ResponseAwaited(r) ==
    /\ main = "await_responses"
    /\ r \in closeWait
    /\ task[r] \in {"done", "cancelled"}
    /\ closeWait' = closeWait \ {r}
    /\ UNCHANGED <<loopVars, sttVars, taskVars, speechVars, transcriptVars,
                   uploadVars>>

\* Mutant: the CancelledError of a response escapes from close() too.
CancelledResponseRaises(r) ==
    /\ main = "await_responses"
    /\ r \in closeWait
    /\ task[r] \in {"failed", "cancelled"}
    /\ CloseAborts

ResponseAwaitRaises(r) ==
    /\ main = "await_responses"
    /\ r \in closeWait
    /\ task[r] = "failed"
    /\ CloseAborts

\* Mutant: the uploads are not awaited.
ResponsesAwaitedOnly ==
    /\ main = "await_responses"
    /\ closeWait = {}
    /\ main' = "await_uploads"
    /\ UNCHANGED <<ws, accepting, closed, expired, backendId, sttVars,
                   taskVars, speechVars, transcriptVars, uploadVars,
                   closeWait>>

ResponsesAwaited ==
    /\ main = "await_responses"
    /\ closeWait = {}
    /\ main' = "await_uploads"
    /\ closeWait' = {k \in Turn : upload[k] \in {"run", "failed"}}
    /\ UNCHANGED <<ws, accepting, closed, expired, backendId, sttVars,
                   taskVars, speechVars, transcriptVars, uploadVars>>

UploadAwaited(k) ==
    /\ main = "await_uploads"
    /\ k \in closeWait
    /\ upload[k] = "done"
    /\ closeWait' = closeWait \ {k}
    /\ UNCHANGED <<loopVars, sttVars, taskVars, speechVars, transcriptVars,
                   uploadVars>>

UploadAwaitRaises(k) ==
    /\ main = "await_uploads"
    /\ k \in closeWait
    /\ upload[k] = "failed"
    /\ CloseAborts

UploadsAwaited ==
    /\ main = "await_uploads"
    /\ closeWait = {}
    /\ main' = "ending"
    /\ UNCHANGED <<ws, accepting, closed, expired, backendId, sttVars,
                   taskVars, speechVars, transcriptVars, uploadVars,
                   closeWait>>

\* The clients are closed; end_session, then the checks and the snapshot of
\* _send_completed_transcript, up to its PATCH.
EndSession ==
    /\ main = "ending"
    /\ ended' = TRUE
    /\ main' = IF backendId /\ nTurns > 0 THEN "delivering" ELSE "closed"
    /\ UNCHANGED <<ws, accepting, closed, expired, backendId, sttVars,
                   taskVars, speechVars, nTurns, first, answered, audioKeys,
                   lastGenerated, delivered, uploadVars, closeWait>>

\* One of the clients raises while it is closed (lines 175 to 177).
CloseClientRaises ==
    /\ Failures \cap {"stt", "llm", "tts"} # {}
    /\ main = "ending"
    /\ CloseAborts

\* end_session raises: nothing is delivered.
EndNotSaved ==
    /\ "store" \in Failures
    /\ main = "ending"
    /\ ended' = TRUE
    /\ main' = "aborted"
    /\ ws' = IF ws = "up" THEN "dropped" ELSE ws
    /\ UNCHANGED <<accepting, closed, expired, backendId, sttVars, taskVars,
                   speechVars, nTurns, first, answered, audioKeys,
                   lastGenerated, delivered, uploadVars, closeWait>>

\* The PATCH returns; a failure is only logged.
Deliver ==
    /\ main = "delivering"
    /\ main' = "closed"
    /\ \/ delivered' = TRUE
       \/ "backend" \in Failures /\ UNCHANGED delivered
    /\ UNCHANGED <<ws, accepting, closed, expired, backendId, sttVars,
                   taskVars, speechVars, nTurns, first, answered, audioKeys,
                   lastGenerated, ended, uploadVars, closeWait>>
-----------------------------------------------------------------------------
(***************************************************************************)
(* _consume_stt_events.  A final that is blank, an echo of the assistant,  *)
(* or that comes when user audio is no longer accepted changes nothing.    *)
(***************************************************************************)
\* _store_conversation_turn.
StoreTurn ==
    /\ nTurns < MaxTurns
    /\ nTurns' = nTurns + 1
    /\ pendingAudio' = FALSE
    /\ upload' = IF pendingAudio THEN [upload EXCEPT ![nTurns + 1] = "run"]
                 ELSE upload
    /\ UNCHANGED <<first, answered, audioKeys, lastGenerated, ended,
                   delivered>>

\* create_task(_run_response_pipeline(turn)), added to _response_tasks.
Respond(turn) ==
    /\ Enqueue(turn)
    /\ responseTasks' = responseTasks \cup {turn}

SttFinal ==
    /\ stt = "recv" /\ ~closed /\ accepting
    /\ ActiveResponses = {}
    /\ StoreTurn
    /\ Respond(nTurns + 1)
    /\ UNCHANGED <<loopVars, sttVars, cancels, responseLock, speechVars,
                   closeWait>>

\* A final while a response is active: the response is cancelled and waited
\* for, one second at most (line 362).
BargeIn ==
    /\ stt = "recv" /\ ~closed /\ accepting
    /\ ActiveResponses # {}
    /\ StoreTurn
    /\ stt' = "interrupting"
    /\ interrupted' = ActiveResponses
    /\ MarkCancelled(ActiveResponses)
    /\ UNCHANGED <<loopVars, sttUp, task, ahead, responseTasks, responseLock,
                   speechVars, closeWait>>

\* append_turn raises: the turn is in memory, but it gets no upload and no
\* pipeline, nobody is interrupted, and the STT task is over.
FinalNotStored ==
    /\ "store" \in Failures
    /\ stt = "recv" /\ ~closed /\ accepting
    /\ nTurns < MaxTurns
    /\ nTurns' = nTurns + 1
    /\ pendingAudio' = FALSE
    /\ stt' = "failed"
    /\ UNCHANGED <<loopVars, sttUp, interrupted, taskVars, speechVars, first,
                   answered, audioKeys, lastGenerated, ended, delivered,
                   upload, closeWait>>

\* Mutant: no answer if an interrupted task does not end within the second.
BargeInGivesUp ==
    /\ stt = "interrupting" /\ ~closed
    /\ \A r \in interrupted : task[r] # "failed"
    /\ stt' = "recv"
    /\ interrupted' = {}
    /\ IF \E r \in interrupted : task[r] \in Live
       THEN UNCHANGED <<task, ahead, responseTasks>> ELSE Respond(nTurns)
    /\ UNCHANGED <<loopVars, sttUp, cancels, responseLock, speechVars,
                   transcriptVars, uploadVars, closeWait>>

\* The wait is over: all have finished, or the second has passed.
BargeInReturns ==
    /\ stt = "interrupting" /\ ~closed
    /\ \A r \in interrupted : task[r] # "failed"
    /\ stt' = "recv"
    /\ interrupted' = {}
    /\ Respond(nTurns)
    /\ UNCHANGED <<loopVars, sttUp, cancels, responseLock, speechVars,
                   transcriptVars, uploadVars, closeWait>>

\* task.result() of an interrupted task raises (line 365).
BargeInRaises ==
    /\ stt = "interrupting" /\ ~closed
    /\ \E r \in interrupted : task[r] = "failed"
    /\ stt' = "failed"
    /\ interrupted' = {}
    /\ UNCHANGED <<loopVars, sttUp, taskVars, speechVars, transcriptVars,
                   uploadVars, closeWait>>

SttDrops ==
    /\ "stt" \in Failures
    /\ sttUp /\ stt \in SttListening
    /\ sttUp' = FALSE
    /\ UNCHANGED <<loopVars, stt, interrupted, taskVars, speechVars,
                   transcriptVars, uploadVars, closeWait>>

\* receive_events ends, or raises when the connection was lost.
SttEnds ==
    /\ stt = "recv" /\ ~sttUp /\ ~closed
    /\ stt' \in {"done", "failed"}
    /\ UNCHANGED <<loopVars, sttUp, interrupted, taskVars, speechVars,
                   transcriptVars, uploadVars, closeWait>>

\* close() has cancelled the task.
SttCancelled ==
    /\ stt \in SttListening /\ closed
    /\ stt' = "cancelled"
    /\ interrupted' = {}
    /\ UNCHANGED <<loopVars, sttUp, taskVars, speechVars, transcriptVars,
                   uploadVars, closeWait>>
-----------------------------------------------------------------------------
(***************************************************************************)
(* _run_response_pipeline.                                                 *)
(***************************************************************************)
\* Mutant: the last answered turn is pending too.
PendingFromAnswered(turn) ==
    {k \in 1..nTurns : lastGenerated <= k /\ k <= turn}

\* _pending_user_query: the turns after the last answered one, up to turn.
PendingTurns(turn) == {k \in 1..nTurns : lastGenerated < k /\ k <= turn}

\* Mutant: the turn after this one, when nothing is pending.
FirstPendingNext(turn) ==
    IF PendingTurns(turn) = {turn} THEN turn + 1
    ELSE CHOOSE k \in PendingTurns(turn) :
            \A j \in PendingTurns(turn) : k <= j

FirstPending(turn) ==
    IF PendingTurns(turn) = {} THEN turn
    ELSE CHOOSE k \in PendingTurns(turn) :
            \A j \in PendingTurns(turn) : k <= j

\* Mutant: the sentence buffer keeps the text of an interrupted answer.
AskLlmKeepsBuffer(turn) ==
    /\ LockIsFor(turn)
    /\ Dequeue(turn, "llm")
    /\ responseLock' = turn
    /\ first' = [first EXCEPT ![turn] = FirstPending(turn)]
    /\ UNCHANGED <<loopVars, sttVars, cancels, responseTasks, sentenceBuffer,
                   sentences, orphans, noticed, nTurns, answered, audioKeys,
                   lastGenerated, ended, delivered, uploadVars, closeWait>>

\* The pipeline gets response_lock, empties the sentence buffer and sends the
\* pending turns to the LLM.
AskLlm(turn) ==
    /\ LockIsFor(turn)
    /\ Dequeue(turn, "llm")
    /\ responseLock' = turn
    /\ sentenceBuffer' = {}
    /\ first' = [first EXCEPT ![turn] = FirstPending(turn)]
    /\ UNCHANGED <<loopVars, sttVars, cancels, responseTasks, sentences,
                   orphans, noticed, nTurns, answered, audioKeys,
                   lastGenerated, ended, delivered, uploadVars, closeWait>>

\* _enqueue_sentence_tasks: a TTS task for the sentence, unless nothing of it
\* is left to say.
EnqueueSentence(r) ==
    \/ /\ Len(sentences[r]) < MaxSentences
       /\ sentences' = [sentences EXCEPT ![r] = Append(@, "run")]
    \/ UNCHANGED sentences

\* A token that is not blank; it may complete a sentence.
LlmToken(turn) ==
    /\ task[turn] \in Asking /\ turn \notin cancels
    /\ task' = [task EXCEPT ![turn] = "stream"]
    /\ \/ /\ sentenceBuffer' = sentenceBuffer \cup {turn}
          /\ UNCHANGED sentences
       \/ /\ sentenceBuffer' \in {{}, {turn}}
          /\ EnqueueSentence(turn)
    /\ UNCHANGED <<loopVars, sttVars, ahead, cancels, responseTasks,
                   responseLock, orphans, noticed, transcriptVars, uploadVars,
                   closeWait>>

\* The stream ends without text: the turn stays pending.
EmptyAnswer(turn) ==
    /\ In(turn, "llm")
    /\ Leave(turn, "done")
    /\ UNCHANGED <<loopVars, sttVars, ahead, cancels, sentenceBuffer,
                   noticed, transcriptVars, uploadVars, closeWait>>

\* The stream ends: the answer goes into the transcript, and playback begins
\* if there is something to say, the rest of the buffer included.
Answer(turn) ==
    /\ In(turn, "stream")
    /\ answered' = answered \cup {turn}
    /\ lastGenerated' = IF turn > lastGenerated THEN turn ELSE lastGenerated
    /\ sentenceBuffer' = {}
    /\ \/ /\ \/ sentenceBuffer # {} /\ EnqueueSentence(turn)
             \/ sentenceBuffer = {} /\ UNCHANGED sentences
          /\ sentences'[turn] # <<>>
          /\ task' = [task EXCEPT ![turn] = "play"]
          /\ UNCHANGED <<responseLock, responseTasks, orphans>>
       \/ /\ sentences[turn] = <<>>
          /\ Leave(turn, "done")
    /\ UNCHANGED <<loopVars, sttVars, ahead, cancels, noticed, nTurns, first,
                   audioKeys, ended, delivered, uploadVars, closeWait>>

\* set_assistant_response raises (line 281): the turn has its answer, but the
\* last answered turn is not moved on and nothing is played.
AnswerNotSaved(turn) ==
    /\ "store" \in Failures
    /\ In(turn, "stream")
    /\ answered' = answered \cup {turn}
    /\ Leave(turn, "failed")
    /\ UNCHANGED <<loopVars, sttVars, ahead, cancels, sentenceBuffer, noticed,
                   nTurns, first, audioKeys, lastGenerated, ended, delivered,
                   uploadVars, closeWait>>

\* The LLM request fails.
LlmFails(turn) ==
    /\ "llm" \in Failures
    /\ task[turn] \in Asking /\ turn \notin cancels
    /\ Leave(turn, "failed")
    /\ UNCHANGED <<loopVars, sttVars, ahead, cancels, sentenceBuffer,
                   noticed, transcriptVars, uploadVars, closeWait>>
-----------------------------------------------------------------------------
(***************************************************************************)
(* Greeting, notice and playback.                                          *)
(***************************************************************************)
\* _play_system_message, once its caller has response_lock.
SpeakMessage(r) ==
    /\ r \in {Greeting, Notice}
    /\ LockIsFor(r)
    /\ Dequeue(r, "play")
    /\ responseLock' = r
    /\ sentences' = [sentences EXCEPT ![r] = <<"run">>]
    /\ UNCHANGED <<loopVars, sttVars, cancels, responseTasks, sentenceBuffer,
                   orphans, noticed, transcriptVars, uploadVars, closeWait>>

\* A frame of the current sentence is sent to the caller.
PlayFrame(r) ==
    /\ In(r, "play") /\ ws = "up"
    /\ noticed' = (noticed \/ r = Notice)
    /\ UNCHANGED <<loopVars, sttVars, taskVars, sentenceBuffer, sentences,
                   orphans, transcriptVars, uploadVars, closeWait>>

\* send_json raises: the WebSocket is gone.
SendFails(r) ==
    /\ In(r, "play") /\ ws # "up"
    /\ Leave(r, "failed")
    /\ UNCHANGED <<loopVars, sttVars, ahead, cancels, sentenceBuffer,
                   noticed, transcriptVars, uploadVars, closeWait>>

\* The current sentence has been played and others follow.
NextSentence(r) ==
    /\ In(r, "play")
    /\ Head(sentences[r]) = "ok" /\ Len(sentences[r]) > 1
    /\ sentences' = [sentences EXCEPT ![r] = Tail(@)]
    /\ UNCHANGED <<loopVars, sttVars, taskVars, sentenceBuffer, orphans,
                   noticed, transcriptVars, uploadVars, closeWait>>

\* Mutant: the WebSocket stays open after the notice.
PlaybackEndsOpen(r) ==
    /\ In(r, "play")
    /\ Head(sentences[r]) = "ok" /\ Len(sentences[r]) = 1
    /\ Leave(r, "done")
    /\ UNCHANGED <<loopVars, sttVars, ahead, cancels, sentenceBuffer, noticed,
                   transcriptVars, uploadVars, closeWait>>

\* The last sentence has been played.  After the notice, the WebSocket is
\* closed.
PlaybackEnds(r) ==
    /\ In(r, "play")
    /\ Head(sentences[r]) = "ok" /\ Len(sentences[r]) = 1
    /\ Leave(r, "done")
    /\ ws' = IF r = Notice /\ ws = "up" THEN "closed" ELSE ws
    /\ UNCHANGED <<main, accepting, closed, expired, backendId, sttVars,
                   ahead, cancels, sentenceBuffer, noticed, transcriptVars,
                   uploadVars, closeWait>>

\* await sentence.task raises (line 743).
SentenceRaises(r) ==
    /\ In(r, "play")
    /\ Head(sentences[r]) = "failed"
    /\ Leave(r, "failed")
    /\ UNCHANGED <<loopVars, sttVars, ahead, cancels, sentenceBuffer,
                   noticed, transcriptVars, uploadVars, closeWait>>

\* _produce_sentence_audio ends; a read error counts as an end (line 779).
Synthesised(r, i) ==
    /\ i \in DOMAIN sentences[r] /\ sentences[r][i] = "run"
    /\ sentences' = [sentences EXCEPT ![r][i] = "ok"]
    /\ UNCHANGED <<loopVars, sttVars, taskVars, sentenceBuffer, orphans,
                   noticed, transcriptVars, uploadVars, closeWait>>

TtsFails(r, i) ==
    /\ "tts" \in Failures
    /\ i \in DOMAIN sentences[r] /\ sentences[r][i] = "run"
    /\ sentences' = [sentences EXCEPT ![r][i] = "failed"]
    /\ UNCHANGED <<loopVars, sttVars, taskVars, sentenceBuffer, orphans,
                   noticed, transcriptVars, uploadVars, closeWait>>

\* A cancelled sentence task has closed its HTTP stream.
TtsStopped(r, i) ==
    /\ i \in DOMAIN sentences[r] /\ sentences[r][i] = "stopping"
    /\ sentences' = [sentences EXCEPT ![r][i] = "cancelled"]
    /\ UNCHANGED <<loopVars, sttVars, taskVars, sentenceBuffer, orphans,
                   noticed, transcriptVars, uploadVars, closeWait>>
-----------------------------------------------------------------------------
(***************************************************************************)
(* A cancelled task runs again.                                            *)
(***************************************************************************)
\* It was asleep, or waiting for response_lock.
WaiterCancelled(r) ==
    /\ r \in cancels
    /\ task[r] \in {"sleep", "queued"}
    /\ Dequeue(r, "cancelled")
    /\ Forget(r)
    /\ cancels' = cancels \ {r}
    /\ UNCHANGED <<loopVars, sttVars, responseLock, speechVars,
                   transcriptVars, uploadVars, closeWait>>

\* The greeting and the notice have no handler: they leave response_lock, and
\* their TTS task runs on if it has not ended.
MessageCancelled(r) ==
    /\ r \in cancels \cap {Greeting, Notice}
    /\ task[r] = "play"
    /\ Leave(r, "cancelled")
    /\ cancels' = cancels \ {r}
    /\ UNCHANGED <<loopVars, sttVars, ahead, sentenceBuffer, noticed,
                   transcriptVars, uploadVars, closeWait>>

\* Mutant: the sentence tasks are awaited but not cancelled.
CleanupAwaitsOnly(turn) ==
    /\ turn \in cancels
    /\ task[turn] \in Asking \cup {"play"}
    /\ task' = [task EXCEPT ![turn] = "cleanup"]
    /\ cancels' = cancels \ {turn}
    /\ UNCHANGED <<loopVars, sttVars, ahead, responseTasks, responseLock,
                   speechVars, transcriptVars, uploadVars, closeWait>>

\* The handler of a pipeline (line 317) cancels its sentence tasks and awaits
\* them, still inside response_lock.
CleanupBegins(turn) ==
    /\ turn \in cancels
    /\ task[turn] \in Asking \cup {"play"}
    /\ task' = [task EXCEPT ![turn] = "cleanup"]
    /\ sentences' = [sentences EXCEPT ![turn] =
          [i \in DOMAIN @ |-> IF @[i] = "run" THEN "stopping" ELSE @[i]]]
    /\ cancels' = cancels \ {turn}
    /\ UNCHANGED <<loopVars, sttVars, ahead, responseTasks, responseLock,
                   sentenceBuffer, orphans, noticed, transcriptVars,
                   uploadVars, closeWait>>

\* The sentence tasks of turn, up to the i-th, are no longer running.
StoppedUpTo(turn, i) == \A j \in 1..i : sentences[turn][j] # "stopping"

\* Mutant: the cancelled sentence tasks are not awaited.
CleanupEndsAtOnce(turn) ==
    /\ task[turn] = "cleanup"
    /\ \A i \in DOMAIN sentences[turn] : sentences[turn][i] # "failed"
    /\ Leave(turn, "cancelled")
    /\ UNCHANGED <<loopVars, sttVars, ahead, cancels, sentenceBuffer,
                   noticed, transcriptVars, uploadVars, closeWait>>

CleanupEnds(turn) ==
    /\ task[turn] = "cleanup"
    /\ StoppedUpTo(turn, Len(sentences[turn]))
    /\ \A i \in DOMAIN sentences[turn] : sentences[turn][i] # "failed"
    /\ Leave(turn, "cancelled")
    /\ UNCHANGED <<loopVars, sttVars, ahead, cancels, sentenceBuffer,
                   noticed, transcriptVars, uploadVars, closeWait>>

\* One of them had failed: its error replaces the CancelledError (line 322).
CleanupRaises(turn) ==
    /\ task[turn] = "cleanup"
    /\ \E i \in DOMAIN sentences[turn] :
          sentences[turn][i] = "failed" /\ StoppedUpTo(turn, i)
    /\ Leave(turn, "failed")
    /\ UNCHANGED <<loopVars, sttVars, ahead, cancels, sentenceBuffer,
                   noticed, transcriptVars, uploadVars, closeWait>>
-----------------------------------------------------------------------------
(***************************************************************************)
(* The timeout, the audio uploads and the done callbacks.                  *)
(***************************************************************************)
\* _handle_remaining_minutes_expired, up to its wait for response_lock.
Expire ==
    /\ In(Notice, "sleep")
    /\ accepting' = FALSE
    /\ expired' = TRUE
    /\ Enqueue(Notice)
    /\ UNCHANGED <<main, ws, closed, backendId, sttVars, cancels,
                   responseTasks, responseLock, speechVars, transcriptVars,
                   uploadVars, closeWait>>

\* upload_turn_audio returns and set_turn_audio_key stores the key.
UploadEnds(k) ==
    /\ upload[k] = "run"
    /\ upload' = [upload EXCEPT ![k] = "done"]
    /\ audioKeys' = audioKeys \cup {k}
    /\ UNCHANGED <<loopVars, sttVars, taskVars, speechVars, nTurns, first,
                   answered, lastGenerated, ended, delivered, pendingAudio,
                   closeWait>>

UploadFails(k) ==
    /\ "s3" \in Failures
    /\ upload[k] = "run"
    /\ upload' = [upload EXCEPT ![k] = "failed"]
    /\ UNCHANGED <<loopVars, sttVars, taskVars, speechVars, transcriptVars,
                   pendingAudio, closeWait>>

\* set_turn_audio_key raises.
KeyNotSaved(k) ==
    /\ "store" \in Failures
    /\ upload[k] = "run"
    /\ upload' = [upload EXCEPT ![k] = "failed"]
    /\ audioKeys' = audioKeys \cup {k}
    /\ UNCHANGED <<loopVars, sttVars, taskVars, speechVars, nTurns, first,
                   answered, lastGenerated, ended, delivered, pendingAudio,
                   closeWait>>

\* The done callback of _track_audio_upload_task: a failed upload is logged and
\* forgotten, unless close() has it on its list already.
ReapUpload(k) ==
    /\ upload[k] = "failed"
    /\ main # "await_uploads"
    /\ upload' = [upload EXCEPT ![k] = "done"]
    /\ UNCHANGED <<loopVars, sttVars, taskVars, speechVars, transcriptVars,
                   pendingAudio, closeWait>>

\* The TTS tasks that r left behind have ended: their streams did, or
\* tts_client.close() ended them (line 779).
OrphansEnd(r) ==
    /\ r \in orphans
    /\ orphans' = orphans \ {r}
    /\ UNCHANGED <<loopVars, sttVars, taskVars, sentenceBuffer, sentences,
                   noticed, transcriptVars, uploadVars, closeWait>>

\* The done callback of _track_task.
Reap(r) ==
    /\ r \in responseTasks /\ task[r] \in Finished
    /\ responseTasks' = responseTasks \ {r}
    /\ UNCHANGED <<loopVars, sttVars, task, ahead, cancels, responseLock,
                   speechVars, transcriptVars, uploadVars, closeWait>>
-----------------------------------------------------------------------------
Starting == Start \/ SessionStarted \/ SttStarted

Closing ==
    \/ SttAwaited \/ SttAwaitRaises
    \/ \E r \in Response : ResponseAwaited(r) \/ ResponseAwaitRaises(r)
    \/ ResponsesAwaited
    \/ \E k \in Turn : UploadAwaited(k) \/ UploadAwaitRaises(k)
    \/ UploadsAwaited
    \/ EndSession
    \/ Deliver

\* What the STT task does of itself.
SttRuns == BargeInReturns \/ BargeInRaises \/ SttEnds \/ SttCancelled

Pipeline(turn) ==
    \/ AskLlm(turn) \/ EmptyAnswer(turn) \/ Answer(turn)
    \/ CleanupBegins(turn) \/ CleanupEnds(turn) \/ CleanupRaises(turn)

Playback(r) ==
    \/ SpeakMessage(r)
    \/ SendFails(r) \/ NextSentence(r) \/ PlaybackEnds(r) \/ SentenceRaises(r)
    \/ WaiterCancelled(r) \/ MessageCancelled(r)

Synthesis(r, i) == Synthesised(r, i) \/ TtsStopped(r, i)

\* The caller, the network and the services: nothing makes these happen.
Environment ==
    \/ Stop \/ PeerDrops \/ Media \/ MediaFails \/ SttStartFails
    \/ SttFinal \/ BargeIn \/ SttDrops
    \/ StartFails \/ FinalNotStored \/ CloseClientRaises \/ EndNotSaved
    \/ \E turn \in Turn :
          \/ LlmToken(turn) \/ LlmFails(turn) \/ AnswerNotSaved(turn)
          \/ UploadFails(turn) \/ KeyNotSaved(turn)
    \/ \E r \in Task : PlayFrame(r)
    \/ \E r \in Task : \E i \in 1..MaxSentences : TtsFails(r, i)

\* The call is over and nothing of it runs any more.
Over ==
    /\ main \in {"closed", "aborted"}
    /\ UNCHANGED vars

Next ==
    \/ Starting \/ Closing \/ ReceiveDisconnect
    \/ SttRuns
    \/ \E turn \in Turn : Pipeline(turn)
    \/ \E r \in Task : Playback(r)
    \/ \E r \in Task : \E i \in 1..MaxSentences : Synthesis(r, i)
    \/ Expire
    \/ \E k \in Turn : UploadEnds(k) \/ ReapUpload(k)
    \/ \E r \in Task : OrphansEnd(r)
    \/ \E r \in Response : Reap(r)
    \/ Environment
    \/ Over

\* The event loop runs every task that can run, and the services answer: the
\* LLM ends its stream, TTS and S3 requests end, the backend replies.
Fairness ==
    /\ WF_vars(SessionStarted \/ SttStarted)
    /\ WF_vars(Closing)
    /\ WF_vars(ReceiveDisconnect)
    /\ WF_vars(SttRuns)
    /\ \A turn \in Turn : WF_vars(Pipeline(turn))
    /\ \A r \in Task : WF_vars(Playback(r))
    /\ \A r \in Task : \A i \in 1..MaxSentences : WF_vars(Synthesis(r, i))
    /\ WF_vars(Expire)
    /\ \A k \in Turn : WF_vars(UploadEnds(k) \/ ReapUpload(k))
    /\ \A r \in Task : WF_vars(OrphansEnd(r))
    /\ \A r \in Response : WF_vars(Reap(r))

Spec == Init /\ [][Next]_vars
FairSpec == Spec /\ Fairness
-----------------------------------------------------------------------------
(***************************************************************************)
(* Safety.                                                                 *)
(***************************************************************************)
\* Whoever asks the LLM, plays or cleans up holds response_lock, so there are
\* never two of them; and the lock is never left held by a task that is over,
\* which would silence the call for good.
OneSpeaker ==
    /\ \A r, q \in Task : task[r] \in Holding /\ task[q] \in Holding => r = q
    /\ \A r \in Task : responseLock = r <=> task[r] \in Holding

\* The task that speaks when the transcript has n turns.
SpeakerOf(n) == IF n = PriorTurns THEN Greeting ELSE n

\* Storing the newest turn raised, so it has no pipeline, and the STT task,
\* which is over, has not interrupted r, the speaker before it.
Undisturbed(r) ==
    /\ "store" \in Failures /\ stt = "failed"
    /\ nTurns > PriorTurns /\ task[nTurns] = "none"
    /\ r = SpeakerOf(nTurns - 1)

\* Once a new utterance is in the transcript, the answer to an earlier one is
\* neither generated nor played any more, whether or not the interrupted task
\* ended within the second the barge-in waits; unless storing that utterance
\* raised.
NoStaleAnswer ==
    \A r \in Response :
        task[r] \in Asking \cup {"play"} /\ r \notin cancels =>
            r = SpeakerOf(nTurns) \/ Undisturbed(r)

\* sentence_buffer belongs to the session, not to a pipeline: what it holds
\* while a pipeline reads tokens is only that pipeline's own text, so nothing
\* of an interrupted answer is spoken in a later one.
BufferIsolation ==
    \A turn \in Turn : task[turn] \in Asking => sentenceBuffer \subseteq {turn}

\* A query asks the LLM about no turn that has already been answered.  It takes
\* store writes that succeed: when the one of an answer raises, the turn has
\* its answer and is asked about again with the next.
NoResend ==
    \A turn \in Turn :
        task[turn] \in Asking => (first[turn]..turn) \cap answered = {}

\* After the caller has heard the notice that the time is used up, no other
\* voice follows it before the call is closed.
NoticeIsLast ==
    noticed /\ ~closed /\ ws = "up" =>
        \A r \in Response : ~In(r, "play")

\* close() has awaited every task it knows of.
AllAwaited == main \in {"ending", "delivering", "closed"} \/ ended

\* A TTS task may outlive its task only when that one failed, or was the
\* greeting or the notice and has been cancelled; the cleanup of a cancelled
\* pipeline leaves none.
OrphansExpected ==
    \A r \in orphans :
        \/ task[r] = "failed"
        \/ r \in {Greeting, Notice} /\ task[r] = "cancelled"

\* When close() closes the session's clients and ends its transcript, the STT
\* task, all responses and all uploads are over, and the notice is, or its
\* cancellation is pending: nobody asks the LLM, speaks to the caller or writes
\* the transcript again.  All that may still run are TTS tasks left by a
\* failed task or a cancelled greeting or notice, whose frames nobody reads.
NothingRunsOn ==
    AllAwaited =>
        /\ stt \notin SttListening
        /\ \A r \in Task : task[r] \in {"sleep"} \cup Live =>
              r = Notice /\ r \in cancels
        /\ \A k \in Turn : upload[k] # "run"
        /\ OrphansExpected

\* The transcript is the one Conversation describes: each utterance up to the
\* last answer is part of one answered query (a second one only if writing an
\* answer failed), and the transcript does not change after end_session took
\* the copy that is sent to the backend.
Answers == {[from |-> first[k], to |-> k] : k \in answered}

Transcript == INSTANCE Conversation WITH
    said <- nTurns, covered <- lastGenerated, replies <- Answers,
    recorded <- audioKeys, over <- ended,
    WritesMayFail <- "store" \in Failures

TranscriptSpec == Transcript!Spec
-----------------------------------------------------------------------------
(***************************************************************************)
(* Liveness.                                                               *)
(***************************************************************************)
\* README.md:107: when the time is used up the notice is played and then the
\* WebSocket is closed.
ExpiryHangsUp == expired ~> (ws # "up" \/ closed)

\* README.md:111: at the end of a session its transcript is sent to the
\* backend (if the backend knows the session and there are turns).
CloseDelivers == (closed /\ backendId /\ nTurns > 0) ~> delivered

\* README.md:10: an STT final makes the session call the LLM, unless the user
\* goes on speaking or the call is closed first.
FinalReachesLlm ==
    \A turn \in Turn :
        (nTurns = turn /\ turn > PriorTurns) ~>
            (first[turn] # 0 \/ nTurns > turn \/ closed)
-----------------------------------------------------------------------------
(***************************************************************************)
(* The inductive invariant of the proofs.                                  *)
(***************************************************************************)
Open == {"fresh", "backend", "stt_start", "loop"}
NotYetListening == {"fresh", "backend", "stt_start"}

\* Which phases each kind of task has, and who holds the lock.
TaskInv ==
    /\ \A r \in Task : responseLock = r <=> task[r] \in Holding
    /\ \A r \in {Greeting, Notice} : task[r] \notin Asking \cup {"cleanup"}
    /\ \A r \in Response : task[r] # "sleep"
    /\ \A r \in Response : task[r] \in Live => r \in responseTasks
    /\ \A r \in cancels : task[r] \in {"sleep"} \cup (Live \ {"cleanup"})

\* What has not been reached yet is as Init left it.
BeginningInv ==
    /\ main \in {"fresh", "backend"} => \A r \in Task : task[r] = "none"
    /\ main \in NotYetListening => stt = "none" /\ task[Notice] = "none"
    /\ main = "fresh" =>
          nTurns = 0 /\ answered = {} /\ first = [k \in Turn |-> 0]
    /\ main \in {"backend", "stt_start", "loop"} => PriorTurns <= nTurns
    /\ main \in {"backend", "stt_start"} => nTurns = PriorTurns
    /\ nTurns < PriorTurns => nTurns = 0 /\ stt = "none"
    /\ stt = "interrupting" => nTurns > PriorTurns /\ task[nTurns] = "none"
    /\ \A turn \in Turn : turn > nTurns =>
          task[turn] = "none" /\ upload[turn] = "none"

\* A task that can still act is the one of the newest turn.
NewestInv ==
    \A r \in Response :
        task[r] \in Live \ {"cleanup"} /\ r \notin cancels =>
            r = SpeakerOf(nTurns) \/ Undisturbed(r)

\* How far close() has got, and what is over by then.
ClosingInv ==
    /\ closed <=> main \notin Open
    /\ main \in {"await_responses", "await_uploads"} \/ AllAwaited =>
          stt \notin SttListening
    /\ main = "await_responses" =>
          \A r \in Response : task[r] \in Live => r \in closeWait
    /\ main = "await_uploads" \/ AllAwaited =>
          \A r \in Response : task[r] \notin Live
    /\ main = "await_uploads" =>
          \A k \in Turn : upload[k] = "run" => k \in closeWait
    /\ AllAwaited => \A k \in Turn : upload[k] # "run"
    /\ closed /\ task[Notice] \in {"sleep"} \cup Live => Notice \in cancels
    /\ ended => main \in {"delivering", "closed", "aborted"}

\* With a new call id: which queries have been sent and answered.
QueryInv ==
    /\ lastGenerated <= nTurns
    /\ lastGenerated # 0 => lastGenerated \in answered
    /\ \A k \in answered : task[k] \notin {"none", "queued"} \cup Asking
    /\ "store" \notin Failures => \A k \in answered : k <= lastGenerated
    /\ \A turn \in Turn : task[turn] \in Asking =>
          first[turn] = lastGenerated + 1 /\ lastGenerated < turn
    /\ \A k \in audioKeys : k <= nTurns

IInv ==
    /\ TypeOK
    /\ TaskInv
    /\ BufferIsolation
    /\ BeginningInv
    /\ NewestInv
    /\ ClosingInv
    /\ PriorTurns = 0 => QueryInv

\* Besides, if TTS requests do not fail: the notice keeps response_lock from
\* its first frame until the WebSocket is closed, and only close() cancels it.
NoticeInv ==
    /\ noticed => task[Notice] \in {"play"} \cup Finished
    /\ noticed /\ task[Notice] \in Finished => closed \/ ws # "up"
    /\ Notice \in cancels => closed
    /\ \A i \in DOMAIN sentences[Notice] : sentences[Notice][i] # "failed"
    /\ task[Notice] = "play" => sentences[Notice] # <<>>
=============================================================================
