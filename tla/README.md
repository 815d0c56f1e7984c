# A verification development for the Molla orchestrator

The orchestrator sits between a telephone gateway (ClawOps) and three services:
speech-to-text, a language model and text-to-speech. For every call it listens,
asks, speaks, lets the user interrupt it, keeps a transcript, and delivers the
transcript to a backend when the call ends. All of it is Python `asyncio` code:
one event loop, many tasks, and hazards that live in the places where a task
waits.

This directory holds TLA+ modules that model that code, TLC configurations that
check them on small instances, and TLAPS proofs for all instances.

    tlc -workers 2 -config BargeIn.cfg MCCallSession     # one run
    tlapm CallSession_proofs.tla                         # the proofs

## 1. The system

| Component | State it keeps | Operations | Talks to | Hard behaviour |
|---|---|---|---|---|
| WebSocket loop (`main.py:174-287`) | the session of a connection | `start`, `media`, `stop`, disconnect, error | calls the session's methods and waits for them | an event in the middle of a call, an error in a handler, `close()` called by `stop` and again in `finally` |
| Call session (`session.py`) | `closed`, `_accepting_user_audio`, the STT task, `_response_tasks`, `_audio_upload_tasks`, `response_lock`, `sentence_buffer`, the pending audio, the last answered turn | the STT consumer, the response pipeline, greeting, time-out notice, playback, synthesis, uploads, `close()` | clients, transcript store, S3, backend, the caller's WebSocket | interleaving of all these tasks, barge-in with cancellation, errors in any of them |
| Clients (`clients.py`) | one STT WebSocket, two HTTP clients | `start`, `send_audio`, `receive_events`, `stream_tokens`, `stream_wav` | the three services | streams that end, fail or never end (`timeout=None`) |
| Transcript store (`transcript_store.py`) | sessions in memory (`_sessions`), one JSON file each | `start_session`, `append_turn`, `set_turn_audio_key`, `set_assistant_response`, `end_session`, `get_session`, `list_sessions` | the file system | a call id used twice, ids that share a file, a kill or a full disk in the middle of a write, files in an older format |
| Realtime media (`realtime_media.py`) | `calls`: one WebRTC peer per call, a task per audio track | `join_call`, `apply_answer`, `answer_renegotiation_offer`, `end_call` | agent control connection, Cloudflare (through aiortc) | a step of a command failing half way, tracks that end while their call ends, shutdown in the middle of a command |
| Agent control (`agent_control.py`) | the connection to the backend | connect, receive, reconnect | the realtime manager, whose commands it awaits one by one | reconnection while calls live on, commands lost with the connection |
| Audio (`audio.py`) | the WAV stream buffer | header removal, resampling, mu-law | session | streams cut at any byte |
| Storage, configuration, HTTP endpoints | none | one S3 PUT, reading the environment, stateless handlers | | |

What makes each part correct:

* **session** - one voice at a time; a new utterance silences the old answer;
  nothing of an interrupted answer reaches a later one; each utterance is asked
  about until it is answered and never after; a final always reaches the LLM;
  the notice of expiry is the last thing heard and the call is then hung up;
  `close()` leaves nothing running and delivers the transcript.
* **transcript store** - what was appended is found again, in memory and after a
  restart; sessions do not mix; the list agrees with what is read one by one.
* **realtime media** - at most one live peer per call, no audio consumed after the
  call ended, every command comes to an end.
* **agent control** - the connection is made again whatever happens; a shutdown ends it.
* **audio and text** - the samples that come out are those that went in, and all of
  an answer is said, however the network cuts it.

`PROJECT.json` lists the hazards line by line.

## 2. The modules

| Module | What it is |
|---|---|
| `CallSession` | one call: the WebSocket loop, the STT consumer, the tasks that speak, the uploads, the end of the call |
| `CallProgress` | why a call gets on: the parts of its liveness that one state can violate, and their inductive invariants |
| `Conversation` | the abstract specification of a call's transcript, without tasks, locks or network |
| `TranscriptStore` | all calls' transcripts: cache, files, restarts, failing writes |
| `Transcripts` | the abstract specification of the store: one transcript per id |
| `RealtimeMedia` | the control connection to the backend, and the WebRTC peers, tracks and tasks its commands make |
| `MediaCalls` | the abstract specification of the realtime calls: independent of each other and of the control connection |
| `WavStream` | one TTS stream: header removal, resampled lengths, frames |
| `MuLaw` | the mu-law codec, sample by sample |
| `Sentences` | how the tokens of an answer become sentences |
| `MCCallSession`, `MCTranscriptStore`, `MCRealtimeMedia`, `MCWavStream` | the instances that TLC checks; the last also checks `MuLaw` and `Sentences` |
| `CallSession_proofs`, `CallProgress_proofs`, `Conversation_proofs`, `TranscriptStore_proofs`, `RealtimeMedia_proofs`, `WavStream_proofs` | the theorems |

They compose as follows. `CallSession` implements `Conversation`, and
`TranscriptStore` implements `Transcripts`; the two meet in the calls
`CallSession` makes of the store. Each is one step in both, with the same two ends:
it succeeds, or it raises after memory has changed. Seen as a
stored transcript (`Stored`), a `Conversation` is a caller that `Transcripts` allows
(`UsesStore`). `RealtimeMedia` implements `MediaCalls` and shares no state with them:
the two kinds of calls run side by side in one process. `WavStream` and `Sentences` are what happens inside the steps of
`CallSession` that take a token and play a sentence. Definitions introduced by
"Mutant:" are plausible mistakes; each replaces its neighbour in turn to see that
a property notices.

### CallSession

A step is what one coroutine does between two points where it suspends, so the
interleavings of the model are those of the event loop. `TranscriptStore`
methods never suspend while they hold the store's lock: calling one is part of
the caller's step. Each changes the transcript in memory and then writes its file,
and the writing may raise (`"store" \in Failures`); what the call does then is an
action of its own (`StartFails`, `FinalNotStored`, `AnswerNotSaved`, `KeyNotSaved`,
`EndNotSaved`).

| State | In the code |
|---|---|
| `main` | where the WebSocket loop is: in `start()` before or after the backend's reply, in its loop, or at one of the awaits of `close()`; `aborted` when an exception left `close()` |
| `ws` | the caller's WebSocket: up, dropped by the peer, closed by the notice |
| `accepting`, `closed`, `expired`, `backendId` | `_accepting_user_audio`, `closed`, `_timeout_notice_sent`, `backend_session_id` |
| `stt`, `sttUp`, `interrupted` | the task `_consume_stt_events`, its connection, and the tasks that `asyncio.wait` waits for in a barge-in |
| `task[r]` | `Greeting`, the pipeline of turn `r`, `Notice`: not created, asleep, queued for `response_lock`, asking the LLM (`llm` before its first text, `stream` after), playing, cleaning up after a cancellation, and how it ended |
| `ahead[r]` | who was queued when `r` joined the queue: `asyncio.Lock` is fair, but passes over waiters that have been cancelled |
| `cancels` | tasks whose `cancel()` has been called and whose `CancelledError` has not been raised yet |
| `responseTasks`, `responseLock`, `sentenceBuffer` | the fields of the same name |
| `sentences[r]` | the TTS tasks of `r` that have not been played yet |
| `orphans` | tasks that are over and have left TTS tasks running |
| `noticed` | the caller has heard some of the notice |
| `nTurns`, `first`, `answered`, `lastGenerated`, `audioKeys`, `ended`, `delivered` | the transcript, the first turn of each query, `_last_generated_response_turn_index` |
| `pendingAudio`, `upload` | the recorded audio of the next turn, and the upload tasks in `_audio_upload_tasks`; a failed one stays there until its done callback has run (`ReapUpload`) |
| `closeWait` | what `close()` still awaits |

Texts are not in the model. A token either completes a sentence or not, a
sentence either has something to say or not (`_sanitize_tts_text`), a final is
either ignored (blank, echo, no longer accepted: nothing changes) or taken.

A barge-in is three steps, as in the code: the final is stored and the active
responses are cancelled (`BargeIn`); they unwind, in any order and at any speed;
the wait returns, because all are done or because a second has passed
(`BargeInReturns`, `BargeInRaises`). Time is not in the model, so the second may
pass at any point.

`close()` is the sequence of actions `CloseBegins`, `SttAwaited`,
`ResponseAwaited`, `ResponsesAwaited`, `UploadAwaited`, `UploadsAwaited`,
`EndSession`, `Deliver`, each of which may find an error that leaves `close()`
(`CloseAborts`): an STT task, a response or an upload that failed, a client that
raises while it is closed (`CloseClientRaises`), an `end_session` that cannot be
written (`EndNotSaved`).

What is simplified, and why that is sound:

* `playback_lock` is only taken inside `response_lock`, so it is never contended
  and has no state.
* A task that ended without an error leaves `_response_tasks` in the same step;
  in the code its done callback runs a moment later, and whoever reads the set
  meanwhile skips a task that is done. A failed one stays until `Reap`, because
  awaiting it raises.
* The TTS tasks that a cancelled greeting or notice, or a failed task, leaves
  behind run on until their streams end or `tts_client.close()` ends them
  (`session.py:326-344,177`). Which of them are still at work is not told apart:
  their task stays in `orphans` until all have ended. Nobody reads their frames.
* `Recorded` says before which turns the caller sends audio that is uploaded, to
  choose how many uploads a run has; turns without audio have none.
* A second cancellation that reaches a pipeline while it cleans up is swallowed
  by the handler at line 323, so it is not recorded.
* One `start` per connection, nothing after `stop`; `open()` has succeeded.

### Conversation and the refinement

`Conversation` says what a transcript is: utterances are made; a reply answers
all utterances since the previous reply up to some utterance; audio is recorded
for utterances; after the end nothing changes. If writes may fail
(`WritesMayFail`), a reply may be in the transcript that the call does not know of,
because `set_assistant_response` raised before the last answered turn was moved on
(`ReplyNotSaved`); the next reply then begins with the same utterance. `CallSession`
implements it under

    said <- nTurns, covered <- lastGenerated, recorded <- audioKeys, over <- ended,
    replies <- {[from |-> first[k], to |-> k] : k \in answered},
    WritesMayFail <- "store" \in Failures

checked as the property `TranscriptSpec` and proved as
`CallImplementsConversation`. What this rules out: an utterance that is lost
when its answer is interrupted, one that is answered twice (unless the first
answer could not be written), a query with a gap,
and an upload or answer that changes the transcript after `end_session` took the
copy that is delivered.

### CallProgress

Liveness under fairness is checked by TLC only, but most of what could break it
shows in a single state: a lock that nobody will hand on, a task that waits for a
sentence that does not exist, a `close()` that awaits a task nobody cancelled.
`CallProgress` states these as invariants, so that they can be proved:

* `LockMovesOn` - if somebody who is not cancelled waits for `response_lock`, it is
  held by a task at work, or one of the waiters gets it. The queue is where this
  could go wrong: waiters are cancelled while they wait, and those behind them wait
  for them too.
* `SpeakersMoveOn` - who plays has a sentence to play whose TTS task runs or is over;
  who cleans up awaits no TTS task that was not cancelled.
* `CloseAwaitsEnding` - every response `close()` still awaits has a cancellation
  pending, unwinds one, or is over; every upload runs or is over.
* `FinalIsPending` - the newest final has reached the LLM, or its pipeline waits for the
  lock uncancelled, or the barge-in that will make it has not returned.
* `NoticeHangsUp` - a notice that is over leaves a call that is over.
* `CloseReachesEnd` - no error stops `close()`.

### TranscriptStore and Transcripts

Each method is one action, because none suspends while it holds the lock.

| State | In the code |
|---|---|
| `memory[id]` | `_sessions`, by the id a caller asked for |
| `file[path]` | the JSON file, `NoFile`, or `CutFile`: emptied, and not (fully) written |

A transcript keeps the id that is written in it, for whom each turn was appended,
what is filled in later, and whether it is ended. `Persist` is `_persist_session`
with its three ends: it is written; the write fails, so memory has changed and the
file has not or is cut; the process is killed in the middle. A method that is
called while nothing in memory and only a cut file exists for an id raises, and
changes nothing: `Accessible` is false. `Load` reads both file formats.

`Transcripts` knows no cache, no files and no reading of files: there is one
transcript for each id, which changes as callers ask, and which a restart leaves
alone unless saving it had failed (`unsaved`). The mapping is `view <- View`, for
the ids whose file no other id has. For the other ids it does not hold, and
`MixOnlyWithinFile` says how far the damage goes. `HistoryKept` says the same in
terms of turns, and a little more: a turn that was shown once is still there, with
all that was filled in, unless the process is killed in the middle of a write of that
transcript, or starts again before a failed write was made good. A disk that is full
alone loses nothing while the process lives.

`Listings` is what `list_sessions` may return for a limit: all rows, or as many
of them as the limit allows. Rows are cut after sorting by start time, which the
model does not have, so which of them remain is left open. `ListingAgrees`
therefore says two things: what is listed for a private id is its transcript, once;
and a listing that is shorter than its limit leaves out no id that has one.

What the model shows of the code beyond its properties: a file that is cut
makes its id unusable for good, since every method raises, and makes
`list_sessions` raise for all ids; after a failed write the caller sees an
exception, and yet memory has the change, which the next write saves.

### RealtimeMedia

`run_forever` is one task: it reads a command, awaits its handler, and reads the
next. So the state of the handlers is one program counter (`doing`: what is being
awaited), the command and the peer in hand; the other tasks are those of the
tracks. Each `await` ends a step.

| State | In the code |
|---|---|
| `link` | where `run_forever` is: connecting, connected, connected to a peer that is gone, sleeping before the next attempt, ended |
| `inbox` | messages received and not read yet; they are lost with the connection |
| `calls` | `RealtimeMediaManager.calls` |
| `signal[p]` | `signalingState` of a peer, which decides what aiortc accepts |
| `media[t]` | the task of a track: running, cancelled, or failed and not discarded yet |
| `stopping` | `lifespan` has called `cancel()` |

An exception in a handler (`Raise`) closes the connection and leads to the next
attempt; peers stay as they are. A peer that is in no call, and no handler's hand,
is abandoned: nothing will ever close it. `AbandonDisconnects` says that this never
happens quietly, but only together with an error that drops the connection.
The cancellation at shutdown arrives at the current `await`, and ends the task
except in `end_call`, which takes it for the end of the media task it awaits.

`MediaCalls` knows no peers, tasks or descriptions: a call is connected or not, it is
heard or not, and each step is one call's. The mapping is `connected <- Connected`
(the calls with an entry), `heard <- Heard` (those with a running task). It says of
the code that commands for one call, failures in their handlers, a lost control
connection and the shutdown of its task leave every other call as it was, and that
`end_call` silences its own in the step that takes it out of `calls`, before it has
awaited anything.

Names of peers and tracks are used again once they are garbage, so that TLC needs
few; `Joins` keeps the backend from asking for a peer when none is left. aiortc is
external: modelled is what the code relies on, and that every call into it may raise.

### WavStream, MuLaw, Sentences

`WavStream` takes the stream in pieces of any size. A byte is its position in the
stream, so what comes out can be compared with the stream itself. The samples
are exactly those of the uncut stream (`SamplesIntact`), and
all that was converted is sent (`FramesCarryAll`). The length of what is heard is
not the same for all cuts, because each piece is resampled by itself and rounded;
`DriftBounded` says by how much it can differ: at most one telephone sample per
piece. `MuLaw` is the codec, of which all inputs are evaluated: codes survive
decoding and encoding, the order of loudness is kept, the error is that of G.711.

`Sentences` is the splitting of an answer into sentences while it arrives. All of
the answer is said in order (`AllIsSaid`), no complete sentence is held back
(`NothingWaits`), and a sentence ends with one of `.!?` unless it is long
(`NoSentenceIsTorn`). Where sentences are cut does depend on the tokens, as
`SENTENCE_END_RE` also matches at the end of what has arrived: `3.5` is cut in two
when a token ends after its point.

## 3. The runs

| Run | Instance | Shows |
|---|---|---|
| `barge_in` | 3 turns, 1 sentence per answer, the LLM may fail | `OneSpeaker`, `NoStaleAnswer`, `BufferIsolation`, `NoResend`, `FinalIsPending`, `TranscriptSpec`; `FinalReachesLlm` under fairness |
| `expiry` | 2 turns, a time limit, LLM, STT and backend may fail | `NoticeIsLast`, `NothingRunsOn`, `LockMovesOn`, `NoticeHangsUp`; `ExpiryHangsUp` under fairness |
| `closing` | 2 turns, 2 sentences, recording, nothing fails | `CloseReachesEnd`; `CloseDelivers` under fairness |
| `failures` | 2 turns, 2 sentences, the first turn is recorded; the caller, TTS, S3 and writes of the store may fail | `OneSpeaker`, `NoStaleAnswer`, `NothingRunsOn`, `SpeakersMoveOn`, `CloseAwaitsEnding`, `TranscriptSpec`, the inductive invariant `IInv` |
| `close_after_upload_failure` | an upload may fail | violates `CloseDelivers` |
| `expiry_tts_failure` | TTS may fail | violates `ExpiryHangsUp` |
| `final_tts_failure` | TTS may fail | violates `FinalReachesLlm` |
| `resumed` | the call id has one answered turn | violates `NoResend` |
| `store` | 3 ids, 2 of them with one file, failing and interrupted writes, listings of at most 1, 2 and 4 sessions | `MixOnlyWithinFile`, `ListingAgrees`, `KeepsPromise`, `HistoryKept` |
| `media` | 2 calls, 2 peers with 2 and 1 tracks, everything may fail | `RegisteredIsOpen`, `MediaOwned`, `AbandonDisconnects`, `CallsIndependent`; `Reconnects`, `EveryCommandEnds` under fairness |
| `shutdown_ends` | 1 call with 1 track, nothing fails | violates `ShutdownEnds` |
| `streaming` | a 44 byte header and 16 samples, 24 to 8 kHz, in any pieces | `SamplesIntact`, `DriftBounded`, `FramesCarryAll`; the codec; sentences |

**Bounds.** In the call runs `MaxTurns` bounds the finals of a call, `MaxSentences`
the sentences of one answer. Two turns are enough for every pair of tasks (greeting,
old pipeline, new pipeline, notice) to meet; with three a pipeline can still be
cleaning up while another is cancelled in the queue and a third is created, and a
query can combine three utterances. Two sentences are needed for a failed one
before or after the one that is played. In `failures` only the first turn is
recorded: uploads do not depend on each other, and a second one multiplies the
states; `closing` has both. That writes of the store may fail is only in `failures`,
where they meet the failures of the services that leave tasks behind.

In `store`, two ids with one file are needed for mixing and a third to see that it
is not affected; `MaxTurns` is one turn in the shared file (it can be either id's)
and two in the private one, so that a turn exists while a later one is added. One
field to fill in stands for both, which are set alike. The private file may exist at
first, in the old format; old files are also read apart from the run, all of up to
five entries (`OldFilesAreRead`), which is the only check of how they are read.
There are up to three sessions, so the limits of the listing cut two, one or none.
The two ids that share a file are symmetric.

In `media`, two calls and two peers are needed for one peer to be taken for the
other, two tracks on a peer for one to fail while the other is awaited. `MaxInbox`
is 1: a command that waits while another is handled. In `shutdown_ends` it is 2,
for the task that goes on to have something to read.

In `streaming` the header has its real length; the pieces may end at every
byte of it and of the samples. A frame has three bytes instead of 160, so that a
piece can complete none, one or several. Answers for `Sentences` have up to six
characters, and the limits are 3 and 4 instead of 48 and 96, so that both are met.

There are no state constraints: each instance is explored completely. Deadlock is
checked where the model is never meant to stop; `media`, `shutdown_ends` and
`streaming` end in a state of their own (the process stopped, the stream ended).

**Fairness.** Weak fairness on every step that the event loop takes by itself
(a task that can run will run), on the ends of TTS requests and uploads, on the
backend's reply and on the end of an LLM stream. These last ones are assumptions
about services: the clients have no time-out (`clients.py:58,99`), so a service that
never answers stops a call for as long as it likes. Nothing is assumed of the
caller: finals, media, `stop` and failures may happen or not.

In `RealtimeMedia`, weak fairness on the sleeping, reading and handling of the
control task and on the end of a cancelled task, which includes that what is awaited
from a peer comes to an end, well or badly; and strong fairness on `Connect`: the
backend does not refuse every attempt for ever (`run_forever` never gives up, so
the attempts go on). Nothing is assumed of commands, tracks or the shutdown.

## 4. What the violated properties say

* **A failed upload loses the transcript's delivery.** `close()` catches only
  `CancelledError` where it awaits other tasks (`session.py:157,165,171`). The
  error of a failed task leaves `close()`, and `end_session` and the PATCH never
  happen; `closed` is already true, so the second `close()` in `finally` does
  nothing. The same holds for a failed STT task and a response failing while
  `close()` waits for it. It does not even take a failing service: when the time of a
  call runs out during a barge-in, the notice is played first and closes the
  WebSocket, the answer queued behind it fails on its first frame, and a `close()` that
  comes before that failed task has been reaped is stopped by its error.
  `CloseNotStopped` (below) says when this cannot happen.
* **A failed notice does not hang up.** The error of its TTS task skips
  `websocket.close()` (`session.py:456-459`): the call stays open and deaf.
* **A failed TTS request can make the session deaf.** A pipeline that is
  interrupted after one of its sentences failed ends with that error instead of
  `CancelledError`; `task.result()` in the STT consumer (`session.py:365`) raises it
  there, and no later final is handled.
* **A call id used again asks old questions again.** The last answered turn is
  not restored from the transcript (`session.py:93`).
* **A shutdown can be swallowed.** `end_call` awaits each media task it has
  cancelled under `except asyncio.CancelledError: pass` (`realtime_media.py:167-170`),
  which also catches the cancellation that `lifespan` sends to the task that runs
  `end_call` (`main.py:79-84`). The task goes on with the next command, and the
  shutdown waits for it for ever.

### What a failing write of the store does to a call

No doc promises anything here, so there is no violated property for it; the model
has these behaviours, and the properties of the `failures` run hold in spite of them
or say where they do not:

* `set_assistant_response` raises (`session.py:281`): the answer is in the
  transcript, nothing is played, and `_last_generated_response_turn_index` stays.
  The call goes on, and the answered turn is asked about again with the next final:
  two replies to one utterance. So `NoResend` takes writes that succeed, and
  `TranscriptSpec` has `ReplyNotSaved`.
* `append_turn` raises (`session.py:574`): the turn is in the transcript, the STT task
  is over, and no pipeline is made for this turn or any later one. Nobody is interrupted
  either, so the answer to the turn before plays on; `NoStaleAnswer` excepts it
  (`Undisturbed`), and `FinalIsPending` takes writes that succeed.
* `end_session` raises (`session.py:178`): the transcript is not delivered.
  `set_turn_audio_key` raises: the upload's task has failed, as above.
* `start_session` raises: the call ends before it has a task.

## 5. The proofs

`CallSession_proofs` proves, for any number of turns and sentences, any set of
possible failures, with and without time limit and recording:

| Theorem | Property |
|---|---|
| `Invariant` | `IInv` |
| `TypeCorrect` | `TypeOK` |
| `SpeakersExclusive` | `OneSpeaker` |
| `StaleAnswersSilenced` | `NoStaleAnswer` |
| `BufferIsolated` | `BufferIsolation` |
| `TurnsNotResent` | `NoResend`, for a new call id (`PriorTurns = 0`) and if writes of the store succeed (`"store" \notin Failures`) |
| `CallImplementsConversation` | `TranscriptSpec`, for a new call id |

and `NoticeHeardLast`: `NoticeIsLast`, unless a TTS request fails (`"tts" \notin
Failures`; with one the notice's error leaves the call open, see above).

`CallProgress_proofs` proves, on top of it, that a call gets on, and under which
conditions the failures of section 4 cannot happen:

| Theorem | Property | Condition |
|---|---|---|
| `LockNeverStuck` | `LockMovesOn` | |
| `SpeakersNeverStuck` | `SpeakersMoveOn` | |
| `CloseNeverStuck` | `CloseAwaitsEnding` | |
| `CloseLeavesNothing` | `NothingRunsOn` | |
| `FinalNeverForgotten` | `FinalIsPending` | neither TTS requests nor writes of the store fail |
| `NoticeEndsCall` | `NoticeHangsUp` | TTS requests do not fail |
| `CloseNotStopped` | `CloseReachesEnd` | at most the backend fails, and the call has no time limit |

The conditions are needed. The runs `final_tts_failure` and `expiry_tts_failure` show
it for TTS; for `FinalNeverForgotten` and writes see section 4; for the last, TLC
finds a `close()` that is stopped when just one of LLM, TTS, STT, S3, the caller's
connection and the writes of the store may fail, and also when nothing fails but
there is a time limit.

`NothingRunsOn` speaks of everything that asks, speaks or writes the transcript: the
STT task, the responses, the notice and the uploads. TTS tasks may run on, but only
those that `OrphansExpected` allows: left by a task that failed, or by a greeting or
notice that was cancelled. The cleanup of a cancelled pipeline leaves none; that is
what `SentenceInv` is needed for in its proof.

`Conversation_proofs` proves, of every transcript that `Conversation` allows,
`RepliesAtLeastOnce`: each utterance up to the last answer belongs to a reply, and no
reply answers what was not said; and `RepliesExactlyOnce`: if writes do not fail, to
exactly one. With `CallImplementsConversation` they say so of every call with a new
id. It also proves
`ConversationUsesStore`: each step of a conversation is one that `Transcripts` allows a
caller, that is `UsesStore`. With `CallImplementsConversation` on one side and
`StoreImplementsTranscripts` on the other, this ties the call to the store.

The other components, for all values of their constants:

| Module | Theorem | Property |
|---|---|---|
| `TranscriptStore_proofs` | `TypeCorrect` | `TypeOK` |
| | `MixingConfined` | `MixOnlyWithinFile` |
| | `ListingIsTrue` | `ListingAgrees` |
| | `StoreImplementsTranscripts` | `KeepsPromise`: the store implements `Transcripts` |
| | `NoTurnLost` | `HistoryKept` |
| `RealtimeMedia_proofs` | `Invariant`, `TypeCorrect` | `IInv`, `TypeOK` |
| | `RegisteredPeersOpen` | `RegisteredIsOpen` |
| | `NoOrphanedMedia` | `MediaOwned` |
| | `AbandonedOnlyByDisconnect` | `AbandonDisconnects` |
| | `MediaImplementsCalls` | `CallsIndependent`: the calls implement `MediaCalls` |
| `WavStream_proofs` | `Invariant`, `TypeCorrect` | `IInv`, `TypeOK` |
| | `SamplesSurvive` | `SamplesIntact` |
| | `DriftIsBounded` | `DriftBounded` |
| | `NothingUnsent` | `FramesCarryAll` |

The assumptions are those on the constants that each module states: that there is
a file for each id, that what a file holds at first was written for ids of that
file, that markers such as `NoFile` are no transcripts, that rates and lengths are
positive.

None of the properties is inductive. For `CallSession`, `IInv` (at its end) adds

* `TaskInv` - a task is in a phase that owns the lock exactly if it owns it,
  live responses are in `_response_tasks`, and cancellations are only pending for
  tasks that can receive them. This gives `OneSpeaker`, and that what a barge-in
  and `close()` collect from `_response_tasks` is complete.
* `BeginningInv` - what a call has not reached yet is untouched; in particular
  the pipeline a barge-in is about to create does not exist.
* `NewestInv` - a task that is not cancelled belongs to the newest turn.
  `NoStaleAnswer` only speaks of those that hold the lock; the queued ones must
  be included, because they are the ones that get it next.
* `ClosingInv` - how far `close()` is determines what has ended: each await
  covers all that was running, and nothing is created after `closed`.
* `QueryInv` - queries start right after the last answered turn, and an answered
  turn never asks again.

The argument follows the code's own: `ActingStep` shows that only the four
actions that create a task let one act, `NoAskingStep` that only three actions
touch queries and answers, `QuietStep` and `LoopStep` what the rest leaves alone;
each part of `IInv` is then proved from the few actions that matter to it.

`NoticeInv` is a second layer on top of `IInv`: while the notice plays none of its
sentences has failed and nobody cancels it but `close()`, and once it is over the
call is hung up or closed.

The layers of `CallProgress` are:

* `QueueInv` - whoever is recorded as ahead of a waiter waits too, and nobody is
  ahead of somebody who is ahead of him. `LockIsHanded` then finds the waiter who
  gets a free lock: one who is not cancelled and has nobody ahead, or else one ahead
  of him.
* `SentenceInv` - which sentences fit which phase (`Fits`): none outside the lock, at
  least one while playing, none running while cleaning up. It is proved per task,
  by lemmas on how a sequence of sentences is extended, shortened and updated.
* `TrackedInv` - `_response_tasks` holds only tasks that exist. It is what
  `CloseAwaitsEnding` needs of the set `close()` copies.
* `InterruptInv` - what a barge-in waits for has its cancellation pending, unwinds it
  or ended by it; so `task.result()` raises nothing but `CancelledError`, the barge-in
  returns, and the pipeline is made. This is where a failed TTS request breaks the
  code.
* `FaultlessInv` - nothing that `close()` could await has failed. Without a time limit
  there is no notice, hence nobody but the caller closes the WebSocket under a
  speaker.

`TranscriptStore` needs one more fact, `FilesReadable`: a file that exists and is not
cut holds a transcript. The refinement goes action by action: a method that persists
is an `Update` of its own id, or a `Restart` when it is killed; one that only reads
is a stutter; and a call for an id that shares its file changes nothing that a
private id shows. `NoTurnLost` follows the same cases, with `ChangeExtends`: whatever a
method may make of a transcript contains it.

`RealtimeMedia` needs what each handler has in hand at each `await` (`HandlerInv`:
an answer is applied to the peer that is registered, one that is being closed is in
no call) and that a call being joined again is not registered before its offer is
made (`JoinedAfresh`). The second is where the code's order matters, `end_call`
before the new peer. The refinement of `MediaCalls` rests on the same facts: no two calls
have one peer, so a step that starts or stops tasks of one peer is a step of one call
(`TracksOfOne`), and a peer that is about to be entered has no running task, so that
a call is joined silent (`OfferedRefines`).

`WavStream` needs `BufferInv`: what has been returned and what is held back follow
from how many bytes have arrived, and not from how they were cut. The samples'
theorem follows at once; the drift is bounded by what one rounding can add
(`ResampledIsClose`), the frames by division with remainder.

`ListingIsTrue` follows from the same invariant: what is in memory for an id, or in
its file, was written for an id of that file, so only a private id itself can bring a
row for it, and its file adds none if memory has one (`RowsAreViews`). `ListingRows`
then says what a limit leaves of the rows.

Only model-checked: the liveness properties (the prover handles neither `ENABLED` nor
fairness; `CallProgress` has proved what of them can be said of states), the codec, the sentences and the reading of old files (finite inputs, and
recursion over data). `NoResend` and `TranscriptSpec` are theorems for calls with a
new id only; with an old one they do not hold, and `NoResend` does not if writes fail.

## 6. Not modelled

* Other texts than the splitting into sentences: echo detection (string similarity),
  removal of symbols, the LLM's history. A final that is ignored is a step
  that changes nothing.
* The values of resampled audio (only their number), base64, WAV headers of recorded
  turns, wire formats and sequence numbers.
* `open()` before the loop, a second `start` on one connection, events after `stop`.
* Two connections with one call id as two `CallSession`s: `TranscriptStore`
  has any order of calls for an id and so includes what they do to the store.
* Which offer an answer belongs to: an answer names its call only, so one that is late
  is applied to the new peer of a call joined again. The code cannot tell, and
  whether it happens is up to the backend.
* In a call: a `start_session` that raises because a cut file is in its way (like one
  that raises because it cannot write, but without a transcript; `TranscriptStore`
  has it), and a store that is killed (`TranscriptStore` has it too; the call's state
  is gone then).
* Which sessions started last, and so which of them a limited listing shows.
* That memory grows: `_sessions` keeps every transcript it was ever asked for.
* Stateless HTTP handlers, configuration, S3 keys, `build_agent_control_url`.

`PROJECT.json` names for each hazard without a property the reason.

## 7. What could come next

1. Two `CallSession`s with one id over one `TranscriptStore`.
2. A second `start`, and the start-up in `open()`, in `CallSession`.
3. Echo detection with its window of 12 seconds, over an abstract similarity.
