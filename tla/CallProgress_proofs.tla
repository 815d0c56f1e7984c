------------------------ MODULE CallProgress_proofs ------------------------
(***************************************************************************)
(* Proofs about CallProgress for every value of the constants.             *)
(***************************************************************************)
EXTENDS CallSession_proofs, CallProgress

USE DEF loopVars, sttVars, taskVars, speechVars, transcriptVars, uploadVars

(***************************************************************************)
(* How a step moves tasks.  Only Enqueue and Dequeue change who waits; a   *)
(* task that acts of itself is not cancelled; and a cancellation is only   *)
(* taken from cancels by the task it is for.                               *)
(***************************************************************************)
Same == UNCHANGED <<task, ahead>> /\ cancels \subseteq cancels'

Joins(r) ==
    /\ task[r] \in {"none", "sleep"}
    /\ Enqueue(r)
    /\ UNCHANGED cancels

Acquires(r) == (r \in Turn /\ AskLlm(r)) \/ SpeakMessage(r)

Proceeds(r) ==
    /\ r \notin cancels /\ UNCHANGED cancels
    /\ task[r] \in Holding
    /\ UNCHANGED ahead
    /\ \E phase \in {"stream", "play"} \cup Finished :
          /\ task' = [task EXCEPT ![r] = phase]
          /\ task[r] = "cleanup" => phase = "cancelled" \/ CleanupRaises(r)

Stops(r) ==
    /\ r \in cancels /\ cancels' = cancels \ {r}
    /\ task[r] \in Holding
    /\ UNCHANGED ahead
    /\ \E phase \in {"cleanup", "cancelled"} : task' = [task EXCEPT ![r] = phase]

\* The tasks a step makes, or wakes, begin to wait for response_lock.
LEMMA JoinSteps ==
    ASSUME TypeOK, BeginningInv,
           SessionStarted \/ SttFinal \/ BargeInReturns \/ Expire
    PROVE  \E r \in Task : Joins(r)
<1>1. CASE SessionStarted
  <2>1. task[Greeting] = "none" /\ Greeting \in Task
    BY <1>1, TaskSets DEF BeginningInv, SessionStarted
  <2>. QED  BY <1>1, <2>1 DEF SessionStarted, Joins
<1>2. CASE SttFinal
  <2>1. nTurns + 1 \in Turn /\ nTurns + 1 > nTurns
    BY <1>2, MaxTurnsAssumption DEF TypeOK, SttFinal, StoreTurn, Turn
  <2>2. task[nTurns + 1] = "none"
    BY <2>1 DEF BeginningInv
  <2>. QED  BY <1>2, <2>1, <2>2, TaskSets DEF SttFinal, Respond, Joins
<1>3. CASE BargeInReturns
  <2>1. nTurns \in Task /\ task[nTurns] = "none"
    BY <1>3, MaxTurnsAssumption DEF TypeOK, BeginningInv, BargeInReturns, Task
  <2>. QED  BY <1>3, <2>1 DEF BargeInReturns, Respond, Joins
<1>4. CASE Expire
  BY <1>4, TaskSets DEF Expire, In, Joins
<1>. QED  BY <1>1, <1>2, <1>3, <1>4

LEMMA TaskMoves ==
    ASSUME TypeOK, TaskInv, BeginningInv, [Next]_vars
    PROVE  \/ Same \/ SttStarted
           \/ \E r \in Task : \/ Joins(r) \/ Acquires(r) \/ Proceeds(r)
                              \/ WaiterCancelled(r) \/ Stops(r)
<1>. DEFINE Goal ==
        \/ Same \/ SttStarted
        \/ \E r \in Task : \/ Joins(r) \/ Acquires(r) \/ Proceeds(r)
                           \/ WaiterCancelled(r) \/ Stops(r)
<1>1. ASSUME \/ Start \/ CloseBegins \/ PeerDrops \/ Media \/ CloseAborts
             \/ SttAwaited \/ \E r \in Response : ResponseAwaited(r)
             \/ ResponsesAwaited \/ \E k \in Turn : UploadAwaited(k)
             \/ UploadsAwaited \/ EndSession \/ EndNotSaved \/ Deliver
             \/ StartFails \/ FinalNotStored \/ BargeIn
             \/ BargeInRaises \/ SttDrops \/ SttEnds \/ SttCancelled
             \/ \E r \in Task : PlayFrame(r) \/ NextSentence(r)
             \/ \E r \in Task : \E i \in 1..MaxSentences :
                   Synthesised(r, i) \/ TtsStopped(r, i) \/ TtsFails(r, i)
             \/ \E k \in Turn : \/ UploadEnds(k) \/ UploadFails(k)
                               \/ KeyNotSaved(k) \/ ReapUpload(k)
             \/ \E r \in Response : Reap(r)
             \/ \E r \in Task : OrphansEnd(r)
             \/ UNCHANGED vars
      PROVE  Goal
  BY <1>1 DEF Start, StartFails, CloseBegins, PeerDrops, Media, CloseAborts,
       SttAwaited, ResponseAwaited, ResponsesAwaited, UploadAwaited,
       UploadsAwaited, EndSession, EndNotSaved, Deliver, FinalNotStored,
       BargeIn, MarkCancelled, BargeInRaises, SttDrops, SttEnds, SttCancelled,
       PlayFrame, NextSentence, Synthesised, TtsStopped, TtsFails, UploadEnds,
       UploadFails, KeyNotSaved, ReapUpload, Reap, OrphansEnd, vars, Same
<1>2. ASSUME SessionStarted \/ SttFinal \/ BargeInReturns \/ Expire
      PROVE  Goal
  BY <1>2, JoinSteps
<1>3. ASSUME NEW r \in Task, (r \in Turn /\ AskLlm(r)) \/ SpeakMessage(r)
      PROVE  Goal
  BY <1>3 DEF Acquires
<1>4. ASSUME NEW r \in Task,
             \/ r \in Turn /\ (LlmToken(r) \/ EmptyAnswer(r) \/ Answer(r)
                               \/ AnswerNotSaved(r) \/ LlmFails(r))
             \/ SendFails(r) \/ PlaybackEnds(r) \/ SentenceRaises(r)
      PROVE  Goal
  <2>1. r \notin cancels /\ UNCHANGED <<cancels, ahead>>
        /\ task[r] \in Holding \ {"cleanup"}
    BY <1>4 DEF LlmToken, EmptyAnswer, Answer, AnswerNotSaved, LlmFails,
         SendFails, PlaybackEnds, SentenceRaises, In, Holding, Asking
  <2>2. \E phase \in {"stream", "play"} \cup Finished :
           task' = [task EXCEPT ![r] = phase]
    BY <1>4 DEF LlmToken, EmptyAnswer, Answer, AnswerNotSaved, LlmFails,
         SendFails, PlaybackEnds, SentenceRaises, Leave, Finished
  <2>. QED  BY <2>1, <2>2 DEF Proceeds
<1>5. ASSUME NEW r \in Task, r \in Turn, CleanupEnds(r) \/ CleanupRaises(r)
      PROVE  Goal
  <2>1. task[r] = "cleanup" /\ r \notin cancels /\ UNCHANGED <<cancels, ahead>>
    BY <1>5 DEF CleanupEnds, CleanupRaises, TaskInv
  <2>2. \/ task' = [task EXCEPT ![r] = "cancelled"]
        \/ task' = [task EXCEPT ![r] = "failed"] /\ CleanupRaises(r)
    BY <1>5 DEF CleanupEnds, CleanupRaises, Leave
  <2>. QED  BY <2>1, <2>2 DEF Proceeds, Holding, Finished
<1>6. ASSUME NEW r \in Task, MessageCancelled(r) \/ (r \in Turn /\ CleanupBegins(r))
      PROVE  Goal
  BY <1>6 DEF MessageCancelled, CleanupBegins, Leave, Stops, Holding
<1>7. ASSUME SttStarted \/ \E r \in Task : WaiterCancelled(r) PROVE Goal
  BY <1>7
<1>. HIDE DEF Goal
<1>8. Goal
  BY <1>1, <1>2, <1>3, <1>4, <1>5, <1>6, <1>7, TaskSets
  DEF Next, Starting, Closing, ReceiveDisconnect, SttRuns, Pipeline, Playback,
      Synthesis, Environment, Over, Stop, MediaFails, SttStartFails,
      SttAwaitRaises, ResponseAwaitRaises, UploadAwaitRaises,
      CloseClientRaises
<1>. QED  BY <1>8 DEF Goal
-----------------------------------------------------------------------------
(***************************************************************************)
(* Nobody waits in vain for response_lock.                                 *)
(***************************************************************************)
LEMMA QueueStep ==
    ASSUME TypeOK, TaskInv, BeginningInv, QueueInv, [Next]_vars
    PROVE  QueueInv'
<1>0. task \in [Task -> TaskPhase] /\ ahead \in [Task -> SUBSET Task]
      /\ Notice \in Task
  BY TaskSets DEF TypeOK
<1>1. ASSUME UNCHANGED ahead,
             \A q \in Task : task'[q] = "queued" <=> task[q] = "queued"
      PROVE  QueueInv'
  BY <1>1 DEF QueueInv, Waiting
<1>2. ASSUME NEW r \in Task, Joins(r) PROVE QueueInv'
  <2>1. /\ task' = [task EXCEPT ![r] = "queued"] /\ task[r] # "queued"
        /\ ahead' = [ahead EXCEPT ![r] = Waiting]
    BY <1>2 DEF Joins, Enqueue
  <2>2. Waiting' = Waiting \cup {r} /\ r \notin Waiting
    BY <1>0, <2>1 DEF Waiting
  <2>3. \A q \in Task : ahead'[q] = IF q = r THEN Waiting ELSE ahead[q]
    BY <1>0, <2>1
  <2>4. \A q \in Task : r \notin ahead[q] /\ ahead[q] \subseteq Waiting
    BY <2>2 DEF QueueInv
  <2>5. Waiting \subseteq Task
    BY DEF Waiting
  <2>6. ASSUME NEW q \in Task, NEW s \in ahead'[q]
        PROVE  s \in Waiting /\ q \notin ahead'[s]
    <3>1. s \in Waiting /\ s # r /\ s \in Task
      BY <2>2, <2>3, <2>4, <2>5, <2>6
    <3>2. ahead'[s] = ahead[s]
      BY <2>3, <3>1
    <3>. QED  BY <2>3, <2>4, <2>6, <3>1, <3>2 DEF QueueInv
  <2>. QED  BY <2>2, <2>6 DEF QueueInv
<1>3. ASSUME NEW r \in Task, NEW phase, phase # "queued", Dequeue(r, phase)
      PROVE  QueueInv'
  <2>1. /\ \A q \in Task : ahead'[q] = IF q = r THEN {} ELSE ahead[q] \ {r}
        /\ Waiting' = Waiting \ {r}
    BY <1>0, <1>3 DEF Dequeue, Waiting
  <2>. QED  BY <1>0, <2>1 DEF QueueInv
<1>4. CASE Same
  BY <1>1, <1>4 DEF Same
<1>5. CASE SttStarted
  <2>1. task[Notice] = "none"
    BY <1>5 DEF BeginningInv, SttStarted, NotYetListening
  <2>. QED  BY <1>0, <1>1, <1>5, <2>1 DEF SttStarted
<1>6. ASSUME NEW r \in Task, Acquires(r) \/ WaiterCancelled(r) PROVE QueueInv'
  BY <1>3, <1>6 DEF Acquires, AskLlm, SpeakMessage, WaiterCancelled
<1>7. ASSUME NEW r \in Task, Proceeds(r) \/ Stops(r) PROVE QueueInv'
  BY <1>0, <1>1, <1>7 DEF Proceeds, Stops, Holding, Asking, Finished
<1>. QED  BY <1>2, <1>4, <1>5, <1>6, <1>7, TaskMoves

\* Two waiters that nobody has cancelled are the newest response and the
\* notice, so neither can be behind someone who is behind the other.  (If
\* storing the newest turn raised, the one before is the newest response.)
LEMMA LockIsHanded == IInv /\ QueueInv => LockMovesOn
<1>. SUFFICES ASSUME IInv, QueueInv, NEW w \in Waiting, w \notin cancels
              PROVE  \/ \E r \in Task : responseLock = r /\ task[r] \in Holding
                     \/ \E r \in Task : LockIsFor(r)
  BY DEF LockMovesOn
<1>1. CASE responseLock # NoTask
  BY <1>1 DEF IInv, TypeOK, TaskInv
<1>2. CASE responseLock = NoTask
  <2>1. \E s : \A q \in Waiting \ cancels : q \in {s, Notice}
    <3>1. \A q \in Waiting \ cancels :
             q = Notice \/ q = SpeakerOf(nTurns) \/ Undisturbed(q)
      BY TaskSets DEF IInv, NewestInv, Waiting, Live
    <3>2. CASE \E q \in Waiting \ cancels : Undisturbed(q)
      <4>1. SpeakerOf(nTurns) \notin Waiting
        <5>1. nTurns > PriorTurns /\ task[nTurns] = "none"
          BY <3>2 DEF Undisturbed
        <5>2. SpeakerOf(nTurns) = nTurns
          BY <5>1, PriorTurnsAssumption, MaxTurnsAssumption
          DEF SpeakerOf, IInv, TypeOK
        <5>. QED  BY <5>1, <5>2 DEF Waiting
      <4>2. \A q : Undisturbed(q) => q = SpeakerOf(nTurns - 1)
        BY DEF Undisturbed
      <4>. QED  BY <3>1, <4>1, <4>2
    <3>. QED  BY <3>1, <3>2
  <2>2. ASSUME NEW q \in Waiting, q \notin cancels, ahead[q] \subseteq cancels
        PROVE  LockIsFor(q) /\ q \in Task
    BY <1>2, <2>2 DEF Waiting, LockIsFor
  <2>3. CASE ahead[w] \subseteq cancels
    BY <2>2, <2>3
  <2>4. ASSUME NEW x \in ahead[w], x \notin cancels
        PROVE  \E r \in Task : LockIsFor(r)
    <3>1. x \in Waiting /\ x # w /\ w \notin ahead[x]
      BY <2>4 DEF QueueInv, Waiting
    <3>2. ASSUME NEW y \in ahead[x], y \notin cancels PROVE FALSE
      <4>1. y \in Waiting /\ y # x /\ y # w
        BY <3>1, <3>2 DEF QueueInv, Waiting
      <4>. QED  BY <2>1, <2>4, <3>1, <3>2, <4>1
    <3>. QED  BY <2>2, <2>4, <3>1, <3>2
  <2>. QED  BY <2>3, <2>4
<1>. QED  BY <1>1, <1>2

\* Whoever waits for response_lock and has not been cancelled is behind a
\* task that is at work, or somebody gets the lock now: a cancelled waiter
\* never keeps the others from it.
THEOREM LockNeverStuck == Spec => []LockMovesOn
<1>1. Init => QueueInv
  BY DEF Init, QueueInv
<1>2. IInv /\ QueueInv /\ [Next]_vars => QueueInv'
  BY QueueStep DEF IInv
<1>3. IInv /\ QueueInv => LockMovesOn
  BY LockIsHanded
<1>. QED  BY <1>1, <1>2, <1>3, Invariant, PTL DEF Spec
-----------------------------------------------------------------------------
(***************************************************************************)
(* Nobody waits in vain for a sentence.                                    *)
(***************************************************************************)
\* A sentence is added while the LLM answers.
LEMMA FitsAppend ==
    ASSUME NEW s \in Seq(SentenceState), NEW phase \in Asking, Fits(phase, s),
           NEW next \in {"stream", "play"}
    PROVE  Fits(next, Append(s, "run"))
<1>1. /\ DOMAIN Append(s, "run") = 1..(Len(s) + 1)
      /\ \A i \in 1..Len(s) : Append(s, "run")[i] = s[i]
      /\ Append(s, "run")[Len(s) + 1] = "run"
      /\ Append(s, "run") # <<>>
      /\ Len(s) \in Nat /\ DOMAIN s = 1..Len(s)
  BY AppendProperties, LenProperties DEF SentenceState
<1>2. \A i \in DOMAIN Append(s, "run") :
        i \in DOMAIN s \/ Append(s, "run")[i] = "run"
  BY <1>1
<1>. QED  BY <1>1, <1>2 DEF Fits, Holding, Asking

\* The sentence that has been played is removed.
LEMMA FitsTail ==
    ASSUME NEW s \in Seq(SentenceState), Fits("play", s), Len(s) > 1
    PROVE  Fits("play", Tail(s))
<1>1. \A i \in DOMAIN Tail(s) : i + 1 \in DOMAIN s /\ Tail(s)[i] = s[i + 1]
  OBVIOUS
<1>2. Tail(s) # <<>>
  BY TailNotEmpty
<1>. QED  BY <1>1, <1>2 DEF Fits, Holding

\* A TTS task ends or is stopped.
LEMMA FitsUpdate ==
    ASSUME NEW s \in Seq(SentenceState), NEW phase, Fits(phase, s),
           NEW i \in DOMAIN s, NEW state \in {"ok", "failed", "cancelled"},
           state = "failed" => "tts" \in Failures,
           state = "cancelled" => s[i] = "stopping"
    PROVE  Fits(phase, [s EXCEPT ![i] = state])
<1>. DEFINE u == [s EXCEPT ![i] = state]
<1>1. /\ DOMAIN u = DOMAIN s
      /\ \A j \in DOMAIN s : u[j] = IF j = i THEN state ELSE s[j]
  OBVIOUS
<1>2. s # <<>> /\ u # <<>>
  BY <1>1
<1>. HIDE DEF u
<1>3. Fits(phase, u)
  BY <1>1, <1>2 DEF Fits, Holding, Asking
<1>. QED  BY <1>3 DEF u

\* A pipeline that is cancelled cancels its TTS tasks.
LEMMA FitsStopped ==
    ASSUME NEW s \in Seq(SentenceState), NEW phase, Fits(phase, s)
    PROVE  Fits("cleanup",
                [i \in DOMAIN s |-> IF s[i] = "run" THEN "stopping" ELSE s[i]])
BY DEF Fits, Holding, Asking

\* A step after which only r has another phase or other sentences.
LEMMA OneSpeaks ==
    ASSUME SentenceInv, NEW r \in Task,
           \A q \in Task : q # r => /\ task'[q] = task[q]
                                    /\ sentences'[q] = sentences[q],
           Fits(task'[r], sentences'[r])
    PROVE  SentenceInv'
BY DEF SentenceInv, Fits

LEMMA SentenceStep ==
    ASSUME TypeOK, TaskInv, BeginningInv, SentenceInv, [Next]_vars
    PROVE  SentenceInv'
<1>0. /\ task \in [Task -> TaskPhase] /\ Turn \subseteq Task
      /\ sentences \in [Task -> Seq(SentenceState)]
      /\ Notice \in Task /\ Greeting \in Task
  BY TaskSets DEF TypeOK
<1>f. \A r \in Task : Fits(task[r], sentences[r])
  BY DEF SentenceInv
<1>1. ASSUME UNCHANGED <<task, sentences>> PROVE SentenceInv'
  BY <1>1 DEF SentenceInv, Fits
<1>2. ASSUME NEW r \in Task, NEW phase, UNCHANGED sentences,
             task' = [task EXCEPT ![r] = phase], task[r] \notin Holding,
             phase \notin {"play", "cleanup"}
      PROVE  SentenceInv'
  <2>1. sentences[r] = <<>>
    BY <1>2, <1>f DEF Fits
  <2>2. Fits(task'[r], sentences'[r])
    BY <1>0, <1>2, <2>1 DEF Fits, Holding
  <2>. QED  BY <1>0, <1>2, <2>2, OneSpeaks
<1>3. ASSUME NEW r \in Task, NEW outcome \in Finished, Leave(r, outcome)
      PROVE  SentenceInv'
  <2>1. Fits(task'[r], sentences'[r])
    BY <1>0, <1>3 DEF Leave, Abandon, Fits, Finished, Holding, Asking
  <2>. QED  BY <1>0, <1>3, <2>1, OneSpeaks DEF Leave, Abandon
<1>4. ASSUME NEW r \in Task, NEW s, NEW phase, Fits(phase, s),
             task' = [task EXCEPT ![r] = phase],
             sentences' = [sentences EXCEPT ![r] = s]
      PROVE  SentenceInv'
  BY <1>0, <1>4, OneSpeaks
<1>5. ASSUME NEW r \in Task, NEW s, Fits(task[r], s), UNCHANGED task,
             sentences' = [sentences EXCEPT ![r] = s]
      PROVE  SentenceInv'
  BY <1>0, <1>5, OneSpeaks
<1>6. ASSUME \/ Start \/ CloseBegins \/ PeerDrops \/ Media \/ CloseAborts
             \/ SttAwaited \/ \E r \in Response : ResponseAwaited(r)
             \/ ResponsesAwaited \/ \E k \in Turn : UploadAwaited(k)
             \/ UploadsAwaited \/ EndSession \/ EndNotSaved \/ Deliver
             \/ StartFails \/ FinalNotStored \/ BargeIn
             \/ BargeInRaises \/ SttDrops \/ SttEnds \/ SttCancelled
             \/ \E r \in Task : PlayFrame(r) \/ OrphansEnd(r)
             \/ \E k \in Turn : \/ UploadEnds(k) \/ UploadFails(k)
                               \/ KeyNotSaved(k) \/ ReapUpload(k)
             \/ \E r \in Response : Reap(r)
             \/ UNCHANGED vars
      PROVE  SentenceInv'
  <2>1. UNCHANGED <<task, sentences>>
    BY <1>6 DEF Start, StartFails, CloseBegins, PeerDrops, Media, CloseAborts,
         SttAwaited, ResponseAwaited, ResponsesAwaited, UploadAwaited,
         UploadsAwaited, EndSession, EndNotSaved, Deliver, FinalNotStored,
         BargeIn, BargeInRaises, SttDrops, SttEnds, SttCancelled, PlayFrame,
         OrphansEnd, UploadEnds, UploadFails, KeyNotSaved, ReapUpload, Reap,
         vars
  <2>. QED  BY <1>1, <2>1
<1>7. ASSUME SessionStarted \/ SttFinal \/ BargeInReturns \/ Expire
      PROVE  SentenceInv'
  <2>1. UNCHANGED sentences
    BY <1>7 DEF SessionStarted, SttFinal, BargeInReturns, Expire
  <2>2. PICK r \in Task : Joins(r)
    BY <1>7, JoinSteps
  <2>. QED  BY <1>2, <2>1, <2>2 DEF Joins, Enqueue, Holding, Asking
<1>8. ASSUME SttStarted PROVE SentenceInv'
  <2>1. task[Notice] = "none" /\ UNCHANGED sentences
    BY <1>8 DEF BeginningInv, SttStarted, NotYetListening
  <2>2. \/ UNCHANGED task \/ task' = [task EXCEPT ![Notice] = "sleep"]
    BY <1>8 DEF SttStarted
  <2>. QED  BY <1>0, <1>1, <1>2, <2>1, <2>2 DEF Holding, Asking
<1>9. ASSUME NEW r \in Task, (r \in Turn /\ AskLlm(r)) \/ WaiterCancelled(r)
      PROVE  SentenceInv'
  <2>1. UNCHANGED sentences /\ task[r] \in {"sleep", "queued"}
    BY <1>9 DEF AskLlm, LockIsFor, WaiterCancelled
  <2>2. \E phase \in {"llm", "cancelled"} : task' = [task EXCEPT ![r] = phase]
    BY <1>9 DEF AskLlm, WaiterCancelled, Dequeue
  <2>. QED  BY <1>2, <2>1, <2>2 DEF Holding, Asking
<1>10. ASSUME NEW r \in Task, SpeakMessage(r) PROVE SentenceInv'
  <2>1. Fits("play", <<"run">>)
    BY DEF Fits, Holding, Asking
  <2>. QED  BY <1>4, <1>10, <2>1 DEF SpeakMessage, Dequeue
<1>11. ASSUME NEW r \in Task, r \in Turn, LlmToken(r) PROVE SentenceInv'
  <2>1. task[r] \in Asking /\ task' = [task EXCEPT ![r] = "stream"]
    BY <1>11 DEF LlmToken
  <2>2. /\ Fits("stream", sentences[r])
        /\ Fits("stream", Append(sentences[r], "run"))
    BY <1>0, <1>f, <2>1, FitsAppend DEF Fits, Holding, Asking
  <2>3. \/ sentences' = [sentences EXCEPT ![r] = sentences[r]]
        \/ sentences' = [sentences EXCEPT ![r] = Append(sentences[r], "run")]
    BY <1>0, <1>11 DEF LlmToken, EnqueueSentence
  <2>. QED  BY <1>4, <2>1, <2>2, <2>3
<1>12. ASSUME NEW r \in Task, r \in Turn, Answer(r) PROVE SentenceInv'
  <2>1. task[r] = "stream"
    BY <1>12 DEF Answer, In
  <2>2. CASE Leave(r, "done")
    BY <1>3, <2>2 DEF Finished
  <2>3. CASE /\ sentences'[r] # <<>> /\ task' = [task EXCEPT ![r] = "play"]
             /\ EnqueueSentence(r) \/ UNCHANGED sentences
    <3>1. \/ sentences' = [sentences EXCEPT ![r] = sentences[r]]
          \/ sentences' = [sentences EXCEPT ![r] = Append(sentences[r], "run")]
      BY <1>0, <2>3 DEF EnqueueSentence
    <3>2. Fits("play", Append(sentences[r], "run"))
      BY <1>0, <1>f, <2>1, FitsAppend DEF Asking
    <3>3. sentences[r] # <<>> => Fits("play", sentences[r])
      BY <1>f, <2>1 DEF Fits, Holding, Asking
    <3>. QED  BY <1>0, <1>4, <2>3, <3>1, <3>2, <3>3
  <2>. QED  BY <1>12, <2>2, <2>3 DEF Answer
<1>13. ASSUME NEW r \in Task,
              \/ r \in Turn /\ (EmptyAnswer(r) \/ LlmFails(r)
                                \/ AnswerNotSaved(r)
                                \/ CleanupEnds(r) \/ CleanupRaises(r))
              \/ SendFails(r) \/ PlaybackEnds(r) \/ SentenceRaises(r)
              \/ MessageCancelled(r)
       PROVE  SentenceInv'
  <2>1. \E outcome \in Finished : Leave(r, outcome)
    BY <1>13 DEF EmptyAnswer, LlmFails, AnswerNotSaved, CleanupEnds,
         CleanupRaises, SendFails, PlaybackEnds, SentenceRaises,
         MessageCancelled, Finished
  <2>. QED  BY <1>3, <2>1
<1>14. ASSUME NEW r \in Task, r \in Turn, CleanupBegins(r) PROVE SentenceInv'
  <2>1. /\ task' = [task EXCEPT ![r] = "cleanup"]
        /\ sentences' = [sentences EXCEPT ![r] =
               [i \in DOMAIN sentences[r] |->
                   IF sentences[r][i] = "run" THEN "stopping"
                   ELSE sentences[r][i]]]
    BY <1>0, <1>14 DEF CleanupBegins
  <2>. QED  BY <1>0, <1>f, <1>4, <2>1, FitsStopped
<1>15. ASSUME NEW r \in Task, NextSentence(r) PROVE SentenceInv'
  <2>1. /\ task[r] = "play" /\ Len(sentences[r]) > 1 /\ UNCHANGED task
        /\ sentences' = [sentences EXCEPT ![r] = Tail(sentences[r])]
    BY <1>15 DEF NextSentence, In
  <2>2. Fits("play", Tail(sentences[r]))
    BY <1>0, <1>f, <2>1, FitsTail
  <2>. QED  BY <1>5, <2>1, <2>2
<1>16. ASSUME NEW r \in Task, NEW i \in 1..MaxSentences,
              Synthesised(r, i) \/ TtsStopped(r, i) \/ TtsFails(r, i)
       PROVE  SentenceInv'
  <2>1. PICK state \in {"ok", "failed", "cancelled"} :
           /\ sentences' = [sentences EXCEPT ![r][i] = state]
           /\ i \in DOMAIN sentences[r] /\ UNCHANGED task
           /\ state = "failed" => "tts" \in Failures
           /\ state = "cancelled" => sentences[r][i] = "stopping"
    BY <1>16 DEF Synthesised, TtsStopped, TtsFails
  <2>2. Fits(task[r], [sentences[r] EXCEPT ![i] = state])
    BY <1>0, <1>f, <2>1, FitsUpdate
  <2>. QED  BY <1>5, <2>1, <2>2
<1>. QED
  BY <1>6, <1>7, <1>8, <1>9, <1>10, <1>11, <1>12, <1>13, <1>14, <1>15, <1>16,
     TaskSets
  DEF Next, Starting, Closing, ReceiveDisconnect, SttRuns, Pipeline, Playback,
      Synthesis, Environment, Over, Stop, MediaFails, SttStartFails,
      SttAwaitRaises, ResponseAwaitRaises, UploadAwaitRaises,
      CloseClientRaises

\* A task that plays always has a next sentence whose TTS task runs or is
\* over, and one that cleans up has cancelled all the TTS tasks it awaits.
THEOREM SpeakersNeverStuck == Spec => []SpeakersMoveOn
<1>1. Init => SentenceInv
  BY DEF Init, SentenceInv, Fits, Holding, Asking
<1>2. IInv /\ SentenceInv /\ [Next]_vars => SentenceInv'
  BY SentenceStep DEF IInv
<1>3. IInv /\ SentenceInv => SpeakersMoveOn
  <2>. SUFFICES ASSUME IInv, SentenceInv, NEW r \in Task
                PROVE  /\ task[r] = "play" => sentences[r] # <<>> /\
                              Head(sentences[r]) \in {"run", "ok", "failed"}
                       /\ task[r] = "cleanup" =>
                              \A i \in DOMAIN sentences[r] :
                                  sentences[r][i] # "run"
    BY DEF SpeakersMoveOn, In
  <2>1. sentences[r] \in Seq(SentenceState) /\ Fits(task[r], sentences[r])
    BY DEF IInv, TypeOK, SentenceInv
  <2>2. sentences[r] # <<>> => 1 \in DOMAIN sentences[r] /\ Head(sentences[r]) = sentences[r][1]
    BY <2>1
  <2>. QED  BY <2>1, <2>2 DEF Fits
<1>. QED  BY <1>1, <1>2, <1>3, Invariant, PTL DEF Spec
-----------------------------------------------------------------------------
(***************************************************************************)
(* What is left running when close() closes the clients.                   *)
(***************************************************************************)
\* A task that ends well, or a pipeline that has been cancelled, leaves no TTS
\* task running.
LEMMA OrphansStep ==
    ASSUME TypeOK, TaskInv, BeginningInv, SentenceInv, OrphansExpected,
           [Next]_vars
    PROVE  OrphansExpected'
<1>0. /\ task \in [Task -> TaskPhase] /\ orphans \subseteq Task
      /\ Turn \subseteq Task /\ Notice \in Task /\ Greeting \in Task
      /\ \A r \in Turn : r # Notice /\ r # Greeting
      /\ \A r \in Task : /\ sentences[r] \in Seq(SentenceState)
                         /\ Fits(task[r], sentences[r])
  BY TaskSets DEF TypeOK, SentenceInv
<1>1. \A r \in orphans : task'[r] = task[r]
  <2>1. \A r \in orphans : r \in Task /\ task[r] \in {"failed", "cancelled"}
    BY <1>0 DEF OrphansExpected
  <2>2. CASE Same \/ SttStarted
    <3>1. SttStarted => task[Notice] = "none"
      BY DEF SttStarted, BeginningInv, NotYetListening
    <3>. QED  BY <1>0, <2>1, <2>2, <3>1 DEF Same, SttStarted
  <2>3. ASSUME NEW q \in Task, \/ Joins(q) \/ Acquires(q) \/ Proceeds(q)
                               \/ WaiterCancelled(q) \/ Stops(q)
        PROVE  \A r \in orphans : task'[r] = task[r]
    <3>1. /\ task[q] \notin {"failed", "cancelled"}
          /\ \E phase : task' = [task EXCEPT ![q] = phase]
      BY <2>3 DEF Joins, Enqueue, Acquires, AskLlm, SpeakMessage, LockIsFor,
           Dequeue, Proceeds, WaiterCancelled, Stops, Holding, Asking
    <3>. QED  BY <1>0, <2>1, <3>1
  <2>. QED  BY <2>2, <2>3, TaskMoves
<1>2. ASSUME orphans' \subseteq orphans PROVE OrphansExpected'
  BY <1>1, <1>2 DEF OrphansExpected
<1>3. ASSUME NEW q \in Task, orphans' = orphans \cup {q},
             task'[q] = "failed" \/
                (q \in {Greeting, Notice} /\ task'[q] = "cancelled")
      PROVE  OrphansExpected'
  BY <1>1, <1>3 DEF OrphansExpected
<1>4. ASSUME NEW q \in Task, NEW outcome, Leave(q, outcome),
             \/ outcome = "failed"
             \/ q \in {Greeting, Notice} /\ outcome = "cancelled"
             \/ \A i \in DOMAIN sentences[q] :
                    sentences[q][i] \notin {"run", "stopping"}
      PROVE  OrphansExpected'
  <2>1. task'[q] = outcome
    BY <1>0, <1>4 DEF Leave
  <2>2. \/ orphans' = orphans
        \/ orphans' = orphans \cup {q} /\
              ~\A i \in DOMAIN sentences[q] :
                    sentences[q][i] \notin {"run", "stopping"}
    BY <1>4 DEF Leave, Abandon
  <2>. QED  BY <1>2, <1>3, <1>4, <2>1, <2>2
<1>5. ASSUME NEW r \in Task,
             \/ /\ r \in Turn
                /\ \/ LlmFails(r) \/ AnswerNotSaved(r) \/ CleanupRaises(r)
             \/ SendFails(r) \/ SentenceRaises(r) \/ MessageCancelled(r)
      PROVE  OrphansExpected'
  <2>1. CASE Leave(r, "failed")
    BY <1>4, <2>1
  <2>2. CASE MessageCancelled(r)
    BY <1>4, <2>2 DEF MessageCancelled
  <2>. QED  BY <1>5, <2>1, <2>2 DEF LlmFails, AnswerNotSaved, CleanupRaises,
              SendFails, SentenceRaises
<1>6. ASSUME NEW r \in Turn, EmptyAnswer(r) \/ Answer(r)
      PROVE  OrphansExpected'
  <2>1. CASE Leave(r, "done") /\ sentences[r] = <<>>
    BY <1>0, <1>4, <2>1
  <2>2. CASE UNCHANGED orphans
    BY <1>2, <2>2
  <2>3. EmptyAnswer(r) => sentences[r] = <<>>
    BY <1>0 DEF EmptyAnswer, In, Fits
  <2>. QED  BY <1>6, <2>1, <2>2, <2>3 DEF EmptyAnswer, Answer
<1>7. ASSUME NEW r \in Turn, CleanupEnds(r) PROVE OrphansExpected'
  <2>1. task[r] = "cleanup" /\ StoppedUpTo(r, Len(sentences[r]))
        /\ Leave(r, "cancelled")
    BY <1>7 DEF CleanupEnds
  <2>2. \A i \in DOMAIN sentences[r] :
           sentences[r][i] # "run" /\ sentences[r][i] # "stopping"
    <3>1. DOMAIN sentences[r] = 1..Len(sentences[r])
      BY <1>0
    <3>. QED  BY <1>0, <2>1, <3>1 DEF StoppedUpTo, Fits
  <2>. QED  BY <1>0, <1>4, <2>1, <2>2
<1>8. ASSUME NEW r \in Task, PlaybackEnds(r) PROVE OrphansExpected'
  <2>1. /\ Head(sentences[r]) = "ok" /\ Len(sentences[r]) = 1
        /\ Leave(r, "done")
    BY <1>8 DEF PlaybackEnds
  <2>2. DOMAIN sentences[r] = {1} /\ sentences[r][1] = "ok"
    BY <1>0, <2>1
  <2>. QED  BY <1>4, <2>1, <2>2
<1>9. ASSUME \/ Start \/ StartFails \/ CloseBegins \/ PeerDrops \/ Media
             \/ CloseAborts \/ SttAwaited \/ ResponsesAwaited
             \/ \E r \in Response : ResponseAwaited(r)
             \/ \E k \in Turn : UploadAwaited(k)
             \/ UploadsAwaited \/ EndSession \/ EndNotSaved \/ Deliver
             \/ SessionStarted \/ SttStarted \/ SttFinal \/ BargeIn
             \/ FinalNotStored \/ BargeInReturns \/ BargeInRaises
             \/ SttDrops \/ SttEnds \/ SttCancelled \/ Expire
             \/ \E k \in Turn : \/ UploadEnds(k) \/ UploadFails(k)
                               \/ KeyNotSaved(k) \/ ReapUpload(k)
             \/ \E r \in Response : Reap(r)
             \/ UNCHANGED vars
      PROVE  OrphansExpected'
  <2>1. UNCHANGED orphans
    BY <1>9 DEF Start, StartFails, CloseBegins, PeerDrops, Media, CloseAborts,
         SttAwaited, ResponsesAwaited, ResponseAwaited, UploadAwaited,
         UploadsAwaited, EndSession, EndNotSaved, Deliver, SessionStarted,
         SttStarted, SttFinal, BargeIn, FinalNotStored, BargeInReturns,
         BargeInRaises, SttDrops, SttEnds, SttCancelled, Expire, UploadEnds,
         UploadFails, KeyNotSaved, ReapUpload, Reap, vars
  <2>. QED  BY <1>2, <2>1
<1>10. ASSUME \/ \E r \in Turn : AskLlm(r) \/ LlmToken(r) \/ CleanupBegins(r)
              \/ \E r \in Task : \/ SpeakMessage(r) \/ PlayFrame(r)
                                \/ NextSentence(r) \/ WaiterCancelled(r)
                                \/ OrphansEnd(r)
              \/ \E r \in Task : \E i \in 1..MaxSentences :
                    Synthesised(r, i) \/ TtsStopped(r, i) \/ TtsFails(r, i)
       PROVE  OrphansExpected'
  <2>1. orphans' \subseteq orphans
    BY <1>10 DEF AskLlm, LlmToken, CleanupBegins, SpeakMessage, PlayFrame,
         NextSentence, WaiterCancelled, OrphansEnd, Synthesised, TtsStopped,
         TtsFails
  <2>. QED  BY <1>2, <2>1
<1>. QED
  BY <1>0, <1>5, <1>6, <1>7, <1>8, <1>9, <1>10
  DEF Next, Starting, Closing, ReceiveDisconnect, SttRuns, Pipeline, Playback,
      Synthesis, Environment, Over, Stop, MediaFails, SttStartFails,
      SttAwaitRaises, ResponseAwaitRaises, UploadAwaitRaises,
      CloseClientRaises

\* When close() closes the clients, everything of the call is over or about to
\* be, but for TTS tasks that a failed task, or a cancelled greeting or notice,
\* left behind.
THEOREM CloseLeavesNothing == Spec => []NothingRunsOn
<1>1. Init => SentenceInv /\ OrphansExpected
  BY DEF Init, SentenceInv, OrphansExpected, Fits, Holding, Asking
<1>2. IInv /\ SentenceInv /\ [Next]_vars => SentenceInv'
  BY SentenceStep DEF IInv
<1>3. IInv /\ SentenceInv /\ OrphansExpected /\ [Next]_vars
         => OrphansExpected'
  BY OrphansStep DEF IInv
<1>4. IInv /\ OrphansExpected => NothingRunsOn
  <2>. SUFFICES ASSUME IInv, AllAwaited
                PROVE  /\ stt \notin SttListening
                       /\ \A r \in Task : task[r] \in {"sleep"} \cup Live =>
                             r = Notice /\ r \in cancels
                       /\ \A k \in Turn : upload[k] # "run"
    BY DEF NothingRunsOn
  <2>1. closed
    BY DEF IInv, ClosingInv, AllAwaited, Open
  <2>2. /\ stt \notin SttListening
        /\ \A k \in Turn : upload[k] # "run"
        /\ \A r \in Response : task[r] \notin Live
        /\ task[Notice] \in {"sleep"} \cup Live => Notice \in cancels
    BY <2>1 DEF IInv, ClosingInv
  <2>3. \A r \in Response : task[r] # "sleep"
    BY DEF IInv, TaskInv
  <2>. QED  BY <2>2, <2>3, TaskSets
<1>. QED  BY <1>1, <1>2, <1>3, <1>4, Invariant, PTL DEF Spec
-----------------------------------------------------------------------------
(***************************************************************************)
(* close() and a barge-in wait only for what ends.                         *)
(***************************************************************************)
\* What most steps leave alone: only the steps that make a task add it to
\* _response_tasks, only a barge-in waits for tasks, and nobody else but
\* close() cancels a response; no upload is undone.
LEMMA Kept ==
    ASSUME TypeOK, BeginningInv, [Next]_vars,
           ~SessionStarted, ~SttFinal, ~BargeIn, ~BargeInReturns
    PROVE  /\ responseTasks' \subseteq responseTasks
           /\ \A k \in Turn : upload[k] # "none" => upload'[k] # "none"
           /\ \/ UNCHANGED interrupted /\
                 (stt' # "interrupting" <=> stt # "interrupting")
              \/ interrupted' = {}
           /\ stt = "interrupting" =>
                 stt' = "interrupting" \/ closed \/ BargeInRaises
           /\ ~SttAwaited => cancels' \subseteq cancels \cup {Notice}
<1>. DEFINE Still ==
       /\ responseTasks' \subseteq responseTasks
       /\ \A k \in Turn : upload[k] # "none" => upload'[k] # "none"
       /\ \/ UNCHANGED interrupted /\
             (stt' # "interrupting" <=> stt # "interrupting")
          \/ interrupted' = {}
       /\ stt = "interrupting" =>
             stt' = "interrupting" \/ closed \/ BargeInRaises
       /\ ~SttAwaited => cancels' \subseteq cancels \cup {Notice}
<1>1. ASSUME \/ Start \/ CloseBegins \/ PeerDrops \/ Media \/ CloseAborts
             \/ SttAwaited \/ \E r \in Response : ResponseAwaited(r)
             \/ ResponsesAwaited \/ \E k \in Turn : UploadAwaited(k)
             \/ UploadsAwaited \/ EndSession \/ EndNotSaved \/ Deliver
             \/ StartFails
             \/ \E r \in Task : PlayFrame(r) \/ NextSentence(r) \/ OrphansEnd(r)
             \/ \E r \in Task : \E i \in 1..MaxSentences :
                   Synthesised(r, i) \/ TtsStopped(r, i) \/ TtsFails(r, i)
             \/ \E r \in Response : Reap(r)
             \/ UNCHANGED vars
      PROVE  Still
  BY <1>1 DEF Start, StartFails, CloseBegins, PeerDrops, Media, CloseAborts,
       SttAwaited, ResponseAwaited, ResponsesAwaited, UploadAwaited,
       UploadsAwaited, EndSession, EndNotSaved, Deliver, PlayFrame,
       NextSentence, OrphansEnd, Synthesised, TtsStopped, TtsFails, Reap, vars
<1>2. ASSUME \/ BargeInRaises \/ SttDrops \/ SttEnds \/ SttCancelled
             \/ FinalNotStored \/ SttStarted \/ Expire
      PROVE  Still
  BY <1>2 DEF BargeInRaises, SttDrops, SttEnds, SttCancelled, FinalNotStored,
       SttStarted, Expire, TypeOK, BeginningInv, NotYetListening
<1>3. ASSUME \E k \in Turn : \/ UploadEnds(k) \/ UploadFails(k)
                            \/ KeyNotSaved(k) \/ ReapUpload(k)
      PROVE  Still
  BY <1>3 DEF UploadEnds, UploadFails, KeyNotSaved, ReapUpload, TypeOK
<1>4. ASSUME \E turn \in Turn :
                \/ AskLlm(turn) \/ LlmToken(turn) \/ EmptyAnswer(turn)
                \/ Answer(turn) \/ AnswerNotSaved(turn) \/ LlmFails(turn)
                \/ CleanupBegins(turn) \/ CleanupEnds(turn)
                \/ CleanupRaises(turn)
      PROVE  Still
  BY <1>4 DEF AskLlm, LlmToken, EmptyAnswer, Answer, AnswerNotSaved, LlmFails,
       CleanupBegins, CleanupEnds, CleanupRaises, Leave, Forget
<1>5. ASSUME \E r \in Task :
                \/ SpeakMessage(r) \/ SendFails(r) \/ PlaybackEnds(r)
                \/ SentenceRaises(r) \/ WaiterCancelled(r)
                \/ MessageCancelled(r)
      PROVE  Still
  BY <1>5 DEF SpeakMessage, SendFails, PlaybackEnds, SentenceRaises,
       WaiterCancelled, MessageCancelled, Leave, Forget
<1>. HIDE DEF Still
<1>6. Still
  BY <1>1, <1>2, <1>3, <1>4, <1>5
  DEF Next, Starting, Closing, ReceiveDisconnect, SttRuns, Pipeline, Playback,
      Synthesis, Environment, Over, Stop, MediaFails, SttStartFails,
      SttAwaitRaises, ResponseAwaitRaises, UploadAwaitRaises,
      CloseClientRaises
<1>. QED  BY <1>6 DEF Still

\* The cancellation of a task is never lost: it stays in cancels until the
\* task takes it, and then the task is over or cleans up.
Ending(r) == r \in cancels \/ task[r] \in {"cleanup"} \cup Finished

LEMMA StillEnding ==
    ASSUME TypeOK, TaskInv, BeginningInv, [Next]_vars,
           NEW q \in Response, Ending(q)
    PROVE  Ending(q)'
<1>0. task \in [Task -> TaskPhase] /\ q \in Task /\ q # Notice
  BY TaskSets DEF TypeOK
<1>1. CASE Same
  BY <1>1 DEF Same, Ending
<1>2. CASE SttStarted
  BY <1>0, <1>2 DEF SttStarted, Ending
<1>3. ASSUME NEW r \in Task, Joins(r) PROVE Ending(q)'
  BY <1>0, <1>3 DEF Joins, Enqueue, Ending, Finished
<1>4. ASSUME NEW r \in Task, Acquires(r) PROVE Ending(q)'
  BY <1>0, <1>4 DEF Acquires, AskLlm, SpeakMessage, LockIsFor, Dequeue,
       Ending, Finished
<1>5. ASSUME NEW r \in Task, Proceeds(r) PROVE Ending(q)'
  <2>1. q = r => task[r] = "cleanup"
    BY <1>5 DEF Proceeds, Ending, Holding, Asking, Finished
  <2>2. q = r => task'[q] \in Finished
    BY <1>0, <1>5, <2>1 DEF Proceeds, CleanupRaises, Leave, Finished
  <2>3. q # r => task'[q] = task[q] /\ UNCHANGED cancels
    BY <1>0, <1>5 DEF Proceeds
  <2>. QED  BY <2>2, <2>3 DEF Ending
<1>6. ASSUME NEW r \in Task, WaiterCancelled(r) \/ Stops(r) PROVE Ending(q)'
  <2>1. /\ cancels' = cancels \ {r}
        /\ \E phase \in {"cleanup", "cancelled"} :
              task' = [task EXCEPT ![r] = phase]
    BY <1>6 DEF WaiterCancelled, Stops, Dequeue
  <2>. QED  BY <1>0, <2>1 DEF Ending, Finished
<1>. QED  BY <1>1, <1>2, <1>3, <1>4, <1>5, <1>6, TaskMoves

LEMMA TrackedStep ==
    ASSUME TypeOK, TaskInv, BeginningInv, TrackedInv, [Next]_vars
    PROVE  TrackedInv'
<1>0. /\ task \in [Task -> TaskPhase] /\ responseTasks \subseteq Response
      /\ Response \subseteq Task /\ Notice \notin Response
  BY TaskSets DEF TypeOK
<1>1. ASSUME NEW q \in Response, task[q] \notin {"none", "sleep"}
      PROVE  task'[q] \notin {"none", "sleep"}
  <2>1. CASE Same \/ SttStarted
    BY <1>0, <1>1, <2>1 DEF Same, SttStarted
  <2>2. ASSUME NEW r \in Task, \/ Joins(r) \/ Acquires(r) \/ Proceeds(r)
                               \/ WaiterCancelled(r) \/ Stops(r)
        PROVE  task'[q] \notin {"none", "sleep"}
    <3>1. \E phase : /\ task' = [task EXCEPT ![r] = phase]
                     /\ phase \notin {"none", "sleep"}
      BY <2>2 DEF Joins, Enqueue, Acquires, AskLlm, SpeakMessage, Dequeue,
           Proceeds, WaiterCancelled, Stops, Finished
    <3>. QED  BY <1>0, <1>1, <3>1
  <2>. QED  BY <2>1, <2>2, TaskMoves
<1>2. CASE SessionStarted \/ SttFinal \/ BargeInReturns
  <2>1. PICK q \in Task : Enqueue(q) /\ responseTasks' = responseTasks \cup {q}
    <3>1. nTurns \in Task /\ (SttFinal => nTurns + 1 \in Task)
      BY MaxTurnsAssumption DEF TypeOK, Task, SttFinal, StoreTurn
    <3>. QED  BY <1>2, <3>1, TaskSets DEF SessionStarted, SttFinal,
           BargeInReturns, Respond
  <2>2. task'[q] = "queued"
    BY <1>0, <2>1 DEF Enqueue
  <2>. QED  BY <1>0, <1>1, <2>1, <2>2 DEF TrackedInv
<1>3. CASE BargeIn
  BY <1>0, <1>1, <1>3 DEF BargeIn, TrackedInv
<1>4. CASE ~SessionStarted /\ ~SttFinal /\ ~BargeIn /\ ~BargeInReturns
  <2>1. responseTasks' \subseteq responseTasks
    BY <1>4, Kept
  <2>. QED  BY <1>0, <1>1, <2>1 DEF TrackedInv
<1>. QED  BY <1>2, <1>3, <1>4

LEMMA CloseAwaitsStep ==
    ASSUME TypeOK, TaskInv, BeginningInv, TrackedInv, CloseAwaitsEnding,
           [Next]_vars
    PROVE  CloseAwaitsEnding'
<1>. USE DEF CloseAwaitsEnding
<1>0. /\ task \in [Task -> TaskPhase] /\ closeWait \subseteq Response
      /\ responseTasks \subseteq Response /\ Response \subseteq Task
  BY TaskSets DEF TypeOK
<1>1. ASSUME \/ Start \/ StartFails \/ SessionStarted \/ SttStarted
             \/ CloseBegins \/ CloseAborts \/ UploadsAwaited \/ EndSession
             \/ EndNotSaved \/ Deliver
      PROVE  CloseAwaitsEnding'
  BY <1>1 DEF Start, StartFails, SessionStarted, SttStarted, CloseBegins,
       CloseAborts, UploadsAwaited, EndSession, EndNotSaved, Deliver
<1>2. CASE SttAwaited
  <2>1. \A r \in responseTasks : task[r] \in Live \cup Finished
    BY <1>0 DEF TrackedInv, TaskPhase
  <2>2. /\ cancels' = cancels \cup {r \in ActiveResponses : task[r] # "cleanup"}
        /\ closeWait' = responseTasks /\ UNCHANGED task
        /\ main' = "await_responses"
    BY <1>2 DEF SttAwaited, MarkCancelled
  <2>. QED  BY <2>1, <2>2 DEF ActiveResponses
<1>3. ASSUME NEW r, ResponseAwaited(r) \/ UploadAwaited(r)
      PROVE  CloseAwaitsEnding'
  BY <1>3 DEF ResponseAwaited, UploadAwaited
<1>4. CASE ResponsesAwaited
  BY <1>4 DEF ResponsesAwaited
<1>5. ASSUME UNCHANGED <<main, closeWait>>,
             ~SessionStarted PROVE CloseAwaitsEnding'
  <2>1. \A r \in closeWait : Ending(r) => Ending(r)'
    BY <1>0, StillEnding
  <2>2. \A k \in Turn : upload[k] # "none" => upload'[k] # "none"
    BY <1>5, Kept DEF SttFinal, BargeIn, BargeInReturns, StoreTurn, TypeOK
  <2>. QED  BY <1>5, <2>1, <2>2 DEF Ending
<1>. QED
  BY <1>1, <1>2, <1>3, <1>4, <1>5, LoopStep
  DEF Stop, ReceiveDisconnect, SttStartFails, MediaFails, SttAwaitRaises,
      ResponseAwaitRaises, UploadAwaitRaises, CloseClientRaises

\* close() waits for nothing that will not end: it has cancelled each response
\* it awaits, no such cancellation is lost, and the uploads it awaits are real.
THEOREM CloseNeverStuck == Spec => []CloseAwaitsEnding
<1>1. Init => TrackedInv /\ CloseAwaitsEnding
  BY DEF Init, TrackedInv, CloseAwaitsEnding
<1>2. IInv /\ TrackedInv /\ [Next]_vars => TrackedInv'
  BY TrackedStep DEF IInv
<1>3. IInv /\ TrackedInv /\ CloseAwaitsEnding /\ [Next]_vars
         => CloseAwaitsEnding'
  BY CloseAwaitsStep DEF IInv
<1>. QED  BY <1>1, <1>2, <1>3, Invariant, PTL DEF Spec
-----------------------------------------------------------------------------
(***************************************************************************)
(* If no TTS request fails, a barge-in returns and the final is answered.  *)
(***************************************************************************)
LEMMA InterruptStep ==
    ASSUME "tts" \notin Failures, TypeOK, TaskInv, BeginningInv, SentenceInv,
           InterruptInv, [Next]_vars
    PROVE  InterruptInv'
<1>. DEFINE Stopping(q) == q \in cancels \/ task[q] \in {"cleanup", "cancelled"}
<1>0. /\ task \in [Task -> TaskPhase] /\ interrupted \subseteq Task
      /\ interrupted \subseteq Response /\ Notice \notin Response
  BY TaskSets DEF TypeOK
<1>1. ASSUME NEW q \in interrupted PROVE Stopping(q)'
  <2>0. Stopping(q) /\ q \in Task /\ q # Notice
    BY <1>0, <1>1 DEF InterruptInv
  <2>1. CASE Same \/ SttStarted
    BY <1>0, <2>0, <2>1 DEF Same, SttStarted
  <2>2. ASSUME NEW r \in Task, Joins(r) \/ Acquires(r) PROVE Stopping(q)'
    BY <1>0, <2>0, <2>2 DEF Joins, Enqueue, Acquires, AskLlm, SpeakMessage,
         LockIsFor, Dequeue
  <2>3. ASSUME NEW r \in Task, Proceeds(r) PROVE Stopping(q)'
    <3>1. ~CleanupRaises(r)
      BY <2>3 DEF CleanupRaises, SentenceInv, Fits
    <3>. QED  BY <1>0, <2>0, <2>3, <3>1 DEF Proceeds, Holding, Asking
  <2>4. ASSUME NEW r \in Task, WaiterCancelled(r) \/ Stops(r)
        PROVE  Stopping(q)'
    BY <1>0, <2>0, <2>4 DEF WaiterCancelled, Stops, Dequeue
  <2>. QED  BY <2>1, <2>2, <2>3, <2>4, TaskMoves
<1>2. CASE BargeIn
  <2>1. /\ interrupted' = ActiveResponses /\ stt' = "interrupting"
        /\ cancels' = cancels \cup {r \in ActiveResponses : task[r] # "cleanup"}
        /\ UNCHANGED task
    BY <1>2 DEF BargeIn, MarkCancelled
  <2>. QED  BY <2>1 DEF InterruptInv
<1>3. CASE SessionStarted \/ SttFinal
  <2>1. UNCHANGED <<stt, interrupted>>
    BY <1>3 DEF SessionStarted, SttFinal
  <2>. QED  BY <1>1, <2>1 DEF InterruptInv
<1>4. CASE BargeInReturns
  BY <1>4 DEF BargeInReturns, InterruptInv
<1>5. CASE ~SessionStarted /\ ~SttFinal /\ ~BargeIn /\ ~BargeInReturns
  BY <1>1, <1>5, Kept DEF InterruptInv
<1>. QED  BY <1>2, <1>3, <1>4, <1>5

\* A task that waits for response_lock goes on waiting until it gets it,
\* unless a barge-in or close() cancels it.
LEMMA StillQueued ==
    ASSUME TypeOK, TaskInv, BeginningInv, [Next]_vars,
           ~BargeIn, ~SttAwaited,
           NEW turn \in Turn, In(turn, "queued"), ~AskLlm(turn)
    PROVE  In(turn, "queued")'
<1>0. /\ task \in [Task -> TaskPhase] /\ turn \in Task
      /\ turn # Notice /\ turn # Greeting
  BY TaskSets DEF TypeOK
<1>1. task[turn] = "queued" /\ turn \notin cancels
  BY DEF In
<1>2. turn \notin cancels'
  <2>1. CASE SessionStarted \/ SttFinal \/ BargeInReturns
    BY <1>1, <2>1 DEF SessionStarted, SttFinal, BargeInReturns
  <2>. QED  BY <1>0, <1>1, <2>1, Kept
<1>3. task'[turn] = "queued"
  <2>1. CASE Same \/ SttStarted
    BY <1>0, <1>1, <2>1 DEF Same, SttStarted
  <2>2. ASSUME NEW r \in Task, Acquires(r) PROVE task'[turn] = "queued"
    BY <1>0, <1>1, <2>2 DEF Acquires, AskLlm, SpeakMessage, Dequeue
  <2>3. ASSUME NEW r \in Task, \/ Joins(r) \/ Proceeds(r)
                               \/ WaiterCancelled(r) \/ Stops(r)
        PROVE  task'[turn] = "queued"
    BY <1>0, <1>1, <2>3 DEF Joins, Enqueue, Proceeds, WaiterCancelled, Dequeue,
         Stops, Holding, Asking
  <2>. QED  BY <2>1, <2>2, <2>3, TaskMoves
<1>. QED  BY <1>2, <1>3 DEF In

LEMMA FinalStep ==
    ASSUME {"tts", "store"} \cap Failures = {}, IInv, InterruptInv,
           FinalIsPending, [Next]_vars, IInv'
    PROVE  FinalIsPending'
<1>. USE DEF FinalIsPending
<1>0. /\ TypeOK /\ TaskInv /\ BeginningInv
      /\ task \in [Task -> TaskPhase] /\ first \in [Turn -> 0..MaxTurns]
      /\ nTurns \in Nat /\ PriorTurns \in Nat
      /\ nTurns > PriorTurns => nTurns \in Turn
      /\ Turn \subseteq Task
  <2>1. PriorTurns \in Nat /\ nTurns \in Nat /\ nTurns <= MaxTurns
    BY PriorTurnsAssumption, MaxTurnsAssumption DEF IInv, TypeOK
  <2>2. nTurns > PriorTurns => nTurns \in Turn
    BY <2>1, MaxTurnsAssumption DEF Turn
  <2>. QED  BY <2>1, <2>2, TaskSets DEF IInv, TypeOK
<1>1. \A r \in cancels : task[r] # "none"
  BY DEF IInv, TaskInv, Live, Holding, Asking
<1>2. CASE Start
  BY <1>0, <1>2 DEF Start, OpenTranscript
<1>3. CASE SttFinal
  <2>1. nTurns + 1 \in Turn /\ nTurns + 1 > nTurns
    BY <1>0, <1>3, MaxTurnsAssumption DEF SttFinal, StoreTurn, Turn, TypeOK
  <2>2. task[nTurns + 1] = "none"
    BY <1>0, <2>1 DEF BeginningInv
  <2>3. /\ task' = [task EXCEPT ![nTurns + 1] = "queued"]
        /\ nTurns' = nTurns + 1 /\ UNCHANGED cancels
    BY <1>3 DEF SttFinal, StoreTurn, Respond, Enqueue
  <2>4. task'[nTurns'] = "queued" /\ nTurns' \notin cancels'
    BY <1>0, <1>1, <2>1, <2>2, <2>3
  <2>. QED  BY <2>4 DEF In
<1>4. CASE BargeIn
  BY <1>4 DEF BargeIn
<1>5. CASE BargeInReturns
  <2>1. nTurns \in Task /\ task[nTurns] = "none"
    BY <1>0, <1>5 DEF BeginningInv, BargeInReturns
  <2>2. In(nTurns, "queued")' /\ UNCHANGED nTurns
    BY <1>0, <1>1, <1>5, <2>1 DEF BargeInReturns, Respond, Enqueue, In
  <2>. QED  BY <2>2
<1>6. ASSUME BargeInRaises PROVE FALSE
  <2>1. PICK r \in interrupted : task[r] = "failed"
    BY <1>6 DEF BargeInRaises
  <2>2. r \in cancels
    BY <2>1 DEF InterruptInv
  <2>. QED  BY <1>0, <2>1, <2>2 DEF TaskInv, Live, Holding, Asking
<1>7. ASSUME NEW turn \in Turn, AskLlm(turn) PROVE FinalIsPending'
  <2>1. /\ UNCHANGED <<nTurns, closed, stt, cancels>>
        /\ first' = [first EXCEPT ![turn] = FirstPending(turn)]
        /\ task' = [task EXCEPT ![turn] = "llm"]
    BY <1>7 DEF AskLlm, Dequeue
  <2>2. FirstPending(turn) # 0
    <3>1. turn # 0 /\ lastGenerated + 1 # 0
      BY <1>0 DEF Turn, TypeOK
    <3>. QED  BY <1>0, <3>1, FirstPendingValue
  <2>. QED  BY <1>0, <2>1, <2>2 DEF In
<1>8. CASE SessionStarted \/ SttStarted
  <2>1. nTurns = PriorTurns /\ UNCHANGED nTurns
    BY <1>0, <1>8 DEF SessionStarted, SttStarted, BeginningInv
  <2>. QED  BY <1>0, <2>1
<1>s. /\ ~StartFails /\ ~FinalNotStored
      /\ \A turn \in Turn : ~AnswerNotSaved(turn)
  BY DEF StartFails, FinalNotStored, AnswerNotSaved
<1>9. ASSUME ~Start, ~SessionStarted, ~SttStarted, ~SttFinal, ~BargeIn,
             ~BargeInReturns, \A turn \in Turn : ~AskLlm(turn),
             nTurns' > PriorTurns, ~closed'
      PROVE  first'[nTurns'] # 0 \/ In(nTurns, "queued")' \/ stt' = "interrupting"
  <2>1. UNCHANGED nTurns /\ nTurns \in Turn
    BY <1>0, <1>s, <1>9, QuietStep DEF Quiet
  <2>2. ~closed
    BY <1>0, <1>s, <1>9, QuietStep DEF Quiet, IInv, ClosingInv
  <2>3. CASE first[nTurns] # 0
    <3>1. UNCHANGED first
      BY <1>0, <1>s, <1>9, NoAskingStep DEF Asks, LlmToken, Answer
    <3>. QED  BY <2>1, <2>3, <3>1
  <2>4. CASE In(nTurns, "queued")
    <3>1. ~SttAwaited
      BY <2>2 DEF SttAwaited, IInv, ClosingInv, Open
    <3>. QED  BY <1>0, <1>9, <2>1, <2>4, <3>1, StillQueued
  <2>5. CASE stt = "interrupting"
    BY <1>0, <1>6, <1>9, <2>2, <2>5, Kept
  <2>. QED  BY <1>9, <2>1, <2>2, <2>3, <2>4, <2>5
<1>. QED  BY <1>2, <1>3, <1>4, <1>5, <1>7, <1>8, <1>9

\* Unless a TTS request or a write to the store fails, no final is forgotten:
\* it is asked about, or its pipeline waits uncancelled for the lock, or its
\* barge-in will return, whatever becomes of the responses it interrupts.
THEOREM FinalNeverForgotten ==
    {"tts", "store"} \cap Failures = {} => (Spec => []FinalIsPending)
<1>. SUFFICES ASSUME {"tts", "store"} \cap Failures = {}
              PROVE  Spec => []FinalIsPending
  OBVIOUS
<1>0. "tts" \notin Failures
  OBVIOUS
<1>1. Init => SentenceInv /\ InterruptInv /\ FinalIsPending
  BY PriorTurnsAssumption
  DEF Init, SentenceInv, InterruptInv, FinalIsPending, Fits, Holding, Asking
<1>2. IInv /\ SentenceInv /\ [Next]_vars => SentenceInv'
  BY SentenceStep DEF IInv
<1>3. IInv /\ SentenceInv /\ InterruptInv /\ [Next]_vars => InterruptInv'
  BY <1>0, InterruptStep DEF IInv
<1>4. /\ IInv /\ InterruptInv /\ FinalIsPending /\ [Next]_vars /\ IInv'
      => FinalIsPending'
  BY FinalStep
<1>. QED  BY <1>1, <1>2, <1>3, <1>4, Invariant, PTL DEF Spec
-----------------------------------------------------------------------------
(***************************************************************************)
(* If no TTS request fails, the notice hangs up.                           *)
(***************************************************************************)
LEMMA HangUpStep ==
    ASSUME "tts" \notin Failures, IInv, NoticeInv, NoticeHangsUp, [Next]_vars
    PROVE  NoticeHangsUp'
<1>. USE DEF NoticeHangsUp
<1>0. /\ Notice \in Task /\ task \in [Task -> TaskPhase] /\ closed \in BOOLEAN
      /\ sentences[Notice] \in Seq(SentenceState)
      /\ Task = Response \cup {Notice}
  BY TaskSets DEF IInv, TypeOK
<1>1. Calm => NoticeHangsUp'
  BY <1>0 DEF Calm
<1>2. ASSUME LoopActs
      PROVE  NoticeHangsUp'
  BY <1>1, <1>2, LoopIsCalm
<1>3. ASSUME \/ \E turn \in Turn : \/ Pipeline(turn) \/ LlmToken(turn)
                                  \/ LlmFails(turn) \/ AnswerNotSaved(turn)
             \/ \E r \in Response : Playback(r) \/ PlayFrame(r)
             \/ \E r \in Response : \E i \in 1..MaxSentences :
                   Synthesis(r, i) \/ TtsFails(r, i)
      PROVE  NoticeHangsUp'
  BY <1>1, <1>3, SpeechIsCalm
<1>4. CASE SttStarted \/ Expire \/ SpeakMessage(Notice)
  <2>1. \/ \E phase \in {"sleep", "queued", "play"} :
              task' = [task EXCEPT ![Notice] = phase]
        \/ UNCHANGED <<task, ws, closed>>
    BY <1>4 DEF SttStarted, Expire, Enqueue, SpeakMessage, Dequeue
  <2>. QED  BY <1>0, <2>1 DEF Finished
<1>5. CASE SendFails(Notice) \/ PlaybackEnds(Notice)
  BY <1>5 DEF SendFails, PlaybackEnds
<1>6. CASE MessageCancelled(Notice) \/ WaiterCancelled(Notice)
  BY <1>6 DEF MessageCancelled, WaiterCancelled, NoticeInv
<1>7. ASSUME SentenceRaises(Notice) PROVE FALSE
  <2>1. task[Notice] = "play" /\ Head(sentences[Notice]) = "failed"
    BY <1>7 DEF SentenceRaises, In
  <2>2. /\ sentences[Notice] # <<>>
        /\ \A i \in DOMAIN sentences[Notice] : sentences[Notice][i] # "failed"
    BY <2>1 DEF NoticeInv
  <2>. QED  BY <1>0, <2>1, <2>2
<1>8. CASE \/ PlayFrame(Notice) \/ NextSentence(Notice)
           \/ \E i \in 1..MaxSentences :
                 Synthesis(Notice, i) \/ TtsFails(Notice, i)
  BY <1>8 DEF PlayFrame, NextSentence, Synthesis, Synthesised, TtsStopped,
       TtsFails
<1>. QED
  BY <1>0, <1>2, <1>3, <1>4, <1>5, <1>6, <1>7, <1>8
  DEF Next, LoopActs, Starting, ReceiveDisconnect, Environment, Over, Stop,
      MediaFails, SttStartFails, Playback

\* Unless a TTS request fails, the task of the notice does not end without
\* hanging up: it ends because the WebSocket is gone, or closes it, or is
\* cancelled by close() alone.
THEOREM NoticeEndsCall ==
    "tts" \notin Failures => (Spec => []NoticeHangsUp)
<1>. SUFFICES ASSUME "tts" \notin Failures PROVE Spec => []NoticeHangsUp
  OBVIOUS
<1>1. Init => NoticeInv /\ NoticeHangsUp
  BY TaskSets DEF Init, NoticeInv, NoticeHangsUp, Finished
<1>2. IInv /\ NoticeInv /\ [Next]_vars => NoticeInv'
  BY NoticeStep
<1>3. IInv /\ NoticeInv /\ NoticeHangsUp /\ [Next]_vars => NoticeHangsUp'
  BY HangUpStep
<1>. QED  BY <1>1, <1>2, <1>3, Invariant, PTL DEF Spec
-----------------------------------------------------------------------------
(***************************************************************************)
(* If at most the backend fails and the call has no time limit, nothing    *)
(* stops close() half-way.                                                 *)
(***************************************************************************)
\* Where FaultlessInv holds, nothing raises.
LEMMA NothingRaises ==
    ASSUME Failures \subseteq {"backend"}, IInv, SentenceInv, FaultlessInv
    PROVE  /\ ~PeerDrops /\ ~SttDrops /\ ~SttEnds /\ ~BargeInRaises /\ ~Expire
           /\ ~SttAwaitRaises /\ ~StartFails /\ ~FinalNotStored
           /\ ~EndNotSaved /\ ~CloseClientRaises
           /\ \A r \in Response : ~ResponseAwaitRaises(r)
           /\ \A k \in Turn : ~LlmFails(k) /\ ~UploadFails(k)
                               /\ ~UploadAwaitRaises(k) /\ ~CleanupRaises(k)
                               /\ ~AnswerNotSaved(k) /\ ~KeyNotSaved(k)
                               /\ ~ReapUpload(k)
           /\ \A r \in Task : ~SendFails(r) /\ ~SentenceRaises(r)
<1>0. /\ interrupted \subseteq Task /\ Response \subseteq Task
      /\ Turn \subseteq Task /\ "tts" \notin Failures
      /\ \A r \in Task : sentences[r] \in Seq(SentenceState)
  BY TaskSets DEF IInv, TypeOK
<1>1. /\ ~PeerDrops /\ ~SttDrops /\ ~StartFails /\ ~FinalNotStored
      /\ ~EndNotSaved /\ ~CloseClientRaises
      /\ \A k \in Turn : ~LlmFails(k) /\ ~UploadFails(k) /\ ~AnswerNotSaved(k)
                          /\ ~KeyNotSaved(k)
  BY DEF PeerDrops, SttDrops, StartFails, FinalNotStored, EndNotSaved,
     CloseClientRaises, LlmFails, UploadFails, AnswerNotSaved, KeyNotSaved
<1>2. /\ ~SttEnds /\ ~SttAwaitRaises /\ ~Expire
      /\ \A r \in Task : ~SendFails(r)
  BY DEF SttEnds, SttAwaitRaises, Expire, In, SendFails, FaultlessInv
<1>3. /\ ~BargeInRaises /\ \A r \in Response : ~ResponseAwaitRaises(r)
      /\ \A k \in Turn : ~UploadAwaitRaises(k) /\ ~ReapUpload(k)
  BY <1>0 DEF BargeInRaises, ResponseAwaitRaises, UploadAwaitRaises,
       ReapUpload, FaultlessInv
<1>4. ASSUME NEW r \in Task PROVE ~SentenceRaises(r)
  <2>1. Fits(task[r], sentences[r])
    BY DEF SentenceInv
  <2>2. ASSUME task[r] = "play" PROVE Head(sentences[r]) # "failed"
    <3>1. /\ sentences[r] # <<>>
          /\ \A i \in DOMAIN sentences[r] : sentences[r][i] # "failed"
      BY <1>0, <2>1, <2>2 DEF Fits
    <3>2. 1 \in DOMAIN sentences[r] /\ Head(sentences[r]) = sentences[r][1]
      BY <1>0, <3>1
    <3>. QED  BY <3>1, <3>2
  <2>. QED  BY <2>2 DEF SentenceRaises, In
<1>5. \A k \in Turn : ~CleanupRaises(k)
  BY <1>0 DEF CleanupRaises, SentenceInv, Fits
<1>. QED  BY <1>1, <1>2, <1>3, <1>4, <1>5

LEMMA FaultlessStep ==
    ASSUME Failures \subseteq {"backend"}, ~Timed, IInv, SentenceInv,
           FaultlessInv, [Next]_vars
    PROVE  FaultlessInv'
<1>0. /\ task \in [Task -> TaskPhase] /\ Turn \subseteq Task
      /\ upload \in [Turn -> {"none", "run", "done", "failed"}]
      /\ Notice \in Task /\ Greeting \in Task /\ Greeting # Notice
      /\ Notice \notin Turn /\ nTurns \in Response /\ Notice \notin Response
  <2>1. nTurns \in Response
    BY DEF IInv, TypeOK, Response
  <2>. QED  BY <2>1, TaskSets DEF IInv, TypeOK
<1>. DEFINE Sound == UNCHANGED <<ws, sttUp>> /\ main' # "aborted" /\ stt' # "failed"
<1>1. ASSUME Sound, UNCHANGED task,
             \A k \in Turn : upload'[k] # "failed"
      PROVE  FaultlessInv'
  BY <1>1 DEF FaultlessInv
<1>2. ASSUME Sound, UNCHANGED upload, NEW r \in Task \ {Notice}, NEW phase,
             phase # "failed", task' = [task EXCEPT ![r] = phase]
      PROVE  FaultlessInv'
  BY <1>0, <1>2 DEF FaultlessInv
<1>3. ASSUME \/ Start \/ CloseBegins \/ SttAwaited
             \/ \E r \in Response : ResponseAwaited(r)
             \/ ResponsesAwaited \/ \E k \in Turn : UploadAwaited(k)
             \/ UploadsAwaited \/ EndSession \/ Deliver \/ Media
             \/ SttStarted \/ SttCancelled
             \/ \E r \in Task : PlayFrame(r) \/ NextSentence(r)
             \/ \E r \in Task : \E i \in 1..MaxSentences :
                   Synthesised(r, i) \/ TtsStopped(r, i) \/ TtsFails(r, i)
             \/ \E r \in Response : Reap(r)
             \/ \E r \in Task : OrphansEnd(r)
             \/ UNCHANGED vars
      PROVE  FaultlessInv'
  <2>1. Sound /\ UNCHANGED <<task, upload>>
    BY <1>3 DEF Start, CloseBegins, SttAwaited, ResponseAwaited,
         ResponsesAwaited, UploadAwaited, UploadsAwaited, EndSession, Deliver,
         Media, SttStarted, SttCancelled, PlayFrame, NextSentence,
         Synthesised, TtsStopped, TtsFails, Reap, OrphansEnd, vars,
         FaultlessInv
  <2>. QED  BY <1>1, <2>1 DEF FaultlessInv
<1>4. CASE BargeIn \/ \E k \in Turn : UploadEnds(k)
  <2>1. Sound /\ UNCHANGED task
    BY <1>4 DEF BargeIn, UploadEnds, FaultlessInv
  <2>2. \A k \in Turn : upload'[k] # "failed"
    BY <1>0, <1>4 DEF BargeIn, StoreTurn, UploadEnds, FaultlessInv
  <2>. QED  BY <1>1, <2>1, <2>2
<1>5. CASE SessionStarted \/ BargeInReturns
  <2>1. Sound /\ UNCHANGED upload
    BY <1>5 DEF SessionStarted, BargeInReturns, FaultlessInv
  <2>2. \E r \in Response : task' = [task EXCEPT ![r] = "queued"]
    BY <1>0, <1>5, TaskSets DEF SessionStarted, BargeInReturns, Respond, Enqueue
  <2>. QED  BY <1>0, <1>2, <2>1, <2>2, TaskSets
<1>6. CASE SttFinal
  <2>1. nTurns + 1 \in Turn
    BY <1>6, MaxTurnsAssumption DEF IInv, TypeOK, SttFinal, StoreTurn, Turn
  <2>2. Sound /\ task' = [task EXCEPT ![nTurns + 1] = "queued"]
    BY <1>6 DEF SttFinal, Respond, Enqueue, FaultlessInv
  <2>3. \A k \in Turn : upload'[k] # "failed"
    BY <1>0, <1>6 DEF SttFinal, StoreTurn, FaultlessInv
  <2>. QED  BY <1>0, <2>1, <2>2, <2>3 DEF FaultlessInv
<1>7. ASSUME NEW r \in Task,
             \/ r \in Turn /\ (AskLlm(r) \/ LlmToken(r) \/ EmptyAnswer(r)
                               \/ Answer(r) \/ CleanupBegins(r)
                               \/ CleanupEnds(r))
             \/ SpeakMessage(r) \/ PlaybackEnds(r) \/ WaiterCancelled(r)
             \/ MessageCancelled(r)
      PROVE  FaultlessInv'
  <2>1. task[r] # "none"
    BY <1>7 DEF AskLlm, LockIsFor, LlmToken, EmptyAnswer, Answer, In,
         CleanupBegins, CleanupEnds, SpeakMessage, PlaybackEnds,
         WaiterCancelled, MessageCancelled, Asking
  <2>2. r # Notice
    BY <2>1 DEF FaultlessInv
  <2>3. UNCHANGED <<main, stt, sttUp, upload, ws>>
    BY <1>7, <2>2 DEF AskLlm, LlmToken, EmptyAnswer, Answer, CleanupBegins,
         CleanupEnds, SpeakMessage, PlaybackEnds, WaiterCancelled,
         MessageCancelled
  <2>4. \E phase : phase # "failed" /\ task' = [task EXCEPT ![r] = phase]
    BY <1>7 DEF AskLlm, LlmToken, EmptyAnswer, Answer, CleanupBegins,
         CleanupEnds, SpeakMessage, PlaybackEnds, WaiterCancelled,
         MessageCancelled, Dequeue, Leave
  <2>. QED  BY <1>2, <2>2, <2>3, <2>4 DEF FaultlessInv
<1>. QED
  BY <1>3, <1>4, <1>5, <1>6, <1>7, NothingRaises, TaskSets
  DEF Next, Starting, Closing, ReceiveDisconnect, SttRuns, Pipeline, Playback,
      Synthesis, Environment, Over, Stop, MediaFails, SttStartFails

\* In a call without a time limit in which at most the backend fails, close()
\* always gets as far as the end of the session: the tasks it cancelled or
\* that a barge-in interrupted raise nothing.
THEOREM CloseNotStopped ==
    Failures \subseteq {"backend"} /\ ~Timed => (Spec => []CloseReachesEnd)
<1>. SUFFICES ASSUME Failures \subseteq {"backend"}, ~Timed
              PROVE  Spec => []CloseReachesEnd
  OBVIOUS
<1>1. Init => SentenceInv /\ FaultlessInv
  BY TaskSets DEF Init, SentenceInv, FaultlessInv, Fits, Holding, Asking
<1>2. IInv /\ SentenceInv /\ [Next]_vars => SentenceInv'
  BY SentenceStep DEF IInv
<1>3. IInv /\ SentenceInv /\ FaultlessInv /\ [Next]_vars => FaultlessInv'
  BY FaultlessStep
<1>4. FaultlessInv => CloseReachesEnd
  BY DEF FaultlessInv, CloseReachesEnd
<1>. QED  BY <1>1, <1>2, <1>3, <1>4, Invariant, PTL DEF Spec
=============================================================================
