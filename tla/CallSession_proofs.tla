------------------------- MODULE CallSession_proofs -------------------------
(***************************************************************************)
(* Proofs about CallSession for every value of its constants.              *)
(***************************************************************************)
EXTENDS CallSession, SequenceTheorems, TLAPS

USE DEF loopVars, sttVars, taskVars, speechVars, transcriptVars, uploadVars

(***************************************************************************)
(* The operators the actions are built from.                               *)
(***************************************************************************)
\* The three kinds of task are different, and the lock can be free.
LEMMA TaskSets ==
    /\ Greeting \in Response /\ Notice \in Task /\ Notice \notin Response
    /\ Greeting \notin Turn
    /\ Turn \subseteq Response /\ Response \subseteq Task
    /\ NoTask \notin Task /\ Greeting # Notice
    /\ Task = Response \cup {Notice} /\ Response = Turn \cup {Greeting}
BY MaxTurnsAssumption DEF Greeting, Response, Notice, Task, Turn, NoTask

\* The query of a pipeline begins right after the last answered turn.
LEMMA FirstPendingValue ==
    ASSUME TypeOK, NEW turn \in Turn
    PROVE  FirstPending(turn) =
              IF lastGenerated < nTurns /\ lastGenerated < turn
              THEN lastGenerated + 1 ELSE turn
<1>1. lastGenerated \in Nat /\ nTurns \in Nat /\ turn \in Nat
  BY MaxTurnsAssumption DEF TypeOK, Turn
<1>2. CASE lastGenerated < nTurns /\ lastGenerated < turn
  <2>1. lastGenerated + 1 \in PendingTurns(turn)
    BY <1>1, <1>2 DEF PendingTurns
  <2>2. \A j \in PendingTurns(turn) : j \in Nat /\ lastGenerated + 1 <= j
    BY <1>1 DEF PendingTurns
  <2>. DEFINE first_ == CHOOSE k \in PendingTurns(turn) :
                           \A j \in PendingTurns(turn) : k <= j
  <2>3. /\ first_ \in PendingTurns(turn)
        /\ \A j \in PendingTurns(turn) : first_ <= j
    BY <2>1, <2>2
  <2>4. first_ = lastGenerated + 1
    BY <1>1, <2>1, <2>2, <2>3
  <2>. QED  BY <1>2, <2>1, <2>4 DEF FirstPending
<1>3. CASE ~(lastGenerated < nTurns /\ lastGenerated < turn)
  <2>1. PendingTurns(turn) = {}
    BY <1>1, <1>3 DEF PendingTurns
  <2>. QED  BY <1>3, <2>1 DEF FirstPending
<1>. QED  BY <1>2, <1>3

LEMMA FirstPendingType ==
    ASSUME TypeOK, NEW turn \in Turn
    PROVE  FirstPending(turn) \in 0..MaxTurns
<1>1. lastGenerated \in 0..MaxTurns /\ turn \in 1..MaxTurns
  BY DEF TypeOK, Turn
<1>2. FirstPending(turn) =
        IF lastGenerated < nTurns /\ lastGenerated < turn
        THEN lastGenerated + 1 ELSE turn
  BY FirstPendingValue
<1> QED BY <1>1, <1>2, MaxTurnsAssumption

\* Changing the sentences of one task or the state of one sentence, or
\* stopping those that run, gives sequences of sentence states again.
LEMMA SentencesExcept ==
    ASSUME NEW S, NEW f \in [Task -> S], NEW r \in Task, NEW s \in S
    PROVE  [f EXCEPT ![r] = s] \in [Task -> S]
OBVIOUS

LEMMA SentenceUpdate ==
    ASSUME NEW f \in [Task -> Seq(SentenceState)], NEW r \in Task,
           NEW i \in DOMAIN f[r], NEW state \in SentenceState
    PROVE  [f EXCEPT ![r][i] = state] \in [Task -> Seq(SentenceState)]
<1>1. f[r] \in Seq(SentenceState) /\ i \in 1..Len(f[r])
  BY LenProperties
<1>2. [f[r] EXCEPT ![i] = state] \in Seq(SentenceState)
  BY <1>1, ExceptSeq
<1>. QED  BY <1>2

LEMMA StopSentences ==
    ASSUME NEW s \in Seq(SentenceState)
    PROVE  [i \in DOMAIN s |-> IF s[i] = "run" THEN "stopping" ELSE s[i]]
              \in Seq(SentenceState)
<1>1. Len(s) \in Nat /\ DOMAIN s = 1..Len(s)
  BY LenProperties
<1>2. [i \in DOMAIN s |-> IF s[i] = "run" THEN "stopping" ELSE s[i]]
         \in [1..Len(s) -> SentenceState]
  BY <1>1, ElementOfSeq DEF SentenceState
<1>. QED  BY <1>1, <1>2, SeqDef

\* A task that leaves response_lock.
LEMMA LeaveType ==
    ASSUME TypeOK, NEW r \in Task, NEW outcome \in Finished, Leave(r, outcome)
    PROVE  /\ task' \in [Task -> TaskPhase]
           /\ responseLock' \in Task \cup {NoTask}
           /\ sentences' \in [Task -> Seq(SentenceState)]
           /\ responseTasks' \subseteq Response
           /\ orphans' \subseteq Task
<1>1. <<>> \in Seq(SentenceState)  BY EmptySeq
<1>. QED  BY <1>1 DEF TypeOK, Leave, Abandon, Forget, TaskPhase
-----------------------------------------------------------------------------
(***************************************************************************)
(* Type correctness.                                                       *)
(***************************************************************************)
LEMMA InitType == Init => TypeOK
<1>. SUFFICES ASSUME Init PROVE TypeOK  OBVIOUS
<1>1. sentences \in [Task -> Seq(SentenceState)]
  BY EmptySeq DEF Init
<1>2. 0 \in 0..MaxTurns  BY MaxTurnsAssumption
<1>. QED  BY <1>1, <1>2 DEF Init, TypeOK, TaskPhase

LEMMA TypeStep == TypeOK /\ [Next]_vars => TypeOK'
<1>. SUFFICES ASSUME TypeOK, [Next]_vars PROVE TypeOK'  OBVIOUS
<1>1. ASSUME Start \/ StartFails PROVE TypeOK'
  <2>0. OpenTranscript
    BY <1>1 DEF Start, StartFails
  <2>1. first' \in [Turn -> 0..MaxTurns]
    BY <2>0, PriorTurnsAssumption, MaxTurnsAssumption DEF OpenTranscript, Turn
  <2>2. nTurns' \in 0..MaxTurns /\ answered' \subseteq Turn
    BY <2>0, PriorTurnsAssumption, MaxTurnsAssumption DEF OpenTranscript, Turn
  <2>3. closed' \in BOOLEAN /\ accepting' \in BOOLEAN
    BY <1>1 DEF TypeOK, Start, StartFails
  <2>. QED  BY <1>1, <2>1, <2>2, <2>3 DEF TypeOK, Start, StartFails, OpenTranscript
<1>2. ASSUME SessionStarted PROVE TypeOK'
  <2>1. task' \in [Task -> TaskPhase]
    BY <1>2, TaskSets DEF TypeOK, SessionStarted, Enqueue, TaskPhase, Live,
         Holding, Asking, Finished
  <2>2. ahead' \in [Task -> SUBSET Task]
    BY <1>2, TaskSets DEF TypeOK, SessionStarted, Enqueue, Waiting
  <2>3. backendId' \in BOOLEAN /\ responseTasks' \subseteq Response
    BY <1>2, TaskSets DEF TypeOK, SessionStarted
  <2>. QED  BY <1>2, <2>1, <2>2, <2>3 DEF TypeOK, SessionStarted
<1>3. ASSUME SttStarted PROVE TypeOK'
  <2>1. task' \in [Task -> TaskPhase]
    BY <1>3, TaskSets DEF TypeOK, SttStarted, TaskPhase, Live, Holding,
         Asking, Finished
  <2>. QED  BY <1>3, <2>1 DEF TypeOK, SttStarted, SttListening
<1>4. ASSUME CloseBegins PROVE TypeOK'
  <2>1. cancels' \subseteq Task
    BY <1>4, TaskSets DEF TypeOK, CloseBegins
  <2>2. closed' \in BOOLEAN /\ accepting' \in BOOLEAN
    BY <1>4 DEF CloseBegins
  <2>. QED  BY <1>4, <2>1, <2>2 DEF TypeOK, CloseBegins
<1>5. ASSUME PeerDrops PROVE TypeOK'
  BY <1>5 DEF TypeOK, PeerDrops
<1>6. ASSUME Media PROVE TypeOK'
  BY <1>6 DEF TypeOK, Media
<1>7. ASSUME CloseAborts PROVE TypeOK'
  BY <1>7 DEF TypeOK, CloseAborts
<1>8. ASSUME SttAwaited PROVE TypeOK'
  <2>1. cancels' \subseteq Task
    BY <1>8, TaskSets DEF TypeOK, SttAwaited, MarkCancelled, ActiveResponses
  <2>. QED  BY <1>8, <2>1 DEF TypeOK, SttAwaited
<1>9. ASSUME NEW r \in Response, ResponseAwaited(r) PROVE TypeOK'
  BY <1>9 DEF TypeOK, ResponseAwaited
<1>10. ASSUME ResponsesAwaited PROVE TypeOK'
  <2>1. closeWait' \subseteq Response
    BY <1>10, TaskSets DEF ResponsesAwaited
  <2>. QED  BY <1>10, <2>1 DEF TypeOK, ResponsesAwaited
<1>11. ASSUME NEW k \in Turn, UploadAwaited(k) PROVE TypeOK'
  BY <1>11 DEF TypeOK, UploadAwaited
<1>12. ASSUME UploadsAwaited PROVE TypeOK'
  BY <1>12 DEF TypeOK, UploadsAwaited
<1>13. ASSUME EndSession \/ EndNotSaved PROVE TypeOK'
  <2>1. ended' \in BOOLEAN
    BY <1>13 DEF EndSession, EndNotSaved
  <2>. QED  BY <1>13, <2>1 DEF TypeOK, EndSession, EndNotSaved
<1>14. ASSUME Deliver PROVE TypeOK'
  <2>1. delivered' \in BOOLEAN
    BY <1>14 DEF TypeOK, Deliver
  <2>. QED  BY <1>14, <2>1 DEF TypeOK, Deliver
<1>15. ASSUME SttFinal PROVE TypeOK'
  <2>1. nTurns' \in 0..MaxTurns /\ nTurns + 1 \in Turn
    BY <1>15, MaxTurnsAssumption DEF TypeOK, SttFinal, StoreTurn, Turn
  <2>2. upload' \in [Turn -> {"none", "run", "done", "failed"}]
    BY <1>15, <2>1 DEF TypeOK, SttFinal, StoreTurn
  <2>3. task' \in [Task -> TaskPhase]
    BY <1>15, <2>1, TaskSets DEF TypeOK, SttFinal, Respond, Enqueue,
         TaskPhase, Live, Holding, Asking, Finished
  <2>4. ahead' \in [Task -> SUBSET Task]
    BY <1>15, <2>1, TaskSets DEF TypeOK, SttFinal, Respond, Enqueue, Waiting
  <2>5. responseTasks' \subseteq Response
    BY <1>15, <2>1, TaskSets DEF TypeOK, SttFinal, Respond
  <2>6. pendingAudio' \in BOOLEAN
    BY <1>15 DEF SttFinal, StoreTurn
  <2>. QED  BY <1>15, <2>1, <2>2, <2>3, <2>4, <2>5, <2>6 DEF TypeOK,
       SttFinal, StoreTurn
<1>16. ASSUME BargeIn PROVE TypeOK'
  <2>1. nTurns' \in 0..MaxTurns /\ nTurns + 1 \in Turn
    BY <1>16, MaxTurnsAssumption DEF TypeOK, BargeIn, StoreTurn, Turn
  <2>2. upload' \in [Turn -> {"none", "run", "done", "failed"}]
    BY <1>16, <2>1 DEF TypeOK, BargeIn, StoreTurn
  <2>3. cancels' \subseteq Task
    BY <1>16, TaskSets DEF TypeOK, BargeIn, MarkCancelled, ActiveResponses
  <2>4. interrupted' \subseteq Response
    BY <1>16 DEF TypeOK, BargeIn, ActiveResponses
  <2>5. pendingAudio' \in BOOLEAN
    BY <1>16 DEF BargeIn, StoreTurn
  <2>. QED  BY <1>16, <2>1, <2>2, <2>3, <2>4, <2>5 DEF TypeOK, BargeIn,
       StoreTurn, SttListening
<1>17. ASSUME BargeInReturns PROVE TypeOK'
  <2>1. nTurns \in Response
    BY <1>17, MaxTurnsAssumption DEF TypeOK, Response
  <2>2. task' \in [Task -> TaskPhase]
    BY <1>17, <2>1, TaskSets DEF TypeOK, BargeInReturns, Respond, Enqueue,
         TaskPhase, Live, Holding, Asking, Finished
  <2>3. ahead' \in [Task -> SUBSET Task]
    BY <1>17, <2>1, TaskSets DEF TypeOK, BargeInReturns, Respond, Enqueue,
         Waiting
  <2>. QED  BY <1>17, <2>1, <2>2, <2>3 DEF TypeOK, BargeInReturns, Respond,
       SttListening
<1>18. ASSUME BargeInRaises PROVE TypeOK'
  BY <1>18 DEF TypeOK, BargeInRaises, SttListening, Finished
<1>19. ASSUME SttDrops PROVE TypeOK'
  <2>1. sttUp' \in BOOLEAN
    BY <1>19 DEF SttDrops
  <2>. QED  BY <1>19, <2>1 DEF TypeOK, SttDrops
<1>20. ASSUME SttEnds PROVE TypeOK'
  BY <1>20 DEF TypeOK, SttEnds, SttListening, Finished
<1>21. ASSUME SttCancelled PROVE TypeOK'
  BY <1>21 DEF TypeOK, SttCancelled, SttListening, Finished
<1>22. ASSUME NEW turn \in Turn, AskLlm(turn) PROVE TypeOK'
  <2>1. task' \in [Task -> TaskPhase]
    BY <1>22, TaskSets DEF TypeOK, AskLlm, Dequeue, TaskPhase, Live, Holding,
         Asking, Finished
  <2>2. ahead' \in [Task -> SUBSET Task]
    BY <1>22, TaskSets DEF TypeOK, AskLlm, Dequeue
  <2>3. first' \in [Turn -> 0..MaxTurns]
    BY <1>22, FirstPendingType DEF TypeOK, AskLlm
  <2>. QED  BY <1>22, <2>1, <2>2, <2>3, TaskSets DEF TypeOK, AskLlm
<1>23. ASSUME NEW turn \in Turn, LlmToken(turn) PROVE TypeOK'
  <2>1. task' \in [Task -> TaskPhase]
    BY <1>23, TaskSets DEF TypeOK, LlmToken, TaskPhase, Live, Holding,
         Asking, Finished
  <2>2. Append(sentences[turn], "run") \in Seq(SentenceState)
    BY <1>23, TaskSets, AppendProperties DEF TypeOK, SentenceState
  <2>3. \/ UNCHANGED sentences
       \/ sentences' = [sentences EXCEPT ![turn] = Append(@, "run")]
    BY <1>23 DEF LlmToken, EnqueueSentence
  <2>4. [sentences EXCEPT ![turn] = Append(@, "run")]
           \in [Task -> Seq(SentenceState)]
    BY <1>23, <2>2, TaskSets, SentencesExcept DEF TypeOK
  <2>5. sentences' \in [Task -> Seq(SentenceState)]
    BY <1>23, <2>3, <2>4 DEF TypeOK
  <2>. QED  BY <1>23, <2>1, <2>2, <2>3, <2>4, <2>5 DEF TypeOK, LlmToken
<1>24. ASSUME NEW turn \in Turn, EmptyAnswer(turn) PROVE TypeOK'
  <2>1. task' \in [Task -> TaskPhase] /\ responseLock' \in Task \cup {NoTask}
     /\ sentences' \in [Task -> Seq(SentenceState)]
     /\ responseTasks' \subseteq Response /\ orphans' \subseteq Task
    BY <1>24, TaskSets, LeaveType DEF EmptyAnswer, Finished
  <2>. QED  BY <1>24, <2>1 DEF TypeOK, EmptyAnswer
<1>25. ASSUME NEW turn \in Turn, Answer(turn) PROVE TypeOK'
  <2>1. task' \in [Task -> TaskPhase]
    BY <1>25, TaskSets DEF TypeOK, Answer, Leave, TaskPhase, Live, Holding,
         Asking, Finished
  <2>2. Append(sentences[turn], "run") \in Seq(SentenceState)
    BY <1>25, TaskSets, AppendProperties DEF TypeOK, SentenceState
  <2>3. \/ UNCHANGED sentences
       \/ sentences' = [sentences EXCEPT ![turn] = Append(@, "run")]
       \/ sentences' = [sentences EXCEPT ![turn] = <<>>]
    BY <1>25 DEF Answer, EnqueueSentence, Leave, Abandon
  <2>4. [sentences EXCEPT ![turn] = Append(@, "run")]
           \in [Task -> Seq(SentenceState)]
    BY <1>25, <2>2, TaskSets, SentencesExcept DEF TypeOK
  <2>5. [sentences EXCEPT ![turn] = <<>>] \in [Task -> Seq(SentenceState)]
    BY <1>25, EmptySeq, TaskSets, SentencesExcept DEF TypeOK
  <2>6. sentences' \in [Task -> Seq(SentenceState)]
    BY <1>25, <2>3, <2>4, <2>5 DEF TypeOK
  <2>7. responseTasks' \subseteq Response
    BY <1>25 DEF TypeOK, Answer, Leave, Forget
  <2>8. responseLock' \in Task \cup {NoTask} /\ orphans' \subseteq Task
    BY <1>25, TaskSets DEF TypeOK, Answer, Leave, Abandon
  <2>9. lastGenerated' \in 0..MaxTurns
    BY <1>25, MaxTurnsAssumption DEF TypeOK, Answer, Turn
  <2>. QED  BY <1>25, <2>1, <2>2, <2>3, <2>4, <2>5, <2>6, <2>7, <2>8, <2>9
       DEF TypeOK, Answer
<1>26. ASSUME NEW turn \in Turn, LlmFails(turn) PROVE TypeOK'
  <2>1. task' \in [Task -> TaskPhase] /\ responseLock' \in Task \cup {NoTask}
     /\ sentences' \in [Task -> Seq(SentenceState)]
     /\ responseTasks' \subseteq Response /\ orphans' \subseteq Task
    BY <1>26, TaskSets, LeaveType DEF LlmFails, Finished
  <2>. QED  BY <1>26, <2>1 DEF TypeOK, LlmFails
<1>27. ASSUME NEW r \in Task, SendFails(r) PROVE TypeOK'
  <2>1. task' \in [Task -> TaskPhase] /\ responseLock' \in Task \cup {NoTask}
     /\ sentences' \in [Task -> Seq(SentenceState)]
     /\ responseTasks' \subseteq Response /\ orphans' \subseteq Task
    BY <1>27, TaskSets, LeaveType DEF SendFails, Finished
  <2>. QED  BY <1>27, <2>1 DEF TypeOK, SendFails
<1>28. ASSUME NEW r \in Task, PlaybackEnds(r) PROVE TypeOK'
  <2>1. task' \in [Task -> TaskPhase] /\ responseLock' \in Task \cup {NoTask}
     /\ sentences' \in [Task -> Seq(SentenceState)]
     /\ responseTasks' \subseteq Response /\ orphans' \subseteq Task
    BY <1>28, TaskSets, LeaveType DEF PlaybackEnds, Finished
  <2>. QED  BY <1>28, <2>1 DEF TypeOK, PlaybackEnds
<1>29. ASSUME NEW r \in Task, SentenceRaises(r) PROVE TypeOK'
  <2>1. task' \in [Task -> TaskPhase] /\ responseLock' \in Task \cup {NoTask}
     /\ sentences' \in [Task -> Seq(SentenceState)]
     /\ responseTasks' \subseteq Response /\ orphans' \subseteq Task
    BY <1>29, TaskSets, LeaveType DEF SentenceRaises, Finished
  <2>. QED  BY <1>29, <2>1 DEF TypeOK, SentenceRaises
<1>30. ASSUME NEW r \in Task, SpeakMessage(r) PROVE TypeOK'
  <2>1. task' \in [Task -> TaskPhase]
    BY <1>30, TaskSets DEF TypeOK, SpeakMessage, Dequeue, TaskPhase, Live,
         Holding, Asking, Finished
  <2>2. ahead' \in [Task -> SUBSET Task]
    BY <1>30, TaskSets DEF TypeOK, SpeakMessage, Dequeue
  <2>3. <<"run">> \in Seq(SentenceState)
    BY <1>30 DEF SentenceState
  <2>4. sentences' \in [Task -> Seq(SentenceState)]
    BY <1>30, <2>3, TaskSets DEF TypeOK, SpeakMessage
  <2>. QED  BY <1>30, <2>1, <2>2, <2>3, <2>4 DEF TypeOK, SpeakMessage
<1>31. ASSUME NEW r \in Task, PlayFrame(r) PROVE TypeOK'
  BY <1>31 DEF TypeOK, PlayFrame
<1>32. ASSUME NEW r \in Task, NextSentence(r) PROVE TypeOK'
  <2>1. Tail(sentences[r]) \in Seq(SentenceState)
    BY <1>32, HeadTailProperties, EmptySeq DEF TypeOK, NextSentence
  <2>2. sentences' \in [Task -> Seq(SentenceState)]
    BY <1>32, <2>1 DEF TypeOK, NextSentence
  <2>. QED  BY <1>32, <2>1, <2>2 DEF TypeOK, NextSentence
<1>33. ASSUME NEW r \in Task, NEW i \in 1..MaxSentences, Synthesised(r, i)
       PROVE  TypeOK'
  <2>1. sentences' \in [Task -> Seq(SentenceState)]
    BY <1>33, SentenceUpdate DEF TypeOK, Synthesised, SentenceState
  <2>. QED  BY <1>33, <2>1 DEF TypeOK, Synthesised
<1>34. ASSUME NEW r \in Task, NEW i \in 1..MaxSentences, TtsFails(r, i)
       PROVE  TypeOK'
  <2>1. sentences' \in [Task -> Seq(SentenceState)]
    BY <1>34, SentenceUpdate DEF TypeOK, TtsFails, SentenceState
  <2>. QED  BY <1>34, <2>1 DEF TypeOK, TtsFails
<1>35. ASSUME NEW r \in Task, NEW i \in 1..MaxSentences, TtsStopped(r, i)
       PROVE  TypeOK'
  <2>1. sentences' \in [Task -> Seq(SentenceState)]
    BY <1>35, SentenceUpdate DEF TypeOK, TtsStopped, SentenceState
  <2>. QED  BY <1>35, <2>1 DEF TypeOK, TtsStopped
<1>36. ASSUME NEW r \in Task, WaiterCancelled(r) PROVE TypeOK'
  <2>1. task' \in [Task -> TaskPhase]
    BY <1>36, TaskSets DEF TypeOK, WaiterCancelled, Dequeue, TaskPhase, Live,
         Holding, Asking, Finished
  <2>2. ahead' \in [Task -> SUBSET Task]
    BY <1>36, TaskSets DEF TypeOK, WaiterCancelled, Dequeue
  <2>. QED  BY <1>36, <2>1, <2>2 DEF TypeOK, WaiterCancelled, Forget
<1>37. ASSUME NEW r \in Task, MessageCancelled(r) PROVE TypeOK'
  <2>1. task' \in [Task -> TaskPhase] /\ responseLock' \in Task \cup {NoTask}
     /\ sentences' \in [Task -> Seq(SentenceState)]
     /\ responseTasks' \subseteq Response /\ orphans' \subseteq Task
    BY <1>37, TaskSets, LeaveType DEF MessageCancelled, Finished
  <2>. QED  BY <1>37, <2>1 DEF TypeOK, MessageCancelled
<1>38. ASSUME NEW turn \in Turn, CleanupEnds(turn) PROVE TypeOK'
  <2>1. task' \in [Task -> TaskPhase] /\ responseLock' \in Task \cup {NoTask}
     /\ sentences' \in [Task -> Seq(SentenceState)]
     /\ responseTasks' \subseteq Response /\ orphans' \subseteq Task
    BY <1>38, TaskSets, LeaveType DEF CleanupEnds, Finished
  <2>. QED  BY <1>38, <2>1 DEF TypeOK, CleanupEnds
<1>39. ASSUME NEW turn \in Turn, CleanupRaises(turn) PROVE TypeOK'
  <2>1. task' \in [Task -> TaskPhase] /\ responseLock' \in Task \cup {NoTask}
     /\ sentences' \in [Task -> Seq(SentenceState)]
     /\ responseTasks' \subseteq Response /\ orphans' \subseteq Task
    BY <1>39, TaskSets, LeaveType DEF CleanupRaises, Finished
  <2>. QED  BY <1>39, <2>1 DEF TypeOK, CleanupRaises
<1>40. ASSUME NEW turn \in Turn, CleanupBegins(turn) PROVE TypeOK'
  <2>1. task' \in [Task -> TaskPhase]
    BY <1>40, TaskSets DEF TypeOK, CleanupBegins, TaskPhase, Live, Holding,
         Asking, Finished
  <2>2. [i \in DOMAIN sentences[turn] |->
        IF sentences[turn][i] = "run" THEN "stopping"
        ELSE sentences[turn][i]] \in Seq(SentenceState)
    BY <1>40, StopSentences, TaskSets DEF TypeOK
  <2>3. sentences' \in [Task -> Seq(SentenceState)]
    BY <1>40, <2>2, TaskSets DEF TypeOK, CleanupBegins
  <2>. QED  BY <1>40, <2>1, <2>2, <2>3 DEF TypeOK, CleanupBegins
<1>41. ASSUME Expire PROVE TypeOK'
  <2>1. task' \in [Task -> TaskPhase]
    BY <1>41, TaskSets DEF TypeOK, Expire, Enqueue, TaskPhase, Live, Holding,
         Asking, Finished
  <2>2. ahead' \in [Task -> SUBSET Task]
    BY <1>41, TaskSets DEF TypeOK, Expire, Enqueue, Waiting
  <2>3. accepting' \in BOOLEAN /\ expired' \in BOOLEAN
    BY <1>41 DEF Expire
  <2>. QED  BY <1>41, <2>1, <2>2, <2>3 DEF TypeOK, Expire
<1>42. ASSUME NEW k \in Turn, UploadEnds(k) PROVE TypeOK'
  BY <1>42 DEF TypeOK, UploadEnds
<1>43. ASSUME NEW k \in Turn, UploadFails(k) PROVE TypeOK'
  BY <1>43 DEF TypeOK, UploadFails
<1>44. ASSUME NEW r \in Response, Reap(r) PROVE TypeOK'
  BY <1>44 DEF TypeOK, Reap
<1>45. ASSUME UNCHANGED vars PROVE TypeOK'
  BY <1>45 DEF TypeOK, vars
<1>46. ASSUME FinalNotStored PROVE TypeOK'
  <2>1. nTurns' \in 0..MaxTurns
    BY <1>46, MaxTurnsAssumption DEF TypeOK, FinalNotStored
  <2>2. pendingAudio' \in BOOLEAN /\ stt' \in Finished
    BY <1>46 DEF FinalNotStored, Finished
  <2>. QED  BY <1>46, <2>1, <2>2 DEF TypeOK, FinalNotStored
<1>47. ASSUME NEW turn \in Turn, AnswerNotSaved(turn) PROVE TypeOK'
  <2>1. task' \in [Task -> TaskPhase] /\ responseLock' \in Task \cup {NoTask}
     /\ sentences' \in [Task -> Seq(SentenceState)]
     /\ responseTasks' \subseteq Response /\ orphans' \subseteq Task
    BY <1>47, TaskSets, LeaveType DEF AnswerNotSaved, Finished
  <2>. QED  BY <1>47, <2>1 DEF TypeOK, AnswerNotSaved
<1>48. ASSUME NEW k \in Turn, KeyNotSaved(k) \/ ReapUpload(k) PROVE TypeOK'
  <2>1. CASE KeyNotSaved(k)
    BY <2>1 DEF TypeOK, KeyNotSaved
  <2>2. CASE ReapUpload(k)
    BY <2>2 DEF TypeOK, ReapUpload
  <2>. QED  BY <1>48, <2>1, <2>2
<1>49. ASSUME NEW r \in Task, OrphansEnd(r) PROVE TypeOK'
  BY <1>49 DEF TypeOK, OrphansEnd
<1>. QED
  BY <1>1, <1>2, <1>3, <1>4, <1>5, <1>6, <1>7, <1>8, <1>9, <1>10, <1>11,
       <1>12, <1>13, <1>14, <1>15, <1>16, <1>17, <1>18, <1>19, <1>20, <1>21,
       <1>22, <1>23, <1>24, <1>25, <1>26, <1>27, <1>28, <1>29, <1>30, <1>31,
       <1>32, <1>33, <1>34, <1>35, <1>36, <1>37, <1>38, <1>39, <1>40, <1>41,
       <1>42, <1>43, <1>44, <1>45, <1>46, <1>47, <1>48, <1>49
  DEF Next, Starting, Closing, ReceiveDisconnect, SttRuns, Pipeline, Playback,
      Synthesis, Environment, Over, Stop, MediaFails, SttStartFails,
      SttAwaitRaises, ResponseAwaitRaises, UploadAwaitRaises,
      CloseClientRaises
-----------------------------------------------------------------------------
(***************************************************************************)
(* Tasks and response_lock.                                                *)
(***************************************************************************)
\* A holder of response_lock that leaves it.
LEMMA LeaveTask ==
    ASSUME TypeOK, TaskInv, NEW r \in Task, task[r] \in Holding,
           NEW outcome \in Finished, Leave(r, outcome),
           cancels' = cancels \ {r}
    PROVE  TaskInv'
<1>. USE DEF Finished, Holding, Asking, Live
<1>1. /\ task \in [Task -> TaskPhase] /\ responseLock = r /\ NoTask \notin Task
      /\ task' = [task EXCEPT ![r] = outcome] /\ responseLock' = NoTask
      /\ cancels \subseteq Task
      /\ responseTasks \ {r} \subseteq responseTasks'
  BY TaskSets DEF TypeOK, TaskInv, Leave, Forget
<1>. QED  BY <1>1, TaskSets DEF TaskInv

\* A waiter that gets response_lock.
LEMMA AcquireTask ==
    ASSUME TypeOK, TaskInv, NEW r \in Task, LockIsFor(r),
           NEW phase \in {"llm", "play"}, phase = "llm" => r \in Turn,
           Dequeue(r, phase), responseLock' = r,
           UNCHANGED <<cancels, responseTasks>>
    PROVE  TaskInv'
<1>. USE DEF Finished, Holding, Asking, Live
<1>1. /\ task \in [Task -> TaskPhase]
      /\ responseLock = NoTask /\ NoTask \notin Task
      /\ task' = [task EXCEPT ![r] = phase] /\ task[r] = "queued"
      /\ r \notin cancels /\ cancels \subseteq Task
  BY TaskSets DEF TypeOK, LockIsFor, Dequeue
<1>2. (r # Greeting /\ r # Notice) \/ phase = "play"
  BY TaskSets
<1>. QED  BY <1>1, <1>2, TaskSets DEF TaskInv

\* A new task that begins to wait for response_lock.
LEMMA EnqueueTask ==
    ASSUME TypeOK, TaskInv, NEW r \in Response, task[r] = "none", Enqueue(r),
           responseTasks' = responseTasks \cup {r},
           UNCHANGED <<cancels, responseLock>>
    PROVE  TaskInv'
<1>. USE DEF Holding, Asking, Live
<1>1. /\ task \in [Task -> TaskPhase] /\ r \in Task
      /\ task' = [task EXCEPT ![r] = "queued"] /\ cancels \subseteq Task
  BY TaskSets DEF TypeOK, Enqueue
<1>. QED  BY <1>1, TaskSets DEF TaskInv

LEMMA MarkCancelledTask ==
    ASSUME TypeOK, TaskInv, MarkCancelled(ActiveResponses),
           UNCHANGED <<task, responseTasks, responseLock>>
    PROVE  TaskInv'
BY TaskSets DEF TypeOK, TaskInv, MarkCancelled, ActiveResponses, Live

LEMMA TaskStep == TypeOK /\ TaskInv /\ BeginningInv /\ [Next]_vars => TaskInv'
<1>. SUFFICES ASSUME TypeOK, TaskInv, BeginningInv, [Next]_vars PROVE TaskInv'
  OBVIOUS
<1>0. /\ task \in [Task -> TaskPhase] /\ cancels \subseteq Task
      /\ responseTasks \subseteq Response
  BY DEF TypeOK
<1>1. ASSUME UNCHANGED taskVars PROVE TaskInv'
  BY <1>1 DEF TaskInv
<1>2. ASSUME SessionStarted PROVE TaskInv'
  <2>1. task[Greeting] = "none"
    BY <1>2, TaskSets DEF BeginningInv, SessionStarted
  <2>. QED  BY <1>2, <2>1, TaskSets, EnqueueTask DEF SessionStarted
<1>3. ASSUME SttStarted PROVE TaskInv'
  <2>1. task[Notice] = "none"
    BY <1>3 DEF BeginningInv, SttStarted, NotYetListening
  <2>2. \/ UNCHANGED taskVars
        \/ task' = [task EXCEPT ![Notice] = "sleep"] /\
           UNCHANGED <<cancels, responseTasks, responseLock>>
    BY <1>3 DEF SttStarted
  <2>. QED
    BY <1>0, <1>1, <2>1, <2>2, TaskSets DEF TaskInv, Holding, Asking, Live
<1>4. ASSUME CloseBegins PROVE TaskInv'
  <2>1. /\ cancels' \subseteq cancels \cup {Notice}
        /\ Notice \in cancels' \ cancels =>
              task[Notice] \in {"sleep"} \cup Live
        /\ UNCHANGED <<task, responseTasks, responseLock>>
    BY <1>4 DEF CloseBegins
  <2>. QED  BY <2>1, TaskSets DEF TaskInv, Live, Asking, Holding
<1>5. ASSUME SttAwaited PROVE TaskInv'
  BY <1>5, MarkCancelledTask DEF SttAwaited
<1>6. ASSUME SttFinal PROVE TaskInv'
  <2>1. nTurns + 1 \in Turn /\ nTurns + 1 > nTurns
    BY <1>6, MaxTurnsAssumption DEF TypeOK, SttFinal, StoreTurn, Turn
  <2>2. task[nTurns + 1] = "none"
    BY <2>1 DEF BeginningInv
  <2>. QED  BY <1>6, <2>1, <2>2, TaskSets, EnqueueTask DEF SttFinal, Respond
<1>7. ASSUME BargeIn PROVE TaskInv'
  BY <1>7, MarkCancelledTask DEF BargeIn
<1>8. ASSUME BargeInReturns PROVE TaskInv'
  <2>1. nTurns \in Response /\ task[nTurns] = "none"
    BY <1>8 DEF TypeOK, BeginningInv, BargeInReturns, Response
  <2>. QED  BY <1>8, <2>1, EnqueueTask DEF BargeInReturns, Respond
<1>9. ASSUME NEW turn \in Turn, AskLlm(turn) PROVE TaskInv'
  BY <1>9, TaskSets, AcquireTask DEF AskLlm
<1>10. ASSUME NEW r \in Task, SpeakMessage(r) PROVE TaskInv'
  BY <1>10, AcquireTask DEF SpeakMessage
<1>11. ASSUME NEW turn \in Turn, LlmToken(turn) PROVE TaskInv'
  <2>1. task[turn] \in Asking /\ task' = [task EXCEPT ![turn] = "stream"]
        /\ UNCHANGED <<cancels, responseTasks, responseLock>>
    BY <1>11 DEF LlmToken
  <2>. QED  BY <1>0, <2>1, TaskSets DEF TaskInv, Holding, Asking, Live
<1>12. ASSUME NEW turn \in Turn, Answer(turn) PROVE TaskInv'
  <2>1. task[turn] = "stream" /\ turn \notin cancels
        /\ UNCHANGED cancels
    BY <1>12 DEF Answer, In
  <2>2. CASE Leave(turn, "done")
    BY <2>1, <2>2, TaskSets, LeaveTask DEF Holding, Asking, Finished
  <2>3. CASE task' = [task EXCEPT ![turn] = "play"]
             /\ UNCHANGED <<responseLock, responseTasks>>
    BY <1>0, <2>1, <2>3, TaskSets DEF TaskInv, Holding, Asking, Live
  <2>. QED  BY <1>12, <2>2, <2>3 DEF Answer
<1>13. ASSUME NEW r \in Task,
              \/ r \in Turn /\
                    (EmptyAnswer(r) \/ AnswerNotSaved(r) \/ LlmFails(r))
              \/ SendFails(r) \/ PlaybackEnds(r) \/ SentenceRaises(r)
       PROVE TaskInv'
  <2>1. task[r] \in Holding /\ r \notin cancels /\ UNCHANGED cancels
    BY <1>13 DEF EmptyAnswer, AnswerNotSaved, LlmFails, SendFails,
                 PlaybackEnds, SentenceRaises, In, Holding, Asking
  <2>2. \E outcome \in Finished : Leave(r, outcome)
    BY <1>13 DEF EmptyAnswer, AnswerNotSaved, LlmFails, SendFails,
                 PlaybackEnds, SentenceRaises, Finished
  <2>. QED  BY <2>1, <2>2, LeaveTask
<1>14. ASSUME NEW r \in Task, WaiterCancelled(r) PROVE TaskInv'
  <2>1. /\ task[r] \in {"sleep", "queued"}
        /\ task' = [task EXCEPT ![r] = "cancelled"]
        /\ cancels' = cancels \ {r} /\ responseTasks' = responseTasks \ {r}
        /\ UNCHANGED responseLock
    BY <1>14 DEF WaiterCancelled, Dequeue, Forget
  <2>. QED  BY <1>0, <2>1, TaskSets DEF TaskInv, Holding, Asking, Live
<1>15. ASSUME NEW r \in Task, MessageCancelled(r) PROVE TaskInv'
  BY <1>15, LeaveTask DEF MessageCancelled, Holding, Finished
<1>16. ASSUME NEW turn \in Turn, CleanupBegins(turn) PROVE TaskInv'
  <2>1. /\ task[turn] \in Asking \cup {"play"}
        /\ task' = [task EXCEPT ![turn] = "cleanup"]
        /\ cancels' = cancels \ {turn}
        /\ UNCHANGED <<responseTasks, responseLock>>
    BY <1>16 DEF CleanupBegins
  <2>. QED  BY <1>0, <2>1, TaskSets DEF TaskInv, Holding, Asking, Live
<1>17. ASSUME NEW turn \in Turn, CleanupEnds(turn) \/ CleanupRaises(turn)
       PROVE TaskInv'
  <2>1. task[turn] = "cleanup" /\ turn \in Task
        /\ UNCHANGED cancels /\ cancels \ {turn} = cancels
    BY <1>0, <1>17, TaskSets DEF CleanupEnds, CleanupRaises, TaskInv, Live,
         Holding, Asking
  <2>2. \E outcome \in Finished : Leave(turn, outcome)
    BY <1>17 DEF CleanupEnds, CleanupRaises, Finished
  <2>. QED  BY <2>1, <2>2, LeaveTask DEF Holding
<1>18. ASSUME Expire PROVE TaskInv'
  <2>1. /\ task[Notice] = "sleep" /\ Notice \notin cancels
        /\ task' = [task EXCEPT ![Notice] = "queued"]
        /\ UNCHANGED <<cancels, responseTasks, responseLock>>
    BY <1>18 DEF Expire, Enqueue, In
  <2>. QED  BY <1>0, <2>1, TaskSets DEF TaskInv, Holding, Asking, Live
<1>19. ASSUME NEW r \in Response, Reap(r) PROVE TaskInv'
  <2>1. /\ task[r] \in Finished /\ responseTasks' = responseTasks \ {r}
        /\ UNCHANGED <<task, cancels, responseLock>>
    BY <1>19 DEF Reap
  <2>. QED  BY <2>1, TaskSets DEF TaskInv, Holding, Asking, Live, Finished
<1>20. ASSUME \/ Start \/ StartFails \/ PeerDrops \/ Media \/ CloseAborts
              \/ \E r \in Response : ResponseAwaited(r)
              \/ ResponsesAwaited \/ \E k \in Turn : UploadAwaited(k)
              \/ UploadsAwaited \/ EndSession \/ EndNotSaved \/ Deliver
              \/ FinalNotStored \/ BargeInRaises \/ SttDrops \/ SttEnds \/ SttCancelled
              \/ \E r \in Task : PlayFrame(r) \/ NextSentence(r)
              \/ \E r \in Task : \E i \in 1..MaxSentences :
                    Synthesised(r, i) \/ TtsStopped(r, i) \/ TtsFails(r, i)
              \/ \E k \in Turn : \/ UploadEnds(k) \/ UploadFails(k)
                                \/ KeyNotSaved(k) \/ ReapUpload(k)
              \/ \E r \in Task : OrphansEnd(r)
              \/ UNCHANGED vars
       PROVE  UNCHANGED taskVars
  BY <1>20 DEF Start, StartFails, EndNotSaved, FinalNotStored, KeyNotSaved,
       ReapUpload, OrphansEnd, PeerDrops, Media, CloseAborts, ResponseAwaited,
       ResponsesAwaited, UploadAwaited, UploadsAwaited, EndSession, Deliver,
       BargeInRaises, SttDrops, SttEnds, SttCancelled, PlayFrame,
       NextSentence, Synthesised, TtsStopped, TtsFails, UploadEnds,
       UploadFails, vars
<1>. QED
  BY <1>1, <1>2, <1>3, <1>4, <1>5, <1>6, <1>7, <1>8, <1>9, <1>10, <1>11,
     <1>12, <1>13, <1>14, <1>15, <1>16, <1>17, <1>18, <1>19, <1>20, TaskSets
  DEF Next, Starting, Closing, ReceiveDisconnect, SttRuns, Pipeline, Playback,
      Synthesis, Environment, Over, Stop, MediaFails, SttStartFails,
      SttAwaitRaises, ResponseAwaitRaises, UploadAwaitRaises,
      CloseClientRaises
-----------------------------------------------------------------------------
(***************************************************************************)
(* Which tasks a step can bring to life: only the four actions that create *)
(* a task.  No other step starts a task, or lets a cancelled one act.      *)
(***************************************************************************)
Running(r) == task[r] \in {"sleep"} \cup Live
CanAct(r) ==
    task[r] \in {"sleep"} \cup (Live \ {"cleanup"}) /\ r \notin cancels

\* Steps that change no task, and steps that only cancel some.
LEMMA CancelOnly ==
    ASSUME UNCHANGED task, cancels \subseteq cancels'
    PROVE  \A r \in Task : /\ Running(r)' => Running(r)
                           /\ CanAct(r)' => CanAct(r)
                           /\ task[r] = "none" => task'[r] = "none"
                           /\ task[r] \in Finished => task'[r] = task[r]
                           /\ task'[r] \in {"none", "queued"} =>
                                 task[r] \in {"none", "sleep", "queued"}
BY DEF Running, CanAct

\* Steps that move one task from a live phase to another phase.
LEMMA MoveOne ==
    ASSUME TypeOK, NEW q \in Task, NEW phase,
           task' = [task EXCEPT ![q] = phase],
           task[q] \in {"sleep"} \cup Live,
           phase \in {"none", "queued"} => task[q] = "sleep",
           \/ q \notin cancels /\ task[q] # "cleanup" /\ UNCHANGED cancels
           \/ /\ phase \in Finished \cup {"cleanup"}
              /\ cancels \ {q} \subseteq cancels'
    PROVE  \A r \in Task : /\ Running(r)' => Running(r)
                           /\ CanAct(r)' => CanAct(r)
                           /\ task[r] = "none" => task'[r] = "none"
                           /\ task[r] \in Finished => task'[r] = task[r]
                           /\ task'[r] \in {"none", "queued"} =>
                                 task[r] \in {"none", "sleep", "queued"}
<1>1. task \in [Task -> TaskPhase]  BY DEF TypeOK
<1>. QED  BY <1>1 DEF Running, CanAct, Finished, Live, Holding, Asking

LEMMA ActingStep ==
    ASSUME TypeOK, TaskInv, [Next]_vars,
           ~SessionStarted, ~SttStarted, ~SttFinal, ~BargeInReturns
    PROVE  \A r \in Task : /\ Running(r)' => Running(r)
                           /\ CanAct(r)' => CanAct(r)
                           /\ task[r] = "none" => task'[r] = "none"
                           /\ task[r] \in Finished => task'[r] = task[r]
                           /\ task'[r] \in {"none", "queued"} =>
                                 task[r] \in {"none", "sleep", "queued"}
<1>. DEFINE Goal ==
       \A r \in Task : /\ Running(r)' => Running(r)
                       /\ CanAct(r)' => CanAct(r)
                       /\ task[r] = "none" => task'[r] = "none"
                       /\ task[r] \in Finished => task'[r] = task[r]
                       /\ task'[r] \in {"none", "queued"} =>
                             task[r] \in {"none", "sleep", "queued"}
<1>1. ASSUME \/ Start \/ StartFails \/ CloseBegins \/ PeerDrops \/ Media
             \/ CloseAborts
             \/ SttAwaited \/ \E r \in Response : ResponseAwaited(r)
             \/ ResponsesAwaited \/ \E k \in Turn : UploadAwaited(k)
             \/ UploadsAwaited \/ EndSession \/ EndNotSaved \/ Deliver
             \/ BargeIn \/ FinalNotStored
             \/ BargeInRaises \/ SttDrops \/ SttEnds \/ SttCancelled
             \/ \E r \in Task : PlayFrame(r) \/ NextSentence(r)
             \/ \E r \in Task : \E i \in 1..MaxSentences :
                   Synthesised(r, i) \/ TtsStopped(r, i) \/ TtsFails(r, i)
             \/ \E k \in Turn : \/ UploadEnds(k) \/ UploadFails(k)
                               \/ KeyNotSaved(k) \/ ReapUpload(k)
             \/ \E r \in Response : Reap(r)
             \/ \E r \in Task : OrphansEnd(r)
             \/ UNCHANGED vars
      PROVE  Goal
  <2>1. UNCHANGED task /\ cancels \subseteq cancels'
    BY <1>1 DEF Start, StartFails, EndNotSaved, FinalNotStored, KeyNotSaved,
         ReapUpload, OrphansEnd, CloseBegins, PeerDrops, Media, CloseAborts,
         SttAwaited, ResponseAwaited, ResponsesAwaited, UploadAwaited, UploadsAwaited,
         EndSession, Deliver, BargeIn, MarkCancelled, BargeInRaises, SttDrops,
         SttEnds, SttCancelled, PlayFrame, NextSentence, Synthesised,
         TtsStopped, TtsFails, UploadEnds, UploadFails, Reap, vars
  <2>. QED  BY <2>1, CancelOnly
<1>2. ASSUME NEW r \in Task,
             \/ r \in Turn /\ (AskLlm(r) \/ LlmToken(r) \/ EmptyAnswer(r)
                               \/ Answer(r) \/ AnswerNotSaved(r)
                               \/ LlmFails(r))
             \/ SpeakMessage(r) \/ SendFails(r) \/ PlaybackEnds(r)
             \/ SentenceRaises(r)
      PROVE  Goal
  <2>1. /\ r \notin cancels /\ UNCHANGED cancels
        /\ task[r] \in Live /\ task[r] # "cleanup"
    BY <1>2 DEF AskLlm, LockIsFor, LlmToken, EmptyAnswer, Answer,
         AnswerNotSaved, LlmFails, SpeakMessage, SendFails, PlaybackEnds, SentenceRaises, In, Live,
         Holding, Asking
  <2>2. \E phase : /\ phase \notin {"none", "queued"}
                   /\ task' = [task EXCEPT ![r] = phase]
    BY <1>2 DEF AskLlm, LlmToken, EmptyAnswer, Answer, AnswerNotSaved,
         LlmFails, SpeakMessage, SendFails, PlaybackEnds, SentenceRaises, Leave, Dequeue
  <2>. QED  BY <2>1, <2>2, MoveOne
<1>3. ASSUME NEW r \in Task,
             \/ WaiterCancelled(r) \/ MessageCancelled(r)
             \/ r \in Turn /\ (CleanupBegins(r) \/ CleanupEnds(r)
                               \/ CleanupRaises(r))
      PROVE  Goal
  <2>1. task[r] \in {"sleep"} \cup Live /\ cancels \ {r} \subseteq cancels'
    BY <1>3 DEF WaiterCancelled, MessageCancelled, CleanupBegins, CleanupEnds,
         CleanupRaises, Live, Holding, Asking
  <2>2. \E phase \in Finished \cup {"cleanup"} :
           task' = [task EXCEPT ![r] = phase]
    BY <1>3 DEF WaiterCancelled, MessageCancelled, CleanupBegins, CleanupEnds,
         CleanupRaises, Leave, Dequeue, Finished
  <2>. QED  BY <2>1, <2>2, MoveOne DEF Finished
<1>4. ASSUME Expire PROVE Goal
  <2>1. /\ task[Notice] = "sleep" /\ Notice \notin cancels /\ UNCHANGED cancels
        /\ task' = [task EXCEPT ![Notice] = "queued"]
    BY <1>4 DEF Expire, In, Enqueue
  <2>. QED  BY <2>1, MoveOne, TaskSets
<1>. QED
  BY <1>1, <1>2, <1>3, <1>4, TaskSets
  DEF Next, Starting, Closing, ReceiveDisconnect, SttRuns, Pipeline, Playback,
      Synthesis, Environment, Over, Stop, MediaFails, SttStartFails,
      SttAwaitRaises, ResponseAwaitRaises, UploadAwaitRaises,
      CloseClientRaises
-----------------------------------------------------------------------------
\* What takes an answer from the LLM.
Asks(turn) ==
    AskLlm(turn) \/ LlmToken(turn) \/ Answer(turn) \/ AnswerNotSaved(turn)

\* No other step changes the buffer or the queries and answers, or makes a
\* task ask.
LEMMA NoAskingStep ==
    ASSUME TypeOK, [Next]_vars, ~\E turn \in Turn : Asks(turn)
    PROVE  /\ UNCHANGED <<sentenceBuffer, lastGenerated>>
           /\ ~Start /\ ~StartFails => UNCHANGED <<first, answered>>
           /\ \A turn \in Turn :
                 task'[turn] \in Asking => task[turn] \in Asking
<1>. DEFINE Still ==
       /\ UNCHANGED <<sentenceBuffer, lastGenerated>>
       /\ ~Start /\ ~StartFails => UNCHANGED <<first, answered>>
       /\ \A turn \in Turn : task'[turn] \in Asking => task[turn] \in Asking
<1>0. task \in [Task -> TaskPhase] /\ Turn \subseteq Task
  BY TaskSets DEF TypeOK
<1>1. ASSUME \/ Start \/ StartFails \/ CloseBegins \/ PeerDrops \/ Media
             \/ CloseAborts
             \/ SttAwaited \/ \E r \in Response : ResponseAwaited(r)
             \/ ResponsesAwaited \/ \E k \in Turn : UploadAwaited(k)
             \/ UploadsAwaited \/ EndSession \/ EndNotSaved \/ Deliver
             \/ BargeIn \/ FinalNotStored
             \/ BargeInRaises \/ SttDrops \/ SttEnds \/ SttCancelled
             \/ \E r \in Task : PlayFrame(r) \/ NextSentence(r)
             \/ \E r \in Task : \E i \in 1..MaxSentences :
                   Synthesised(r, i) \/ TtsStopped(r, i) \/ TtsFails(r, i)
             \/ \E k \in Turn : \/ UploadEnds(k) \/ UploadFails(k)
                               \/ KeyNotSaved(k) \/ ReapUpload(k)
             \/ \E r \in Response : Reap(r)
             \/ \E r \in Task : OrphansEnd(r)
             \/ UNCHANGED vars
      PROVE  Still
  BY <1>1 DEF Start, StartFails, OpenTranscript, EndNotSaved, FinalNotStored,
       KeyNotSaved, ReapUpload, OrphansEnd, CloseBegins, PeerDrops, Media, CloseAborts,
       SttAwaited, ResponseAwaited, ResponsesAwaited, UploadAwaited, UploadsAwaited,
       EndSession, Deliver, BargeIn, StoreTurn, BargeInRaises, SttDrops,
       SttEnds, SttCancelled, PlayFrame, NextSentence, Synthesised,
       TtsStopped, TtsFails, UploadEnds, UploadFails, Reap, vars
<1>2. ASSUME NEW r \in Task, NEW phase, phase \notin Asking,
             task' = [task EXCEPT ![r] = phase],
             UNCHANGED <<sentenceBuffer, lastGenerated, first, answered>>
      PROVE  Still
  BY <1>0, <1>2
<1>3. ASSUME NEW r \in Task,
             \/ r \in Turn /\ (EmptyAnswer(r) \/ LlmFails(r)
                               \/ CleanupBegins(r) \/ CleanupEnds(r)
                               \/ CleanupRaises(r))
             \/ SpeakMessage(r) \/ SendFails(r) \/ PlaybackEnds(r)
             \/ SentenceRaises(r) \/ WaiterCancelled(r) \/ MessageCancelled(r)
      PROVE  Still
  <2>1. \E phase : phase \notin Asking /\ task' = [task EXCEPT ![r] = phase]
    BY <1>3 DEF EmptyAnswer, LlmFails, CleanupBegins, CleanupEnds,
         CleanupRaises, SpeakMessage, SendFails, PlaybackEnds, SentenceRaises,
         WaiterCancelled, MessageCancelled, Leave, Dequeue, Asking
  <2>2. UNCHANGED <<sentenceBuffer, lastGenerated, first, answered>>
    BY <1>3 DEF EmptyAnswer, LlmFails, CleanupBegins, CleanupEnds,
         CleanupRaises, SpeakMessage, SendFails, PlaybackEnds, SentenceRaises,
         WaiterCancelled, MessageCancelled
  <2>. QED  BY <1>2, <2>1, <2>2
<1>4. ASSUME SessionStarted \/ SttStarted \/ SttFinal \/ BargeInReturns
             \/ Expire
      PROVE  Still
  <2>1. \/ UNCHANGED task
        \/ \E r \in Task : \E phase :
              phase \notin Asking /\ task' = [task EXCEPT ![r] = phase]
    <3>1. nTurns \in Task /\ (SttFinal => nTurns + 1 \in Task)
      BY MaxTurnsAssumption DEF TypeOK, Task, SttFinal, StoreTurn
    <3>. QED  BY <1>4, <3>1, TaskSets DEF SessionStarted, SttStarted, SttFinal,
           BargeInReturns, Expire, Respond, Enqueue, Asking
  <2>2. UNCHANGED <<sentenceBuffer, lastGenerated, first, answered>>
    BY <1>4 DEF SessionStarted, SttStarted, SttFinal, StoreTurn,
         BargeInReturns, Expire
  <2>. QED  BY <1>2, <2>1, <2>2
<1>. QED
  BY <1>1, <1>3, <1>4, TaskSets
  DEF Asks, Next, Starting, Closing, ReceiveDisconnect, SttRuns, Pipeline, Playback,
      Synthesis, Environment, Over, Stop, MediaFails, SttStartFails,
      SttAwaitRaises, ResponseAwaitRaises, UploadAwaitRaises,
      CloseClientRaises

-----------------------------------------------------------------------------
(***************************************************************************)
(* The other parts of the inductive invariant.                             *)
(***************************************************************************)
\* Only the holder of response_lock writes sentence_buffer.
LEMMA BufferStep ==
    TypeOK /\ TaskInv /\ BufferIsolation /\ [Next]_vars => BufferIsolation'
<1>. SUFFICES ASSUME TypeOK, TaskInv, BufferIsolation, [Next]_vars
              PROVE  BufferIsolation'
  OBVIOUS
<1>0. /\ task \in [Task -> TaskPhase] /\ Turn \subseteq Task
      /\ \A r \in Turn : task[r] \in Asking => responseLock = r
  BY TaskSets DEF TypeOK, TaskInv, Holding
<1>1. ASSUME NEW turn \in Turn, AskLlm(turn) PROVE BufferIsolation'
  BY <1>1 DEF AskLlm, BufferIsolation
<1>2. ASSUME NEW turn \in Turn, LlmToken(turn) PROVE BufferIsolation'
  <2>1. task[turn] \in Asking /\ task' = [task EXCEPT ![turn] = "stream"]
        /\ sentenceBuffer' \subseteq sentenceBuffer \cup {turn}
    BY <1>2 DEF LlmToken
  <2>2. sentenceBuffer \subseteq {turn} /\ responseLock = turn
    BY <1>0, <2>1 DEF BufferIsolation
  <2>. QED  BY <1>0, <2>1, <2>2 DEF BufferIsolation, Asking
<1>3. ASSUME NEW turn \in Turn, Answer(turn) PROVE BufferIsolation'
  BY <1>3 DEF Answer, BufferIsolation
<1>6. ASSUME NEW turn \in Turn, AnswerNotSaved(turn) PROVE BufferIsolation'
  <2>1. task' = [task EXCEPT ![turn] = "failed"] /\ UNCHANGED sentenceBuffer
    BY <1>6 DEF AnswerNotSaved, Leave
  <2>. QED  BY <1>0, <2>1 DEF BufferIsolation, Asking
<1>4. ASSUME UNCHANGED sentenceBuffer,
             \A turn \in Turn : task'[turn] \in Asking => task[turn] \in Asking
      PROVE  BufferIsolation'
  BY <1>4 DEF BufferIsolation
<1>5. ASSUME ~\E turn \in Turn : Asks(turn)
      PROVE  /\ UNCHANGED sentenceBuffer
             /\ \A turn \in Turn :
                   task'[turn] \in Asking => task[turn] \in Asking
  BY <1>0, <1>5, NoAskingStep
<1>. QED  BY <1>1, <1>2, <1>3, <1>4, <1>5, <1>6 DEF Asks

\* What every step leaves alone, except the first ones of a call and those
\* that store a turn.
Quiet ==
    /\ UNCHANGED nTurns
    /\ main' \in Open => UNCHANGED main
    /\ stt \in {"none", "failed"} => UNCHANGED stt
    /\ stt' = "interrupting" => stt = "interrupting"
    /\ stt' \in SttListening => stt \in SttListening
    /\ \A k \in Turn : /\ upload[k] = "none" => upload'[k] = "none"
                       /\ upload'[k] = "run" => upload[k] = "run"
    /\ \A k \in audioKeys' : k \in audioKeys \/ upload[k] = "run"

LEMMA QuietStep ==
    ASSUME TypeOK, [Next]_vars,
           ~Start, ~StartFails, ~SessionStarted, ~SttStarted, ~SttFinal,
           ~BargeIn, ~FinalNotStored
    PROVE  Quiet
<1>0. upload \in [Turn -> {"none", "run", "done", "failed"}]
  BY DEF TypeOK
<1>. USE DEF Quiet, Open, SttListening
<1>1. ASSUME \/ CloseBegins \/ CloseAborts \/ SttAwaited \/ ResponsesAwaited
             \/ UploadsAwaited \/ EndSession \/ EndNotSaved \/ Deliver
      PROVE  Quiet
  BY <1>1 DEF CloseBegins, CloseAborts, SttAwaited, ResponsesAwaited,
       UploadsAwaited, EndSession, EndNotSaved, Deliver
<1>2. ASSUME BargeInReturns \/ BargeInRaises \/ SttEnds \/ SttCancelled
      PROVE  Quiet
  BY <1>2 DEF BargeInReturns, BargeInRaises, SttEnds, SttCancelled
<1>3. ASSUME NEW k \in Turn, \/ UploadEnds(k) \/ UploadFails(k)
                             \/ KeyNotSaved(k) \/ ReapUpload(k)
      PROVE  Quiet
  BY <1>0, <1>3 DEF UploadEnds, UploadFails, KeyNotSaved, ReapUpload
<1>4. ASSUME \/ PeerDrops \/ Media \/ \E r \in Response : ResponseAwaited(r)
             \/ \E k \in Turn : UploadAwaited(k)
             \/ SttDrops \/ Expire
             \/ \E r \in Task : PlayFrame(r) \/ NextSentence(r)
             \/ \E r \in Task : \E i \in 1..MaxSentences :
                   Synthesised(r, i) \/ TtsStopped(r, i) \/ TtsFails(r, i)
             \/ \E r \in Response : Reap(r)
             \/ \E r \in Task : OrphansEnd(r)
             \/ UNCHANGED vars
      PROVE  Quiet
  BY <1>4 DEF OrphansEnd, PeerDrops, Media, ResponseAwaited, UploadAwaited, SttDrops,
       Expire, PlayFrame, NextSentence, Synthesised, TtsStopped, TtsFails,
       Reap, vars
<1>5. ASSUME \E turn \in Turn :
                AskLlm(turn) \/ LlmToken(turn) \/ EmptyAnswer(turn)
                \/ Answer(turn) \/ AnswerNotSaved(turn) \/ LlmFails(turn)
                \/ CleanupBegins(turn) \/ CleanupEnds(turn)
                \/ CleanupRaises(turn)
      PROVE  Quiet
  BY <1>5 DEF AskLlm, LlmToken, EmptyAnswer, Answer, AnswerNotSaved, LlmFails,
       CleanupBegins, CleanupEnds, CleanupRaises
<1>6. ASSUME \E r \in Task :
                SpeakMessage(r) \/ SendFails(r) \/ PlaybackEnds(r)
                \/ SentenceRaises(r) \/ WaiterCancelled(r)
                \/ MessageCancelled(r)
      PROVE  Quiet
  BY <1>6 DEF SpeakMessage, SendFails, PlaybackEnds, SentenceRaises,
       WaiterCancelled, MessageCancelled
<1>. HIDE DEF Quiet
<1>. QED
  BY <1>1, <1>2, <1>3, <1>4, <1>5, <1>6
  DEF Next, Starting, Closing, ReceiveDisconnect, SttRuns, Pipeline, Playback,
      Synthesis, Environment, Over, Stop, MediaFails, SttStartFails,
      SttAwaitRaises, ResponseAwaitRaises, UploadAwaitRaises,
      CloseClientRaises

LEMMA BeginningStep ==
    TypeOK /\ TaskInv /\ BeginningInv /\ [Next]_vars => BeginningInv'
<1>. SUFFICES ASSUME TypeOK, TaskInv, BeginningInv, [Next]_vars
              PROVE  BeginningInv'
  OBVIOUS
<1>. USE DEF NotYetListening
<1>0. /\ nTurns \in Nat /\ PriorTurns \in Nat /\ Turn \subseteq Nat
      /\ task \in [Task -> TaskPhase]
      /\ upload \in [Turn -> {"none", "run", "done", "failed"}]
      /\ nTurns # 0 => nTurns \in Turn
  BY PriorTurnsAssumption, MaxTurnsAssumption DEF TypeOK, Turn
<1>1. ASSUME Start \/ StartFails PROVE BeginningInv'
  <2>1. /\ main = "fresh" /\ main' \in {"backend", "await_stt"}
        /\ nTurns' = PriorTurns /\ UNCHANGED <<stt, task, upload>>
    BY <1>1 DEF Start, StartFails, OpenTranscript
  <2>. QED  BY <1>0, <2>1, TaskSets DEF BeginningInv
<1>2. ASSUME SessionStarted PROVE BeginningInv'
  <2>1. /\ main = "backend" /\ main' = "stt_start"
        /\ task' = [task EXCEPT ![Greeting] = "queued"]
        /\ UNCHANGED <<stt, nTurns, upload>>
    BY <1>2 DEF SessionStarted, Enqueue
  <2>. QED  BY <1>0, <2>1, TaskSets DEF BeginningInv
<1>3. ASSUME SttStarted PROVE BeginningInv'
  <2>1. /\ main = "stt_start" /\ main' = "loop" /\ stt' = "recv"
        /\ \A turn \in Turn : task'[turn] = task[turn]
        /\ UNCHANGED <<nTurns, upload>>
    BY <1>0, <1>3, TaskSets DEF SttStarted
  <2>. QED  BY <1>0, <2>1, TaskSets DEF BeginningInv
<1>4. ASSUME SttFinal PROVE BeginningInv'
  <2>1. /\ stt = "recv" /\ nTurns' = nTurns + 1 /\ nTurns + 1 \in Turn
        /\ task' = [task EXCEPT ![nTurns + 1] = "queued"]
        /\ \/ UNCHANGED upload
           \/ upload' = [upload EXCEPT ![nTurns + 1] = "run"]
        /\ UNCHANGED <<main, stt>>
    BY <1>0, <1>4, MaxTurnsAssumption
    DEF TypeOK, SttFinal, StoreTurn, Respond, Enqueue, Turn
  <2>2. main \notin {"fresh", "backend", "stt_start"} /\ PriorTurns <= nTurns
    BY <1>0, <2>1 DEF BeginningInv
  <2>. QED  BY <1>0, <2>1, <2>2, TaskSets DEF BeginningInv
<1>5. ASSUME BargeIn PROVE BeginningInv'
  <2>1. /\ stt = "recv" /\ nTurns' = nTurns + 1 /\ nTurns + 1 \in Turn
        /\ \/ UNCHANGED upload
           \/ upload' = [upload EXCEPT ![nTurns + 1] = "run"]
        /\ UNCHANGED <<main, task>>
    BY <1>0, <1>5, MaxTurnsAssumption DEF TypeOK, BargeIn, StoreTurn, Turn
  <2>2. main \notin {"fresh", "backend", "stt_start"} /\ PriorTurns <= nTurns
    BY <1>0, <2>1 DEF BeginningInv
  <2>. QED  BY <1>0, <2>1, <2>2, TaskSets DEF BeginningInv
<1>6. ASSUME BargeInReturns PROVE BeginningInv'
  <2>1. /\ stt = "interrupting" /\ stt' = "recv"
        /\ task' = [task EXCEPT ![nTurns] = "queued"]
        /\ UNCHANGED <<main, nTurns, upload>>
    BY <1>6 DEF BargeInReturns, Respond, Enqueue
  <2>2. main \notin {"fresh", "backend", "stt_start"}
    BY <2>1 DEF BeginningInv
  <2>. QED  BY <1>0, <2>1, <2>2, TaskSets DEF BeginningInv
<1>7. ASSUME FinalNotStored PROVE BeginningInv'
  <2>1. /\ stt = "recv" /\ stt' = "failed" /\ nTurns' = nTurns + 1
        /\ UNCHANGED <<main, task, upload>>
    BY <1>7 DEF FinalNotStored
  <2>2. main \notin {"fresh", "backend", "stt_start"} /\ PriorTurns <= nTurns
    BY <1>0, <2>1 DEF BeginningInv
  <2>. QED  BY <1>0, <2>1, <2>2, TaskSets DEF BeginningInv
<1>8. ASSUME ~Start, ~StartFails, ~SessionStarted, ~SttStarted, ~SttFinal,
             ~BargeIn, ~BargeInReturns, ~FinalNotStored
      PROVE  BeginningInv'
  <2>1. Quiet /\ \A r \in Task : task[r] = "none" => task'[r] = "none"
    BY <1>8, QuietStep, ActingStep
  <2>2. ASSUME main = "fresh" PROVE UNCHANGED <<answered, first>>
    <3>1. ~\E turn \in Turn : Asks(turn)
      BY <2>2, TaskSets DEF BeginningInv, Asks, AskLlm, LockIsFor, LlmToken,
         Answer, AnswerNotSaved, In, Asking
    <3>. QED  BY <1>8, <3>1, NoAskingStep
  <2>. QED  BY <1>0, <2>1, <2>2, TaskSets DEF BeginningInv, Quiet, Open
<1>. QED  BY <1>1, <1>2, <1>3, <1>4, <1>5, <1>6, <1>7, <1>8

\* Who may still act after a step is the one it was before, unless the step
\* adds a turn or makes a task.
LEMMA NewestStep ==
    TypeOK /\ TaskInv /\ BeginningInv /\ NewestInv /\ [Next]_vars => NewestInv'
<1>. SUFFICES ASSUME TypeOK, TaskInv, BeginningInv, NewestInv, [Next]_vars
              PROVE  NewestInv'
  OBVIOUS
<1>. DEFINE Acting(r) == task[r] \in Live \ {"cleanup"} /\ r \notin cancels
<1>. USE TaskSets
<1>0. /\ nTurns \in Nat /\ PriorTurns \in Nat
      /\ task \in [Task -> TaskPhase]
      /\ \A r \in Response : task[r] \in Live => r \in ActiveResponses
  BY PriorTurnsAssumption DEF TypeOK, TaskInv, ActiveResponses
<1>1. ASSUME Start \/ StartFails PROVE NewestInv'
  <2>1. \A r \in Response : task'[r] = "none"
    BY <1>1 DEF Start, StartFails, BeginningInv
  <2>. QED  BY <2>1 DEF NewestInv, Live, Holding, Asking
<1>2. ASSUME SessionStarted PROVE NewestInv'
  <2>1. /\ \A r \in Response : r # Greeting => task'[r] = "none"
        /\ nTurns' = PriorTurns
    BY <1>0, <1>2 DEF SessionStarted, Enqueue, BeginningInv
  <2>. QED  BY <2>1 DEF NewestInv, SpeakerOf, Live, Holding, Asking
<1>3. ASSUME SttStarted PROVE NewestInv'
  <2>1. /\ \A r \in Response : task'[r] = task[r]
        /\ UNCHANGED <<nTurns, cancels>> /\ stt # "failed"
    BY <1>0, <1>3 DEF SttStarted, BeginningInv, NotYetListening
  <2>. QED  BY <2>1 DEF NewestInv, SpeakerOf, Undisturbed
<1>4. ASSUME SttFinal PROVE NewestInv'
  <2>1. /\ stt = "recv" /\ nTurns' = nTurns + 1 /\ ActiveResponses = {}
        /\ task' = [task EXCEPT ![nTurns + 1] = "queued"]
    BY <1>4 DEF SttFinal, StoreTurn, Respond, Enqueue
  <2>2. PriorTurns <= nTurns
    BY <1>0, <2>1 DEF BeginningInv
  <2>3. \A r \in Response : task'[r] \in Live => r = nTurns + 1
    BY <1>0, <2>1
  <2>. QED  BY <1>0, <2>1, <2>2, <2>3 DEF NewestInv, SpeakerOf
<1>5. ASSUME BargeIn PROVE NewestInv'
  <2>1. \A r \in Response : task'[r] \in Live \ {"cleanup"} => r \in cancels'
    BY <1>0, <1>5 DEF BargeIn, MarkCancelled
  <2>. QED  BY <2>1 DEF NewestInv
<1>6. ASSUME BargeInReturns PROVE NewestInv'
  <2>1. /\ stt = "interrupting" /\ task' = [task EXCEPT ![nTurns] = "queued"]
        /\ UNCHANGED <<nTurns, cancels>>
    BY <1>6 DEF BargeInReturns, Respond, Enqueue
  <2>2. SpeakerOf(nTurns) = nTurns /\ SpeakerOf(nTurns)' = nTurns
    BY <1>0, <2>1 DEF BeginningInv, SpeakerOf
  <2>3. \A r \in Response : ~Undisturbed(r)
    BY <2>1 DEF Undisturbed
  <2>. QED  BY <1>0, <2>1, <2>2, <2>3 DEF NewestInv
<1>7. ASSUME FinalNotStored PROVE NewestInv'
  <2>1. /\ "store" \in Failures /\ stt = "recv" /\ stt' = "failed"
        /\ nTurns' = nTurns + 1 /\ nTurns < MaxTurns
        /\ UNCHANGED <<task, cancels>>
    BY <1>7 DEF FinalNotStored
  <2>2. PriorTurns <= nTurns /\ nTurns' \in Turn
    BY <1>0, <2>1, MaxTurnsAssumption DEF BeginningInv, Turn
  <2>3. task'[nTurns'] = "none"
    BY <1>0, <2>1, <2>2 DEF BeginningInv
  <2>4. nTurns' > PriorTurns /\ nTurns' - 1 = nTurns
    BY <1>0, <2>1, <2>2
  <2>5. ASSUME NEW r \in Response, Acting(r)' PROVE Undisturbed(r)'
    <3>1. r = SpeakerOf(nTurns)
      BY <2>1, <2>5 DEF NewestInv, Undisturbed
    <3>. QED  BY <2>1, <2>3, <2>4, <3>1 DEF Undisturbed, SpeakerOf
  <2>. QED  BY <2>5 DEF NewestInv
<1>8. ASSUME ~Start, ~StartFails, ~SessionStarted, ~SttStarted, ~SttFinal,
             ~BargeIn, ~BargeInReturns, ~FinalNotStored
      PROVE  NewestInv'
  <2>1. nTurns' = nTurns /\ (stt = "failed" => stt' = "failed")
    BY <1>8, QuietStep DEF Quiet
  <2>2. \A r \in Response : CanAct(r)' => CanAct(r)
    BY <1>8, ActingStep
  <2>3. \A r \in Response :
           Acting(r)' => CanAct(r)' /\ (CanAct(r) => Acting(r))
    BY DEF CanAct, TaskInv
  <2>4. ASSUME NEW r \in Response, Undisturbed(r) PROVE Undisturbed(r)'
    <3>1. nTurns \in Task /\ task[nTurns] = "none"
      BY <2>4, MaxTurnsAssumption DEF Undisturbed, TypeOK, Task
    <3>2. task'[nTurns] = "none"
      BY <1>8, <3>1, ActingStep
    <3>. QED  BY <2>1, <2>4, <3>2 DEF Undisturbed, SpeakerOf
  <2>5. UNCHANGED SpeakerOf(nTurns)
    BY <2>1 DEF SpeakerOf
  <2>. QED  BY <2>1, <2>2, <2>3, <2>4, <2>5 DEF NewestInv
<1>. QED  BY <1>1, <1>2, <1>3, <1>4, <1>5, <1>6, <1>7, <1>8

\* Apart from the loop's own steps, nothing changes where close() is.
LEMMA LoopStep ==
    ASSUME [Next]_vars, ~Start, ~StartFails, ~SessionStarted, ~SttStarted,
           ~Stop, ~ReceiveDisconnect, ~SttStartFails, ~MediaFails, ~SttAwaitRaises,
           ~\E r \in Response : ResponseAwaitRaises(r),
           ~\E k \in Turn : UploadAwaitRaises(k), ~SttAwaited,
           ~\E r \in Response : ResponseAwaited(r),
           ~ResponsesAwaited, ~\E k \in Turn : UploadAwaited(k),
           ~UploadsAwaited, ~EndSession, ~EndNotSaved, ~CloseClientRaises,
           ~Deliver
    PROVE  UNCHANGED <<main, closed, ended, closeWait>>
<1>. DEFINE Same == UNCHANGED <<main, closed, ended, closeWait>>
<1>1. ASSUME SttFinal \/ BargeIn \/ FinalNotStored \/ BargeInReturns
             \/ BargeInRaises \/ SttDrops \/ SttEnds \/ SttCancelled
      PROVE  Same
  BY <1>1 DEF SttFinal, BargeIn, StoreTurn, FinalNotStored, BargeInReturns,
       BargeInRaises, SttDrops, SttEnds, SttCancelled
<1>2. ASSUME \E turn \in Turn :
                AskLlm(turn) \/ LlmToken(turn) \/ EmptyAnswer(turn)
                \/ Answer(turn) \/ AnswerNotSaved(turn) \/ LlmFails(turn)
                \/ CleanupBegins(turn) \/ CleanupEnds(turn)
                \/ CleanupRaises(turn)
      PROVE  Same
  BY <1>2 DEF AskLlm, LlmToken, EmptyAnswer, Answer, AnswerNotSaved, LlmFails,
       CleanupBegins, CleanupEnds, CleanupRaises
<1>3. ASSUME \E r \in Task :
                SpeakMessage(r) \/ PlayFrame(r) \/ SendFails(r)
                \/ NextSentence(r) \/ PlaybackEnds(r) \/ SentenceRaises(r)
                \/ WaiterCancelled(r) \/ MessageCancelled(r)
      PROVE  Same
  BY <1>3 DEF SpeakMessage, PlayFrame, SendFails, NextSentence, PlaybackEnds,
       SentenceRaises, WaiterCancelled, MessageCancelled
<1>4. ASSUME \/ \E r \in Task : \E i \in 1..MaxSentences :
                   Synthesised(r, i) \/ TtsStopped(r, i) \/ TtsFails(r, i)
             \/ \E k \in Turn : \/ UploadEnds(k) \/ UploadFails(k)
                               \/ KeyNotSaved(k) \/ ReapUpload(k)
             \/ \E r \in Response : Reap(r)
             \/ \E r \in Task : OrphansEnd(r)
             \/ PeerDrops \/ Media \/ Expire \/ UNCHANGED vars
      PROVE  Same
  BY <1>4 DEF Synthesised, TtsStopped, TtsFails, UploadEnds, UploadFails,
       KeyNotSaved, ReapUpload, OrphansEnd, Reap, PeerDrops, Media, Expire, vars
<1>. QED
  BY <1>1, <1>2, <1>3, <1>4
  DEF Next, Starting, Closing, SttRuns, Pipeline, Playback, Synthesis,
      Environment, Over

LEMMA ClosingStep ==
    TypeOK /\ TaskInv /\ BeginningInv /\ ClosingInv /\ [Next]_vars /\ TaskInv'
       => ClosingInv'
<1>. SUFFICES ASSUME TypeOK, TaskInv, BeginningInv, ClosingInv, [Next]_vars,
                     TaskInv'
              PROVE  ClosingInv'
  OBVIOUS
<1>. USE TaskSets DEF Open, AllAwaited
<1>0. /\ closed \in BOOLEAN /\ ended \in BOOLEAN
      /\ \A r \in Response : task[r] # "sleep" /\ task'[r] # "sleep"
      /\ task[Notice] # "cleanup" /\ task'[Notice] # "cleanup"
  BY DEF TypeOK, TaskInv
<1>1. ASSUME Start \/ SessionStarted \/ SttStarted PROVE ClosingInv'
  <2>1. /\ main \in Open /\ main' \in Open
        /\ UNCHANGED <<closed, ended>>
    BY <1>1 DEF Start, OpenTranscript, SessionStarted, SttStarted
  <2>. QED  BY <1>0, <2>1 DEF ClosingInv
<1>2. ASSUME Stop \/ ReceiveDisconnect \/ SttStartFails \/ MediaFails
      PROVE  ClosingInv'
  <2>1. main \in Open /\ CloseBegins
    BY <1>2 DEF Stop, ReceiveDisconnect, SttStartFails, MediaFails, Receiving
  <2>2. /\ closed' = TRUE /\ main' = "await_stt" /\ UNCHANGED <<ended, task>>
        /\ task[Notice] \in {"sleep"} \cup Live => Notice \in cancels'
    BY <2>1 DEF CloseBegins
  <2>. QED  BY <1>0, <2>1, <2>2 DEF ClosingInv
<1>3. ASSUME \/ SttAwaitRaises \/ \E r \in Response : ResponseAwaitRaises(r)
             \/ \E k \in Turn : UploadAwaitRaises(k)
             \/ CloseClientRaises
      PROVE  ClosingInv'
  <2>1. /\ main \in {"await_stt", "await_responses", "await_uploads", "ending"}
        /\ CloseAborts
    BY <1>3 DEF SttAwaitRaises, ResponseAwaitRaises, UploadAwaitRaises,
         CloseClientRaises
  <2>2. main' = "aborted" /\ UNCHANGED <<stt, closed, ended, task, cancels>>
    BY <2>1 DEF CloseAborts
  <2>. QED  BY <1>0, <2>1, <2>2 DEF ClosingInv
<1>4. ASSUME SttAwaited PROVE ClosingInv'
  BY <1>0, <1>4 DEF SttAwaited, MarkCancelled, ClosingInv, TaskInv
<1>5. ASSUME NEW r \in Response, ResponseAwaited(r) PROVE ClosingInv'
  BY <1>0, <1>5 DEF ResponseAwaited, ClosingInv, Live, Holding, Asking
<1>6. ASSUME ResponsesAwaited PROVE ClosingInv'
  BY <1>0, <1>6 DEF ResponsesAwaited, ClosingInv
<1>7. ASSUME NEW k \in Turn, UploadAwaited(k) PROVE ClosingInv'
  BY <1>0, <1>7 DEF UploadAwaited, ClosingInv
<1>8. ASSUME UploadsAwaited PROVE ClosingInv'
  BY <1>0, <1>8 DEF UploadsAwaited, ClosingInv
<1>9. ASSUME EndSession \/ EndNotSaved \/ Deliver PROVE ClosingInv'
  BY <1>0, <1>9 DEF EndSession, EndNotSaved, Deliver, ClosingInv
<1>10. ASSUME SttFinal \/ BargeIn \/ FinalNotStored \/ BargeInReturns
       PROVE  ClosingInv'
  <2>1. ~closed /\ UNCHANGED <<main, closed, ended>>
    BY <1>10 DEF SttFinal, BargeIn, StoreTurn, FinalNotStored, BargeInReturns
  <2>. QED  BY <1>0, <2>1 DEF ClosingInv
<1>12. ASSUME StartFails PROVE ClosingInv'
  <2>1. /\ main = "fresh" /\ main' = "await_stt" /\ closed' = TRUE
        /\ task[Notice] = "none" /\ UNCHANGED <<ended, task>>
    BY <1>12 DEF StartFails, OpenTranscript, BeginningInv, NotYetListening
  <2>. QED  BY <1>0, <2>1 DEF ClosingInv, Live, Holding, Asking
<1>11. ASSUME ~Start, ~StartFails, ~SessionStarted, ~SttStarted, ~SttFinal,
              ~BargeIn, ~BargeInReturns, ~FinalNotStored,
              UNCHANGED <<main, closed, ended, closeWait>>
       PROVE  ClosingInv'
  <2>1. Quiet
    BY <1>11, QuietStep
  <2>2. \A r \in Task : /\ Running(r)' => Running(r)
                        /\ CanAct(r)' => CanAct(r)
    BY <1>11, ActingStep
  <2>3. \A r \in Response : task'[r] \in Live => task[r] \in Live
    BY <1>0, <2>2 DEF Running
  <2>4. closed /\ task'[Notice] \in {"sleep"} \cup Live => Notice \in cancels'
    BY <1>0, <2>2 DEF Running, CanAct, ClosingInv
  <2>. QED  BY <1>0, <1>11, <2>1, <2>3, <2>4 DEF ClosingInv, Quiet
<1>. HIDE DEF Open, AllAwaited
<1>. QED
  BY <1>1, <1>2, <1>3, <1>4, <1>5, <1>6, <1>7, <1>8, <1>9, <1>10, <1>11,
     <1>12, LoopStep

\* With a new call id, a query starts right after the last answered turn, and
\* a turn that has been answered is not asked about by its own task again.
LEMMA QueryStep ==
    ASSUME PriorTurns = 0, TypeOK, TaskInv, BeginningInv, NewestInv, QueryInv,
           [Next]_vars
    PROVE  QueryInv'
<1>. USE TaskSets
<1>0. /\ task \in [Task -> TaskPhase] /\ first \in [Turn -> 0..MaxTurns]
      /\ nTurns \in Nat /\ lastGenerated \in Nat /\ Turn \subseteq Nat \ {0}
      /\ answered \subseteq Turn /\ audioKeys \subseteq Turn
  BY MaxTurnsAssumption DEF TypeOK, Turn
<1>1. ASSUME NEW turn \in Turn, task[turn] \in {"queued"} \cup Asking,
             turn \notin cancels
      PROVE  turn <= nTurns /\ lastGenerated < nTurns /\ lastGenerated < turn
  <2>1. turn = SpeakerOf(nTurns) \/ Undisturbed(turn)
    BY <1>1 DEF NewestInv, Live, Holding, Asking
  <2>2. /\ turn # Greeting /\ PriorTurns = 0 /\ turn # 0
        /\ lastGenerated <= nTurns
    BY <1>0 DEF QueryInv
  <2>3. lastGenerated # turn
    BY <1>0, <1>1, <2>2 DEF QueryInv
  <2>4. CASE turn = SpeakerOf(nTurns)
    <3>1. turn = nTurns
      BY <2>2, <2>4 DEF SpeakerOf
    <3>. QED  BY <1>0, <2>2, <2>3, <3>1
  <2>5. CASE Undisturbed(turn)
    <3>1. turn = nTurns - 1 /\ nTurns > 0 /\ task[nTurns] = "none"
      BY <1>0, <2>2, <2>5 DEF Undisturbed, SpeakerOf
    <3>2. lastGenerated # nTurns
      BY <1>0, <3>1 DEF QueryInv
    <3>. QED  BY <1>0, <2>2, <2>3, <3>1, <3>2
  <2>. QED  BY <2>1, <2>4, <2>5
<1>2. ASSUME NEW turn \in Turn, AskLlm(turn) PROVE QueryInv'
  <2>1. /\ task[turn] = "queued" /\ turn \notin cancels
        /\ responseLock = NoTask
        /\ task' = [task EXCEPT ![turn] = "llm"]
        /\ first' = [first EXCEPT ![turn] = FirstPending(turn)]
        /\ UNCHANGED <<answered, lastGenerated, nTurns, audioKeys>>
    BY <1>2 DEF AskLlm, LockIsFor, Dequeue
  <2>3. lastGenerated < nTurns /\ lastGenerated < turn
    BY <1>1, <2>1
  <2>4. FirstPending(turn) = lastGenerated + 1
    BY <2>3, FirstPendingValue
  <2>5. turn \notin answered
    BY <2>1 DEF QueryInv
  <2>. QED  BY <1>0, <2>1, <2>3, <2>4, <2>5 DEF QueryInv
<1>3. ASSUME NEW turn \in Turn, LlmToken(turn) PROVE QueryInv'
  <2>1. /\ task[turn] \in Asking /\ task' = [task EXCEPT ![turn] = "stream"]
        /\ UNCHANGED <<first, answered, lastGenerated, nTurns, audioKeys>>
    BY <1>3 DEF LlmToken
  <2>. QED  BY <1>0, <2>1 DEF QueryInv
<1>4. ASSUME NEW turn \in Turn, Answer(turn) PROVE QueryInv'
  <2>1. /\ task[turn] = "stream" /\ turn \notin cancels
        /\ \/ task' = [task EXCEPT ![turn] = "play"]
           \/ task' = [task EXCEPT ![turn] = "done"]
        /\ answered' = answered \cup {turn}
        /\ lastGenerated' =
              IF turn > lastGenerated THEN turn ELSE lastGenerated
        /\ UNCHANGED <<first, nTurns, audioKeys>>
    BY <1>4 DEF Answer, In, Leave
  <2>2. turn <= nTurns /\ lastGenerated < turn
    BY <1>1, <2>1 DEF Asking
  <2>4. \A q \in Turn : task[q] \in Asking => q = turn
    BY <2>1 DEF TaskInv, Holding, Asking
  <2>5. \A q \in Turn : task'[q] \notin Asking
    BY <1>0, <2>1, <2>4 DEF Asking
  <2>6. lastGenerated' = turn
    BY <1>0, <2>1, <2>2
  <2>7. \A k \in answered' : task'[k] \notin {"none", "queued"} \cup Asking
    BY <1>0, <2>1 DEF QueryInv, Asking
  <2>8. "store" \notin Failures => \A k \in answered' : k <= lastGenerated'
    BY <1>0, <2>1, <2>2, <2>6 DEF QueryInv
  <2>. QED  BY <1>0, <2>1, <2>2, <2>5, <2>6, <2>7, <2>8 DEF QueryInv
<1>6. ASSUME NEW turn \in Turn, AnswerNotSaved(turn) PROVE QueryInv'
  <2>1. /\ "store" \in Failures /\ task' = [task EXCEPT ![turn] = "failed"]
        /\ answered' = answered \cup {turn}
        /\ UNCHANGED <<lastGenerated, first, nTurns, audioKeys>>
    BY <1>6 DEF AnswerNotSaved, Leave
  <2>2. \A k \in answered' : task'[k] \notin {"none", "queued"} \cup Asking
    BY <1>0, <2>1 DEF QueryInv, Asking
  <2>3. \A q \in Turn : task'[q] \in Asking => task[q] \in Asking
    BY <1>0, <2>1 DEF Asking
  <2>. QED  BY <1>0, <2>1, <2>2, <2>3 DEF QueryInv
<1>5. ASSUME ~\E turn \in Turn : Asks(turn)
      PROVE  QueryInv'
  <2>1. /\ UNCHANGED lastGenerated
        /\ ~Start /\ ~StartFails => UNCHANGED <<first, answered>>
        /\ \A turn \in Turn : task'[turn] \in Asking => task[turn] \in Asking
    BY <1>5, NoAskingStep
  <2>2. ASSUME Start \/ StartFails PROVE QueryInv'
    <3>1. /\ nTurns = 0 /\ nTurns' = 0 /\ answered' = {}
          /\ UNCHANGED <<task, audioKeys>>
          /\ \A r \in Task : task[r] = "none"
      BY <2>2 DEF Start, StartFails, OpenTranscript, BeginningInv
    <3>. QED  BY <1>0, <2>1, <3>1 DEF QueryInv, Asking
  <2>3. ASSUME SessionStarted \/ SttStarted PROVE QueryInv'
    <3>1. /\ \A k \in Turn : task'[k] = task[k]
          /\ UNCHANGED <<nTurns, answered, first, audioKeys>>
      BY <1>0, <2>3 DEF SessionStarted, SttStarted, Enqueue
    <3>. QED  BY <1>0, <2>1, <3>1 DEF QueryInv
  <2>4. ASSUME SttFinal \/ BargeIn \/ FinalNotStored PROVE QueryInv'
    <3>1. /\ \A k \in Turn : k # nTurns + 1 => task'[k] = task[k]
          /\ nTurns' = nTurns + 1
          /\ UNCHANGED <<answered, first, audioKeys>>
      BY <1>0, <2>4 DEF SttFinal, BargeIn, StoreTurn, FinalNotStored,
         Respond, Enqueue
    <3>2. \A k \in answered : task'[k] = task[k]
      <4>1. task[nTurns + 1] = "none" \/ nTurns + 1 \notin Turn
        BY <1>0 DEF BeginningInv
      <4>. QED  BY <1>0, <3>1, <4>1 DEF QueryInv
    <3>. QED  BY <1>0, <2>1, <3>1, <3>2 DEF QueryInv
  <2>5. ASSUME BargeInReturns PROVE QueryInv'
    <3>1. /\ \A k \in Turn : k # nTurns => task'[k] = task[k]
          /\ task[nTurns] = "none"
          /\ UNCHANGED <<nTurns, answered, first, audioKeys>>
      BY <1>0, <2>5 DEF BargeInReturns, Respond, Enqueue, BeginningInv
    <3>2. \A k \in answered : task'[k] = task[k]
      BY <1>0, <3>1 DEF QueryInv
    <3>. QED  BY <1>0, <2>1, <3>1, <3>2 DEF QueryInv
  <2>6. ASSUME ~Start, ~StartFails, ~SessionStarted, ~SttStarted, ~SttFinal,
               ~BargeIn, ~BargeInReturns, ~FinalNotStored
        PROVE  QueryInv'
    <3>1. /\ UNCHANGED nTurns
          /\ \A k \in audioKeys' : k \in audioKeys \/ upload[k] = "run"
      BY <2>6, QuietStep DEF Quiet
    <3>2. \A k \in answered : task'[k] \notin {"none", "queued"} \cup Asking
      BY <1>0, <2>1, <2>6, ActingStep DEF QueryInv, TaskInv
    <3>3. audioKeys' \subseteq Turn
      BY TypeStep DEF TypeOK
    <3>4. \A k \in audioKeys' : k <= nTurns
      BY <1>0, <3>1, <3>3 DEF QueryInv, BeginningInv
    <3>. QED  BY <1>0, <2>1, <2>6, <3>1, <3>2, <3>4 DEF QueryInv
  <2>. QED  BY <2>2, <2>3, <2>4, <2>5, <2>6
<1>. QED  BY <1>2, <1>3, <1>4, <1>5, <1>6 DEF Asks

-----------------------------------------------------------------------------
(***************************************************************************)
(* The theorems.                                                           *)
(***************************************************************************)
LEMMA InitInv == Init => IInv
<1>. SUFFICES ASSUME Init PROVE IInv  OBVIOUS
<1>. USE TaskSets, MaxTurnsAssumption, PriorTurnsAssumption
<1>1. TypeOK  BY InitType
<1>2. TaskInv
  BY DEF Init, TaskInv, Holding, Asking, Live
<1>3. BufferIsolation /\ NewestInv
  BY DEF Init, BufferIsolation, NewestInv, Asking, Holding, Live
<1>4. BeginningInv
  BY DEF Init, BeginningInv, NotYetListening
<1>5. ClosingInv
  BY DEF Init, ClosingInv, AllAwaited, Open
<1>6. QueryInv
  BY DEF Init, QueryInv, Asking
<1>. QED  BY <1>1, <1>2, <1>3, <1>4, <1>5, <1>6 DEF IInv

LEMMA InvStep == IInv /\ [Next]_vars => IInv'
<1>. SUFFICES ASSUME IInv, [Next]_vars PROVE IInv'  OBVIOUS
<1>1. TypeOK'  BY TypeStep DEF IInv
<1>2. TaskInv'  BY TaskStep DEF IInv
<1>3. BufferIsolation'  BY BufferStep DEF IInv
<1>4. BeginningInv'  BY BeginningStep DEF IInv
<1>5. NewestInv'  BY NewestStep DEF IInv
<1>6. ClosingInv'  BY <1>2, ClosingStep DEF IInv
<1>7. (PriorTurns = 0 => QueryInv)'
  <2>1. ASSUME PriorTurns = 0 PROVE QueryInv'
    BY <2>1, QueryStep DEF IInv
  <2>. QED  BY <2>1
<1>. QED  BY <1>1, <1>2, <1>3, <1>4, <1>5, <1>6, <1>7 DEF IInv

\* IInv holds throughout every call.
THEOREM Invariant == Spec => []IInv
<1>1. Init => IInv  BY InitInv
<1>2. IInv /\ [Next]_vars => IInv'  BY InvStep
<1>. QED  BY <1>1, <1>2, PTL DEF Spec

\* Every variable of a call keeps its type.
THEOREM TypeCorrect == Spec => []TypeOK
<1>1. IInv => TypeOK  BY DEF IInv
<1>. QED  BY <1>1, Invariant, PTL

\* Of all the tasks that speak, only the owner of response_lock asks the LLM,
\* plays or cleans up, and a task that is over has left the lock.
THEOREM SpeakersExclusive == Spec => []OneSpeaker
<1>1. IInv => OneSpeaker
  BY TaskSets DEF IInv, TaskInv, OneSpeaker
<1>. QED  BY <1>1, Invariant, PTL

\* No answer to an earlier utterance is generated or played once a newer one
\* is in the transcript: a barge-in silences the assistant however long the
\* interrupted task takes to end.  The only exception is an utterance whose
\* storing raised, and then only for the speaker right before it.
THEOREM StaleAnswersSilenced == Spec => []NoStaleAnswer
<1>1. IInv => NoStaleAnswer
  BY DEF IInv, NewestInv, NoStaleAnswer, Live, Holding, Asking
<1>. QED  BY <1>1, Invariant, PTL

\* sentence_buffer never mixes the texts of two answers.
THEOREM BufferIsolated == Spec => []BufferIsolation
<1>1. IInv => BufferIsolation  BY DEF IInv
<1>. QED  BY <1>1, Invariant, PTL

\* In a call with a new id whose transcript can be written, no query contains
\* a turn that has been answered.
THEOREM TurnsNotResent ==
    PriorTurns = 0 /\ "store" \notin Failures => (Spec => []NoResend)
<1>. SUFFICES ASSUME PriorTurns = 0, "store" \notin Failures
              PROVE  Spec => []NoResend
  OBVIOUS
<1>1. IInv => NoResend
  <2>. SUFFICES ASSUME IInv, NEW turn \in Turn, task[turn] \in Asking
                PROVE  (first[turn]..turn) \cap answered = {}
    BY DEF NoResend
  <2>1. /\ first[turn] = lastGenerated + 1
        /\ \A k \in answered : k <= lastGenerated
        /\ lastGenerated \in Nat /\ answered \subseteq Nat
    BY MaxTurnsAssumption DEF IInv, QueryInv, TypeOK, Turn
  <2>. QED  BY <2>1
<1>. QED  BY <1>1, Invariant, PTL
-----------------------------------------------------------------------------
(***************************************************************************)
(* The transcript of a call with a new id is the one Conversation          *)
(* describes.                                                              *)
(***************************************************************************)
\* Apart from the step that asks the LLM, the queries and replies change only
\* when an answer is complete.
LEMMA TranscriptStep ==
    ASSUME PriorTurns = 0, IInv, IInv', [Next]_vars
    PROVE  [Transcript!Next]_(Transcript!conversationVars)
<1>. USE TaskSets
<1>. DEFINE Stutter ==
       UNCHANGED <<nTurns, lastGenerated, Answers, audioKeys, ended>>
<1>0. /\ task \in [Task -> TaskPhase] /\ first \in [Turn -> 0..MaxTurns]
      /\ nTurns \in Nat /\ lastGenerated \in Nat /\ Turn \subseteq Nat \ {0}
      /\ answered \subseteq Turn /\ audioKeys \subseteq Turn
  <2>1. TypeOK  BY DEF IInv
  <2>. QED  BY <2>1, MaxTurnsAssumption DEF TypeOK, Turn
<1>1. Stutter => [Transcript!Next]_(Transcript!conversationVars)
  BY DEF Transcript!conversationVars
<1>2. ASSUME Start \/ StartFails PROVE Stutter
  <2>1. /\ nTurns' = 0 /\ nTurns = 0 /\ answered = {} /\ answered' = {}
        /\ UNCHANGED <<lastGenerated, audioKeys, ended>>
    BY <1>2 DEF Start, StartFails, OpenTranscript, IInv, BeginningInv
  <2>. QED  BY <2>1 DEF Answers
<1>3. ASSUME SttFinal \/ BargeIn \/ FinalNotStored PROVE Transcript!Say
  <2>1. /\ stt = "recv" /\ nTurns' = nTurns + 1
        /\ UNCHANGED <<lastGenerated, first, answered, audioKeys, ended>>
    BY <1>3 DEF SttFinal, BargeIn, StoreTurn, FinalNotStored
  <2>2. ~ended
    BY <2>1 DEF IInv, ClosingInv, AllAwaited, SttListening
  <2>. QED  BY <2>1, <2>2 DEF Transcript!Say, Answers
<1>4. ASSUME NEW turn \in Turn, AskLlm(turn) PROVE Stutter
  <2>1. /\ task[turn] = "queued"
        /\ first' = [first EXCEPT ![turn] = FirstPending(turn)]
        /\ UNCHANGED <<nTurns, answered, lastGenerated, audioKeys, ended>>
    BY <1>4 DEF AskLlm, LockIsFor
  <2>2. turn \notin answered
    BY <2>1 DEF IInv, QueryInv
  <2>3. \A k \in answered : first'[k] = first[k]
    BY <1>0, <2>1, <2>2
  <2>. QED  BY <2>1, <2>3 DEF Answers
<1>5. ASSUME NEW turn \in Turn, Answer(turn)
      PROVE  Transcript!Reply(turn) /\ turn \in 1..nTurns
  <2>1. /\ task[turn] = "stream" /\ turn \notin cancels
        /\ answered' = answered \cup {turn}
        /\ lastGenerated' =
              IF turn > lastGenerated THEN turn ELSE lastGenerated
        /\ UNCHANGED <<first, nTurns, audioKeys, ended>>
    BY <1>5 DEF Answer, In
  <2>2. first[turn] = lastGenerated + 1 /\ lastGenerated < turn
    BY <2>1 DEF IInv, QueryInv, Asking
  <2>3. turn \in 1..nTurns
    BY <1>0, <2>1 DEF IInv, BeginningInv
  <2>4. ~ended
    BY <1>0, <2>1 DEF IInv, ClosingInv, AllAwaited, Live, Holding, Asking
  <2>5. Answers' = Answers \cup {[from |-> lastGenerated + 1, to |-> turn]}
    BY <2>1, <2>2 DEF Answers
  <2>6. lastGenerated' = turn /\ turn \in (lastGenerated + 1)..nTurns
    BY <1>0, <2>1, <2>2, <2>3
  <2>. QED  BY <2>1, <2>3, <2>4, <2>5, <2>6 DEF Transcript!Reply
<1>9. ASSUME NEW turn \in Turn, AnswerNotSaved(turn)
      PROVE  Transcript!ReplyNotSaved(turn) /\ turn \in 1..nTurns
  <2>1. /\ "store" \in Failures /\ task[turn] = "stream"
        /\ answered' = answered \cup {turn}
        /\ UNCHANGED <<first, lastGenerated, nTurns, audioKeys, ended>>
    BY <1>9 DEF AnswerNotSaved, In
  <2>2. first[turn] = lastGenerated + 1 /\ lastGenerated < turn
    BY <2>1 DEF IInv, QueryInv, Asking
  <2>3. turn \in 1..nTurns
    BY <1>0, <2>1 DEF IInv, BeginningInv
  <2>4. ~ended
    BY <1>0, <2>1 DEF IInv, ClosingInv, AllAwaited, Live, Holding, Asking
  <2>5. Answers' = Answers \cup {[from |-> lastGenerated + 1, to |-> turn]}
    BY <2>1, <2>2 DEF Answers
  <2>6. turn \in (lastGenerated + 1)..nTurns
    BY <1>0, <2>2, <2>3
  <2>. QED  BY <2>1, <2>3, <2>4, <2>5, <2>6 DEF Transcript!ReplyNotSaved
<1>6. ASSUME NEW k \in Turn, UploadEnds(k) \/ KeyNotSaved(k)
      PROVE  Transcript!Record(k) /\ k \in 1..nTurns
  <2>1. /\ upload[k] = "run" /\ audioKeys' = audioKeys \cup {k}
        /\ UNCHANGED <<nTurns, lastGenerated, first, answered, ended>>
    BY <1>6 DEF UploadEnds, KeyNotSaved
  <2>2. k \in 1..nTurns
    BY <1>0, <2>1 DEF IInv, BeginningInv
  <2>3. ~ended
    BY <1>0, <2>1 DEF IInv, ClosingInv, AllAwaited
  <2>. QED  BY <2>1, <2>2, <2>3 DEF Transcript!Record, Answers
<1>7. ASSUME EndSession \/ EndNotSaved PROVE Transcript!HangUp
  <2>1. /\ ended' = TRUE
        /\ UNCHANGED <<nTurns, lastGenerated, first, answered, audioKeys>>
    BY <1>7 DEF EndSession, EndNotSaved
  <2>. QED  BY <2>1 DEF Transcript!HangUp, Answers
<1>8. ASSUME ~Start, ~StartFails, ~SttFinal, ~BargeIn, ~FinalNotStored,
             ~EndSession, ~EndNotSaved,
             ~\E turn \in Turn : \/ AskLlm(turn) \/ Answer(turn)
                                 \/ AnswerNotSaved(turn),
             ~\E k \in Turn : UploadEnds(k) \/ KeyNotSaved(k)
      PROVE  Stutter
  <2>1. UNCHANGED <<nTurns, lastGenerated, first, answered, audioKeys, ended>>
    <3>1. ASSUME \/ SessionStarted \/ SttStarted \/ Closing \/ CloseBegins
                 \/ SttRuns \/ PeerDrops \/ Media \/ SttDrops \/ Expire
                 \/ CloseClientRaises
                 \/ \E k \in Turn : UploadFails(k) \/ ReapUpload(k)
                 \/ \E r \in Response : Reap(r)
                 \/ \E r \in Task : OrphansEnd(r)
                 \/ UNCHANGED vars
          PROVE  UNCHANGED <<nTurns, lastGenerated, first, answered,
                             audioKeys, ended>>
      BY <1>8, <3>1 DEF SessionStarted, SttStarted, Closing, SttAwaited,
           SttAwaitRaises, ResponseAwaited, ResponseAwaitRaises,
           ResponsesAwaited, UploadAwaited, UploadAwaitRaises, UploadsAwaited,
           Deliver, CloseBegins, CloseAborts, SttRuns, BargeInReturns,
           BargeInRaises, SttEnds, SttCancelled, PeerDrops, Media, SttDrops,
           Expire, CloseClientRaises, UploadFails, ReapUpload, Reap,
           OrphansEnd, vars, transcriptVars
    <3>2. ASSUME \/ \E turn \in Turn :
                       \/ LlmToken(turn) \/ EmptyAnswer(turn) \/ LlmFails(turn)
                       \/ CleanupBegins(turn) \/ CleanupEnds(turn)
                       \/ CleanupRaises(turn)
                 \/ \E r \in Task : PlayFrame(r) \/ Playback(r)
                 \/ \E r \in Task : \E i \in 1..MaxSentences :
                       Synthesis(r, i) \/ TtsFails(r, i)
          PROVE  UNCHANGED <<nTurns, lastGenerated, first, answered,
                             audioKeys, ended>>
      BY <3>2 DEF LlmToken, EmptyAnswer, LlmFails, CleanupBegins, CleanupEnds,
           CleanupRaises, PlayFrame, Playback, SpeakMessage, SendFails,
           NextSentence, PlaybackEnds, SentenceRaises, WaiterCancelled,
           MessageCancelled, Synthesis, Synthesised, TtsStopped, TtsFails,
           transcriptVars
    <3>. QED
      BY <1>8, <3>1, <3>2
      DEF Next, Starting, ReceiveDisconnect, Pipeline, Environment, Over, Stop,
          MediaFails, SttStartFails
  <2>. QED  BY <2>1 DEF Answers
<1>. QED
  BY <1>1, <1>2, <1>3, <1>4, <1>5, <1>6, <1>7, <1>8, <1>9 DEF Transcript!Next

\* A call with a new id implements Conversation: whatever is interrupted,
\* lost, refused or not written, each utterance up to the last answer belongs
\* to an answered query, to a second one only after the write of an answer has
\* failed, and the transcript is final when end_session returns.
THEOREM CallImplementsConversation ==
    PriorTurns = 0 => (Spec => TranscriptSpec)
<1>. SUFFICES ASSUME PriorTurns = 0 PROVE Spec => TranscriptSpec  OBVIOUS
<1>1. Init => Transcript!Init
  BY DEF Init, Transcript!Init, Answers
<1>2. IInv /\ IInv' /\ [Next]_vars =>
         [Transcript!Next]_(Transcript!conversationVars)
  BY TranscriptStep
<1>. QED
  BY <1>1, <1>2, Invariant, PTL DEF Spec, TranscriptSpec, Transcript!Spec
-----------------------------------------------------------------------------
(***************************************************************************)
(* The notice.                                                             *)
(***************************************************************************)
\* Steps that neither run the notice nor undo what it may rely on.
Calm ==
    /\ task'[Notice] = task[Notice]
    /\ sentences'[Notice] = sentences[Notice]
    /\ noticed' = noticed
    /\ Notice \in cancels' => Notice \in cancels \/ closed'
    /\ closed => closed'
    /\ ws # "up" => ws' # "up"

LEMMA CalmStep == NoticeInv /\ Calm => NoticeInv'
BY DEF NoticeInv, Calm

\* A step that moves one other task to another phase and may change its
\* sentences.
LEMMA OtherTaskIsCalm ==
    ASSUME TypeOK, NEW r \in Response, NEW phase,
           task' = [task EXCEPT ![r] = phase],
           \/ UNCHANGED sentences
           \/ \E s : sentences' = [sentences EXCEPT ![r] = s],
           cancels' \subseteq cancels \cup Response,
           UNCHANGED <<noticed, closed>>, ws # "up" => ws' # "up"
    PROVE  Calm
<1>1. r # Notice /\ Notice \in Task /\ Notice \notin Response
  BY TaskSets
<1>2. task'[Notice] = task[Notice] /\ sentences'[Notice] = sentences[Notice]
  BY <1>1 DEF TypeOK
<1>. QED  BY <1>1, <1>2 DEF Calm

\* What the loop, the STT task, the uploads and the callbacks do.
LoopActs ==
    \/ Start \/ StartFails \/ SessionStarted \/ Closing \/ CloseBegins
    \/ CloseClientRaises \/ EndNotSaved
    \/ SttRuns \/ PeerDrops \/ Media \/ SttFinal \/ BargeIn \/ FinalNotStored
    \/ SttDrops
    \/ \E k \in Turn : \/ UploadEnds(k) \/ UploadFails(k) \/ KeyNotSaved(k)
                      \/ ReapUpload(k)
    \/ \E r \in Response : Reap(r)
    \/ \E r \in Task : OrphansEnd(r)
    \/ UNCHANGED vars

\* None of it touches the notice.
LEMMA LoopIsCalm ==
    ASSUME IInv,
           LoopActs
    PROVE  Calm
<1>0. TypeOK /\ Notice \notin Response /\ Greeting \in Response /\ nTurns \in Response
  <2>1. nTurns \in Response
    BY DEF IInv, TypeOK, Response
  <2>. QED  BY <2>1, TaskSets DEF IInv
<1>1. CASE SessionStarted
  BY <1>0, <1>1, OtherTaskIsCalm DEF SessionStarted, Enqueue
<1>2. CASE SttFinal
  <2>1. nTurns + 1 \in Response
    BY <1>2, MaxTurnsAssumption DEF IInv, TypeOK, SttFinal, StoreTurn, Response
  <2>. QED  BY <1>0, <1>2, <2>1, OtherTaskIsCalm DEF SttFinal, Respond, Enqueue
<1>3. CASE BargeInReturns
  BY <1>0, <1>3, OtherTaskIsCalm DEF BargeInReturns, Respond, Enqueue
<1>4. CASE BargeIn
  <2>1. ActiveResponses \subseteq Response
    BY <1>0 DEF ActiveResponses, TypeOK
  <2>. QED  BY <1>0, <1>4, <2>1 DEF BargeIn, MarkCancelled, Calm
<1>5. CASE SttAwaited
  <2>1. ActiveResponses \subseteq Response
    BY <1>0 DEF ActiveResponses, TypeOK
  <2>. QED  BY <1>0, <1>5, <2>1 DEF SttAwaited, MarkCancelled, Calm
<1>6. CASE \/ Start \/ StartFails \/ CloseBegins \/ BargeInRaises \/ SttEnds
           \/ SttCancelled \/ PeerDrops \/ Media \/ SttDrops \/ FinalNotStored
           \/ \E k \in Turn : \/ UploadEnds(k) \/ UploadFails(k)
                             \/ KeyNotSaved(k) \/ ReapUpload(k)
           \/ \E r \in Response : Reap(r)
           \/ \E r \in Task : OrphansEnd(r)
           \/ UNCHANGED vars
  BY <1>6 DEF Start, StartFails, CloseBegins, BargeInRaises, SttEnds,
       SttCancelled, PeerDrops, Media, SttDrops, FinalNotStored, UploadEnds,
       UploadFails, KeyNotSaved, ReapUpload, OrphansEnd, Reap, vars, Calm
<1>7. CASE (Closing /\ ~SttAwaited) \/ CloseClientRaises \/ EndNotSaved
  BY <1>7 DEF CloseClientRaises, EndNotSaved, Closing, SttAwaitRaises, ResponseAwaited, ResponseAwaitRaises,
       ResponsesAwaited, UploadAwaited, UploadAwaitRaises, UploadsAwaited,
       EndSession, Deliver, CloseAborts, Calm
<1>. QED  BY <1>1, <1>2, <1>3, <1>4, <1>5, <1>6, <1>7
     DEF LoopActs, SttRuns

\* What the greeting and the pipelines do, and their sentence tasks.
LEMMA SpeechIsCalm ==
    ASSUME IInv,
           \/ \E turn \in Turn :
                 \/ Pipeline(turn) \/ LlmToken(turn) \/ LlmFails(turn)
                 \/ AnswerNotSaved(turn)
           \/ \E r \in Response : Playback(r) \/ PlayFrame(r)
           \/ \E r \in Response : \E i \in 1..MaxSentences :
                 Synthesis(r, i) \/ TtsFails(r, i)
    PROVE  Calm
<1>0. TypeOK /\ Turn \subseteq Response /\ Notice \in Task /\ Notice \notin Response
  BY TaskSets DEF IInv
<1>1. ASSUME NEW turn \in Turn,
             \/ Pipeline(turn) \/ LlmToken(turn) \/ LlmFails(turn)
             \/ AnswerNotSaved(turn)
      PROVE  Calm
  <2>0. turn \in Response
    BY <1>0
  <2>1. CASE AskLlm(turn)
    BY <1>0, <2>0, <2>1, OtherTaskIsCalm DEF AskLlm, Dequeue
  <2>2. CASE EmptyAnswer(turn) \/ LlmFails(turn) \/ AnswerNotSaved(turn)
    BY <1>0, <2>0, <2>2, OtherTaskIsCalm
    DEF EmptyAnswer, LlmFails, AnswerNotSaved, Leave, Abandon
  <2>3. CASE Answer(turn)
    <3>1. /\ \E phase : task' = [task EXCEPT ![turn] = phase]
          /\ \/ UNCHANGED sentences
             \/ \E s : sentences' = [sentences EXCEPT ![turn] = s]
      BY <2>3 DEF Answer, EnqueueSentence, Leave, Abandon
    <3>2. UNCHANGED <<noticed, closed, ws, cancels>>
      BY <2>3 DEF Answer
    <3>. QED  BY <1>0, <2>0, <3>1, <3>2, OtherTaskIsCalm
  <2>4. CASE CleanupBegins(turn)
    <3>1. /\ task' = [task EXCEPT ![turn] = "cleanup"]
          /\ \E s : sentences' = [sentences EXCEPT ![turn] = s]
          /\ cancels' \subseteq cancels /\ UNCHANGED <<noticed, closed, ws>>
      BY <2>4 DEF CleanupBegins
    <3>. QED  BY <1>0, <2>0, <3>1, OtherTaskIsCalm
  <2>5. CASE CleanupEnds(turn) \/ CleanupRaises(turn)
    <3>1. /\ \E phase : task' = [task EXCEPT ![turn] = phase]
          /\ \E s : sentences' = [sentences EXCEPT ![turn] = s]
          /\ UNCHANGED <<cancels, noticed, closed, ws>>
      BY <2>5 DEF CleanupEnds, CleanupRaises, Leave, Abandon
    <3>. QED  BY <1>0, <2>0, <3>1, OtherTaskIsCalm
  <2>6. CASE LlmToken(turn)
    <3>1. /\ task' = [task EXCEPT ![turn] = "stream"]
          /\ \/ UNCHANGED sentences
             \/ \E s : sentences' = [sentences EXCEPT ![turn] = s]
          /\ UNCHANGED <<cancels, noticed, closed, ws>>
      BY <2>6 DEF LlmToken, EnqueueSentence
    <3>. QED  BY <1>0, <2>0, <3>1, OtherTaskIsCalm
  <2>. QED  BY <1>1, <2>1, <2>2, <2>3, <2>4, <2>5, <2>6 DEF Pipeline
<1>2. ASSUME NEW r \in Response, Playback(r) \/ PlayFrame(r) PROVE Calm
  <2>0. r # Notice
    BY <1>0
  <2>1. CASE SpeakMessage(r)
    <3>1. /\ task' = [task EXCEPT ![r] = "play"]
          /\ \E s : sentences' = [sentences EXCEPT ![r] = s]
          /\ UNCHANGED <<cancels, noticed, closed, ws>>
      BY <2>1 DEF SpeakMessage, Dequeue
    <3>. QED  BY <1>0, <3>1, OtherTaskIsCalm
  <2>2. CASE SendFails(r) \/ SentenceRaises(r) \/ PlaybackEnds(r) \/ MessageCancelled(r)
    <3>1. /\ \E phase : task' = [task EXCEPT ![r] = phase]
          /\ \E s : sentences' = [sentences EXCEPT ![r] = s]
          /\ cancels' \subseteq cancels /\ UNCHANGED <<noticed, closed>>
          /\ ws # "up" => ws' # "up"
      BY <2>2 DEF SendFails, SentenceRaises, PlaybackEnds, MessageCancelled,
         Leave, Abandon
    <3>. QED  BY <1>0, <3>1, OtherTaskIsCalm
  <2>3. CASE WaiterCancelled(r)
    <3>1. /\ task' = [task EXCEPT ![r] = "cancelled"]
          /\ cancels' \subseteq cancels /\ UNCHANGED <<sentences, noticed, closed, ws>>
      BY <2>3 DEF WaiterCancelled, Dequeue
    <3>. QED  BY <1>0, <3>1, OtherTaskIsCalm
  <2>4. CASE NextSentence(r)
    <3>1. /\ \E s : sentences' = [sentences EXCEPT ![r] = s]
          /\ UNCHANGED <<task, cancels, noticed, closed, ws>>
      BY <2>4 DEF NextSentence
    <3>2. sentences'[Notice] = sentences[Notice]
      BY <1>0, <2>0, <3>1 DEF TypeOK
    <3>. QED  BY <3>1, <3>2 DEF Calm
  <2>5. CASE PlayFrame(r)
    BY <2>0, <2>5, <1>0 DEF PlayFrame, Calm, TypeOK
  <2>. QED  BY <1>2, <2>1, <2>2, <2>3, <2>4, <2>5 DEF Playback
<1>3. ASSUME NEW r \in Response, NEW i \in 1..MaxSentences,
             Synthesis(r, i) \/ TtsFails(r, i)
      PROVE  Calm
  <2>1. /\ \E s : sentences' = [sentences EXCEPT ![r] = s]
        /\ UNCHANGED <<task, cancels, noticed, closed, ws>>
    BY <1>3 DEF Synthesis, Synthesised, TtsStopped, TtsFails
  <2>2. sentences'[Notice] = sentences[Notice]
    BY <1>0, <2>1 DEF TypeOK
  <2>. QED  BY <2>1, <2>2 DEF Calm
<1>. QED  BY <1>1, <1>2, <1>3

LEMMA TailNotEmpty ==
    ASSUME NEW S, NEW s \in Seq(S), Len(s) > 1
    PROVE  Tail(s) # <<>>
<1>1. Len(s) \in Nat /\ s # <<>>
  BY LenProperties, EmptySeq
<1>2. Tail(s) \in Seq(S) /\ Len(Tail(s)) = Len(s) - 1
  BY <1>1, HeadTailProperties
<1>3. Len(s) - 1 # 0
  <2>. DEFINE n == Len(s)
  <2>1. n \in Nat /\ n > 1
    BY <1>1
  <2>. HIDE DEF n
  <2>2. n - 1 # 0
    BY <2>1
  <2>. QED  BY <2>2 DEF n
<1>4. Len(Tail(s)) # 0
  BY <1>2, <1>3, Zenon
<1>5. Len(<<>>) = 0
  BY EmptySeq
<1>. QED  BY <1>4, <1>5, Zenon

\* What the notice itself does.
LEMMA NoticeRuns ==
    ASSUME "tts" \notin Failures, IInv, NoticeInv,
           \/ SttStarted \/ Expire \/ Playback(Notice) \/ PlayFrame(Notice)
           \/ \E i \in 1..MaxSentences : Synthesis(Notice, i) \/ TtsFails(Notice, i)
    PROVE  NoticeInv'
<1>0. /\ Notice \in Task /\ task \in [Task -> TaskPhase] /\ noticed \in BOOLEAN
      /\ sentences \in [Task -> Seq(SentenceState)]
  BY TaskSets DEF IInv, TypeOK
<1>s. sentences[Notice] \in Seq(SentenceState)
  BY <1>0
<1>1. CASE SttStarted
  <2>1. task[Notice] = "none"
    BY <1>1 DEF IInv, BeginningInv, NotYetListening, SttStarted
  <2>2. ~noticed
    BY <1>0, <2>1 DEF NoticeInv, Finished
  <2>. QED  BY <1>1, <2>2 DEF SttStarted, NoticeInv
<1>2. CASE Expire
  <2>1. ~noticed
    BY <1>0, <1>2 DEF NoticeInv, Finished, Expire, In
  <2>2. task'[Notice] = "queued"
    BY <1>0, <1>2 DEF Expire, Enqueue
  <2>. QED  BY <1>2, <2>1, <2>2 DEF Expire, NoticeInv
<1>3. CASE SpeakMessage(Notice)
  <2>1. /\ task' = [task EXCEPT ![Notice] = "play"]
        /\ sentences' = [sentences EXCEPT ![Notice] = <<"run">>]
        /\ UNCHANGED <<cancels, noticed, closed, ws>>
    BY <1>3 DEF SpeakMessage, Dequeue
  <2>2. task'[Notice] = "play" /\ sentences'[Notice] = <<"run">>
    BY <1>0, <2>1
  <2>. QED  BY <2>1, <2>2 DEF NoticeInv, Finished
<1>4. CASE PlayFrame(Notice)
  BY <1>4 DEF PlayFrame, In, NoticeInv, Finished
<1>5. CASE SendFails(Notice) \/ PlaybackEnds(Notice)
  <2>1. /\ \E outcome \in Finished : task'[Notice] = outcome
        /\ sentences'[Notice] = <<>> /\ ws' # "up"
        /\ UNCHANGED <<cancels, closed>>
    BY <1>0, <1>5 DEF SendFails, PlaybackEnds, Leave, Abandon, Finished
  <2>2. task'[Notice] # "play"
    BY <2>1 DEF Finished
  <2>. QED  BY <2>1, <2>2 DEF NoticeInv
<1>6. CASE MessageCancelled(Notice)
  <2>1. /\ task'[Notice] = "cancelled" /\ sentences'[Notice] = <<>>
        /\ cancels' \subseteq cancels /\ closed /\ UNCHANGED closed
    BY <1>0, <1>6 DEF MessageCancelled, Leave, Abandon, NoticeInv
  <2>. QED  BY <2>1 DEF NoticeInv, Finished
<1>7. CASE WaiterCancelled(Notice)
  <2>1. ~noticed
    BY <1>0, <1>7 DEF WaiterCancelled, NoticeInv, Finished
  <2>2. cancels' \subseteq cancels /\ UNCHANGED <<noticed, closed, sentences>>
    BY <1>7 DEF WaiterCancelled
  <2>3. task'[Notice] = "cancelled"
    BY <1>0, <1>7 DEF WaiterCancelled, Dequeue
  <2>. QED  BY <2>1, <2>2, <2>3 DEF NoticeInv
<1>8. ASSUME NextSentence(Notice) PROVE NoticeInv'
  <2>1. /\ sentences'[Notice] = Tail(sentences[Notice])
        /\ Len(sentences[Notice]) > 1
        /\ UNCHANGED <<task, cancels, noticed, closed, ws>>
    BY <1>0, <1>8 DEF NextSentence
  <2>2. \A i \in DOMAIN Tail(sentences[Notice]) :
           /\ i + 1 \in DOMAIN sentences[Notice]
           /\ Tail(sentences[Notice])[i] = sentences[Notice][i + 1]
    BY <1>s, <2>1
  <2>3. Tail(sentences[Notice]) # <<>>
    BY <1>s, <2>1, TailNotEmpty
  <2>. QED  BY <2>1, <2>2, <2>3 DEF NoticeInv
<1>9. ASSUME SentenceRaises(Notice) PROVE FALSE
  <2>1. task[Notice] = "play" /\ Head(sentences[Notice]) = "failed"
    BY <1>9 DEF SentenceRaises, In
  <2>2. sentences[Notice] # <<>> /\ \A i \in DOMAIN sentences[Notice] : sentences[Notice][i] # "failed"
    BY <2>1 DEF NoticeInv
  <2>. QED  BY <1>s, <2>1, <2>2
<1>10. ASSUME NEW i \in 1..MaxSentences, Synthesis(Notice, i) PROVE NoticeInv'
  <2>1. /\ \E state \in {"ok", "cancelled"} :
              sentences' = [sentences EXCEPT ![Notice][i] = state]
        /\ UNCHANGED <<task, cancels, noticed, closed, ws>>
    BY <1>10 DEF Synthesis, Synthesised, TtsStopped
  <2>2. \A j \in DOMAIN sentences'[Notice] : sentences'[Notice][j] # "failed"
    BY <1>0, <1>s, <2>1 DEF NoticeInv
  <2>3. sentences[Notice] # <<>> => sentences'[Notice] # <<>>
    BY <1>0, <1>s, <2>1
  <2>. QED  BY <2>1, <2>2, <2>3 DEF NoticeInv
<1>11. ASSUME NEW i \in 1..MaxSentences, TtsFails(Notice, i) PROVE FALSE
  BY <1>11 DEF TtsFails
<1>. QED
  BY <1>1, <1>2, <1>3, <1>4, <1>5, <1>6, <1>7, <1>8, <1>9, <1>10, <1>11 DEF Playback

LEMMA NoticeStep ==
    ASSUME "tts" \notin Failures, IInv, NoticeInv, [Next]_vars
    PROVE  NoticeInv'
<1>1. Task = Response \cup {Notice}
  BY TaskSets
<1>2. ASSUME LoopActs PROVE NoticeInv'
  BY <1>2, LoopIsCalm, CalmStep
<1>3. ASSUME \/ \E turn \in Turn :
                   \/ Pipeline(turn) \/ LlmToken(turn) \/ LlmFails(turn)
                   \/ AnswerNotSaved(turn)
             \/ \E r \in Response : Playback(r) \/ PlayFrame(r)
             \/ \E r \in Response : \E i \in 1..MaxSentences :
                   Synthesis(r, i) \/ TtsFails(r, i)
      PROVE  NoticeInv'
  BY <1>3, SpeechIsCalm, CalmStep
<1>4. ASSUME \/ SttStarted \/ Expire \/ Playback(Notice) \/ PlayFrame(Notice)
             \/ \E i \in 1..MaxSentences : Synthesis(Notice, i) \/ TtsFails(Notice, i)
      PROVE  NoticeInv'
  BY <1>4, NoticeRuns
<1>. QED
  BY <1>1, <1>2, <1>3, <1>4
  DEF LoopActs, Next, Starting, ReceiveDisconnect, SttRuns, Environment, Over,
      Stop, MediaFails, SttStartFails

\* Unless a TTS request fails, nothing but the notice is heard from its first
\* frame until the call is closed, whatever was queued for response_lock when
\* the time ran out.
THEOREM NoticeHeardLast == "tts" \notin Failures => (Spec => []NoticeIsLast)
<1>. SUFFICES ASSUME "tts" \notin Failures PROVE Spec => []NoticeIsLast
  OBVIOUS
<1>1. Init => NoticeInv
  BY TaskSets DEF Init, NoticeInv
<1>2. IInv /\ NoticeInv /\ [Next]_vars => NoticeInv'
  BY NoticeStep
<1>3. IInv /\ NoticeInv => NoticeIsLast
  <2>. SUFFICES ASSUME IInv, NoticeInv, noticed, ~closed, ws = "up",
                       NEW r \in Response, task[r] = "play"
                PROVE  FALSE
    BY DEF NoticeIsLast, In
  <2>1. task[Notice] = "play"
    BY DEF NoticeInv
  <2>2. responseLock = r /\ responseLock = Notice
    BY <2>1, TaskSets DEF IInv, TaskInv, Holding
  <2>. QED  BY <2>2, TaskSets
<1>. QED  BY <1>1, <1>2, <1>3, Invariant, PTL DEF Spec
=============================================================================
