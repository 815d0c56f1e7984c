---------------------------- MODULE CallProgress ----------------------------
(***************************************************************************)
(* Why a call gets on: whoever waits in it waits for something that ends.  *)
(* These are the parts of the liveness properties of CallSession that one  *)
(* state can violate: nobody waits in vain for response_lock, for a        *)
(* sentence, or in close(); a final is not forgotten; the notice hangs up. *)
(***************************************************************************)
EXTENDS CallSession

\* If someone who is not cancelled waits for response_lock, then the lock is
\* held by a task that is still at work, or it is free and one of the waiters
\* gets it: cancelled waiters and those that wait behind them block nobody.
LockMovesOn ==
    Waiting \ cancels # {} =>
        \/ \E r \in Task : responseLock = r /\ task[r] \in Holding
        \/ \E r \in Task : LockIsFor(r)

\* A task that plays has a sentence to play whose TTS task is at work or over,
\* and one that cleans up awaits no TTS task that has not been cancelled.
SpeakersMoveOn ==
    \A r \in Task :
        /\ In(r, "play") =>
              sentences[r] # <<>> /\ Head(sentences[r]) \in {"run", "ok", "failed"}
        /\ task[r] = "cleanup" =>
              \A i \in DOMAIN sentences[r] : sentences[r][i] # "run"

\* What close() awaits is over or about to end: each response that is left has
\* been cancelled and has not lost the cancellation (a pipeline that cleans up
\* has had its own before), and each upload runs or has ended.
CloseAwaitsEnding ==
    /\ main = "await_responses" =>
          \A r \in closeWait : task[r] \in {"cleanup"} \cup Finished \/ r \in cancels
    /\ main = "await_uploads" =>
          \A k \in closeWait : k \in Turn /\ upload[k] # "none"

\* The newest final has reached the LLM, or its pipeline waits for the lock and
\* nobody has cancelled it, or the barge-in that will make it has not returned.
\* What fails in the interrupted responses must not make the session forget it.
FinalIsPending ==
    nTurns > PriorTurns /\ ~closed =>
        first[nTurns] # 0 \/ In(nTurns, "queued") \/ stt = "interrupting"

\* However the task of the notice ends, the call is then over.
NoticeHangsUp == task[Notice] \in Finished => ws # "up" \/ closed

\* No error stops close() before it has ended and delivered the transcript.
CloseReachesEnd == main # "aborted"
-----------------------------------------------------------------------------
(***************************************************************************)
(* The inductive invariants of the proofs; each holds besides IInv.        *)
(***************************************************************************)
\* Who is ahead of someone waits too, and is not behind him.
QueueInv ==
    \A q \in Task :
        ahead[q] \subseteq Waiting /\ \A r \in ahead[q] : q \notin ahead[r]

\* The sentences a task may have in a phase.
Fits(phase, s) ==
    /\ phase \notin Holding \ {"llm"} => s = <<>>
    /\ phase \in Asking \cup {"play"} =>
          \A i \in DOMAIN s : s[i] \in {"run", "ok", "failed"}
    /\ phase = "play" => s # <<>>
    /\ phase = "cleanup" => \A i \in DOMAIN s : s[i] # "run"
    /\ "tts" \notin Failures => \A i \in DOMAIN s : s[i] # "failed"

SentenceInv == \A r \in Task : Fits(task[r], sentences[r])

\* close() finds in _response_tasks only tasks that have been made.
TrackedInv == \A r \in responseTasks : task[r] \notin {"none", "sleep"}

ProgressInv == QueueInv /\ SentenceInv /\ TrackedInv /\ CloseAwaitsEnding

\* Besides, if TTS requests do not fail: what a barge-in waits for ends as
\* cancelled, so it returns, and the new final is answered.
InterruptInv ==
    /\ stt # "interrupting" => interrupted = {}
    /\ \A r \in interrupted : r \in cancels \/ task[r] \in {"cleanup", "cancelled"}

\* Besides, if at most the backend fails and the call has no time limit: what
\* close() awaits does not raise.
FaultlessInv ==
    /\ main # "aborted" /\ ws = "up"
    /\ sttUp /\ stt # "failed"
    /\ task[Notice] = "none"
    /\ \A r \in Task : task[r] # "failed"
    /\ \A k \in Turn : upload[k] # "failed"
=============================================================================
