--------------------------- MODULE RealtimeMedia ---------------------------
(***************************************************************************)
(* The control connection to the backend (agent_control.py) and the WebRTC *)
(* peers it commands (realtime_media.py), which one task runs:             *)
(* AgentControlClient.run_forever.  It reads a command, awaits             *)
(* RealtimeMediaManager.handle_command, and only then reads the next one;  *)
(* an exception in a handler leaves connect_once, so the connection is     *)
(* closed, what was not read is lost, and the client connects again.       *)
(*                                                                         *)
(* Concurrent with it are the task that consumes each audio track, the     *)
(* backend, and the shutdown of the process (lifespan in main.py), which   *)
(* cancels the task and awaits its end.                                    *)
(*                                                                         *)
(* aiortc and websockets are external: a peer accepts an answer only when  *)
(* it has made an offer, an offer only when it waits for no answer, raises *)
(* otherwise, and reports new tracks while it takes a description; the     *)
(* messages received before a connection is lost can still be read.        *)
(***************************************************************************)
EXTENDS Naturals, Sequences, FiniteSets

CONSTANTS
    Call,        \* call ids
    Peer,        \* bound: peer connections that are not garbage
    Track,       \* bound: audio tracks that are not garbage
    PeerOf,      \* the peer of each track
    MaxInbox,    \* bound: commands received and not read
    Failures,    \* what may fail, see below
    NoPeer, NoCommand

\* "connect": the connection is refused, "link": it is lost,
\* "offer", "answer": the local description cannot be made,
\* "description": a description of the other side is not accepted,
\* "track": a track ends.
ASSUME FailuresAssumption ==
    Failures \subseteq {"connect", "link", "offer", "answer", "description", "track"}
ASSUME PeerOfAssumption == PeerOf \in [Track -> Peer]
ASSUME MaxInboxAssumption == MaxInbox \in Nat
ASSUME NoPeerAssumption == NoPeer \notin Peer

\* "other" is what is ignored: bytes, no JSON object, a type that
\* handle_command does not know, a call id or a description that is missing.
Command ==
    [type : {"join_call", "webrtc_answer", "webrtc_renegotiate", "end_call"},
     call : Call] \cup [type : {"ping", "other"}]
ASSUME NoCommandAssumption == NoCommand \notin Command

VARIABLES
    link,       \* of run_forever: connecting, up, lost (closed by the other
                \* side), sleeping, ended (the task)
    inbox,      \* commands received and not read
    doing,      \* what the handler awaits; "recv" between two commands
    command,    \* the command being handled
    peer,       \* local variables of the handler: its peer connection
    calls,      \* the peer of each call, or NoPeer
    signal,     \* signalingState of each peer, "unused" before and after
    media,      \* the task of each track: none, run, stopping (cancelled),
                \* failed (its done callback has yet to discard it)
    stopping    \* the lifespan has cancelled the task

handlerVars == <<doing, command, peer>>
vars == <<link, inbox, doing, command, peer, calls, signal, media, stopping>>

Init ==
    /\ link = "connecting"
    /\ inbox = <<>>
    /\ doing = "recv" /\ command = NoCommand /\ peer = NoPeer
    /\ calls = [c \in Call |-> NoPeer]
    /\ signal = [p \in Peer |-> "unused"]
    /\ media = [t \in Track |-> "none"]
    /\ stopping = FALSE

Tasks(p, state) == {t \in Track : PeerOf[t] = p /\ media[t] = state}

Return == doing' = "recv" /\ command' = NoCommand /\ peer' = NoPeer

Await(what, m, p) == doing' = what /\ command' = m /\ peer' = p

\* Mutant: the task ends with an exception it does not expect.
RaiseEnds == Return /\ link' = "ended" /\ inbox' = <<>>

\* An exception: async with closes the connection, run_forever sleeps.
Raise == Return /\ link' = "sleeping" /\ inbox' = <<>>
-----------------------------------------------------------------------------
(***************************************************************************)
(* run_forever and connect_once.                                           *)
(***************************************************************************)
Connect ==
    /\ link = "connecting"
    /\ link' = "up"
    /\ UNCHANGED <<inbox, handlerVars, calls, signal, media, stopping>>

ConnectFails ==
    /\ "connect" \in Failures
    /\ link = "connecting"
    /\ link' = "sleeping"
    /\ UNCHANGED <<inbox, handlerVars, calls, signal, media, stopping>>

SleepEnds ==
    /\ link = "sleeping"
    /\ link' = "connecting"
    /\ UNCHANGED <<inbox, handlerVars, calls, signal, media, stopping>>

\* The loop over the messages ends, or raises, when none is left.
LoopEnds ==
    /\ link = "lost" /\ doing = "recv" /\ inbox = <<>>
    /\ link' = "sleeping"
    /\ UNCHANGED <<inbox, handlerVars, calls, signal, media, stopping>>

\* The loop reads the next message m, of one of these types.
Reads(m, types) ==
    /\ link \in {"up", "lost"} /\ doing = "recv"
    /\ inbox # <<>> /\ m = Head(inbox) /\ m.type \in types

Read == inbox' = Tail(inbox) /\ UNCHANGED link

Ping(m) ==
    /\ Reads(m, {"ping"})
    /\ Read /\ Await("send", m, NoPeer)
    /\ UNCHANGED <<calls, signal, media, stopping>>

\* Also an answer, an offer or an end for a call that is not known.
Ignored(m) ==
    /\ Reads(m, {"webrtc_answer", "webrtc_renegotiate", "end_call", "other"})
    /\ m.type # "other" => calls[m.call] = NoPeer
    /\ Read /\ UNCHANGED <<handlerVars, calls, signal, media, stopping>>

\* send_json, at the end of three handlers; it raises when the link is lost.
Send ==
    /\ doing = "send"
    /\ IF link = "up" THEN Return /\ UNCHANGED <<link, inbox>> ELSE Raise
    /\ UNCHANGED <<calls, signal, media, stopping>>
-----------------------------------------------------------------------------
(***************************************************************************)
(* end_call, which join_call calls first.                                  *)
(***************************************************************************)
\* Mutant: the tasks are awaited but not cancelled.
CancelledNone(p) == media

\* Mutant: the tasks of every call are cancelled.
CancelledAll(p) ==
    [t \in Track |-> IF media[t] = "run" THEN "stopping" ELSE media[t]]

Cancelled(p) ==
    [t \in Track |-> IF t \in Tasks(p, "run") THEN "stopping" ELSE media[t]]

\* Mutant: the call stays in calls.
EndCallKeeps(m) ==
    /\ Reads(m, {"end_call", "join_call"})
    /\ LET p == calls[m.call]
       IN  /\ p # NoPeer
           /\ media' = Cancelled(p)
           /\ Read
           /\ IF Tasks(p, "run") # {}
              THEN Await("end_tasks", m, p) /\ UNCHANGED signal
              ELSE Await("close", m, p) /\ signal' = [signal EXCEPT ![p] = "closed"]
    /\ UNCHANGED <<calls, stopping>>

\* The call is popped and its tasks are cancelled before anything is awaited.
\* A task that has failed and is still in media_tasks raises when awaited.
EndCall(m) ==
    /\ Reads(m, {"end_call", "join_call"})
    /\ LET p == calls[m.call]
       IN  /\ p # NoPeer
           /\ calls' = [calls EXCEPT ![m.call] = NoPeer]
           /\ media' = Cancelled(p)
           /\ \/ /\ Tasks(p, "run") # {}
                 /\ Read /\ Await("end_tasks", m, p)
                 /\ UNCHANGED signal
              \/ /\ Tasks(p, "failed") # {}
                 /\ Raise
                 /\ UNCHANGED signal
              \/ /\ Tasks(p, "run") = {} /\ Tasks(p, "failed") = {}
                 /\ Read /\ Await("close", m, p)
                 /\ signal' = [signal EXCEPT ![p] = "closed"]
    /\ UNCHANGED stopping

\* All tasks have been awaited; close begins.
TasksEnded ==
    /\ doing = "end_tasks"
    /\ \A t \in Track : PeerOf[t] = peer => media[t] = "none"
    /\ doing' = "close"
    /\ signal' = [signal EXCEPT ![peer] = "closed"]
    /\ UNCHANGED <<link, inbox, command, peer, calls, media, stopping>>

TasksRaise ==
    /\ doing = "end_tasks"
    /\ Tasks(peer, "failed") # {}
    /\ Raise
    /\ UNCHANGED <<calls, signal, media, stopping>>

\* The peer is garbage: its name is used again.
Closed ==
    /\ doing = "close" /\ command.type = "end_call"
    /\ Return
    /\ signal' = [signal EXCEPT ![peer] = "unused"]
    /\ UNCHANGED <<link, inbox, calls, media, stopping>>
-----------------------------------------------------------------------------
(***************************************************************************)
(* join_call.                                                              *)
(***************************************************************************)
\* Mutant: a call that is joined again is not ended first.
JoinOver(m, p) ==
    /\ Reads(m, {"join_call"})
    /\ signal[p] = "unused"
    /\ Read /\ Await("offer", m, p)
    /\ signal' = [signal EXCEPT ![p] = "new"]
    /\ UNCHANGED <<calls, media, stopping>>

Join(m, p) ==
    /\ Reads(m, {"join_call"})
    /\ calls[m.call] = NoPeer
    /\ signal[p] = "unused"
    /\ Read /\ Await("offer", m, p)
    /\ signal' = [signal EXCEPT ![p] = "new"]
    /\ UNCHANGED <<calls, media, stopping>>

\* The same after the call has been ended.
JoinAgain(p) ==
    /\ doing = "close" /\ command.type = "join_call"
    /\ signal[p] = "unused" \/ p = peer
    /\ Await("offer", command, p)
    /\ signal' = [signal EXCEPT ![peer] = "unused", ![p] = "new"]
    /\ UNCHANGED <<link, inbox, calls, media, stopping>>

\* createOffer and setLocalDescription, then the call is entered.
Offered ==
    /\ doing = "offer"
    /\ doing' = "send"
    /\ calls' = [calls EXCEPT ![command.call] = peer]
    /\ signal' = [signal EXCEPT ![peer] = "have-local-offer"]
    /\ UNCHANGED <<link, inbox, command, peer, media, stopping>>

\* Mutant: the exception is caught where it is raised.
OfferFailsQuietly ==
    /\ "offer" \in Failures
    /\ doing = "offer"
    /\ Return
    /\ UNCHANGED <<link, inbox, calls, signal, media, stopping>>

OfferFails ==
    /\ "offer" \in Failures
    /\ doing = "offer"
    /\ Raise
    /\ UNCHANGED <<calls, signal, media, stopping>>
-----------------------------------------------------------------------------
(***************************************************************************)
(* apply_answer and answer_renegotiation_offer.                            *)
(***************************************************************************)
\* Mutant: a call that is not known is not ignored.
DescribeUnknown(m) ==
    /\ Reads(m, {"webrtc_answer", "webrtc_renegotiate"})
    /\ Read /\ Await("remote", m, calls[m.call])
    /\ UNCHANGED <<calls, signal, media, stopping>>

Describe(m) ==
    /\ Reads(m, {"webrtc_answer", "webrtc_renegotiate"})
    /\ calls[m.call] # NoPeer
    /\ Read /\ Await("remote", m, calls[m.call])
    /\ UNCHANGED <<calls, signal, media, stopping>>

Expected ==
    IF command.type = "webrtc_answer" THEN {"have-local-offer"}
    ELSE {"stable", "have-remote-offer"}

\* on_track: a task for each new track of the call, if it is known.
OnTracks ==
    LET p == calls[command.call]
    IN  \/ UNCHANGED media
        \/ /\ p # NoPeer
           /\ \E tracks \in SUBSET Tasks(p, "none") :
                 media' = [t \in Track |->
                               IF t \in tracks THEN "run" ELSE media[t]]

RemoteSet ==
    /\ doing = "remote"
    /\ signal[peer] \in Expected
    /\ IF command.type = "webrtc_answer"
       THEN Return /\ signal' = [signal EXCEPT ![peer] = "stable"]
       ELSE Await("answer", command, peer)
            /\ signal' = [signal EXCEPT ![peer] = "have-remote-offer"]
    /\ OnTracks
    /\ UNCHANGED <<link, inbox, calls, stopping>>

RemoteRefused ==
    /\ doing = "remote"
    /\ signal[peer] \notin Expected \/ "description" \in Failures
    /\ Raise
    /\ UNCHANGED <<calls, signal, media, stopping>>

\* createAnswer and setLocalDescription.
Answered ==
    /\ doing = "answer"
    /\ doing' = "send"
    /\ signal' = [signal EXCEPT ![peer] = "stable"]
    /\ UNCHANGED <<link, inbox, command, peer, calls, media, stopping>>

AnswerFails ==
    /\ "answer" \in Failures
    /\ doing = "answer"
    /\ Raise
    /\ UNCHANGED <<calls, signal, media, stopping>>
-----------------------------------------------------------------------------
(***************************************************************************)
(* The tasks of the tracks, the backend, the shutdown.                     *)
(***************************************************************************)
\* A cancelled task ends.
TaskEnds(t) ==
    /\ media[t] = "stopping"
    /\ media' = [media EXCEPT ![t] = "none"]
    /\ UNCHANGED <<link, inbox, handlerVars, calls, signal, stopping>>

\* track.recv raises: the other side has ended the track.  (What happens to
\* a track once the task of the connection has ended makes no difference.)
TaskFails(t) ==
    /\ "track" \in Failures /\ link # "ended"
    /\ media[t] = "run"
    /\ media' = [media EXCEPT ![t] = "failed"]
    /\ UNCHANGED <<link, inbox, handlerVars, calls, signal, stopping>>

\* Its done callback; end_call still awaits it if it has listed it before.
Discard(t) ==
    /\ media[t] = "failed"
    /\ ~ (doing = "end_tasks" /\ PeerOf[t] = peer)
    /\ media' = [media EXCEPT ![t] = "none"]
    /\ UNCHANGED <<link, inbox, handlerVars, calls, signal, stopping>>

\* Bound: no join_call for which Peer has no name left.
Joins ==
    Len(SelectSeq(inbox, LAMBDA m : m.type = "join_call"))
        + (IF doing \in {"end_tasks", "close"} /\ command.type = "join_call"
           THEN 1 ELSE 0)

Backend(m) ==
    /\ link = "up" /\ Len(inbox) < MaxInbox
    /\ m.type = "join_call" =>
          Joins < Cardinality({p \in Peer : signal[p] = "unused"})
    /\ inbox' = Append(inbox, m)
    /\ UNCHANGED <<link, handlerVars, calls, signal, media, stopping>>

LinkLost ==
    /\ "link" \in Failures
    /\ link = "up"
    /\ link' = "lost"
    /\ UNCHANGED <<inbox, handlerVars, calls, signal, media, stopping>>

\* lifespan cancels the task.  The exception arrives where it awaits, and
\* ends it, except where end_call awaits a task and passes over it.
Shutdown ==
    /\ ~ stopping
    /\ stopping' = TRUE
    /\ IF doing = "end_tasks" THEN UNCHANGED <<link, inbox, handlerVars>>
       ELSE link' = "ended" /\ inbox' = <<>> /\ Return
    /\ UNCHANGED <<calls, signal, media>>
-----------------------------------------------------------------------------
Handle ==
    \/ Send
    \/ TasksEnded \/ TasksRaise \/ Closed
    \/ \E p \in Peer : JoinAgain(p)
    \/ Offered \/ OfferFails
    \/ RemoteSet \/ RemoteRefused
    \/ Answered \/ AnswerFails

Receive ==
    \E m \in Command :
        \/ Ping(m) \/ Ignored(m)
        \/ EndCall(m)
        \/ \E p \in Peer : Join(m, p)
        \/ Describe(m)

TasksRun == \E t \in Track : TaskEnds(t)

Next ==
    \/ Connect \/ ConnectFails \/ SleepEnds \/ LoopEnds
    \/ Receive \/ Handle
    \/ TasksRun
    \/ \E t \in Track : TaskFails(t) \/ Discard(t)
    \/ \E m \in Command : Backend(m)
    \/ LinkLost
    \/ Shutdown

Spec == Init /\ [][Next]_vars

\* What the event loop can run it runs, what is awaited from a peer returns,
\* and the backend does not refuse the connection for ever.
Fairness ==
    /\ WF_vars(SleepEnds) /\ WF_vars(LoopEnds)
    /\ WF_vars(Receive) /\ WF_vars(Handle)
    /\ WF_vars(TasksRun)
    /\ SF_vars(Connect)

FairSpec == Spec /\ Fairness
-----------------------------------------------------------------------------
(***************************************************************************)
(* Properties.                                                             *)
(***************************************************************************)
TypeOK ==
    /\ link \in {"connecting", "up", "lost", "sleeping", "ended"}
    /\ inbox \in Seq(Command) /\ Len(inbox) <= MaxInbox
    /\ calls \in [Call -> Peer \cup {NoPeer}]
    /\ signal \in [Peer -> {"unused", "new", "have-local-offer", "stable",
                            "have-remote-offer", "closed"}]
    /\ media \in [Track -> {"none", "run", "stopping", "failed"}]
    /\ stopping \in BOOLEAN
    /\ doing \in {"recv", "send", "end_tasks", "close", "offer", "remote", "answer"}
    /\ command \in Command \cup {NoCommand}
    /\ peer \in Peer \cup {NoPeer}
    /\ doing = "recv" <=> command = NoCommand
    /\ doing \in {"end_tasks", "close", "offer", "remote", "answer"} => peer # NoPeer

Open(p) == signal[p] \notin {"unused", "closed"}

\* What calls says is true: its peers are open, also while a call is ended or
\* joined again and after a handler has raised, and no two calls have one peer.
RegisteredIsOpen ==
    \A c \in Call : calls[c] # NoPeer =>
        /\ Open(calls[c])
        /\ \A d \in Call \ {c} : calls[d] # calls[c]

\* Nobody consumes the audio of a call that has ended: a task that has not
\* been cancelled belongs to the peer of a call.
MediaOwned ==
    \A t \in Track : media[t] = "run" => \E c \in Call : calls[c] = PeerOf[t]

\* Something can still close p.
Owned(p) == peer = p \/ \E c \in Call : calls[c] = p

\* A peer is forgotten without being closed only by an exception, and then
\* the control connection is dropped or the process stops: as long as the
\* connection is up each open peer is that of a call or of the handler.
AbandonDisconnects ==
    [][\A p \in Peer :
          Open(p) /\ Owned(p) /\ Open(p)' => Owned(p)' \/ link' \in {"sleeping", "ended"}]_vars

\* Its calls are what MediaCalls promises: joined, heard and ended one at a
\* time, each untouched by the commands for the others and by whatever happens
\* to the control connection.
Connected == {c \in Call : calls[c] # NoPeer}
Heard == {c \in Connected : Tasks(calls[c], "run") # {}}

Promise == INSTANCE MediaCalls WITH connected <- Connected, heard <- Heard

CallsIndependent == Promise!Spec

\* run_forever connects again whatever ends a connection: a refusal, the
\* other side, an exception in a handler.
Reconnects == link # "up" ~> link = "up" \/ stopping

\* No handler waits for ever: end_call has cancelled the tasks it awaits, and
\* nothing else it awaits waits for the handler.
EveryCommandEnds == doing # "recv" ~> doing = "recv"

\* lifespan (main.py) cancels the task and awaits it: it ends.
ShutdownEnds == stopping ~> link = "ended"
-----------------------------------------------------------------------------
(***************************************************************************)
(* The inductive invariant of the proofs.                                  *)
(***************************************************************************)
\* A command that names a call.
CallCommand == {m \in Command : m.type \notin {"ping", "other"}}

\* What the handler has in hand at each of its awaits.
HandlerInv ==
    /\ doing = "recv" => peer = NoPeer
    /\ doing \notin {"recv", "send"} => command \in CallCommand
    /\ doing \in {"end_tasks", "close", "offer"} =>
          /\ command.type \in {"end_call", "join_call"}
          /\ \A c \in Call : calls[c] # peer
    /\ doing = "end_tasks" => Open(peer) /\ Tasks(peer, "run") = {}
    /\ doing = "close" => signal[peer] = "closed"
    /\ doing = "offer" => Open(peer) /\ command.type = "join_call"
    /\ doing \in {"remote", "answer"} => calls[command.call] = peer
    /\ doing = "send" => peer = NoPeer \/ \E c \in Call : calls[c] = peer

\* A call is entered again only after its old peer has been taken out.
JoinedAfresh ==
    doing \in {"end_tasks", "close", "offer"} => calls[command.call] = NoPeer

IInv == TypeOK /\ HandlerInv /\ JoinedAfresh /\ RegisteredIsOpen /\ MediaOwned
=============================================================================
