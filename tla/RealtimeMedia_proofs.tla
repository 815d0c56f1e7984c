------------------------ MODULE RealtimeMedia_proofs ------------------------
(***************************************************************************)
(* Theorems about RealtimeMedia, for any number of calls, peers and tracks *)
(* and whatever may fail.                                                  *)
(***************************************************************************)
EXTENDS RealtimeMedia, SequenceTheorems, TLAPS

USE NoPeerAssumption, NoCommandAssumption, PeerOfAssumption, MaxInboxAssumption

PeerState == {"unused", "new", "have-local-offer", "stable",
              "have-remote-offer", "closed"}

\* A message that has been read is a command, and the rest stays in bounds.
LEMMA ReadTyped ==
    ASSUME TypeOK, NEW m, NEW types, Reads(m, types)
    PROVE  /\ m \in Command /\ m.type \in types
           /\ Tail(inbox) \in Seq(Command) /\ Len(Tail(inbox)) <= MaxInbox
<1>1. inbox \in Seq(Command) /\ inbox # <<>> /\ m = Head(inbox) /\ m.type \in types
  BY DEF TypeOK, Reads
<1>2. Head(inbox) \in Command /\ Tail(inbox) \in Seq(Command)
        /\ Len(Tail(inbox)) = Len(inbox) - 1
  BY <1>1, HeadTailProperties
<1>3. Len(inbox) \in Nat /\ Len(inbox) <= MaxInbox
  BY <1>1, LenProperties DEF TypeOK
<1> QED BY <1>1, <1>2, <1>3

\* The commands that name a call.
LEMMA CallCommandTyped ==
    ASSUME NEW m \in CallCommand
    PROVE  m \in Command /\ m # NoCommand /\ m.call \in Call
BY DEF CallCommand, Command

LEMMA CommandNamesCall ==
    ASSUME NEW m \in Command,
           m.type \in {"join_call", "webrtc_answer", "webrtc_renegotiate", "end_call"}
    PROVE  m \in CallCommand
BY DEF CallCommand, Command

\* Every variable keeps its type.
LEMMA EmptyInbox == <<>> \in Seq(Command) /\ Len(<<>>) <= MaxInbox
<1>1. <<>> \in Seq(Command) /\ Len(<<>>) = 0
  BY EmptySeq
<1> QED BY <1>1

LEMMA InitTyped == Init => TypeOK
<1> SUFFICES ASSUME Init PROVE TypeOK
  OBVIOUS
<1>1. inbox \in Seq(Command) /\ Len(inbox) <= MaxInbox
  BY EmptyInbox DEF Init
<1> QED BY <1>1 DEF Init, TypeOK

LEMMA NextTyped == IInv /\ [Next]_vars => TypeOK'
<1> SUFFICES ASSUME IInv, [Next]_vars PROVE TypeOK'
  OBVIOUS
<1> USE DEF TypeOK, handlerVars
<1>i. TypeOK /\ HandlerInv
  BY DEF IInv
<1> DEFINE InboxOK == inbox' \in Seq(Command) /\ Len(inbox') <= MaxInbox
<1>r. ASSUME inbox' = inbox \/ inbox' = <<>> PROVE InboxOK
  BY <1>r, <1>i, EmptyInbox
<1>1. ASSUME Connect \/ ConnectFails \/ SleepEnds \/ LoopEnds \/ LinkLost PROVE TypeOK'
  BY <1>1, <1>i DEF Connect, ConnectFails, SleepEnds, LoopEnds, LinkLost
<1>2. ASSUME NEW m \in Command, Ping(m) \/ Ignored(m) PROVE TypeOK'
  <2>1. /\ m # NoCommand
        /\ Tail(inbox) \in Seq(Command) /\ Len(Tail(inbox)) <= MaxInbox
    BY <1>2, <1>i, ReadTyped DEF Ping, Ignored
  <2> QED BY <1>2, <1>i, <2>1 DEF Ping, Ignored, Read, Await
<1>3. ASSUME NEW m \in Command, EndCall(m) PROVE TypeOK'
  <2>1. /\ m # NoCommand /\ m.call \in Call
        /\ Tail(inbox) \in Seq(Command) /\ Len(Tail(inbox)) <= MaxInbox
    BY <1>3, <1>i, ReadTyped, CommandNamesCall, CallCommandTyped DEF EndCall
  <2>2. /\ calls' = [calls EXCEPT ![m.call] = NoPeer]
        /\ media' = Cancelled(calls[m.call])
        /\ calls[m.call] \in Peer
        /\ UNCHANGED stopping
    BY <1>3, <1>i, <2>1 DEF EndCall
  <2>3. media' \in [Track -> {"none", "run", "stopping", "failed"}]
    BY <2>2, <1>i DEF Cancelled
  <2>4. /\ signal' \in [Peer -> PeerState]
        /\ link' \in {link, "sleeping"}
        /\ \/ Await("end_tasks", m, calls[m.call]) \/ Await("close", m, calls[m.call])
           \/ Return
    BY <1>3, <1>i, <2>1, <2>2 DEF EndCall, Read, Raise, PeerState
  <2>5. inbox' = Tail(inbox) \/ inbox' = <<>>
    BY <1>3 DEF EndCall, Read, Raise
  <2>6. InboxOK
    BY <2>1, <2>5, <1>r
  <2> HIDE DEF InboxOK
  <2> QED
    BY <1>i, <2>1, <2>2, <2>3, <2>4, <2>6 DEF Await, Return, PeerState, InboxOK
<1>4. ASSUME NEW m \in Command, NEW p \in Peer, Join(m, p) PROVE TypeOK'
  <2>1. /\ m # NoCommand
        /\ Tail(inbox) \in Seq(Command) /\ Len(Tail(inbox)) <= MaxInbox
    BY <1>4, <1>i, ReadTyped DEF Join
  <2> QED BY <1>4, <1>i, <2>1 DEF Join, Read, Await
<1>5. ASSUME NEW m \in Command, Describe(m) PROVE TypeOK'
  <2>1. /\ m # NoCommand /\ m.call \in Call
        /\ Tail(inbox) \in Seq(Command) /\ Len(Tail(inbox)) <= MaxInbox
    <3>1. Reads(m, {"webrtc_answer", "webrtc_renegotiate"})
      BY <1>5 DEF Describe
    <3>2. /\ m # NoCommand /\ m.type \in {"webrtc_answer", "webrtc_renegotiate"}
          /\ Tail(inbox) \in Seq(Command) /\ Len(Tail(inbox)) <= MaxInbox
      BY <3>1, <1>i, ReadTyped
    <3>3. m \in CallCommand
      BY <3>2, CommandNamesCall
    <3> QED BY <3>2, <3>3, CallCommandTyped
  <2> QED BY <1>5, <1>i, <2>1 DEF Describe, Read, Await
<1>6. ASSUME Send \/ TasksRaise \/ OfferFails \/ RemoteRefused \/ AnswerFails
      PROVE  TypeOK'
  <2>1. InboxOK
    BY <1>6, <1>r
       DEF Send, TasksRaise, OfferFails, RemoteRefused, AnswerFails, Raise
  <2>2. Return /\ link' \in {link, "sleeping"} /\ UNCHANGED <<calls, signal, media, stopping>>
    BY <1>6
       DEF Send, TasksRaise, OfferFails, RemoteRefused, AnswerFails, Raise
  <2> QED BY <1>i, <2>1, <2>2 DEF Return
<1>7. ASSUME TasksEnded \/ Closed PROVE TypeOK'
  BY <1>7, <1>i DEF TasksEnded, Closed, Return
<1>8. ASSUME NEW p \in Peer, JoinAgain(p) PROVE TypeOK'
  BY <1>8, <1>i DEF JoinAgain, Await
<1>9. ASSUME Offered \/ Answered PROVE TypeOK'
  <2>1. peer \in Peer /\ command # NoCommand
    BY <1>9, <1>i DEF Offered, Answered
  <2> QED BY <1>9, <1>i, <2>1 DEF Offered, Answered
<1>10. ASSUME RemoteSet PROVE TypeOK'
  <2>1. peer \in Peer /\ command # NoCommand
    BY <1>10, <1>i DEF RemoteSet
  <2>2. media' \in [Track -> {"none", "run", "stopping", "failed"}]
    BY <1>10, <1>i DEF RemoteSet, OnTracks
  <2> QED BY <1>10, <1>i, <2>1, <2>2 DEF RemoteSet, Await, Return
<1>11. ASSUME NEW t \in Track, TaskEnds(t) \/ TaskFails(t) \/ Discard(t) PROVE TypeOK'
  BY <1>11, <1>i DEF TaskEnds, TaskFails, Discard
<1>12. ASSUME NEW m \in Command, Backend(m) PROVE TypeOK'
  <2>1. /\ Append(inbox, m) \in Seq(Command)
        /\ Len(Append(inbox, m)) = Len(inbox) + 1 /\ Len(inbox) \in Nat
    BY <1>12, <1>i, AppendProperties, LenProperties
  <2> QED BY <1>12, <1>i, <2>1 DEF Backend
<1>13. ASSUME Shutdown PROVE TypeOK'
  <2>1. InboxOK
    BY <1>13, <1>r DEF Shutdown
  <2> QED BY <1>13, <1>i, <2>1 DEF Shutdown, Return
<1>14. ASSUME UNCHANGED vars PROVE TypeOK'
  BY <1>14, <1>i DEF vars
<1> QED
  BY <1>1, <1>2, <1>3, <1>4, <1>5, <1>6, <1>7, <1>8, <1>9, <1>10, <1>11, <1>12,
     <1>13, <1>14 DEF Next, Receive, Handle, TasksRun
-----------------------------------------------------------------------------
(***************************************************************************)
(* The rest of the invariant.                                              *)
(***************************************************************************)
MediaInv == HandlerInv /\ JoinedAfresh /\ RegisteredIsOpen /\ MediaOwned

\* A handler that has returned or raised leaves nothing to say of it.
LEMMA HandlerReturns ==
    ASSUME IInv, Return, UNCHANGED <<calls, signal, media>>
    PROVE  MediaInv'
<1>1. RegisteredIsOpen' /\ MediaOwned'
  BY DEF IInv, RegisteredIsOpen, MediaOwned, Open
<1>2. HandlerInv' /\ JoinedAfresh'
  BY DEF Return, HandlerInv, JoinedAfresh
<1> QED BY <1>1, <1>2 DEF MediaInv

\* Steps of the connection, and commands that change nothing.
LEMMA HandlerWaits ==
    ASSUME IInv, UNCHANGED <<doing, command, peer, calls, signal, media>>
    PROVE  MediaInv'
<1>1. RegisteredIsOpen' /\ MediaOwned'
  BY DEF IInv, RegisteredIsOpen, MediaOwned, Open
<1>2. HandlerInv' /\ JoinedAfresh'
  BY DEF IInv, HandlerInv, JoinedAfresh, Open, Tasks
<1> QED BY <1>1, <1>2 DEF MediaInv

LEMMA EndCallStep ==
    ASSUME IInv, NEW m \in Command, EndCall(m)
    PROVE  MediaInv'
<1> DEFINE p == calls[m.call]
<1>1. m \in CallCommand /\ m.call \in Call /\ m.type \in {"end_call", "join_call"}
  BY ReadTyped, CommandNamesCall, CallCommandTyped DEF IInv, EndCall
<1>2. /\ p \in Peer
      /\ calls' = [calls EXCEPT ![m.call] = NoPeer]
      /\ media' = Cancelled(p)
  BY <1>1 DEF IInv, TypeOK, EndCall
<1>3. \A c \in Call : calls'[c] # NoPeer => c # m.call /\ calls'[c] = calls[c] /\ calls[c] # p
  BY <1>1, <1>2 DEF IInv, TypeOK, RegisteredIsOpen
<1>4. \/ UNCHANGED signal
      \/ signal' = [signal EXCEPT ![p] = "closed"]
  BY DEF EndCall
<1>5. RegisteredIsOpen'
  <2>1. \A c \in Call : calls[c] # NoPeer /\ calls[c] # p => Open(calls[c])'
    BY <1>2, <1>4 DEF IInv, TypeOK, RegisteredIsOpen, Open
  <2> QED BY <1>3, <2>1 DEF IInv, RegisteredIsOpen, Open
<1>6. MediaOwned'
  <2> SUFFICES ASSUME NEW t \in Track, media'[t] = "run"
               PROVE  \E c \in Call : calls'[c] = PeerOf[t]
    BY DEF MediaOwned
  <2>1. media[t] = "run" /\ PeerOf[t] # p
    BY <1>2 DEF Cancelled, Tasks
  <2>2. PICK c \in Call : calls[c] = PeerOf[t]
    BY <2>1 DEF IInv, MediaOwned
  <2> QED BY <1>1, <1>2, <2>1, <2>2 DEF IInv, TypeOK
<1>7. \A c \in Call : calls'[c] # p
  BY <1>2, <1>3 DEF IInv, TypeOK
<1>8. calls'[m.call] = NoPeer
  BY <1>1, <1>2 DEF IInv, TypeOK
<1>9. CASE Await("end_tasks", m, p) /\ UNCHANGED signal
  <2>1. Open(p)
    BY <1>1, <1>2 DEF IInv, RegisteredIsOpen
  <2>2. \A t \in Track : PeerOf[t] = p => media'[t] # "run"
    BY <1>2 DEF Cancelled, Tasks
  <2> QED BY <1>1, <1>5, <1>6, <1>7, <1>8, <1>9, <2>1, <2>2
          DEF MediaInv, HandlerInv, JoinedAfresh, Await, Open, Tasks
<1>10. CASE Await("close", m, p) /\ signal' = [signal EXCEPT ![p] = "closed"]
  <2>1. signal'[p] = "closed"
    BY <1>2, <1>10 DEF IInv, TypeOK
  <2> QED BY <1>1, <1>5, <1>6, <1>7, <1>8, <1>10, <2>1
          DEF MediaInv, HandlerInv, JoinedAfresh, Await
<1>11. CASE Return
  BY <1>5, <1>6, <1>11 DEF MediaInv, HandlerInv, JoinedAfresh, Return
<1> QED BY <1>9, <1>10, <1>11 DEF EndCall, Raise

LEMMA TasksEndedStep ==
    ASSUME IInv, TasksEnded
    PROVE  MediaInv'
<1>1. /\ peer \in Peer /\ doing = "end_tasks"
      /\ \A c \in Call : calls[c] # peer
      /\ signal' = [signal EXCEPT ![peer] = "closed"]
      /\ UNCHANGED <<command, peer, calls, media>> /\ doing' = "close"
  BY DEF IInv, TypeOK, HandlerInv, TasksEnded
<1>2. RegisteredIsOpen'
  BY <1>1 DEF IInv, TypeOK, RegisteredIsOpen, Open
<1>3. MediaOwned'
  BY <1>1 DEF IInv, MediaOwned
<1>4. HandlerInv' /\ JoinedAfresh'
  BY <1>1 DEF IInv, TypeOK, HandlerInv, JoinedAfresh
<1> QED BY <1>2, <1>3, <1>4 DEF MediaInv

LEMMA ClosedStep ==
    ASSUME IInv, Closed
    PROVE  MediaInv'
<1>1. /\ peer \in Peer
      /\ \A c \in Call : calls[c] # peer
      /\ signal' = [signal EXCEPT ![peer] = "unused"]
      /\ UNCHANGED <<calls, media>> /\ Return
  BY DEF IInv, TypeOK, HandlerInv, Closed
<1>2. RegisteredIsOpen'
  BY <1>1 DEF IInv, TypeOK, RegisteredIsOpen, Open
<1>3. MediaOwned'
  BY <1>1 DEF IInv, MediaOwned
<1>4. HandlerInv' /\ JoinedAfresh'
  BY <1>1 DEF Return, HandlerInv, JoinedAfresh
<1> QED BY <1>2, <1>3, <1>4 DEF MediaInv

LEMMA JoinStep ==
    ASSUME IInv, NEW m \in Command, NEW p \in Peer, Join(m, p)
    PROVE  MediaInv'
<1>1. m \in CallCommand /\ m.call \in Call /\ m.type = "join_call"
  BY ReadTyped, CommandNamesCall, CallCommandTyped DEF IInv, Join
<1>2. /\ signal[p] = "unused" /\ signal' = [signal EXCEPT ![p] = "new"]
      /\ UNCHANGED <<calls, media>> /\ Await("offer", m, p)
      /\ calls[m.call] = NoPeer
  BY DEF Join
<1>3. \A c \in Call : calls[c] # p
  BY <1>2 DEF IInv, RegisteredIsOpen, Open
<1>4. RegisteredIsOpen'
  BY <1>2, <1>3 DEF IInv, TypeOK, RegisteredIsOpen, Open
<1>5. MediaOwned'
  BY <1>2 DEF IInv, MediaOwned
<1>6. HandlerInv' /\ JoinedAfresh'
  BY <1>1, <1>2, <1>3 DEF IInv, TypeOK, HandlerInv, JoinedAfresh, Await, Open
<1> QED BY <1>4, <1>5, <1>6 DEF MediaInv

LEMMA JoinAgainStep ==
    ASSUME IInv, NEW p \in Peer, JoinAgain(p)
    PROVE  MediaInv'
<1>1. /\ peer \in Peer /\ command \in CallCommand /\ command.type = "join_call"
      /\ calls[command.call] = NoPeer
      /\ \A c \in Call : calls[c] # peer
      /\ signal[p] = "unused" \/ p = peer
      /\ signal' = [signal EXCEPT ![peer] = "unused", ![p] = "new"]
      /\ UNCHANGED <<calls, media>> /\ Await("offer", command, p)
  BY DEF IInv, TypeOK, HandlerInv, JoinedAfresh, JoinAgain
<1>2. \A c \in Call : calls[c] # p
  BY <1>1 DEF IInv, RegisteredIsOpen, Open
<1>3. /\ signal'[p] = "new"
      /\ \A q \in Peer \ {p, peer} : signal'[q] = signal[q]
  BY <1>1 DEF IInv, TypeOK
<1>4. RegisteredIsOpen'
  BY <1>1, <1>2, <1>3 DEF IInv, TypeOK, RegisteredIsOpen, Open
<1>5. MediaOwned'
  BY <1>1 DEF IInv, MediaOwned
<1>6. HandlerInv' /\ JoinedAfresh'
  BY <1>1, <1>2, <1>3 DEF HandlerInv, JoinedAfresh, Await, Open
<1> QED BY <1>4, <1>5, <1>6 DEF MediaInv

LEMMA OfferedStep ==
    ASSUME IInv, Offered
    PROVE  MediaInv'
<1>1. /\ peer \in Peer /\ command \in CallCommand /\ command.call \in Call
      /\ calls[command.call] = NoPeer
      /\ \A c \in Call : calls[c] # peer
      /\ calls' = [calls EXCEPT ![command.call] = peer]
      /\ signal' = [signal EXCEPT ![peer] = "have-local-offer"]
      /\ doing' = "send" /\ UNCHANGED <<command, peer, media>>
  BY CallCommandTyped DEF IInv, TypeOK, HandlerInv, JoinedAfresh, Offered
<1>2. /\ calls'[command.call] = peer
      /\ \A c \in Call \ {command.call} : calls'[c] = calls[c]
      /\ Open(peer)'
      /\ \A q \in Peer \ {peer} : signal'[q] = signal[q]
  BY <1>1 DEF IInv, TypeOK, Open
<1>3. RegisteredIsOpen'
  BY <1>1, <1>2 DEF IInv, TypeOK, RegisteredIsOpen, Open
<1>4. MediaOwned'
  <2> SUFFICES ASSUME NEW t \in Track, media[t] = "run"
               PROVE  \E c \in Call : calls'[c] = PeerOf[t]
    BY <1>1 DEF MediaOwned
  <2>1. PICK c \in Call : calls[c] = PeerOf[t]
    BY DEF IInv, MediaOwned
  <2>2. c # command.call
    BY <1>1, <2>1
  <2> QED BY <1>2, <2>1, <2>2
<1>5. HandlerInv' /\ JoinedAfresh'
  BY <1>1, <1>2 DEF HandlerInv, JoinedAfresh
<1> QED BY <1>3, <1>4, <1>5 DEF MediaInv

LEMMA DescribeStep ==
    ASSUME IInv, NEW m \in Command, Describe(m)
    PROVE  MediaInv'
<1>1. m \in CallCommand /\ m.call \in Call
  BY ReadTyped, CommandNamesCall, CallCommandTyped DEF IInv, Describe
<1>2. /\ Await("remote", m, calls[m.call])
      /\ UNCHANGED <<calls, signal, media>>
  BY DEF Describe
<1>3. RegisteredIsOpen' /\ MediaOwned'
  BY <1>2 DEF IInv, RegisteredIsOpen, MediaOwned, Open
<1>4. HandlerInv' /\ JoinedAfresh'
  BY <1>1, <1>2 DEF HandlerInv, JoinedAfresh, Await
<1> QED BY <1>3, <1>4 DEF MediaInv

LEMMA RemoteSetStep ==
    ASSUME IInv, RemoteSet
    PROVE  MediaInv'
<1>1. /\ peer \in Peer /\ command \in CallCommand /\ command.call \in Call
      /\ calls[command.call] = peer
      /\ UNCHANGED calls
      /\ \E state \in {"stable", "have-remote-offer"} :
            signal' = [signal EXCEPT ![peer] = state]
      /\ Return \/ Await("answer", command, peer)
  BY CallCommandTyped DEF IInv, TypeOK, HandlerInv, RemoteSet
<1>2. RegisteredIsOpen'
  BY <1>1 DEF IInv, TypeOK, RegisteredIsOpen, Open
<1>3. MediaOwned'
  <2> SUFFICES ASSUME NEW t \in Track, media'[t] = "run"
               PROVE  \E c \in Call : calls[c] = PeerOf[t]
    BY <1>1 DEF MediaOwned
  <2>1. media[t] = "run" \/ PeerOf[t] = peer
    BY <1>1 DEF RemoteSet, OnTracks, Tasks
  <2> QED BY <1>1, <2>1 DEF IInv, MediaOwned
<1>4. HandlerInv' /\ JoinedAfresh'
  BY <1>1 DEF HandlerInv, JoinedAfresh, Await, Return
<1> QED BY <1>2, <1>3, <1>4 DEF MediaInv

LEMMA AnsweredStep ==
    ASSUME IInv, Answered
    PROVE  MediaInv'
<1>1. /\ peer \in Peer /\ command \in CallCommand /\ command.call \in Call
      /\ calls[command.call] = peer
      /\ signal' = [signal EXCEPT ![peer] = "stable"]
      /\ doing' = "send" /\ UNCHANGED <<command, peer, calls, media>>
  BY CallCommandTyped DEF IInv, TypeOK, HandlerInv, Answered
<1>2. RegisteredIsOpen'
  BY <1>1 DEF IInv, TypeOK, RegisteredIsOpen, Open
<1>3. MediaOwned'
  BY <1>1 DEF IInv, MediaOwned
<1>4. HandlerInv' /\ JoinedAfresh'
  BY <1>1 DEF HandlerInv, JoinedAfresh
<1> QED BY <1>2, <1>3, <1>4 DEF MediaInv

\* No task starts but in RemoteSet.
LEMMA TrackStep ==
    ASSUME IInv, NEW t \in Track, TaskEnds(t) \/ TaskFails(t) \/ Discard(t)
    PROVE  MediaInv'
<1>1. /\ UNCHANGED <<doing, command, peer, calls, signal>>
      /\ \A u \in Track : media'[u] = "run" => media[u] = "run"
  BY DEF IInv, TypeOK, TaskEnds, TaskFails, Discard, handlerVars
<1>2. RegisteredIsOpen' /\ MediaOwned'
  BY <1>1 DEF IInv, RegisteredIsOpen, MediaOwned, Open
<1>3. HandlerInv' /\ JoinedAfresh'
  BY <1>1 DEF IInv, HandlerInv, JoinedAfresh, Open, Tasks
<1> QED BY <1>2, <1>3 DEF MediaInv

LEMMA InitInvariant == Init => IInv
<1>1. Init => TypeOK
  BY InitTyped
<1>2. Init => HandlerInv /\ JoinedAfresh /\ RegisteredIsOpen /\ MediaOwned
  BY DEF Init, HandlerInv, JoinedAfresh, RegisteredIsOpen, MediaOwned
<1> QED BY <1>1, <1>2 DEF IInv

LEMMA NextInvariant == IInv /\ [Next]_vars => IInv'
<1> SUFFICES ASSUME IInv, [Next]_vars PROVE MediaInv'
  BY NextTyped DEF IInv, MediaInv
<1>1. ASSUME Connect \/ ConnectFails \/ SleepEnds \/ LoopEnds \/ LinkLost PROVE MediaInv'
  BY <1>1, HandlerWaits
     DEF Connect, ConnectFails, SleepEnds, LoopEnds, LinkLost, handlerVars
<1>2. ASSUME NEW m \in Command, Ping(m) PROVE MediaInv'
  <2>1. RegisteredIsOpen' /\ MediaOwned'
    BY <1>2 DEF Ping, IInv, RegisteredIsOpen, MediaOwned, Open
  <2>2. HandlerInv' /\ JoinedAfresh'
    BY <1>2 DEF Ping, Await, HandlerInv, JoinedAfresh
  <2> QED BY <2>1, <2>2 DEF MediaInv
<1>3. ASSUME NEW m \in Command, Ignored(m) \/ Backend(m) PROVE MediaInv'
  BY <1>3, HandlerWaits DEF Ignored, Backend, handlerVars
<1>4. ASSUME NEW m \in Command, EndCall(m) PROVE MediaInv'
  BY <1>4, EndCallStep
<1>5. ASSUME NEW m \in Command, NEW p \in Peer, Join(m, p) PROVE MediaInv'
  BY <1>5, JoinStep
<1>6. ASSUME NEW m \in Command, Describe(m) PROVE MediaInv'
  BY <1>6, DescribeStep
<1>7. ASSUME Send \/ TasksRaise \/ OfferFails \/ RemoteRefused \/ AnswerFails
      PROVE  MediaInv'
  BY <1>7, HandlerReturns
     DEF Send, TasksRaise, OfferFails, RemoteRefused, AnswerFails, Raise
<1>8. ASSUME NEW p \in Peer, JoinAgain(p) PROVE MediaInv'
  BY <1>8, JoinAgainStep
<1>9. ASSUME Shutdown PROVE MediaInv'
  BY <1>9, HandlerReturns, HandlerWaits DEF Shutdown, handlerVars
<1>10. ASSUME UNCHANGED vars PROVE MediaInv'
  BY <1>10, HandlerWaits DEF vars
<1> QED
  BY <1>1, <1>2, <1>3, <1>4, <1>5, <1>6, <1>7, <1>8, <1>9, <1>10,
     TasksEndedStep, ClosedStep, OfferedStep, RemoteSetStep, AnsweredStep, TrackStep
     DEF Next, Receive, Handle, TasksRun
-----------------------------------------------------------------------------
(***************************************************************************)
(* The theorems.                                                           *)
(***************************************************************************)
\* The inductive invariant: between any two awaits the handler, calls and the
\* tasks of the tracks agree (realtime_media.py:60-184).
THEOREM Invariant == Spec => []IInv
BY InitInvariant, NextInvariant, PTL DEF Spec

\* Every variable keeps its type, and the handler has a peer in hand whenever
\* it uses one.
THEOREM TypeCorrect == Spec => []TypeOK
<1>1. IInv => TypeOK
  BY DEF IInv
<1> QED BY <1>1, Invariant, PTL

\* The peers in calls are open, and no two calls share one, whatever step of
\* join_call, end_call or a negotiation fails or is cancelled.
THEOREM RegisteredPeersOpen == Spec => []RegisteredIsOpen
<1>1. IInv => RegisteredIsOpen
  BY DEF IInv
<1> QED BY <1>1, Invariant, PTL

\* No audio is consumed but for a call: every task of on_track is cancelled in
\* the step that takes its call out of calls.
THEOREM NoOrphanedMedia == Spec => []MediaOwned
<1>1. IInv => MediaOwned
  BY DEF IInv
<1> QED BY <1>1, Invariant, PTL

\* A step after which nothing can close an open peer any more is an exception
\* that drops the control connection, or the end of the task.
LEMMA AbandonStep ==
    ASSUME IInv, [Next]_vars, NEW p \in Peer, Open(p), Owned(p), Open(p)',
           link' \notin {"sleeping", "ended"}
    PROVE  Owned(p)'
<1> USE DEF Owned
<1>1. ASSUME UNCHANGED <<peer, calls>> PROVE Owned(p)'
  BY <1>1
<1>2. ASSUME UNCHANGED calls, peer = p => \E c \in Call : calls[c] = p
      PROVE  Owned(p)'
  BY <1>2
<1>3. doing = "recv" => peer = NoPeer
  BY DEF IInv, HandlerInv
<1>4. ASSUME NEW m \in Command, Ping(m) \/ Ignored(m) \/ Describe(m) \/ Backend(m)
      PROVE  Owned(p)'
  BY <1>2, <1>3, <1>4 DEF Ping, Ignored, Describe, Backend, Reads, handlerVars
<1>5. ASSUME NEW m \in Command, EndCall(m) PROVE Owned(p)'
  <2>1. m.call \in Call
    BY <1>5, ReadTyped, CommandNamesCall, CallCommandTyped DEF IInv, EndCall
  <2>2. peer' = calls[m.call] /\ calls' = [calls EXCEPT ![m.call] = NoPeer]
    BY <1>5 DEF EndCall, Await, Raise
  <2>3. PICK c \in Call : calls[c] = p
    BY <1>3, <1>5 DEF EndCall, Reads
  <2> QED BY <2>1, <2>2, <2>3 DEF IInv, TypeOK
<1>6. ASSUME NEW m \in Command, NEW q \in Peer, Join(m, q) PROVE Owned(p)'
  BY <1>2, <1>3, <1>6 DEF Join, Reads
<1>7. ASSUME Send PROVE Owned(p)'
  BY <1>2, <1>7 DEF Send, Raise, IInv, HandlerInv
<1>8. ASSUME TasksRaise \/ OfferFails \/ RemoteRefused \/ AnswerFails PROVE Owned(p)'
  BY <1>8 DEF TasksRaise, OfferFails, RemoteRefused, AnswerFails, Raise
<1>9. ASSUME Closed PROVE Owned(p)'
  <2>1. peer # p
    BY <1>9 DEF Closed, IInv, TypeOK, Open
  <2> QED BY <1>2, <1>9, <2>1 DEF Closed
<1>10. ASSUME NEW q \in Peer, JoinAgain(q) PROVE Owned(p)'
  <2>1. peer = p => q = p
    BY <1>10 DEF JoinAgain, IInv, TypeOK, Open
  <2> QED BY <1>10, <2>1 DEF JoinAgain, Await
<1>11. ASSUME Offered PROVE Owned(p)'
  <2>1. command.call \in Call /\ calls[command.call] = NoPeer
    BY <1>11, CallCommandTyped DEF Offered, IInv, HandlerInv, JoinedAfresh
  <2> QED BY <1>11, <2>1 DEF Offered, IInv, TypeOK
<1>12. ASSUME RemoteSet PROVE Owned(p)'
  <2>1. command.call \in Call /\ calls[command.call] = peer
    BY <1>12, CallCommandTyped DEF RemoteSet, IInv, HandlerInv
  <2> QED BY <1>2, <1>12, <2>1 DEF RemoteSet
<1>13. ASSUME Shutdown PROVE Owned(p)'
  BY <1>1, <1>13 DEF Shutdown, handlerVars
<1>14. ASSUME \/ Connect \/ ConnectFails \/ SleepEnds \/ LoopEnds \/ LinkLost
              \/ TasksEnded \/ Answered
              \/ \E t \in Track : TaskEnds(t) \/ TaskFails(t) \/ Discard(t)
              \/ UNCHANGED vars
       PROVE  Owned(p)'
  BY <1>1, <1>14
     DEF Connect, ConnectFails, SleepEnds, LoopEnds, LinkLost, TasksEnded,
         Answered, TaskEnds, TaskFails, Discard, vars, handlerVars
<1> QED
  BY <1>4, <1>5, <1>6, <1>7, <1>8, <1>9, <1>10, <1>11, <1>12, <1>13, <1>14
     DEF Next, Receive, Handle, TasksRun

\* No open peer is forgotten while the control connection stays up.
THEOREM AbandonedOnlyByDisconnect == Spec => AbandonDisconnects
<1> DEFINE Abandon ==
      \A p \in Peer :
          Open(p) /\ Owned(p) /\ Open(p)' => Owned(p)' \/ link' \in {"sleeping", "ended"}
<1>1. IInv /\ [Next]_vars => [Abandon]_vars
  BY AbandonStep
<1>2. []IInv /\ [][Next]_vars => [][Abandon]_vars
  BY <1>1, PTL
<1> QED BY <1>2, Invariant, PTL DEF Spec, AbandonDisconnects
-----------------------------------------------------------------------------
(***************************************************************************)
(* The calls implement MediaCalls.                                         *)
(***************************************************************************)
Runs(c) == \E t \in Track : PeerOf[t] = calls[c] /\ media[t] = "run"

\* Nothing is told of a step that takes no call out or in, and starts and
\* stops no task.
LEMMA CallsRest ==
    ASSUME UNCHANGED calls,
           \A t \in Track : media'[t] = "run" <=> media[t] = "run"
    PROVE  UNCHANGED Promise!mediaCallsVars
<1>1. Connected' = Connected
  BY DEF Connected
<1>2. \A c \in Call : Tasks(calls[c], "run")' = Tasks(calls[c], "run")
  BY DEF Tasks
<1>3. Heard' = Heard
  BY <1>1, <1>2 DEF Heard, Connected
<1> QED BY <1>1, <1>3 DEF Promise!mediaCallsVars

\* A step in which only tasks of one call start or stop is one of that call,
\* because no other call has its peer.
LEMMA TracksOfOne ==
    ASSUME IInv, NEW c \in Call, calls[c] # NoPeer, UNCHANGED calls,
           \A t \in Track :
               PeerOf[t] # calls[c] => (media'[t] = "run" <=> media[t] = "run")
    PROVE  [Promise!Next]_(Promise!mediaCallsVars)
<1>1. Connected' = Connected /\ c \in Connected
  BY DEF Connected
<1>2. ASSUME NEW d \in Call \ {c}, calls[d] # NoPeer PROVE Runs(d)' <=> Runs(d)
  <2>1. calls[d] # calls[c]
    BY <1>2 DEF IInv, RegisteredIsOpen
  <2> QED BY <2>1 DEF Runs
<1>3. \A d \in Call \ {c} : d \in Heard' <=> d \in Heard
  BY <1>2 DEF Heard, Connected, Tasks, Runs
<1>4. Heard \subseteq Call /\ Heard' \subseteq Call
  BY DEF Heard, Connected
<1>5. CASE c \in Heard <=> c \in Heard'
  BY <1>1, <1>3, <1>4, <1>5 DEF Promise!mediaCallsVars
<1>6. CASE c \in Heard /\ c \notin Heard'
  <2>1. Heard' = Heard \ {c}
    BY <1>3, <1>4, <1>6
  <2> QED BY <1>1, <1>6, <2>1 DEF Promise!FallSilent, Promise!Next
<1>7. CASE c \notin Heard /\ c \in Heard'
  <2>1. Heard' = Heard \cup {c}
    BY <1>3, <1>4, <1>7
  <2> QED BY <1>1, <1>7, <2>1 DEF Promise!Hear, Promise!Next
<1> QED BY <1>5, <1>6, <1>7

\* end_call takes the call out and silences it in one step, and no other.
LEMMA EndCallRefines ==
    ASSUME IInv, NEW m \in Command, EndCall(m)
    PROVE  Promise!Next
<1> DEFINE c == m.call
<1>1. c \in Call /\ calls[c] # NoPeer
  BY ReadTyped, CommandNamesCall, CallCommandTyped DEF IInv, EndCall
<1>2. calls' = [calls EXCEPT ![c] = NoPeer] /\ media' = Cancelled(calls[c])
  BY DEF EndCall
<1>3. /\ calls'[c] = NoPeer
      /\ \A d \in Call \ {c} : calls'[d] = calls[d]
  BY <1>1, <1>2 DEF IInv, TypeOK
<1>4. \A t \in Track :
         PeerOf[t] # calls[c] => (media'[t] = "run" <=> media[t] = "run")
  BY <1>2 DEF Cancelled, Tasks
<1>5. ASSUME NEW d \in Call \ {c}, calls[d] # NoPeer PROVE Runs(d)' <=> Runs(d)
  <2>1. calls[d] # calls[c]
    BY <1>5, <1>1 DEF IInv, RegisteredIsOpen
  <2> QED BY <1>3, <1>4, <2>1 DEF Runs
<1>6. Connected' = Connected \ {c} /\ c \in Connected
  BY <1>1, <1>3 DEF Connected
<1>7. Heard' = Heard \ {c}
  <2>1. c \notin Heard'
    BY <1>3 DEF Heard, Connected
  <2>2. \A d \in Call \ {c} : d \in Heard' <=> d \in Heard
    BY <1>3, <1>5 DEF Heard, Connected, Tasks, Runs
  <2>3. Heard \subseteq Call /\ Heard' \subseteq Call
    BY DEF Heard, Connected
  <2> QED BY <2>1, <2>2, <2>3
<1>8. Promise!End(c)
  BY <1>6, <1>7 DEF Promise!End
<1> QED BY <1>1, <1>8 DEF Promise!Next

\* A call is entered silent: no task of its new peer runs before it.
LEMMA OfferedRefines ==
    ASSUME IInv, Offered
    PROVE  Promise!Next
<1> DEFINE c == command.call
<1>1. /\ c \in Call /\ peer \in Peer
      /\ calls[c] = NoPeer
      /\ \A d \in Call : calls[d] # peer
      /\ calls' = [calls EXCEPT ![c] = peer]
      /\ UNCHANGED media
  BY CallCommandTyped DEF IInv, TypeOK, HandlerInv, JoinedAfresh, Offered
<1>2. /\ calls'[c] = peer
      /\ \A d \in Call \ {c} : calls'[d] = calls[d]
  BY <1>1 DEF IInv, TypeOK
<1>3. Connected' = Connected \cup {c} /\ c \notin Connected
  BY <1>1, <1>2 DEF Connected
<1>4. \A t \in Track : PeerOf[t] = peer => media[t] # "run"
  BY <1>1 DEF IInv, MediaOwned
<1>5. Heard' = Heard
  <2>1. c \notin Heard /\ c \notin Heard'
    BY <1>1, <1>2, <1>4 DEF Heard, Connected, Tasks
  <2>2. \A d \in Call \ {c} : d \in Heard' <=> d \in Heard
    BY <1>1, <1>2 DEF Heard, Connected, Tasks
  <2>3. Heard \subseteq Call /\ Heard' \subseteq Call
    BY DEF Heard, Connected
  <2> QED BY <2>1, <2>2, <2>3
<1>6. Promise!Join(c)
  BY <1>3, <1>5 DEF Promise!Join
<1> QED BY <1>1, <1>6 DEF Promise!Next

LEMMA CallsStep ==
    ASSUME IInv, [Next]_vars
    PROVE  [Promise!Next]_(Promise!mediaCallsVars)
<1>1. ASSUME UNCHANGED <<calls, media>>
      PROVE  UNCHANGED Promise!mediaCallsVars
  BY <1>1, CallsRest
<1>2. ASSUME NEW m \in Command, Ping(m) \/ Ignored(m) \/ Describe(m) \/ Backend(m)
      PROVE  UNCHANGED Promise!mediaCallsVars
  BY <1>1, <1>2 DEF Ping, Ignored, Describe, Backend, handlerVars
<1>3. ASSUME NEW p \in Peer, JoinAgain(p) \/ \E m \in Command : Join(m, p)
      PROVE  UNCHANGED Promise!mediaCallsVars
  BY <1>1, <1>3 DEF JoinAgain, Join
<1>4. ASSUME \/ Connect \/ ConnectFails \/ SleepEnds \/ LoopEnds \/ LinkLost
             \/ Shutdown \/ UNCHANGED vars
      PROVE  UNCHANGED Promise!mediaCallsVars
  BY <1>1, <1>4
     DEF Connect, ConnectFails, SleepEnds, LoopEnds, LinkLost, Shutdown, vars
<1>5. ASSUME \/ Send \/ TasksEnded \/ TasksRaise \/ Closed \/ OfferFails
             \/ RemoteRefused \/ Answered \/ AnswerFails
      PROVE  UNCHANGED Promise!mediaCallsVars
  BY <1>1, <1>5
     DEF Send, TasksEnded, TasksRaise, Closed, OfferFails, RemoteRefused,
         Answered, AnswerFails
<1>6. ASSUME RemoteSet PROVE [Promise!Next]_(Promise!mediaCallsVars)
  <2>1. /\ command.call \in Call /\ calls[command.call] = peer /\ peer \in Peer
        /\ UNCHANGED calls
    BY <1>6, CallCommandTyped DEF IInv, TypeOK, HandlerInv, RemoteSet
  <2>2. \A t \in Track :
           PeerOf[t] # peer => (media'[t] = "run" <=> media[t] = "run")
    BY <1>6, <2>1 DEF RemoteSet, OnTracks, Tasks
  <2> QED BY <2>1, <2>2, TracksOfOne
<1>7. ASSUME NEW t \in Track, TaskFails(t)
      PROVE  [Promise!Next]_(Promise!mediaCallsVars)
  <2>1. media[t] = "run" /\ UNCHANGED calls
        /\ \A u \in Track \ {t} : media'[u] = media[u]
    BY <1>7 DEF TaskFails, IInv, TypeOK
  <2>2. PICK c \in Call : calls[c] = PeerOf[t]
    BY <2>1 DEF IInv, MediaOwned
  <2>3. calls[c] # NoPeer
    BY <2>2
  <2> QED BY <2>1, <2>2, <2>3, TracksOfOne
<1>8. ASSUME NEW t \in Track, TaskEnds(t) \/ Discard(t)
      PROVE  UNCHANGED Promise!mediaCallsVars
  <2>1. \A u \in Track : media'[u] = "run" <=> media[u] = "run"
    BY <1>8 DEF TaskEnds, Discard, IInv, TypeOK
  <2> QED BY <1>8, <2>1, CallsRest DEF TaskEnds, Discard
<1> QED
  BY <1>2, <1>3, <1>4, <1>5, <1>6, <1>7, <1>8, EndCallRefines, OfferedRefines
     DEF Next, Receive, Handle, TasksRun

\* Calls are independent: joining, ending and negotiating one, whatever fails
\* on the way, leaves the others connected and heard as they were, and so do
\* the loss of the control connection and the shutdown of its task.
THEOREM MediaImplementsCalls == Spec => CallsIndependent
<1>1. Init => Promise!Init
  BY DEF Init, Promise!Init, Connected, Heard
<1>2. IInv /\ [Next]_vars => [Promise!Next]_(Promise!mediaCallsVars)
  BY CallsStep
<1> QED BY <1>1, <1>2, Invariant, PTL DEF Spec, CallsIndependent, Promise!Spec
=============================================================================
