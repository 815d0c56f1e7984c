---------------------------- MODULE Conversation ----------------------------
(***************************************************************************)
(* What one call promises about its transcript, without tasks, locks or    *)
(* network calls.                                                          *)
(*                                                                         *)
(* The user makes utterances 1, 2, 3, ...  A reply answers a run of        *)
(* consecutive utterances: all those made since the previous reply and up  *)
(* to some utterance, because an interrupted answer is dropped and the     *)
(* utterance it was for is sent again together with the next one.  When    *)
(* the call is over, its transcript no longer changes: that is what the    *)
(* backend is sent.                                                        *)
(*                                                                         *)
(* If writes may fail, a reply may stay in the transcript though the call  *)
(* does not know of it: the same utterances are then replied to again.     *)
(***************************************************************************)
EXTENDS Naturals

CONSTANT WritesMayFail

VARIABLES
    said,      \* number of utterances in the transcript
    covered,   \* the utterances 1..covered have been replied to
    replies,   \* set of [from |-> i, to |-> j]: one reply to utterances i..j
    recorded,  \* utterances whose audio has been stored
    over       \* the transcript has been closed

conversationVars == <<said, covered, replies, recorded, over>>

Init ==
    /\ said = 0
    /\ covered = 0
    /\ replies = {}
    /\ recorded = {}
    /\ over = FALSE

Say ==
    /\ ~over
    /\ said' = said + 1
    /\ UNCHANGED <<covered, replies, recorded, over>>

\* One reply to everything said since the last one, up to utterance k.
Reply(k) ==
    /\ ~over
    /\ k \in (covered + 1)..said
    /\ covered' = k
    /\ replies' = replies \cup {[from |-> covered + 1, to |-> k]}
    /\ UNCHANGED <<said, recorded, over>>

\* Its write fails: it is there, but the utterances count as not answered.
ReplyNotSaved(k) ==
    /\ WritesMayFail
    /\ ~over
    /\ k \in (covered + 1)..said
    /\ replies' = replies \cup {[from |-> covered + 1, to |-> k]}
    /\ UNCHANGED <<said, covered, recorded, over>>

Record(k) ==
    /\ ~over
    /\ k \in 1..said
    /\ recorded' = recorded \cup {k}
    /\ UNCHANGED <<said, covered, replies, over>>

HangUp ==
    /\ over' = TRUE
    /\ UNCHANGED <<said, covered, replies, recorded>>

Next ==
    \/ Say
    \/ \E k \in 1..said : Reply(k) \/ ReplyNotSaved(k) \/ Record(k)
    \/ HangUp

Spec == Init /\ [][Next]_conversationVars
-----------------------------------------------------------------------------
Contains(reply, u) == reply.from <= u /\ u <= reply.to

\* Every utterance up to the last reply is answered, and no reply answers an
\* utterance that was not made.
AtLeastOnce ==
    /\ \A u \in 1..covered : \E reply \in replies : Contains(reply, u)
    /\ \A reply \in replies : 1 <= reply.from /\ reply.to <= said

\* Besides, if writes succeed: it is answered by exactly one reply.
ExactlyOnce ==
    /\ AtLeastOnce
    /\ \A u \in 1..covered : \A p, q \in replies :
          Contains(p, u) /\ Contains(q, u) => p = q
    /\ \A reply \in replies : reply.to <= covered
-----------------------------------------------------------------------------
(***************************************************************************)
(* The same transcript as the store keeps it, for one call.                *)
(***************************************************************************)
Filled(k) ==
    {field \in {"audio", "reply"} :
        \/ field = "audio" /\ k \in recorded
        \/ field = "reply" /\ \E reply \in replies : reply.to = k}

Stored ==
    [id |-> "call",
     turns |-> [k \in 1..said |-> [by |-> "call", filled |-> Filled(k)]],
     ended |-> over]

\* A call that has not started yet is shown as one without turns.
Store ==
    INSTANCE Transcripts WITH
        Id <- {"call"}, Field <- {"audio", "reply"},
        Nothing <- [nothing |-> TRUE], Lost <- [lost |-> TRUE],
        view <- [id \in {"call"} |-> Stored], unsaved <- {}

\* Each step of a conversation is one that Transcripts allows a caller: the
\* next turn, the audio key or the answer of a turn that exists, the end.
UsesStore == Store!Spec
=============================================================================
