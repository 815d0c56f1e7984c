----------------------------- MODULE MediaCalls -----------------------------
(***************************************************************************)
(* What RealtimeMediaManager promises about the calls it has joined: they  *)
(* are independent.  A call is connected or not, its audio is consumed     *)
(* only while it is connected, and no step touches two calls.  Nothing     *)
(* else changes a call: not the loss of the control connection, not the    *)
(* shutdown of its task, not an exception in a handler.                    *)
(*                                                                         *)
(* Nothing is said here of peers, tasks, descriptions or the order of      *)
(* commands.                                                               *)
(***************************************************************************)
CONSTANT Call

VARIABLES
    connected,   \* calls that have been joined and not ended
    heard        \* calls whose audio is consumed

mediaCallsVars == <<connected, heard>>

Init == connected = {} /\ heard = {}

Join(c) ==
    /\ c \notin connected
    /\ connected' = connected \cup {c}
    /\ UNCHANGED heard

\* Its audio stops in the same step, however long ending it takes.
End(c) ==
    /\ c \in connected
    /\ connected' = connected \ {c}
    /\ heard' = heard \ {c}

Hear(c) ==
    /\ c \in connected \ heard
    /\ heard' = heard \cup {c}
    /\ UNCHANGED connected

\* The other side has ended the last of its tracks.
FallSilent(c) ==
    /\ c \in heard
    /\ heard' = heard \ {c}
    /\ UNCHANGED connected

Next == \E c \in Call : Join(c) \/ End(c) \/ Hear(c) \/ FallSilent(c)

Spec == Init /\ [][Next]_mediaCallsVars
=============================================================================
