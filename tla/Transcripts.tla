---------------------------- MODULE Transcripts ----------------------------
(***************************************************************************)
(* What TranscriptStore promises its callers: one transcript per session   *)
(* id, that changes only as they ask, and that a restart of the process    *)
(* does not change unless saving it had failed.                            *)
(*                                                                         *)
(* Nothing is said here of a cache, of files, or of when one is read.      *)
(***************************************************************************)
EXTENDS Naturals, Sequences

CONSTANTS
    Id,        \* session ids
    Field,     \* what is filled in later in a turn
    Nothing,   \* no transcript yet
    Lost       \* a transcript that can no longer be read

VARIABLES
    view,      \* the transcript of each id
    unsaved    \* ids whose transcript is not safe: saving it has failed

transcriptsVars == <<view, unsaved>>

Blank(id) == [by |-> id, filled |-> {}]
Opened(id) == [id |-> id, turns |-> <<>>, ended |-> FALSE]

\* What a caller may make of the transcript s of id.
Change(id, s) ==
    LET t == IF s = Nothing THEN Opened(id) ELSE s
    IN  {[t EXCEPT !.ended = FALSE],
         [t EXCEPT !.turns = Append(@, Blank(id))]}
        \cup (IF s = Nothing THEN {}
              ELSE {[s EXCEPT !.ended = TRUE]}
                   \cup {[s EXCEPT !.turns[k].filled = @ \cup {field}] :
                            k \in DOMAIN s.turns, field \in Field})

Init ==
    /\ \A id \in Id : view[id] # Lost
    /\ unsaved = {}

Update(id) ==
    /\ view[id] # Lost
    /\ \E s \in Change(id, view[id]) : view' = [view EXCEPT ![id] = s]
    /\ unsaved' \in {unsaved \ {id}, unsaved \cup {id}}

\* The process is started again.  When it was killed while it saved some
\* transcript, that one is lost.
Restart(killed) ==
    /\ \A id \in Id \ (unsaved \cup killed) : view'[id] = view[id]
    /\ \A id \in killed : view'[id] = Lost
    /\ unsaved' = {}

Next ==
    \/ \E id \in Id : Update(id) \/ Restart({id})
    \/ Restart({})

Spec == Init /\ [][Next]_transcriptsVars
=============================================================================
