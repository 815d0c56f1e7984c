-------------------------- MODULE MCTranscriptStore --------------------------
(***************************************************************************)
(* Instance of TranscriptStore: two ids share a file (say "a b" and "a/b") *)
(* and one has its own, which may hold a transcript in the old format.     *)
(***************************************************************************)
EXTENDS TranscriptStore

CONSTANTS a, b, c, ab, own

MCId == {a, b, c}
MCPath == {ab, own}
MCFileOf == [id \in MCId |-> IF id = c THEN own ELSE ab]
MCField == {"reply"}
MCMaxTurns == [path \in MCPath |-> IF path = own THEN 2 ELSE 1]
MCLimit == {1, 2, 4}
MCFaults == {"kill", "disk"}

OldFile == [id |-> c, ended |-> TRUE, entries |-> <<"request", "other">>]

MCInitialFiles ==
    {[path \in MCPath |-> NoFile],
     [path \in MCPath |-> IF path = own THEN OldFile ELSE NoFile]}
-----------------------------------------------------------------------------
\* Nothing tells a from b: they have one file, and it does not exist at first.
Alike == Permutations({a, b})
-----------------------------------------------------------------------------
(***************************************************************************)
(* _load_turns on old files, against its meaning: a request makes a turn   *)
(* unless another request follows before any response, and the turn is     *)
(* answered when a response follows.                                       *)
(***************************************************************************)
Followers(entries, k) ==
    {j \in (k + 1)..Len(entries) :
        entries[j] # "other" /\ \A i \in (k + 1)..(j - 1) : entries[i] = "other"}

Counts(entries, k) ==
    entries[k] = "request"
        /\ \A j \in Followers(entries, k) : entries[j] = "response"

RECURSIVE TurnsFrom(_, _, _)
TurnsFrom(entries, id, k) ==
    IF k > Len(entries) THEN <<>>
    ELSE (IF ~Counts(entries, k) THEN <<>>
          ELSE IF Followers(entries, k) = {} THEN <<Blank(id)>>
          ELSE <<Answered(id)>>)
         \o TurnsFrom(entries, id, k + 1)

ASSUME OldFilesAreRead ==
    \A n \in 0..5 : \A entries \in [1..n -> {"request", "response", "other"}] :
        LegacyTurns(entries, c) = TurnsFrom(entries, c, 1)
=============================================================================
