-------------------------- MODULE TranscriptStore --------------------------
(***************************************************************************)
(* TranscriptStore (transcript_store.py): the transcripts of all calls, in *)
(* memory and in one JSON file each, under any sequence of calls, restarts *)
(* of the process, and failing writes.                                     *)
(*                                                                         *)
(* No method suspends while it holds the store's lock, so each call is one *)
(* step.  write_text first empties the file and then writes it: a process  *)
(* that is killed in between, or a disk that is full, leaves a file that   *)
(* json.loads refuses (CutFile).                                           *)
(*                                                                         *)
(* Of a turn only this is kept: who it was appended for, and which of its  *)
(* audio key and its answer are filled in.  Its index is its place:        *)
(* append_turn numbers turns by their place and nothing removes one.       *)
(***************************************************************************)
EXTENDS Naturals, Sequences, FiniteSets, SequencesExt

CONSTANTS
    Id,             \* session ids
    Path,           \* files in base_dir
    FileOf,         \* _session_path: the file of each id
    InitialFiles,   \* what may be in the files before the first start
    Field,          \* what is filled in later: "audio", "reply"
    Faults,         \* "kill": killed while it writes, "disk": a write fails
    MaxTurns,       \* bound: turns of the transcript in each file
    Limit,          \* how many sessions a listing may be asked for
    NoSession, NoFile, CutFile

Turn == [by : Id, filled : SUBSET Field]
Session == [id : Id, turns : Seq(Turn), ended : BOOLEAN]

\* A file in the format that logged requests to and responses from the LLM.
Legacy == [id : Id, ended : BOOLEAN,
           entries : Seq({"request", "response", "other"})]
-----------------------------------------------------------------------------
(***************************************************************************)
(* Reading a file.                                                         *)
(***************************************************************************)
Blank(id) == [by |-> id, filled |-> {}]
Answered(id) == [by |-> id, filled |-> {"reply"}]

\* The loop of _load_turns over the entries of a file in the old format: a
\* response answers the last request, unless another came between.
Entry(acc, entry, id) ==
    CASE entry = "request" -> [acc EXCEPT !.pending = TRUE]
      [] entry = "response" /\ acc.pending ->
            [turns |-> Append(acc.turns, Answered(id)), pending |-> FALSE]
      [] OTHER -> acc

LegacyTurns(entries, id) ==
    LET all == FoldLeft(LAMBDA acc, entry : Entry(acc, entry, id),
                        [turns |-> <<>>, pending |-> FALSE], entries)
    IN  IF all.pending THEN Append(all.turns, Blank(id)) ELSE all.turns

\* _load_session of a file that can be read.
Load(content) ==
    IF content = NoFile THEN NoSession
    ELSE IF "entries" \in DOMAIN content
    THEN [id |-> content.id, ended |-> content.ended,
          turns |-> LegacyTurns(content.entries, content.id)]
    ELSE content

ASSUME FileOfAssumption == FileOf \in [Id -> Path]
ASSUME FieldAssumption == "reply" \in Field
ASSUME MaxTurnsAssumption == MaxTurns \in [Path -> Nat]
ASSUME LimitAssumption == Limit \subseteq Nat \ {0}
ASSUME FaultsAssumption == Faults \subseteq {"kill", "disk"}
ASSUME NoSessionAssumption == NoSession \notin Session
ASSUME NoFileAssumption == NoFile \notin Session \cup Legacy
ASSUME CutFileAssumption == CutFile \notin Session \cup Legacy \cup {NoFile, NoSession}

\* Each file has been written for an id it belongs to.
ASSUME InitialFilesAssumption ==
    \A files \in InitialFiles :
        /\ files \in [Path -> Session \cup Legacy \cup {NoFile}]
        /\ \A path \in Path :
              files[path] # NoFile =>
                  LET s == Load(files[path])
                  IN  /\ s \in Session
                      /\ FileOf[s.id] = path
                      /\ \A k \in DOMAIN s.turns : FileOf[s.turns[k].by] = path
-----------------------------------------------------------------------------
VARIABLES
    memory,   \* _sessions: the session of each id, or NoSession
    file      \* the content of each file

vars == <<memory, file>>

Init ==
    /\ memory = [id \in Id |-> NoSession]
    /\ file \in InitialFiles

\* The lookup at the head of each method.  It raises, and nothing changes,
\* unless the session is in memory or its file can be read.
Accessible(id) == memory[id] # NoSession \/ file[FileOf[id]] # CutFile

Found(id) ==
    IF memory[id] # NoSession THEN memory[id] ELSE Load(file[FileOf[id]])

\* Mutant: one session is kept for whoever asks, whatever the id.
OpenedOnce(id) ==
    IF \E other \in Id : memory[other] # NoSession
    THEN memory[CHOOSE other \in Id : memory[other] # NoSession]
    ELSE [id |-> id, turns |-> <<>>, ended |-> FALSE]

\* The session of id, a new one if there is none.
Opened(id) ==
    IF Found(id) = NoSession THEN [id |-> id, turns |-> <<>>, ended |-> FALSE]
    ELSE Found(id)

\* Mutant: the cache keeps what the file holds, not the session read from it.
RememberFile(id) ==
    /\ memory' = [memory EXCEPT ![id] =
          IF @ # NoSession THEN @ ELSE file[FileOf[id]]]
    /\ UNCHANGED file

\* What has been read from a file stays in memory.
Remember(id) ==
    /\ memory' = [memory EXCEPT ![id] = Found(id)]
    /\ UNCHANGED file

\* The method keeps s as the session of id, and saves it under the id that
\* is written in it.
Persist(id, s) ==
    \/ /\ memory' = [memory EXCEPT ![id] = s]
       /\ file' = [file EXCEPT ![FileOf[s.id]] = s]
    \/ /\ "disk" \in Faults
       /\ memory' = [memory EXCEPT ![id] = s]
       /\ file' \in {file, [file EXCEPT ![FileOf[s.id]] = CutFile]}
    \/ /\ "kill" \in Faults
       /\ memory' = [other \in Id |-> NoSession]
       /\ file' = [file EXCEPT ![FileOf[s.id]] = CutFile]
-----------------------------------------------------------------------------
(***************************************************************************)
(* The methods.                                                            *)
(***************************************************************************)
\* Mutant: a call that is resumed starts with an empty transcript.
StartAfresh(id) ==
    /\ Accessible(id)
    /\ Persist(id, [id |-> id, turns |-> <<>>, ended |-> FALSE])

StartSession(id) ==
    /\ Accessible(id)
    /\ Persist(id, [Opened(id) EXCEPT !.ended = FALSE])

\* Mutant: a transcript that is not in memory is not looked for in its file.
AppendUnread(id) ==
    LET s == IF memory[id] # NoSession THEN memory[id]
             ELSE [id |-> id, turns |-> <<>>, ended |-> FALSE]
    IN  /\ Accessible(id)
        /\ Len(s.turns) < MaxTurns[FileOf[id]]
        /\ Persist(id, [s EXCEPT !.turns = Append(@, Blank(id))])

AppendTurn(id) ==
    /\ Accessible(id)
    /\ Len(Opened(id).turns) < MaxTurns[FileOf[id]]
    /\ Persist(id, [Opened(id) EXCEPT !.turns = Append(@, Blank(id))])

\* set_turn_audio_key and set_assistant_response: ValueError when the session
\* has no such turn.
Fill(id, k, field) ==
    /\ Accessible(id)
    /\ Found(id) # NoSession
    /\ IF k \in DOMAIN Found(id).turns
       THEN Persist(id, [Found(id) EXCEPT !.turns[k].filled = @ \cup {field}])
       ELSE Remember(id)

EndSession(id) ==
    /\ Accessible(id)
    /\ Found(id) # NoSession
    /\ IF Found(id).ended THEN Remember(id)
       ELSE Persist(id, [Found(id) EXCEPT !.ended = TRUE])

GetSession(id) ==
    /\ Accessible(id)
    /\ Remember(id)

\* The process stops and starts again: only the files are left.
Restart ==
    /\ memory' = [id \in Id |-> NoSession]
    /\ UNCHANGED file

Next ==
    \/ \E id \in Id :
          \/ StartSession(id)
          \/ AppendTurn(id)
          \/ \E k \in 1..MaxTurns[FileOf[id]], field \in Field : Fill(id, k, field)
          \/ EndSession(id)
          \/ GetSession(id)
    \/ Restart

Spec == Init /\ [][Next]_vars
-----------------------------------------------------------------------------
(***************************************************************************)
(* list_sessions: a row for each session in memory, and one for each file  *)
(* whose session has no row yet; of these the limit that started last.     *)
(* One file that is cut makes it raise.                                    *)
(***************************************************************************)
MemoryRows == {id \in Id : memory[id] # NoSession}

\* Mutant: every file has a row.
FileRowsAll == {path \in Path : file[path] # NoFile}

FileRows ==
    {path \in Path :
        /\ file[path] # NoFile
        /\ \A id \in MemoryRows : memory[id].id # Load(file[path]).id}

Rows ==
    {<<id, memory[id]>> : id \in MemoryRows}
    \cup {<<path, Load(file[path])>> : path \in FileRows}

\* sessions[:limit].  Start times are not kept here, so which sessions started
\* last is left open.
Listings(limit) ==
    IF Cardinality(Rows) <= limit THEN {Rows} ELSE kSubset(limit, Rows)
-----------------------------------------------------------------------------
(***************************************************************************)
(* Properties.                                                             *)
(***************************************************************************)
TypeOK ==
    /\ memory \in [Id -> Session \cup {NoSession}]
    /\ file \in [Path -> Session \cup Legacy \cup {NoFile, CutFile}]

\* Ids whose file no other id has.
Private == {id \in Id : \A other \in Id \ {id} : FileOf[other] # FileOf[id]}

\* _safe_session_id gives different ids one file; then an id may show the
\* transcript of another, and turns of both.  That goes no further: what is
\* held or saved for an id is of ids with its file only, and is saved there.
OwnFile(s, path) ==
    /\ FileOf[s.id] = path
    /\ \A k \in DOMAIN s.turns : FileOf[s.turns[k].by] = path

MixOnlyWithinFile ==
    /\ \A id \in Id : memory[id] # NoSession => OwnFile(memory[id], FileOf[id])
    /\ \A path \in Path :
          file[path] \notin {NoFile, CutFile} => OwnFile(Load(file[path]), path)

\* What get_session shows of an id.
View(id) ==
    IF Accessible(id) THEN Found(id) ELSE CutFile

\* The row of an id with a file of its own, if it has a transcript.
RowOf(id) ==
    IF View(id) = NoSession THEN {}
    ELSE {<<IF id \in MemoryRows THEN id ELSE FileOf[id], View(id)>>}

\* list_sessions and get_session agree, however the cache and the files differ
\* after failed writes and restarts: a listing shows an id with a file of its
\* own at most once, and with its transcript; and one that is shorter than its
\* limit leaves out none that has a transcript.
ListingAgrees ==
    (\A path \in Path : file[path] # CutFile) =>
        \A limit \in Limit : \A rows \in Listings(limit) : \A id \in Private :
            /\ {row \in rows : row[2].id = id} \subseteq RowOf(id)
            /\ Cardinality(rows) < limit => RowOf(id) \subseteq rows

\* Saving has failed for these ids, and has not been repeated with success.
Unsaved ==
    {id \in Private :
        /\ memory[id] # NoSession
        /\ \/ file[FileOf[id]] = CutFile
           \/ Load(file[FileOf[id]]) # memory[id]}

\* t holds every turn of s, in its place and with what was filled in.
Extends(s, t) ==
    /\ t.id = s.id
    /\ Len(s.turns) <= Len(t.turns)
    /\ \A k \in DOMAIN s.turns :
          /\ t.turns[k].by = s.turns[k].by
          /\ s.turns[k].filled \subseteq t.turns[k].filled

\* No turn is lost, whether the call is resumed, read back after a restart or
\* saved again after a failed write: not without a kill in the middle of a
\* write, or a restart before a failed write was made good.
HistoryKept ==
    [][\A id \in Private :
          /\ View(id) \notin {NoSession, CutFile}
          /\ id \in Unsaved => memory'[id] # NoSession
          => \/ View(id)' # CutFile /\ Extends(View(id), View(id)')
             \/ View(id)' = CutFile /\ "kill" \in Faults]_vars

\* For the ids with a file of their own the store keeps what Transcripts
\* promises: cache and files look like one transcript per id, which a restart
\* changes only where a write had failed.
Promise ==
    INSTANCE Transcripts WITH
        Id <- Private, Nothing <- NoSession, Lost <- CutFile,
        view <- [id \in Private |-> View(id)], unsaved <- Unsaved

KeepsPromise == Promise!Spec
-----------------------------------------------------------------------------
\* The inductive invariant of the proofs: besides, every file that exists and
\* is not cut holds a transcript.
FilesReadable ==
    \A path \in Path :
        file[path] \notin {NoFile, CutFile} => Load(file[path]) \in Session

IInv == TypeOK /\ FilesReadable /\ MixOnlyWithinFile
=============================================================================
