----------------------- MODULE TranscriptStore_proofs -----------------------
(***************************************************************************)
(* Theorems about TranscriptStore, for all sets of ids and files, any way  *)
(* ids share files, transcripts of any length, and all faults.             *)
(***************************************************************************)
EXTENDS TranscriptStore, SequenceTheorems, TLAPS

USE FileOfAssumption, NoSessionAssumption, NoFileAssumption, CutFileAssumption
-----------------------------------------------------------------------------
(***************************************************************************)
(* Sessions, and what the methods make of them.                            *)
(***************************************************************************)
\* A saved session is read back as it was saved.
LEMMA SessionLoads ==
    ASSUME NEW s \in Session
    PROVE  /\ s.id \in Id /\ s.turns \in Seq(Turn) /\ s.ended \in BOOLEAN
           /\ s \notin {NoSession, NoFile, CutFile}
           /\ Load(s) = s
<1>1. s.id \in Id /\ s.turns \in Seq(Turn) /\ s.ended \in BOOLEAN
  BY DEF Session
<1>2. s \notin {NoSession, NoFile, CutFile}
  OBVIOUS
<1>3. "entries" \notin DOMAIN s
  BY DEF Session
<1> QED BY <1>1, <1>2, <1>3 DEF Load

LEMMA BlankTyped == ASSUME NEW id \in Id PROVE Blank(id) \in Turn /\ Blank(id).by = id
BY DEF Blank, Turn

\* A session that start_session or append_turn makes.
LEMMA NewTyped ==
    ASSUME NEW id \in Id
    PROVE  LET s == [id |-> id, turns |-> <<>>, ended |-> FALSE]
           IN  s \in Session /\ OwnFile(s, FileOf[id])
<1>1. <<>> \in Seq(Turn) /\ DOMAIN <<>> = {}
  BY EmptySeq
<1> QED BY <1>1 DEF Session, OwnFile

LEMMA EndedTyped ==
    ASSUME NEW s \in Session, NEW path \in Path, OwnFile(s, path), NEW b \in BOOLEAN
    PROVE  LET t == [s EXCEPT !.ended = b] IN t \in Session /\ OwnFile(t, path)
<1> DEFINE t == [s EXCEPT !.ended = b]
<1>1. t \in Session /\ t.id = s.id /\ t.turns = s.turns
  BY DEF Session
<1> HIDE DEF t
<1>2. OwnFile(t, path)
  BY <1>1 DEF OwnFile
<1> QED BY <1>1, <1>2 DEF t

LEMMA AppendTyped ==
    ASSUME NEW s \in Session, NEW path \in Path, OwnFile(s, path),
           NEW id \in Id, FileOf[id] = path
    PROVE  LET t == [s EXCEPT !.turns = Append(@, Blank(id))]
           IN  t \in Session /\ OwnFile(t, path)
<1> DEFINE more == Append(s.turns, Blank(id))
           t == [s EXCEPT !.turns = more]
<1>1. s.turns \in Seq(Turn) /\ Blank(id) \in Turn /\ Blank(id).by = id
  BY SessionLoads, BlankTyped
<1>2. /\ more \in Seq(Turn) /\ DOMAIN more = 1..(Len(s.turns) + 1)
      /\ \A k \in 1..Len(s.turns) : more[k] = s.turns[k]
      /\ more[Len(s.turns) + 1] = Blank(id)
      /\ Len(s.turns) \in Nat /\ DOMAIN s.turns = 1..Len(s.turns)
  BY <1>1, AppendProperties, LenProperties
<1> HIDE DEF more
<1>3. t \in Session /\ t.id = s.id /\ t.turns = more
  BY <1>2 DEF Session
<1> HIDE DEF t
<1>4. \A k \in DOMAIN more : FileOf[more[k].by] = path
  <2> SUFFICES ASSUME NEW k \in DOMAIN more PROVE FileOf[more[k].by] = path
    OBVIOUS
  <2>1. CASE k \in 1..Len(s.turns)
    BY <1>2, <2>1 DEF OwnFile
  <2>2. CASE k = Len(s.turns) + 1
    BY <1>1, <1>2, <2>2
  <2> QED BY <1>2, <2>1, <2>2
<1>5. OwnFile(t, path)
  BY <1>3, <1>4 DEF OwnFile
<1> QED BY <1>3, <1>5 DEF t, more

LEMMA FillTyped ==
    ASSUME NEW s \in Session, NEW path \in Path, OwnFile(s, path),
           NEW k \in DOMAIN s.turns, NEW field \in Field
    PROVE  LET t == [s EXCEPT !.turns[k].filled = @ \cup {field}]
           IN  t \in Session /\ OwnFile(t, path)
<1> DEFINE turn == [s.turns[k] EXCEPT !.filled = @ \cup {field}]
           more == [s.turns EXCEPT ![k] = turn]
           t == [s EXCEPT !.turns = more]
<1>1. s.turns \in Seq(Turn)
  BY SessionLoads
<1>2. s.turns[k] \in Turn /\ DOMAIN s.turns = 1..Len(s.turns) /\ Len(s.turns) \in Nat
  BY <1>1, ElementOfSeq, LenProperties
<1>3. turn \in Turn /\ turn.by = s.turns[k].by
  BY <1>2 DEF Turn
<1> HIDE DEF turn
<1>4. more \in Seq(Turn) /\ DOMAIN more = DOMAIN s.turns
  BY <1>1, <1>2, <1>3, ExceptSeq
<1>5. \A j \in DOMAIN s.turns : more[j].by = s.turns[j].by
  BY <1>1, <1>3
<1> HIDE DEF more
<1>6. t \in Session /\ t.id = s.id /\ t.turns = more
  BY <1>4 DEF Session
<1> HIDE DEF t
<1>7. OwnFile(t, path)
  BY <1>4, <1>5, <1>6 DEF OwnFile
<1>8. t = [s EXCEPT !.turns[k].filled = @ \cup {field}]
  BY DEF t, more, turn
<1> QED BY <1>6, <1>7, <1>8
-----------------------------------------------------------------------------
(***************************************************************************)
(* What the lookup finds is a session that belongs to the file of the id.  *)
(***************************************************************************)
LEMMA FoundTyped ==
    ASSUME IInv, NEW id \in Id, Accessible(id)
    PROVE  /\ Found(id) \in Session \cup {NoSession}
           /\ Found(id) # NoSession => OwnFile(Found(id), FileOf[id])
<1>1. FileOf[id] \in Path
  OBVIOUS
<1>2. CASE memory[id] # NoSession
  BY <1>2 DEF IInv, TypeOK, MixOnlyWithinFile, Found
<1>3. CASE memory[id] = NoSession /\ file[FileOf[id]] = NoFile
  BY <1>3 DEF Found, Load
<1>4. CASE memory[id] = NoSession /\ file[FileOf[id]] \notin {NoFile, CutFile}
  BY <1>1, <1>4 DEF IInv, FilesReadable, MixOnlyWithinFile, Found
<1> QED BY <1>2, <1>3, <1>4 DEF Accessible

LEMMA OpenedTyped ==
    ASSUME IInv, NEW id \in Id, Accessible(id)
    PROVE  Opened(id) \in Session /\ OwnFile(Opened(id), FileOf[id])
<1>1. CASE Found(id) = NoSession
  BY <1>1, NewTyped DEF Opened
<1>2. CASE Found(id) # NoSession
  BY <1>2, FoundTyped DEF Opened
<1> QED BY <1>1, <1>2

LEMMA RememberHolds ==
    ASSUME IInv, NEW id \in Id, Accessible(id), Remember(id)
    PROVE  IInv'
<1>1. /\ Found(id) \in Session \cup {NoSession}
      /\ Found(id) # NoSession => OwnFile(Found(id), FileOf[id])
  BY FoundTyped
<1>2. /\ memory' = [memory EXCEPT ![id] = Found(id)] /\ file' = file
  BY DEF Remember
<1>3. TypeOK'
  BY <1>1, <1>2 DEF IInv, TypeOK
<1>4. FilesReadable'
  BY <1>2 DEF IInv, FilesReadable
<1>5. MixOnlyWithinFile'
  BY <1>1, <1>2 DEF IInv, TypeOK, MixOnlyWithinFile
<1> QED BY <1>3, <1>4, <1>5 DEF IInv

LEMMA PersistHolds ==
    ASSUME IInv, NEW id \in Id, NEW s \in Session, OwnFile(s, FileOf[id]),
           Persist(id, s)
    PROVE  IInv'
<1>1. FileOf[id] \in Path /\ FileOf[s.id] = FileOf[id]
  BY DEF OwnFile
<1>2. s \notin {NoSession, NoFile, CutFile} /\ Load(s) = s
  BY SessionLoads
<1>3. /\ memory' \in {[memory EXCEPT ![id] = s], [other \in Id |-> NoSession]}
      /\ file' \in {file, [file EXCEPT ![FileOf[id]] = s], [file EXCEPT ![FileOf[id]] = CutFile]}
  BY <1>1 DEF Persist
<1>4. TypeOK'
  <2>1. memory' \in [Id -> Session \cup {NoSession}]
    BY <1>3 DEF IInv, TypeOK
  <2>2. file' \in [Path -> Session \cup Legacy \cup {NoFile, CutFile}]
    BY <1>1, <1>3 DEF IInv, TypeOK
  <2> QED BY <2>1, <2>2 DEF TypeOK
<1>5. ASSUME NEW path \in Path, file'[path] \notin {NoFile, CutFile}
      PROVE  Load(file'[path]) \in Session /\ OwnFile(Load(file'[path]), path)
  <2>1. file'[path] = file[path] \/ (path = FileOf[id] /\ file'[path] = s)
    BY <1>1, <1>3, <1>5 DEF IInv, TypeOK
  <2> QED BY <1>2, <1>5, <2>1 DEF IInv, FilesReadable, MixOnlyWithinFile
<1>6. ASSUME NEW other \in Id, memory'[other] # NoSession
      PROVE  OwnFile(memory'[other], FileOf[other])
  <2>1. memory'[other] = memory[other] \/ (other = id /\ memory'[other] = s)
    BY <1>3, <1>6 DEF IInv, TypeOK
  <2> QED BY <1>6, <2>1 DEF IInv, MixOnlyWithinFile
<1>7. FilesReadable' /\ MixOnlyWithinFile'
  BY <1>5, <1>6 DEF FilesReadable, MixOnlyWithinFile
<1> QED BY <1>4, <1>7 DEF IInv
-----------------------------------------------------------------------------
(***************************************************************************)
(* Each method preserves the invariant.  What a method saves is Changed.   *)
(***************************************************************************)
\* Filling in a turn is a change Transcripts allows.
LEMMA FillIsChange ==
    ASSUME NEW id, NEW s, s # NoSession, NEW k \in DOMAIN s.turns, NEW field \in Field
    PROVE  [s EXCEPT !.turns[k].filled = @ \cup {field}] \in Promise!Change(id, s)
<1> DEFINE filled(j, f) == [s EXCEPT !.turns[j].filled = @ \cup {f}]
           all == {filled(j, f) : j \in DOMAIN s.turns, f \in Field}
<1>1. filled(k, field) \in all
  <2> HIDE DEF filled
  <2> QED OBVIOUS
<1>2. all \subseteq Promise!Change(id, s)
  BY DEF Promise!Change
<1> HIDE DEF all
<1> QED BY <1>1, <1>2

\* A step of the store: a method saves a session, keeps one, or the process
\* is started again.
LEMMA StepKinds ==
    ASSUME IInv, NEW id \in Id,
           \/ StartSession(id) \/ AppendTurn(id) \/ EndSession(id) \/ GetSession(id)
           \/ \E k \in 1..MaxTurns[FileOf[id]], field \in Field : Fill(id, k, field)
    PROVE  /\ Accessible(id)
           /\ \/ Remember(id)
              \/ \E s \in Session :
                    /\ OwnFile(s, FileOf[id])
                    /\ s \in Promise!Change(id, Found(id))
                    /\ Persist(id, s)
<1>1. Accessible(id)
  BY DEF StartSession, AppendTurn, EndSession, GetSession, Fill
<1>f. /\ Found(id) \in Session \cup {NoSession}
      /\ Found(id) # NoSession => OwnFile(Found(id), FileOf[id])
  BY <1>1, FoundTyped
<1>o. Opened(id) \in Session /\ OwnFile(Opened(id), FileOf[id])
  BY <1>1, OpenedTyped
<1>t. Opened(id) = IF Found(id) = NoSession THEN Promise!Opened(id) ELSE Found(id)
  BY DEF Opened, Promise!Opened
<1>p. FileOf[id] \in Path
  OBVIOUS
<1>2. CASE StartSession(id)
  <2> DEFINE s == [Opened(id) EXCEPT !.ended = FALSE]
  <2>1. s \in Session /\ OwnFile(s, FileOf[id])
    BY <1>o, <1>p, EndedTyped
  <2>2. s \in Promise!Change(id, Found(id))
    BY <1>t DEF Promise!Change
  <2> QED BY <1>1, <1>2, <2>1, <2>2 DEF StartSession
<1>3. CASE AppendTurn(id)
  <2> DEFINE s == [Opened(id) EXCEPT !.turns = Append(@, Blank(id))]
  <2>1. s \in Session /\ OwnFile(s, FileOf[id])
    BY <1>o, <1>p, AppendTyped
  <2>2. s \in Promise!Change(id, Found(id))
    BY <1>t DEF Promise!Change, Blank, Promise!Blank
  <2> QED BY <1>1, <1>3, <2>1, <2>2 DEF AppendTurn
<1>4. CASE EndSession(id)
  <2>1. CASE Found(id).ended
    BY <1>1, <1>4, <2>1 DEF EndSession
  <2>2. CASE ~Found(id).ended
    <3> DEFINE s == [Found(id) EXCEPT !.ended = TRUE]
    <3>1. Found(id) # NoSession /\ Persist(id, s)
      BY <1>4, <2>2 DEF EndSession
    <3>2. s \in Session /\ OwnFile(s, FileOf[id])
      BY <1>f, <1>p, <3>1, EndedTyped
    <3>3. s \in Promise!Change(id, Found(id))
      BY <3>1 DEF Promise!Change
    <3> QED BY <1>1, <3>1, <3>2, <3>3
  <2> QED BY <2>1, <2>2
<1>5. CASE GetSession(id)
  BY <1>1, <1>5 DEF GetSession
<1>6. ASSUME NEW k \in 1..MaxTurns[FileOf[id]], NEW field \in Field, Fill(id, k, field)
      PROVE  \/ Remember(id)
             \/ \E s \in Session :
                   /\ OwnFile(s, FileOf[id])
                   /\ s \in Promise!Change(id, Found(id))
                   /\ Persist(id, s)
  <2>1. CASE k \notin DOMAIN Found(id).turns
    BY <1>6, <2>1 DEF Fill
  <2>2. CASE k \in DOMAIN Found(id).turns
    <3> DEFINE s == [Found(id) EXCEPT !.turns[k].filled = @ \cup {field}]
    <3>1. Found(id) # NoSession /\ Persist(id, s)
      BY <1>6, <2>2 DEF Fill
    <3>2. s \in Session /\ OwnFile(s, FileOf[id])
      BY <1>f, <1>p, <2>2, <3>1, FillTyped
    <3>3. s \in Promise!Change(id, Found(id))
      BY <2>2, <3>1, FillIsChange
    <3> HIDE DEF s
    <3> QED BY <3>1, <3>2, <3>3
  <2> QED BY <2>1, <2>2
<1> QED BY <1>1, <1>2, <1>3, <1>4, <1>5, <1>6

LEMMA RestartHolds == ASSUME IInv, Restart PROVE IInv'
<1>1. memory' = [id \in Id |-> NoSession] /\ file' = file
  BY DEF Restart
<1>2. TypeOK'
  BY <1>1 DEF IInv, TypeOK
<1>3. FilesReadable' /\ MixOnlyWithinFile'
  BY <1>1 DEF IInv, FilesReadable, MixOnlyWithinFile
<1> QED BY <1>2, <1>3 DEF IInv

LEMMA InitHolds == ASSUME Init PROVE IInv
<1>1. memory = [id \in Id |-> NoSession] /\ file \in InitialFiles
  BY DEF Init
<1>2. /\ file \in [Path -> Session \cup Legacy \cup {NoFile}]
      /\ \A path \in Path :
            file[path] # NoFile =>
                /\ Load(file[path]) \in Session
                /\ OwnFile(Load(file[path]), path)
  BY <1>1, InitialFilesAssumption DEF OwnFile
<1>3. TypeOK
  BY <1>1, <1>2 DEF TypeOK
<1>4. FilesReadable /\ MixOnlyWithinFile
  BY <1>1, <1>2 DEF FilesReadable, MixOnlyWithinFile
<1> QED BY <1>3, <1>4 DEF IInv

LEMMA NextHolds == ASSUME IInv, Next PROVE IInv'
<1>1. ASSUME NEW id \in Id,
             \/ StartSession(id) \/ AppendTurn(id) \/ EndSession(id) \/ GetSession(id)
             \/ \E k \in 1..MaxTurns[FileOf[id]], field \in Field : Fill(id, k, field)
      PROVE  IInv'
  BY <1>1, StepKinds, RememberHolds, PersistHolds
<1>2. CASE Restart
  BY <1>2, RestartHolds
<1> QED BY <1>1, <1>2 DEF Next

\* The invariant: whatever calls, restarts and failed writes come, what is in
\* memory and what can be read from a file are transcripts where they belong.
THEOREM Invariant == Spec => []IInv
<1>1. Init => IInv
  BY InitHolds
<1>2. IInv /\ [Next]_vars => IInv'
  <2>1. IInv /\ Next => IInv'
    BY NextHolds
  <2>2. IInv /\ UNCHANGED vars => IInv'
    BY DEF vars, IInv, TypeOK, FilesReadable, MixOnlyWithinFile
  <2> QED BY <2>1, <2>2
<1> QED BY <1>1, <1>2, PTL DEF Spec

\* Cache and files hold nothing but transcripts, or what a cut write left.
THEOREM TypeCorrect == Spec => []TypeOK
<1>1. IInv => TypeOK
  BY DEF IInv
<1> QED BY <1>1, Invariant, PTL

\* Ids whose names map to one file may mix their transcripts, and no others.
THEOREM MixingConfined == Spec => []MixOnlyWithinFile
<1>1. IInv => MixOnlyWithinFile
  BY DEF IInv
<1> QED BY <1>1, Invariant, PTL
-----------------------------------------------------------------------------
(***************************************************************************)
(* The listing.                                                            *)
(***************************************************************************)
\* No other id has the file of a private one.
LEMMA PrivateFile ==
    ASSUME NEW p \in Private, NEW id \in Id, FileOf[id] = FileOf[p]
    PROVE  id = p
BY DEF Private

LEMMA RowsAreViews ==
    ASSUME IInv, \A path \in Path : file[path] # CutFile, NEW p \in Private
    PROVE  {row \in Rows : row[2].id = p} = RowOf(p)
<1> USE DEF RowOf
<1>p. p \in Id /\ FileOf[p] \in Path
  BY DEF Private
<1>v. View(p) = Found(p) /\ Accessible(p)
  BY <1>p DEF View, Accessible
<1>m. ASSUME NEW id \in MemoryRows
      PROVE  /\ id \in Id /\ memory[id] \in Session
             /\ memory[id].id \in Id /\ FileOf[memory[id].id] = FileOf[id]
             /\ memory[id].id = p <=> id = p
  <2>1. id \in Id /\ memory[id] \in Session /\ OwnFile(memory[id], FileOf[id])
    BY DEF MemoryRows, IInv, TypeOK, MixOnlyWithinFile
  <2>2. memory[id].id \in Id /\ FileOf[memory[id].id] = FileOf[id]
    BY <2>1, SessionLoads DEF OwnFile
  <2>3. memory[id].id = p => id = p
    BY <2>1, <2>2, PrivateFile
  <2>4. id = p => memory[id].id = p
    BY <2>1, <2>2, PrivateFile
  <2> QED BY <2>1, <2>2, <2>3, <2>4
<1>f. ASSUME NEW path \in Path, file[path] # NoFile
      PROVE  /\ Load(file[path]).id \in Id
             /\ Load(file[path]).id = p <=> path = FileOf[p]
  <2>1. Load(file[path]) \in Session /\ OwnFile(Load(file[path]), path)
    BY <1>f DEF IInv, FilesReadable, MixOnlyWithinFile
  <2>2. Load(file[path]).id \in Id /\ FileOf[Load(file[path]).id] = path
    BY <2>1, SessionLoads DEF OwnFile
  <2>3. path = FileOf[p] => Load(file[path]).id = p
    BY <2>2, PrivateFile
  <2> QED BY <2>2, <2>3
<1>r. /\ \A id \in MemoryRows : <<id, memory[id]>>[2].id = memory[id].id
      /\ \A path \in FileRows : <<path, Load(file[path])>>[2].id = Load(file[path]).id
  OBVIOUS
<1>1. {row \in Rows : row[2].id = p} =
        {<<id, memory[id]>> : id \in {i \in MemoryRows : i = p}}
        \cup {<<path, Load(file[path])>> : path \in {f \in FileRows : f = FileOf[p]}}
  <2>1. \A id \in MemoryRows : <<id, memory[id]>>[2].id = p <=> id = p
    BY <1>m, <1>r
  <2>2. \A path \in FileRows : <<path, Load(file[path])>>[2].id = p <=> path = FileOf[p]
    <3> SUFFICES ASSUME NEW path \in FileRows
                 PROVE  Load(file[path]).id = p <=> path = FileOf[p]
      BY <1>r
    <3> QED BY <1>f DEF FileRows
  <2> QED BY <2>1, <2>2 DEF Rows
<1>2. CASE p \in MemoryRows
  <2>1. FileOf[p] \notin FileRows
    BY <1>p, <1>f, <1>m, <1>2 DEF FileRows
  <2>2. Found(p) = memory[p] /\ Found(p) # NoSession
    BY <1>2 DEF Found, MemoryRows
  <2> QED BY <1>1, <1>2, <1>v, <2>1, <2>2
<1>3. CASE p \notin MemoryRows
  <2>1. Found(p) = Load(file[FileOf[p]])
    BY <1>p, <1>3 DEF Found, MemoryRows
  <2>2. CASE file[FileOf[p]] = NoFile
    BY <1>1, <1>3, <1>v, <2>1, <2>2 DEF FileRows, Load
  <2>3. CASE file[FileOf[p]] # NoFile
    <3>1. FileOf[p] \in FileRows
      BY <1>p, <1>m, <1>f, <1>3, <2>3 DEF FileRows
    <3>2. Load(file[FileOf[p]]) # NoSession
      BY <1>p, <2>3 DEF IInv, FilesReadable
    <3> QED BY <1>1, <1>3, <1>v, <2>1, <3>1, <3>2
  <2> QED BY <2>2, <2>3
<1> QED BY <1>2, <1>3

\* A listing takes its rows from these, and only one that is full leaves any
\* out.
LEMMA ListingRows ==
    ASSUME NEW limit \in Limit, NEW rows \in Listings(limit)
    PROVE  rows \subseteq Rows /\ (Cardinality(rows) < limit => rows = Rows)
<1>1. limit \in Nat
  BY LimitAssumption
<1>2. \/ rows = Rows
      \/ rows \subseteq Rows /\ Cardinality(rows) = limit
  BY DEF Listings, kSubset
<1> QED BY <1>1, <1>2

LEMMA InvListing == ASSUME IInv PROVE ListingAgrees
<1> SUFFICES ASSUME \A path \in Path : file[path] # CutFile,
                    NEW limit \in Limit, NEW rows \in Listings(limit),
                    NEW p \in Private
             PROVE  /\ {row \in rows : row[2].id = p} \subseteq RowOf(p)
                    /\ Cardinality(rows) < limit => RowOf(p) \subseteq rows
  BY DEF ListingAgrees
<1>1. {row \in Rows : row[2].id = p} = RowOf(p)
  BY RowsAreViews
<1>2. rows \subseteq Rows /\ (Cardinality(rows) < limit => rows = Rows)
  BY ListingRows
<1> QED BY <1>1, <1>2

\* Every listing shows a transcript with a file of its own at most once and as
\* get_session shows it, and leaves it out only for want of room.
THEOREM ListingIsTrue == Spec => []ListingAgrees
BY InvListing, Invariant, PTL
-----------------------------------------------------------------------------
(***************************************************************************)
(* The store implements Transcripts.                                       *)
(***************************************************************************)
LEMMA InitRefines == ASSUME Init PROVE Promise!Init
<1>1. ASSUME NEW p \in Private PROVE View(p) # CutFile /\ p \notin Unsaved
  <2>1. p \in Id /\ FileOf[p] \in Path /\ memory[p] = NoSession
    BY DEF Private, Init
  <2>2. file[FileOf[p]] # CutFile
    BY <2>1, InitialFilesAssumption DEF Init
  <2>3. IInv
    BY InitHolds
  <2>4. Accessible(p) /\ Found(p) \in Session \cup {NoSession}
    BY <2>1, <2>2, <2>3, FoundTyped DEF Accessible
  <2> QED BY <2>1, <2>4 DEF View, Unsaved
<1>2. Unsaved = {}
  BY <1>1 DEF Unsaved
<1> QED BY <1>1, <1>2 DEF Promise!Init

\* Reading changes neither what an id shows nor whether it is saved.
LEMMA RememberRefines ==
    ASSUME IInv, NEW id \in Id, Accessible(id), Remember(id)
    PROVE  UNCHANGED Promise!transcriptsVars
<1>1. /\ memory' = [memory EXCEPT ![id] = Found(id)] /\ file' = file
      /\ memory \in [Id -> Session \cup {NoSession}]
  BY DEF Remember, IInv, TypeOK
<1>2. ASSUME NEW p \in Private
      PROVE  View(p)' = View(p) /\ (p \in Unsaved' <=> p \in Unsaved)
  <2>1. p \in Id
    BY DEF Private
  <2>2. CASE p # id
    <3>1. memory'[p] = memory[p]
      BY <1>1, <2>1, <2>2
    <3> QED BY <1>1, <3>1 DEF View, Accessible, Found, Unsaved
  <2>3. CASE p = id /\ memory[p] # NoSession
    <3>1. memory'[p] = memory[p]
      BY <1>1, <2>1, <2>3 DEF Found
    <3> QED BY <1>1, <3>1 DEF View, Accessible, Found, Unsaved
  <2>4. CASE p = id /\ memory[p] = NoSession
    <3>1. memory'[p] = Load(file[FileOf[p]]) /\ file[FileOf[p]] # CutFile
      BY <1>1, <2>1, <2>4 DEF Found, Accessible
    <3> QED BY <1>1, <2>4, <3>1 DEF View, Accessible, Found, Unsaved
  <2> QED BY <2>2, <2>3, <2>4
<1>3. Unsaved' = Unsaved
  BY <1>2 DEF Unsaved
<1>4. [p \in Private |-> View(p)]' = [p \in Private |-> View(p)]
  BY <1>2
<1> QED BY <1>3, <1>4 DEF Promise!transcriptsVars

\* A start of the process with some file of its own cut, or none.
LEMMA RestartRefines ==
    ASSUME IInv, NEW killed \in SUBSET Private,
           memory' = [other \in Id |-> NoSession],
           \A p \in Private \ killed : file'[FileOf[p]] = file[FileOf[p]],
           \A p \in killed : file'[FileOf[p]] = CutFile
    PROVE  Promise!Restart(killed)
<1>1. \A p \in Private : p \in Id /\ memory'[p] = NoSession
  BY DEF Private
<1>2. ASSUME NEW p \in Private \ (Unsaved \cup killed) PROVE View(p)' = View(p)
  <2>1. file'[FileOf[p]] = file[FileOf[p]] /\ memory'[p] = NoSession
    BY <1>1
  <2>2. CASE memory[p] = NoSession
    BY <2>1, <2>2 DEF View, Accessible, Found
  <2>3. CASE memory[p] # NoSession
    <3>1. file[FileOf[p]] # CutFile /\ Load(file[FileOf[p]]) = memory[p]
      BY <2>3 DEF Unsaved
    <3> QED BY <2>1, <2>3, <3>1 DEF View, Accessible, Found
  <2> QED BY <2>2, <2>3
<1>3. ASSUME NEW p \in killed PROVE View(p)' = CutFile
  BY <1>1 DEF View, Accessible
<1>4. Unsaved' = {}
  BY <1>1 DEF Unsaved
<1> QED BY <1>2, <1>3, <1>4 DEF Promise!Restart

LEMMA PersistRefines ==
    ASSUME IInv, NEW id \in Id, Accessible(id), NEW s \in Session,
           OwnFile(s, FileOf[id]), s \in Promise!Change(id, Found(id)),
           Persist(id, s)
    PROVE  [Promise!Next]_(Promise!transcriptsVars)
<1>1. FileOf[id] \in Path /\ FileOf[s.id] = FileOf[id]
  BY DEF OwnFile
<1>t. /\ memory \in [Id -> Session \cup {NoSession}]
      /\ file \in [Path -> Session \cup Legacy \cup {NoFile, CutFile}]
  BY DEF IInv, TypeOK
<1>o. ASSUME NEW p \in Private, p # id
      PROVE  p \in Id /\ FileOf[p] \in Path /\ FileOf[p] # FileOf[id]
  BY <1>o, PrivateFile DEF Private
<1>2. CASE memory' = [memory EXCEPT ![id] = s]
  <2>1. file' \in {file, [file EXCEPT ![FileOf[id]] = s], [file EXCEPT ![FileOf[id]] = CutFile]}
    BY <1>1 DEF Persist
  <2>2. ASSUME NEW p \in Private, p # id
        PROVE  View(p)' = View(p) /\ (p \in Unsaved' <=> p \in Unsaved)
    <3>1. memory'[p] = memory[p] /\ file'[FileOf[p]] = file[FileOf[p]]
      BY <1>2, <1>o, <1>t, <2>1, <2>2
    <3> QED BY <3>1 DEF View, Accessible, Found, Unsaved
  <2>3. CASE id \notin Private
    <3>1. Unsaved' = Unsaved
      BY <2>2, <2>3 DEF Unsaved
    <3>2. [p \in Private |-> View(p)]' = [p \in Private |-> View(p)]
      BY <2>2, <2>3
    <3> QED BY <3>1, <3>2 DEF Promise!transcriptsVars
  <2>4. CASE id \in Private
    <3>1. View(id)' = s
      BY <1>2, <1>t, SessionLoads DEF View, Accessible, Found
    <3>2. View(id) = Found(id) /\ View(id) # CutFile
      BY FoundTyped DEF View
    <3>3. [p \in Private |-> View(p)]' = [[p \in Private |-> View(p)] EXCEPT ![id] = s]
      BY <2>2, <2>4, <3>1
    <3>4. Unsaved' \in {Unsaved \ {id}, Unsaved \cup {id}}
      BY <2>2, <2>4 DEF Unsaved
    <3>5. Promise!Update(id)
      BY <2>4, <3>2, <3>3, <3>4 DEF Promise!Update
    <3> QED BY <2>4, <3>5 DEF Promise!Next
  <2> QED BY <2>3, <2>4
<1>3. CASE memory' # [memory EXCEPT ![id] = s]
  <2>1. /\ memory' = [other \in Id |-> NoSession]
        /\ file' = [file EXCEPT ![FileOf[id]] = CutFile]
    BY <1>1, <1>3 DEF Persist
  <2>2. CASE id \in Private
    <3>1. /\ \A p \in Private \ {id} : file'[FileOf[p]] = file[FileOf[p]]
          /\ \A p \in {id} : file'[FileOf[p]] = CutFile
      BY <1>1, <1>o, <1>t, <2>1
    <3>2. Promise!Restart({id})
      BY <2>1, <2>2, <3>1, RestartRefines
    <3> QED BY <2>2, <3>2 DEF Promise!Next
  <2>3. CASE id \notin Private
    <3>1. \A p \in Private \ {} : file'[FileOf[p]] = file[FileOf[p]]
      BY <1>1, <1>o, <1>t, <2>1, <2>3
    <3>2. Promise!Restart({})
      BY <2>1, <3>1, RestartRefines
    <3> QED BY <3>2 DEF Promise!Next
  <2> QED BY <2>2, <2>3
<1> QED BY <1>2, <1>3

LEMMA NextRefines ==
    ASSUME IInv, [Next]_vars
    PROVE  [Promise!Next]_(Promise!transcriptsVars)
<1>1. ASSUME NEW id \in Id,
             \/ StartSession(id) \/ AppendTurn(id) \/ EndSession(id) \/ GetSession(id)
             \/ \E k \in 1..MaxTurns[FileOf[id]], field \in Field : Fill(id, k, field)
      PROVE  [Promise!Next]_(Promise!transcriptsVars)
  BY <1>1, StepKinds, RememberRefines, PersistRefines
<1>2. CASE Restart
  <2>1. memory' = [other \in Id |-> NoSession] /\ file' = file
    BY <1>2 DEF Restart
  <2>2. Promise!Restart({})
    BY <2>1, RestartRefines
  <2> QED BY <2>2 DEF Promise!Next
<1>3. CASE UNCHANGED vars
  BY <1>3 DEF vars, Promise!transcriptsVars, View, Accessible, Found, Unsaved
<1> QED BY <1>1, <1>2, <1>3 DEF Next

\* For the ids with a file of their own, cache and files together are one
\* transcript per id that changes only as the callers ask, survives restarts,
\* and is lost only to a kill in the middle of its own write.
THEOREM StoreImplementsTranscripts == Spec => KeepsPromise
<1>1. Init => Promise!Init
  BY InitRefines
<1>2. IInv /\ [Next]_vars => [Promise!Next]_(Promise!transcriptsVars)
  BY NextRefines
<1> QED BY <1>1, <1>2, Invariant, PTL DEF Spec, KeepsPromise, Promise!Spec
-----------------------------------------------------------------------------
(***************************************************************************)
(* No turn is lost.                                                        *)
(***************************************************************************)
\* What a method may make of a transcript holds all of it.
LEMMA ChangeExtends ==
    ASSUME NEW id \in Id, NEW s \in Session, NEW t \in Promise!Change(id, s)
    PROVE  Extends(s, t)
<1>1. s.turns \in Seq(Turn) /\ s # NoSession
  BY SessionLoads
<1>2. Len(s.turns) \in Nat /\ DOMAIN s.turns = 1..Len(s.turns)
  BY <1>1, LenProperties
<1>3. ASSUME NEW b \in BOOLEAN, t = [s EXCEPT !.ended = b]
      PROVE  Extends(s, t)
  <2>1. t.id = s.id /\ t.turns = s.turns
    BY <1>3 DEF Session
  <2> QED BY <1>2, <2>1 DEF Extends
<1>4. ASSUME t = [s EXCEPT !.turns = Append(@, Promise!Blank(id))]
      PROVE  Extends(s, t)
  <2> DEFINE more == Append(s.turns, Blank(id))
  <2>1. /\ Len(more) = Len(s.turns) + 1
        /\ \A k \in 1..Len(s.turns) : more[k] = s.turns[k]
    BY <1>1, BlankTyped, AppendProperties
  <2> HIDE DEF more
  <2>2. t.id = s.id /\ t.turns = more
    BY <1>4 DEF Session, more, Blank, Promise!Blank
  <2> QED BY <1>2, <2>1, <2>2 DEF Extends
<1>5. ASSUME NEW k \in DOMAIN s.turns, NEW field \in Field,
             t = [s EXCEPT !.turns[k].filled = @ \cup {field}]
      PROVE  Extends(s, t)
  <2> DEFINE turn == [s.turns[k] EXCEPT !.filled = @ \cup {field}]
             more == [s.turns EXCEPT ![k] = turn]
  <2>1. s.turns[k] \in Turn
    BY <1>1, <1>2, ElementOfSeq
  <2>2. turn.by = s.turns[k].by /\ s.turns[k].filled \subseteq turn.filled
    BY <2>1 DEF Turn
  <2>3. t.id = s.id /\ t.turns = more
    BY <1>5 DEF Session
  <2> HIDE DEF turn
  <2>4. more \in Seq(Turn) /\ Len(more) = Len(s.turns)
    <3>1. turn \in Turn
      BY <2>1 DEF turn, Turn
    <3> QED BY <1>1, <1>2, <3>1, ExceptSeq
  <2>5. \A j \in DOMAIN s.turns :
           more[j].by = s.turns[j].by /\ s.turns[j].filled \subseteq more[j].filled
    BY <1>1, <2>2
  <2> HIDE DEF more
  <2> QED BY <1>2, <2>3, <2>4, <2>5 DEF Extends
<1>6. \/ t = [s EXCEPT !.ended = FALSE]
      \/ t = [s EXCEPT !.ended = TRUE]
      \/ t = [s EXCEPT !.turns = Append(@, Promise!Blank(id))]
      \/ \E k \in DOMAIN s.turns, field \in Field :
            t = [s EXCEPT !.turns[k].filled = @ \cup {field}]
  BY <1>1 DEF Promise!Change
<1> QED BY <1>3, <1>4, <1>5, <1>6

LEMMA ExtendsItself == ASSUME NEW s \in Session PROVE Extends(s, s)
<1>1. Len(s.turns) \in Nat
  BY SessionLoads, LenProperties
<1> QED BY <1>1 DEF Extends

\* One step, as HistoryKept sees it.
Keeps(p) ==
    \/ View(p)' # CutFile /\ Extends(View(p), View(p)')
    \/ View(p)' = CutFile /\ "kill" \in Faults

LEMMA KeptStep ==
    ASSUME IInv, [Next]_vars, NEW p \in Private,
           View(p) \notin {NoSession, CutFile},
           p \in Unsaved => memory'[p] # NoSession
    PROVE  Keeps(p)
<1>1. /\ p \in Id /\ FileOf[p] \in Path
      /\ Accessible(p) /\ View(p) = Found(p) /\ View(p) \in Session
      /\ memory \in [Id -> Session \cup {NoSession}]
      /\ file \in [Path -> Session \cup Legacy \cup {NoFile, CutFile}]
  BY FoundTyped DEF Private, View, IInv, TypeOK
<1>2. ASSUME View(p)' = View(p) PROVE Keeps(p)
  <2>1. Extends(View(p), View(p))
    BY <1>1, ExtendsItself
  <2> QED BY <1>1, <1>2, <2>1 DEF Keeps
<1>3. ASSUME memory'[p] = NoSession, file'[FileOf[p]] = file[FileOf[p]]
      PROVE  Keeps(p)
  <2>1. p \notin Unsaved
    BY <1>3
  <2>2. View(p)' = View(p)
    <3>1. CASE memory[p] = NoSession
      BY <1>3, <3>1 DEF View, Accessible, Found
    <3>2. CASE memory[p] # NoSession
      <4>1. file[FileOf[p]] # CutFile /\ Load(file[FileOf[p]]) = memory[p]
        BY <2>1, <3>2 DEF Unsaved
      <4> QED BY <1>3, <3>2, <4>1 DEF View, Accessible, Found
    <3> QED BY <3>1, <3>2
  <2> QED BY <1>2, <2>2
<1>4. ASSUME NEW id \in Id, NEW s \in Session, Accessible(id),
             OwnFile(s, FileOf[id]), s \in Promise!Change(id, Found(id)),
             Persist(id, s)
      PROVE  Keeps(p)
  <2>1. FileOf[s.id] = FileOf[id] /\ (p # id => FileOf[p] # FileOf[id])
    <3>1. FileOf[s.id] = FileOf[id]
      BY <1>4 DEF OwnFile
    <3>2. p # id => FileOf[p] # FileOf[id]
      BY DEF Private
    <3> QED BY <3>1, <3>2
  <2>2. CASE memory' = [memory EXCEPT ![id] = s] /\ id = p
    <3>1. View(p)' = s /\ s # CutFile
      BY <1>1, <2>2, SessionLoads DEF View, Accessible, Found
    <3>2. Extends(View(p), s)
      BY <1>1, <1>4, <2>2, ChangeExtends
    <3> QED BY <3>1, <3>2 DEF Keeps
  <2>3. CASE memory' = [memory EXCEPT ![id] = s] /\ id # p
    <3>1. memory'[p] = memory[p] /\ file'[FileOf[p]] = file[FileOf[p]]
      BY <1>1, <1>4, <2>1, <2>3 DEF Persist
    <3>2. View(p)' = View(p)
      BY <3>1 DEF View, Accessible, Found
    <3> QED BY <1>2, <3>2
  <2>4. CASE memory' # [memory EXCEPT ![id] = s]
    <3>1. /\ "kill" \in Faults
          /\ memory' = [other \in Id |-> NoSession]
          /\ file' = [file EXCEPT ![FileOf[id]] = CutFile]
      BY <1>4, <2>1, <2>4 DEF Persist
    <3>2. CASE id = p
      <4>1. View(p)' = CutFile
        BY <1>1, <3>1, <3>2 DEF View, Accessible
      <4> QED BY <3>1, <4>1 DEF Keeps
    <3>3. CASE id # p
      <4>1. memory'[p] = NoSession /\ file'[FileOf[p]] = file[FileOf[p]]
        BY <1>1, <2>1, <3>1, <3>3
      <4> QED BY <1>3, <4>1
    <3> QED BY <3>2, <3>3
  <2> QED BY <2>2, <2>3, <2>4
<1>5. ASSUME NEW id \in Id, Accessible(id), Remember(id) PROVE Keeps(p)
  <2>1. View(p)' = View(p)
    BY <1>5, RememberRefines DEF Promise!transcriptsVars
  <2> QED BY <1>2, <2>1
<1>6. ASSUME NEW id \in Id,
             \/ StartSession(id) \/ AppendTurn(id) \/ EndSession(id) \/ GetSession(id)
             \/ \E k \in 1..MaxTurns[FileOf[id]], field \in Field : Fill(id, k, field)
      PROVE  Keeps(p)
  BY <1>4, <1>5, <1>6, StepKinds
<1>7. CASE Restart
  BY <1>1, <1>3, <1>7 DEF Restart
<1>8. CASE UNCHANGED vars
  <2>1. View(p)' = View(p)
    BY <1>8 DEF vars, View, Accessible, Found
  <2> QED BY <1>2, <2>1
<1> QED BY <1>6, <1>7, <1>8 DEF Next

\* A transcript with a file of its own never loses a turn or what was filled
\* in of one, unless the process is killed in the middle of a write of it or
\* starts again before a failed write was made good.
THEOREM NoTurnLost == Spec => HistoryKept
<1> DEFINE Step ==
      \A id \in Private :
          /\ View(id) \notin {NoSession, CutFile}
          /\ id \in Unsaved => memory'[id] # NoSession
          => \/ View(id)' # CutFile /\ Extends(View(id), View(id)')
             \/ View(id)' = CutFile /\ "kill" \in Faults
<1>1. IInv /\ [Next]_vars => [Step]_vars
  BY KeptStep DEF Keeps
<1>2. []IInv /\ [][Next]_vars => [][Step]_vars
  BY <1>1, PTL
<1> QED BY <1>2, Invariant, PTL DEF Spec, HistoryKept
=============================================================================
