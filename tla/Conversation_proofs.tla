------------------------- MODULE Conversation_proofs -------------------------
(***************************************************************************)
(* Whatever is said, interrupted and answered in whatever order, a         *)
(* transcript that Conversation allows answers each utterance up to the    *)
(* last answered one, and if writes succeed it does so exactly once.       *)
(***************************************************************************)
EXTENDS Conversation, SequenceTheorems, TLAPS

ConversationType ==
    /\ said \in Nat /\ covered \in Nat
    /\ replies \subseteq [from : Nat, to : Nat]

ConversationInv ==
    /\ ConversationType
    /\ AtLeastOnce
    /\ ~WritesMayFail => ExactlyOnce

LEMMA ConversationStep ==
    ConversationInv /\ [Next]_conversationVars => ConversationInv'
<1>. SUFFICES ASSUME ConversationType, AtLeastOnce,
                     ~WritesMayFail => ExactlyOnce, [Next]_conversationVars
              PROVE  ConversationInv'
  BY DEF ConversationInv
<1>1. ASSUME UNCHANGED <<covered, replies>>, said' \in Nat, said' >= said
      PROVE  ConversationInv'
  BY <1>1 DEF ConversationInv, ConversationType, AtLeastOnce, ExactlyOnce,
     Contains
<1>2. CASE Say
  BY <1>1, <1>2 DEF Say, ConversationType
<1>3. ASSUME NEW k \in 1..said, Reply(k) PROVE ConversationInv'
  <2>. DEFINE new == [from |-> covered + 1, to |-> k]
  <2>1. /\ k \in Nat /\ covered < k /\ covered' = k /\ k <= said
        /\ replies' = replies \cup {new} /\ UNCHANGED said
        /\ covered \in Nat /\ said \in Nat
    BY <1>3 DEF Reply, ConversationType
  <2>2. ConversationType'
    BY <2>1 DEF ConversationType
  <2>3. \A u \in 1..covered' : Contains(new, u) <=> covered < u
    BY <2>1 DEF Contains
  <2>4. AtLeastOnce'
    <3>1. ASSUME NEW u \in 1..covered'
          PROVE  \E reply \in replies' : Contains(reply, u)
      <4>1. CASE u \in 1..covered
        BY <2>1, <4>1 DEF AtLeastOnce
      <4>2. CASE covered < u
        BY <2>1, <2>3, <4>2
      <4>. QED  BY <2>1, <4>1, <4>2
    <3>2. \A u \in 1..covered' :
             \E reply \in replies' : Contains(reply, u)'
      BY <3>1 DEF Contains
    <3>3. \A reply \in replies' : 1 <= reply.from /\ reply.to <= said'
      BY <2>1 DEF AtLeastOnce, ConversationType
    <3>. QED  BY <3>2, <3>3 DEF AtLeastOnce
  <2>5. ASSUME ExactlyOnce PROVE ExactlyOnce'
    <3>1. \A u \in 1..covered' : \A reply \in replies :
             Contains(reply, u) => u \in 1..covered
      BY <2>1, <2>5 DEF ExactlyOnce, Contains, ConversationType
    <3>2. ASSUME NEW u \in 1..covered', NEW p \in replies',
                 NEW q \in replies', Contains(p, u), Contains(q, u)
          PROVE  p = q
      <4>1. CASE u \in 1..covered
        <5>1. p \in replies /\ q \in replies
          BY <2>1, <2>3, <3>2, <4>1
        <5>. QED  BY <2>5, <3>2, <4>1, <5>1 DEF ExactlyOnce
      <4>2. CASE covered < u
        <5>1. u \notin 1..covered
          BY <2>1, <4>2
        <5>. QED  BY <2>1, <3>1, <3>2, <5>1
      <4>. QED  BY <2>1, <4>1, <4>2
    <3>3. \A reply \in replies' : reply.to <= covered'
      BY <2>1, <2>5 DEF ExactlyOnce, ConversationType
    <3>4. \A u \in 1..covered' : \A p, q \in replies' :
             (Contains(p, u) /\ Contains(q, u))' => p = q
      BY <3>2 DEF Contains
    <3>. QED  BY <2>4, <3>3, <3>4 DEF ExactlyOnce
  <2>. QED  BY <2>2, <2>4, <2>5 DEF ConversationInv
<1>7. ASSUME NEW k \in 1..said, ReplyNotSaved(k) PROVE ConversationInv'
  <2>1. /\ WritesMayFail
        /\ k \in Nat /\ k <= said /\ UNCHANGED <<said, covered>>
        /\ replies' = replies \cup {[from |-> covered + 1, to |-> k]}
        /\ covered \in Nat
    BY <1>7 DEF ReplyNotSaved, ConversationType
  <2>2. ConversationType'
    BY <2>1 DEF ConversationType
  <2>3. \A u \in 1..covered' : \E reply \in replies' : Contains(reply, u)'
    BY <2>1 DEF AtLeastOnce, Contains
  <2>4. \A reply \in replies' : 1 <= reply.from /\ reply.to <= said'
    BY <2>1 DEF AtLeastOnce
  <2>. QED  BY <2>1, <2>2, <2>3, <2>4 DEF ConversationInv, AtLeastOnce
<1>4. ASSUME NEW k \in 1..said, Record(k) PROVE ConversationInv'
  BY <1>1, <1>4 DEF Record, ConversationType
<1>5. CASE HangUp
  BY <1>1, <1>5 DEF HangUp, ConversationType
<1>6. CASE UNCHANGED conversationVars
  BY <1>1, <1>6 DEF conversationVars, ConversationType
<1>. QED  BY <1>2, <1>3, <1>4, <1>5, <1>6, <1>7 DEF Next

LEMMA ConversationInit == Init => ConversationInv
BY DEF Init, ConversationInv, ConversationType, AtLeastOnce, ExactlyOnce

\* In every transcript that Conversation allows, whatever writes fail, each
\* utterance up to the last answer has a reply, and no reply is to an utterance
\* that nobody made.
THEOREM RepliesAtLeastOnce == Spec => []AtLeastOnce
<1>1. ConversationInv => AtLeastOnce
  BY DEF ConversationInv
<1>. QED  BY <1>1, ConversationInit, ConversationStep, PTL DEF Spec

\* If writes succeed, each utterance up to the last answer is answered by
\* exactly one reply.
THEOREM RepliesExactlyOnce == ~WritesMayFail => (Spec => []ExactlyOnce)
<1>. SUFFICES ASSUME ~WritesMayFail PROVE Spec => []ExactlyOnce
  OBVIOUS
<1>1. ConversationInv => ExactlyOnce
  BY DEF ConversationInv
<1>. QED  BY <1>1, ConversationInit, ConversationStep, PTL DEF Spec
-----------------------------------------------------------------------------
(***************************************************************************)
(* A conversation only asks of the store what Transcripts allows.          *)
(***************************************************************************)
\* Only turns that exist are filled in.
FilledInv ==
    /\ said \in Nat /\ covered \in 0..said
    /\ recorded \subseteq 1..said
    /\ \A reply \in replies : reply.to \in 1..said
    /\ over \in BOOLEAN

LEMMA FilledStep == FilledInv /\ [Next]_conversationVars => FilledInv'
<1> SUFFICES ASSUME FilledInv, [Next]_conversationVars PROVE FilledInv'
  OBVIOUS
<1> USE DEF FilledInv
<1>1. CASE Say
  BY <1>1 DEF Say
<1>2. ASSUME NEW k \in 1..said, Reply(k) \/ ReplyNotSaved(k)
      PROVE  FilledInv'
  <2>1. /\ UNCHANGED <<said, recorded, over>>
        /\ covered' \in {covered, k}
        /\ replies' = replies \cup {[from |-> covered + 1, to |-> k]}
    BY <1>2 DEF Reply, ReplyNotSaved
  <2>2. \A reply \in replies' : reply.to \in 1..said
    BY <2>1
  <2>3. covered' \in 0..said
    BY <2>1
  <2>. QED  BY <2>1, <2>2, <2>3
<1>3. ASSUME NEW k \in 1..said, Record(k) PROVE FilledInv'
  BY <1>3 DEF Record
<1>4. CASE HangUp \/ UNCHANGED conversationVars
  BY <1>4 DEF HangUp, conversationVars
<1> QED BY <1>1, <1>2, <1>3, <1>4 DEF Next

Turns == [k \in 1..said |-> [by |-> "call", filled |-> Filled(k)]]

LEMMA StoredParts ==
    /\ Stored = [id |-> "call", turns |-> Turns, ended |-> over]
    /\ Stored' = [id |-> "call", turns |-> Turns', ended |-> over']
BY DEF Stored, Turns

\* A transcript with one part replaced.
LEMMA Replaced ==
    ASSUME NEW i, NEW t, NEW b, NEW x,
           NEW s, s = [id |-> i, turns |-> t, ended |-> b]
    PROVE  /\ [s EXCEPT !.turns = x] = [id |-> i, turns |-> x, ended |-> b]
           /\ [s EXCEPT !.ended = x] = [id |-> i, turns |-> t, ended |-> x]
BY SMT

\* What a caller may make of a transcript.
LEMMA Changes ==
    ASSUME NEW s, s # [nothing |-> TRUE]
    PROVE  /\ [s EXCEPT !.turns = Append(s.turns, Store!Blank("call"))]
                  \in Store!Change("call", s)
           /\ [s EXCEPT !.ended = TRUE] \in Store!Change("call", s)
           /\ \A k \in DOMAIN s.turns, field \in {"audio", "reply"} :
                 [s EXCEPT !.turns[k].filled = @ \cup {field}]
                     \in Store!Change("call", s)
<1> DEFINE filled(k, field) == [s EXCEPT !.turns[k].filled = @ \cup {field}]
           all == {filled(k, field) : k \in DOMAIN s.turns, field \in {"audio", "reply"}}
<1>1. all \subseteq Store!Change("call", s)
  BY DEF Store!Change
<1>2. ASSUME NEW k \in DOMAIN s.turns, NEW field \in {"audio", "reply"}
      PROVE  filled(k, field) \in all
  <2> HIDE DEF filled
  <2> QED OBVIOUS
<1>3. /\ [s EXCEPT !.turns = Append(s.turns, Store!Blank("call"))]
            \in Store!Change("call", s)
      /\ [s EXCEPT !.ended = TRUE] \in Store!Change("call", s)
  BY DEF Store!Change
<1> HIDE DEF all
<1> QED BY <1>1, <1>2, <1>3

\* A transcript is neither of the marks that stand for none.
LEMMA StoredIsRecord ==
    /\ Stored # [nothing |-> TRUE] /\ Stored # [lost |-> TRUE]
    /\ Stored.turns = Turns /\ DOMAIN Turns = 1..said
    /\ \A k \in 1..said : Turns[k] = [by |-> "call", filled |-> Filled(k)]
<1>1. DOMAIN Stored = {"id", "turns", "ended"}
  BY DEF Stored
<1>2. "turns" \notin DOMAIN [nothing |-> TRUE] /\ "turns" \notin DOMAIN [lost |-> TRUE]
  OBVIOUS
<1>3. Stored.turns = Turns
  BY DEF Stored, Turns
<1> QED BY <1>1, <1>2, <1>3 DEF Turns

\* A step that makes of the transcript what a caller may is one of the store.
LEMMA UpdateAllowed ==
    ASSUME Stored' \in Store!Change("call", Stored)
    PROVE  Store!Next
<1> DEFINE view == [id \in {"call"} |-> Stored]
<1>1. view' = [view EXCEPT !["call"] = Stored'] /\ view["call"] = Stored
  OBVIOUS
<1>2. view["call"] # [lost |-> TRUE]
  BY <1>1, StoredIsRecord
<1>3. Store!Update("call")
  BY <1>1, <1>2 DEF Store!Update
<1> QED BY <1>3 DEF Store!Next

LEMMA StoredStep ==
    ASSUME FilledInv, [Next]_conversationVars
    PROVE  [Store!Next]_(Store!transcriptsVars)
<1>1. CASE Say
  <2>1. /\ said' = said + 1 /\ said \in Nat
        /\ UNCHANGED <<replies, recorded, over>>
    BY <1>1 DEF Say, FilledInv
  <2>2. \A k \in 1..said : Filled(k)' = Filled(k)
    BY <2>1 DEF Filled
  <2>3. \A k \in Nat : k = said + 1 => Filled(k)' = {}
    BY <2>1 DEF Filled, FilledInv
  <2>4. Turns' = Append(Turns, Store!Blank("call"))
    <3> DEFINE e == Store!Blank("call")
               S == [by : {"call"}, filled : SUBSET {"audio", "reply"}]
    <3>1. Turns \in Seq(S) /\ Len(Turns) = said
      <4>1. \A k \in 1..said : Turns[k] \in S
        BY DEF Turns, Filled
      <4> QED BY <2>1, <4>1 DEF Turns
    <3>2. e = [by |-> "call", filled |-> {}] /\ e \in S
      BY DEF Store!Blank
    <3>3. Turns' = [k \in 1..(said + 1) |-> [by |-> "call", filled |-> Filled(k)']]
      BY <2>1 DEF Turns
    <3>4. Turns' \in Seq(S) /\ Len(Turns') = said + 1
      <4>1. \A k \in 1..(said + 1) : Turns'[k] \in S
        BY <3>3 DEF Filled
      <4> QED BY <2>1, <3>3, <4>1
    <3> HIDE DEF e, S
    <3>5. /\ Append(Turns, e) \in Seq(S) /\ Len(Append(Turns, e)) = said + 1
          /\ \A k \in 1..said : Append(Turns, e)[k] = Turns[k]
          /\ Append(Turns, e)[said + 1] = e
      BY <3>1, <3>2, AppendProperties
    <3>6. ASSUME NEW k \in 1..(said + 1) PROVE Turns'[k] = Append(Turns, e)[k]
      <4>1. k \in 1..said \/ k = said + 1
        BY <2>1
      <4>2. CASE k \in 1..said
        BY <2>2, <3>3, <3>5, <4>2, StoredIsRecord
      <4>3. CASE k = said + 1
        <5>1. Filled(k)' = {}
          BY <2>1, <2>3, <4>3
        <5> QED BY <3>2, <3>3, <3>5, <4>3, <5>1
      <4> QED BY <4>1, <4>2, <4>3
    <3>7. Turns' = Append(Turns, e)
      BY <3>4, <3>5, <3>6, SeqEqual
    <3> QED BY <3>7 DEF e
  <2>5. Stored' = [Stored EXCEPT !.turns = Turns']
    BY <2>1, StoredParts, Replaced
  <2>6. Stored' \in Store!Change("call", Stored)
    BY <2>4, <2>5, StoredIsRecord, Changes
  <2> QED BY <2>6, UpdateAllowed
<1>2. ASSUME NEW k \in 1..said, NEW field \in {"audio", "reply"},
             UNCHANGED <<said, over>>,
             Filled(k)' = Filled(k) \cup {field},
             \A j \in (1..said) \ {k} : Filled(j)' = Filled(j)
      PROVE  Store!Next
  <2>1. Turns' = [Turns EXCEPT ![k].filled = @ \cup {field}]
    BY <1>2 DEF Turns
  <2>2. Stored' = [Stored EXCEPT !.turns = Turns']
    BY <1>2, StoredParts, Replaced
  <2>3. Stored' = [Stored EXCEPT !.turns[k].filled = @ \cup {field}]
    BY <2>1, <2>2, StoredIsRecord
  <2>4. Stored' \in Store!Change("call", Stored)
    BY <2>3, StoredIsRecord, Changes
  <2> QED BY <2>4, UpdateAllowed
<1>3. ASSUME NEW k \in 1..said, Reply(k) \/ ReplyNotSaved(k)
      PROVE  Store!Next
  <2>1. /\ UNCHANGED <<said, recorded, over>> /\ k \in 1..said
        /\ replies' = replies \cup {[from |-> covered + 1, to |-> k]}
    BY <1>3 DEF Reply, ReplyNotSaved
  <2>2. Filled(k)' = Filled(k) \cup {"reply"}
    <3> DEFINE new == [from |-> covered + 1, to |-> k]
    <3>1. new \in replies' /\ new.to = k
      BY <2>1
    <3> HIDE DEF new
    <3> QED BY <2>1, <3>1 DEF Filled
  <2>3. \A j \in (1..said) \ {k} : Filled(j)' = Filled(j)
    BY <2>1 DEF Filled
  <2> QED BY <1>2, <2>1, <2>2, <2>3
<1>4. ASSUME NEW k \in 1..said, Record(k) PROVE Store!Next
  <2>1. /\ UNCHANGED <<said, replies, over>>
        /\ recorded' = recorded \cup {k}
    BY <1>4 DEF Record
  <2>2. Filled(k)' = Filled(k) \cup {"audio"}
    BY <2>1 DEF Filled
  <2>3. \A j \in (1..said) \ {k} : Filled(j)' = Filled(j)
    BY <2>1 DEF Filled
  <2> QED BY <1>2, <2>1, <2>2, <2>3
<1>5. CASE HangUp
  <2>1. Turns' = Turns /\ over' = TRUE
    BY <1>5 DEF HangUp, Turns, Filled
  <2>2. Stored' = [Stored EXCEPT !.ended = over']
    <3>1. Stored' = [id |-> "call", turns |-> Turns, ended |-> over']
      BY <2>1, StoredParts
    <3> QED BY <3>1, StoredParts, Replaced
  <2>3. Stored' \in Store!Change("call", Stored)
    BY <2>1, <2>2, StoredIsRecord, Changes
  <2> QED BY <2>3, UpdateAllowed
<1>6. CASE UNCHANGED conversationVars
  BY <1>6 DEF conversationVars, Store!transcriptsVars, Stored, Filled
<1> QED BY <1>1, <1>3, <1>4, <1>5, <1>6 DEF Next

\* A call's transcript is changed only by what Transcripts allows: what
\* CallSession does to it, and what TranscriptStore promises of it, are
\* connected by the one specification.
THEOREM ConversationUsesStore == Spec => UsesStore
<1>1. Init => FilledInv /\ Store!Init
  <2>1. Stored # [lost |-> TRUE]
    BY StoredIsRecord
  <2>2. Store!Init
    BY <2>1 DEF Store!Init
  <2>3. Init => FilledInv
    <3>1. Init => said \in Nat /\ covered \in 0..said
      BY DEF Init
    <3>2. Init => recorded \subseteq 1..said /\ \A reply \in replies : reply.to \in 1..said
      BY DEF Init
    <3>3. Init => over \in BOOLEAN
      BY DEF Init
    <3> QED BY <3>1, <3>2, <3>3 DEF FilledInv
  <2> QED BY <2>2, <2>3
<1>2. FilledInv /\ [Next]_conversationVars => FilledInv'
  BY FilledStep
<1>3. FilledInv /\ [Next]_conversationVars => [Store!Next]_(Store!transcriptsVars)
  BY StoredStep
<1> QED BY <1>1, <1>2, <1>3, PTL DEF Spec, UsesStore, Store!Spec
=============================================================================
