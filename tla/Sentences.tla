----------------------------- MODULE Sentences -----------------------------
(***************************************************************************)
(* How the answer of the LLM, which arrives in tokens, becomes sentences   *)
(* for the TTS service while it arrives: _take_ready_sentences and         *)
(* _flush_sentence_buffer (session.py).  Of a character this is kept: its  *)
(* kind, and its position in the answer.                                   *)
(***************************************************************************)
EXTENDS Naturals, Sequences, SequencesExt

CONSTANTS SoftLimit, HardLimit   \* llm_sentence_soft_limit, ..._hard_limit

Letter(c) == c.kind = "letter"
End(c) == c.kind = "end"         \* one of .!?
Space(c) == c.kind = "space"

\* str.strip()
Strip(text) ==
    LET kept == {i \in DOMAIN text : ~ Space(text[i])}
    IN  IF kept = {} THEN <<>>
        ELSE SubSeq(text, CHOOSE i \in kept : \A j \in kept : i <= j,
                          CHOOSE i \in kept : \A j \in kept : i >= j)

\* SENTENCE_END_RE matches text[1..n]: something, then all of a run of ends,
\* then all the space that follows, or the end of what has arrived.
Matches(text, n) ==
    \E k \in 1..(n - 1), m \in 2..n :
        /\ k < m
        /\ \A i \in (k + 1)..m : End(text[i])
        /\ \A i \in (m + 1)..n : Space(text[i])
        /\ n = Len(text) \/ (m < n /\ ~ Space(text[n + 1]))

\* Where the first match ends, 0 if there is none.
MatchEnd(text) ==
    LET ends == {n \in 1..Len(text) : Matches(text, n)}
    IN  IF ends = {} THEN 0 ELSE CHOOSE n \in ends : \A i \in ends : n <= i

\* The while loop.
RECURSIVE TakeMatches(_)
TakeMatches(s) ==
    LET n == MatchEnd(s.buffer)
    IN  IF n = 0 THEN s
        ELSE TakeMatches(
                [ready |-> Append(s.ready, Strip(SubSeq(s.buffer, 1, n))),
                 buffer |-> SubSeq(s.buffer, n + 1, Len(s.buffer))])

\* _take_ready_sentences: s.ready are the sentences taken so far.
TakeReady(s, token) ==
    LET taken == TakeMatches([s EXCEPT !.buffer = @ \o token])
        length == Len(Strip(taken.buffer))
    IN  IF \/ length >= HardLimit
           \/ length >= SoftLimit /\ Space(Last(token))
        THEN [ready |-> Append(taken.ready, Strip(taken.buffer)), buffer |-> <<>>]
        ELSE taken

\* _flush_sentence_buffer, and the pipeline's use of it.
Flush(s) ==
    IF Strip(s.buffer) = <<>> THEN s.ready ELSE Append(s.ready, Strip(s.buffer))

\* After these tokens.
After(tokens) == FoldLeft(TakeReady, [ready |-> <<>>, buffer |-> <<>>], tokens)
-----------------------------------------------------------------------------
(***************************************************************************)
(* What the caller of these functions relies on, for an answer that came   *)
(* in these tokens.                                                        *)
(***************************************************************************)
Said(text) == SelectSeq(text, LAMBDA c : ~ Space(c))

\* Every character but space is in one sentence, in the order of the answer,
\* however it was cut into tokens; and no sentence is blank.
AllIsSaid(tokens) ==
    LET sentences == Flush(After(tokens))
    IN  /\ Said(FlattenSeq(sentences)) = Said(FlattenSeq(tokens))
        /\ \A k \in DOMAIN sentences : Said(sentences[k]) # <<>>

\* Nothing waits longer than it must: what is left in the buffer is below
\* the hard limit, and holds no sentence that is complete.
NothingWaits(tokens) ==
    LET buffer == After(tokens).buffer
    IN  /\ Len(Strip(buffer)) < HardLimit
        /\ \A i \in 1..(Len(buffer) - 1) :
              ~ (i > 1 /\ End(buffer[i]) /\ Space(buffer[i + 1]))

\* A sentence is not cut just anywhere, even where a token ended: each
\* sentence but the last ends with one of .!? or has SoftLimit characters.
NoSentenceIsTorn(tokens) ==
    LET sentences == Flush(After(tokens))
    IN  \A k \in 1..(Len(sentences) - 1) :
            End(Last(sentences[k])) \/ Len(sentences[k]) >= SoftLimit
=============================================================================
