---------------------------- MODULE MCWavStream ----------------------------
(***************************************************************************)
(* WavStream on short streams, the codec on all its inputs, and the        *)
(* sentences of short answers however they are cut into tokens.            *)
(***************************************************************************)
EXTENDS WavStream

Codec == INSTANCE MuLaw

ASSUME StableCodes == Codec!CodesAreStable
ASSUME MonotoneCodes == Codec!CodesAreMonotone
ASSUME CloseCodes == Codec!CodesAreClose
-----------------------------------------------------------------------------
Text == INSTANCE Sentences WITH SoftLimit <- 3, HardLimit <- 4

MaxAnswer == 6   \* bound: characters of an answer

Answers(n) ==
    {[i \in 1..n |-> [kind |-> kinds[i], at |-> i]] :
        kinds \in [1..n -> {"letter", "end", "space"}]}

\* An answer of n characters, cut after the positions in cuts.
Start(cuts, k) ==
    CHOOSE i \in cuts \cup {0} :
        i < k /\ \A j \in cuts : j < k => j <= i

RECURSIVE Tokens(_, _, _)
Tokens(text, cuts, n) ==
    IF n = 0 THEN <<>>
    ELSE Append(Tokens(text, cuts, Start(cuts, n)),
                SubSeq(text, Start(cuts, n) + 1, n))

ASSUME SentencesSayAll ==
    \A n \in 1..MaxAnswer : \A text \in Answers(n), cuts \in SUBSET (1..(n - 1)) :
        LET tokens == Tokens(text, cuts, n)
        IN  /\ Text!AllIsSaid(tokens)
            /\ Text!NothingWaits(tokens)
            /\ Text!NoSentenceIsTorn(tokens)
=============================================================================
