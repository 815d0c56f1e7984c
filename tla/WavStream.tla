----------------------------- MODULE WavStream -----------------------------
(***************************************************************************)
(* What the caller hears of one sentence: _stream_tts_frames (session.py)  *)
(* takes the WAV stream of the TTS service as the network cuts it, drops   *)
(* its header with a WavStreamBuffer (audio.py), resamples each piece to   *)
(* the telephone's rate, one mu-law byte per sample, and cuts the result   *)
(* into frames.                                                            *)
(*                                                                         *)
(* A byte of the stream is known by its position: the first HeaderBytes    *)
(* are the header, each two that follow are a sample.  Of the resampled    *)
(* audio only its length is kept.                                          *)
(***************************************************************************)
EXTENDS Integers, Sequences

CONSTANTS
    HeaderBytes,   \* header_bytes_expected
    SourceRate,    \* tts_sample_rate
    TargetRate,    \* the telephone's rate
    FrameBytes,    \* outbound_frame_bytes
    MaxBytes       \* bound: length of a stream

ASSUME StreamAssumption == HeaderBytes \in Nat /\ MaxBytes \in Nat
ASSUME RateAssumption ==
    /\ SourceRate \in Nat \ {0} /\ TargetRate \in Nat \ {0}
    /\ FrameBytes \in Nat \ {0}

VARIABLES
    received,         \* bytes of the stream that have arrived
    buffer,           \* _buffer
    headerConsumed,   \* _header_consumed
    decoded,          \* the bytes push() has returned so far, in order
    pieces,           \* how many times it has returned some
    made,             \* mu-law bytes made of them
    pending,          \* length of pending_mulaw
    frames,           \* full frames yielded so far
    tail,             \* length of the last frame, 0 if there is none
    ended             \* the stream has ended

vars == <<received, buffer, headerConsumed, decoded, pieces, made, pending,
          frames, tail, ended>>

TypeOK ==
    /\ received \in Nat
    /\ buffer \in Seq(Nat) /\ decoded \in Seq(Nat)
    /\ headerConsumed \in BOOLEAN /\ ended \in BOOLEAN
    /\ pieces \in Nat /\ made \in Nat /\ frames \in Nat
    /\ pending \in 0..(FrameBytes - 1)
    /\ tail \in 0..(FrameBytes - 1)

Init ==
    /\ received = 0
    /\ buffer = <<>> /\ decoded = <<>>
    /\ headerConsumed = FALSE /\ ended = FALSE
    /\ pieces = 0 /\ made = 0 /\ pending = 0 /\ frames = 0 /\ tail = 0

\* Python's round(): halves go to the even neighbour.
Round(a, b) ==
    LET q == a \div b
        r == a % b
    IN  IF 2 * r < b \/ (2 * r = b /\ q % 2 = 0) THEN q ELSE q + 1

\* Mutant: bytes are taken for samples.
ResampledBytes(n) == Round(2 * n * TargetRate, SourceRate)

\* Length of resample_pcm16's result for n samples.
Resampled(n) ==
    IF n = 0 \/ SourceRate = TargetRate THEN n
    ELSE LET length == Round(n * TargetRate, SourceRate)
         IN  IF length < 1 THEN 1 ELSE length

\* Mutant: whatever is there is returned, half samples included.
WholeAnyLength(bytes) == Len(bytes)

\* pcm_length.
Whole(bytes) == Len(bytes) - (Len(bytes) % 2)

\* The n bytes of the stream after the first k.
Bytes(k, n) == [i \in 1..n |-> k + i]

\* Mutant: one frame per piece at most.
EmitOneFrame(length) ==
    /\ made' = made + length
    /\ IF pending + length >= FrameBytes
       THEN frames' = frames + 1 /\ pending' = pending + length - FrameBytes
       ELSE frames' = frames /\ pending' = pending + length

\* The while loop over pending_mulaw.
Emit(length) ==
    /\ made' = made + length
    /\ pending' = (pending + length) % FrameBytes
    /\ frames' = frames + (pending + length) \div FrameBytes

\* push() before the header is complete.
PushHeader(n) ==
    /\ ~ended /\ received + n <= MaxBytes
    /\ ~headerConsumed
    /\ Len(buffer) + n < HeaderBytes
    /\ received' = received + n
    /\ buffer' = buffer \o Bytes(received, n)
    /\ UNCHANGED <<headerConsumed, decoded, pieces, made, pending, frames,
                   tail, ended>>

\* push(), and the conversion of what it returns.
PushSamples(n) ==
    /\ ~ended /\ received + n <= MaxBytes
    /\ headerConsumed \/ Len(buffer) + n >= HeaderBytes
    /\ received' = received + n
    /\ headerConsumed' = TRUE
    /\ LET all == buffer \o Bytes(received, n)
           rest == IF headerConsumed THEN all
                   ELSE SubSeq(all, HeaderBytes + 1, Len(all))
           whole == Whole(rest)
       IN  /\ decoded' = decoded \o SubSeq(rest, 1, whole)
           /\ buffer' = SubSeq(rest, whole + 1, Len(rest))
           /\ pieces' = IF whole > 0 THEN pieces + 1 ELSE pieces
           /\ Emit(Resampled(whole \div 2))
    /\ UNCHANGED <<tail, ended>>

\* Mutant: only full frames are sent.
StreamEndsFull ==
    /\ ~ended
    /\ ended' = TRUE
    /\ pending' = 0
    /\ UNCHANGED <<received, buffer, headerConsumed, decoded, pieces, made,
                   frames, tail>>

\* The stream ends: what is left of pending_mulaw is the last frame.
StreamEnds ==
    /\ ~ended
    /\ ended' = TRUE
    /\ tail' = pending /\ pending' = 0
    /\ UNCHANGED <<received, buffer, headerConsumed, decoded, pieces, made,
                   frames>>

\* stream_wav skips empty chunks (clients.py:111).
Next ==
    \/ \E n \in 1..MaxBytes : PushHeader(n) \/ PushSamples(n)
    \/ StreamEnds

Spec == Init /\ [][Next]_vars
-----------------------------------------------------------------------------
\* The whole samples among the first n bytes of the stream: what one push()
\* of these n bytes would return.
WholeSamples(n) ==
    LET length == IF n < HeaderBytes THEN 0 ELSE n - HeaderBytes
    IN  Bytes(HeaderBytes, length - (length % 2))

\* However the network cuts the stream, inside the header or inside a sample,
\* the samples that come out of WavStreamBuffer are those of the uncut stream,
\* none lost, shifted or held back.
SamplesIntact == decoded = WholeSamples(received)

\* Each piece is resampled by itself, and its length rounded, so the length of
\* what the caller hears depends on the cuts: it is off by at most one
\* telephone sample for each piece.
Drift == SourceRate * made - TargetRate * (Len(decoded) \div 2)

DriftBounded ==
    /\ Drift <= SourceRate * pieces
    /\ -Drift <= SourceRate * pieces

\* The frames sent to the caller and what is pending hold all of the converted
\* audio, a short frame comes last, and at the end nothing is pending.
FramesCarryAll ==
    /\ frames * FrameBytes + tail + pending = made
    /\ ended => pending = 0
    /\ tail > 0 => ended
-----------------------------------------------------------------------------
(***************************************************************************)
(* The inductive invariant of the proofs: what has been returned and what  *)
(* is still in the buffer follow from how much has arrived, and not from   *)
(* how it was cut.                                                         *)
(***************************************************************************)
WholeBytes(n) ==
    LET length == n - HeaderBytes
    IN  length - (length % 2)

BufferInv ==
    IF headerConsumed
    THEN /\ received >= HeaderBytes
         /\ decoded = Bytes(HeaderBytes, WholeBytes(received))
         /\ buffer = Bytes(HeaderBytes + WholeBytes(received),
                           (received - HeaderBytes) % 2)
    ELSE /\ received = 0 \/ received < HeaderBytes
         /\ decoded = <<>>
         /\ buffer = Bytes(0, received)

IInv == TypeOK /\ BufferInv /\ DriftBounded /\ FramesCarryAll
=============================================================================
