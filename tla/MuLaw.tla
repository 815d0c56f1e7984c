------------------------------- MODULE MuLaw -------------------------------
(***************************************************************************)
(* The G.711 codec of audio.py, one sample at a time: mulaw_to_pcm16 for   *)
(* what the caller says, pcm16_to_mulaw for what the caller hears.         *)
(***************************************************************************)
EXTENDS Integers

Byte == 0..255
Pcm16 == -32768..32767

MU_LAW_BIAS == 132
MU_LAW_CLIP == 32635

\* The array is of type int16: arithmetic wraps.
Int16(x) == ((x + 32768) % 65536) - 32768

Magnitude(x) == IF x < 0 THEN -x ELSE x

FloorLog2(x) == CHOOSE e \in 0..15 : 2^e <= x /\ x < 2^(e + 1)

Clip(x, low, high) == IF x < low THEN low ELSE IF x > high THEN high ELSE x

\* mulaw_to_pcm16.
Decode(byte) ==
    LET encoded == 255 - byte
        exponent == (encoded \div 16) % 8
        mantissa == encoded % 16
        decoded == Int16((mantissa * 8 + MU_LAW_BIAS) * 2^exponent)
                     - MU_LAW_BIAS
    IN  Int16(IF encoded >= 128 THEN -decoded ELSE decoded)

\* pcm16_to_mulaw.  Its arrays are of type int32.
Encode(pcm) ==
    LET biased == Clip(Magnitude(pcm), 0, MU_LAW_CLIP) + MU_LAW_BIAS
        exponent == Clip(FloorLog2(biased) - 7, 0, 7)
        mantissa == (biased \div 2^(exponent + 3)) % 16
        sign == IF pcm < 0 THEN 128 ELSE 0
    IN  255 - (sign + exponent * 16 + mantissa)
-----------------------------------------------------------------------------
(***************************************************************************)
(* What a codec owes its callers.                                          *)
(***************************************************************************)
\* Every byte but the negative zero is the code of its own value.
CodesAreStable == \A byte \in Byte \ {127} : Encode(Decode(byte)) = byte

\* Louder stays louder: no value wraps around at the ends or between segments.
CodesAreMonotone ==
    \A pcm \in Pcm16 \ {32767} : Decode(Encode(pcm)) <= Decode(Encode(pcm + 1))

\* The error is at most half of the distance between neighbouring values, which
\* doubles from segment to segment; clipping adds what lies beyond the last.
CodesAreClose ==
    \A pcm \in Pcm16 :
        LET heard == Magnitude(Decode(Encode(pcm)))
            said == Clip(Magnitude(pcm), 0, MU_LAW_CLIP)
        IN  Magnitude(heard - said) <= 4 + (said + MU_LAW_BIAS) \div 32
=============================================================================
