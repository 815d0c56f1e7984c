--------------------------- MODULE MCCallSession ---------------------------
(***************************************************************************)
(* What may fail in the runs of CallSession.                               *)
(***************************************************************************)
EXTENDS CallProgress

Nothing == {}
LlmOnly == {"llm"}
TtsOnly == {"tts"}
S3Only == {"s3"}
LlmSttAndBackend == {"llm", "stt", "backend"}
CallerTtsS3AndStore == {"peer", "tts", "s3", "store"}
=============================================================================
