-------------------------- MODULE MCRealtimeMedia --------------------------
(***************************************************************************)
(* Instances of RealtimeMedia for TLC.                                     *)
(***************************************************************************)
EXTENDS RealtimeMedia, TLC

CONSTANTS p1, p2, t1, t2, t3

\* A peer with two tracks and one with one.
MCPeerOf == (t1 :> p1) @@ (t2 :> p1) @@ (t3 :> p2)
OneTrack == t1 :> p1

AllFailures == {"connect", "link", "offer", "answer", "description", "track"}
NoFailures == {}
=============================================================================
