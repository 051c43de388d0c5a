---------------------------- MODULE MCSseStream ----------------------------
(* Instances of SseStream for TLC.                                         *)
EXTENDS SseStream, TLC

CONSTANTS s1, s2

TwoStreams == {s1, s2}

=============================================================================
