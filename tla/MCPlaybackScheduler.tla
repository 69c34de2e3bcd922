------------------------ MODULE MCPlaybackScheduler ------------------------
(* The first packet was captured after the others; the host's clock is     *)
(* behind, so that the others' stamps saturate at zero.                    *)
EXTENDS PlaybackScheduler

MCTimestamp == [p \in Packets |-> IF p = 1 THEN 3 ELSE 0]
MCClockOffsets == {-1}
=============================================================================
