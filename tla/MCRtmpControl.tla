----------------------------- MODULE MCRtmpControl -----------------------------
(* Instances of RtmpControl for TLC.  The shipped configuration, 0, has the      *)
(* stream's URL fetched; the one that arrives names it, or has it fetched too.   *)
EXTENDS RtmpControl

CONSTANTS r1, r2

MCRtmpThreads == {r1, r2}
MCOneThread   == {r1}
MCAutoConfs   == {0}
MCAllAuto     == {0, 1, 2}
MCNoSignals   == {}
MCBothSignals == {"ALRM", "CHLD"}
=============================================================================
