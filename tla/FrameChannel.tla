------------------------------ MODULE FrameChannel ------------------------------
(***************************************************************************)
(* What the WiFi configuration by sound may rely on: of the frames that a  *)
(* phone plays one after the other some are received, each at most once    *)
(* and as it was played, in order, while it or the next one is played.     *)
(***************************************************************************)
CONSTANTS
    Frames,  \* the payloads the phone plays
    None

VARIABLES
    frame,   \* the payload being played, or None
    before,  \* the one played before, if nothing was received while it was played
    got      \* the payload received since frame began, or None

Init ==
    /\ frame \in Frames
    /\ before = None /\ got = None

Play(f) ==
    /\ frame = None /\ frame' = f
    /\ got' = None
    /\ UNCHANGED before

Receive ==
    /\ frame # None /\ got = None
    /\ got' \in {frame, before} \ {None}
    /\ UNCHANGED <<frame, before>>

Finish ==
    /\ frame # None /\ frame' = None
    /\ before' = IF got = None THEN frame ELSE None
    /\ UNCHANGED got

Next == (\E f \in Frames : Play(f)) \/ Receive \/ Finish

Spec == Init /\ [][Next]_<<frame, before, got>>
=============================================================================
