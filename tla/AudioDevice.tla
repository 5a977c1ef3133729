------------------------------ MODULE AudioDevice ------------------------------
(***************************************************************************)
(* The two services over the media system of the chip: playing a prompt    *)
(* (unidoli_wave_player_service) and listening to the phone                *)
(* (unidoli_audio_config_service), both in wpa2APP.c, with the calls of    *)
(* unidoli_audio.c that configure the codec, enable and disable the        *)
(* devices and channels, and the amplifier's GPIO.                         *)
(*                                                                         *)
(* Abstractions.  Each call into the chip's library succeeds or fails.     *)
(* What is listened to is in AudioDecode; here a read gives a frame, or    *)
(* fails.  Sound data, rates and volumes are left out.                     *)
(***************************************************************************)
EXTENDS Naturals, Sequences

VARIABLES
    stage,      \* where the service is
    prompt,     \* it plays a prompt; otherwise it listens
    media,      \* what is initialised or enabled in the media system
    amplifier,  \* the GPIO of the amplifier is on
    trouble     \* history: what this service failed to begin or to end

audioVars == <<stage, prompt, media, amplifier, trouble>>

\* What unidoli_start_ai and unidoli_start_ao enable, in this order: a device
\* with its channel.
Enabled == <<"ai", "ao">>

AudioInit ==
    /\ stage = "idle" /\ prompt = FALSE
    /\ media = {} /\ amplifier = FALSE /\ trouble = {}

At(s, t) == stage = s /\ stage' = t

-----------------------------------------------------------------------------
StartListen ==
    /\ At("idle", "sys")
    /\ UNCHANGED <<prompt, media, amplifier, trouble>>

\* wave_player_Enable, whose open may fail.
StartPrompt ==
    /\ At("idle", "sys")
    /\ prompt' = TRUE
    /\ \/ amplifier' = TRUE /\ UNCHANGED trouble
       \/ amplifier' = amplifier /\ trouble' = {"gpio"}
    /\ UNCHANGED media

\* SAMPLE_COMM_SYS_Init, which ends the media system first.
SysInit ==
    /\ At("sys", "config")
    /\ media' = media \cup {"sys"}
    /\ UNCHANGED <<prompt, amplifier, trouble>>

\* The service returns at once, with the amplifier as it is.
SysInitFails ==
    /\ At("sys", "done")
    /\ media' = media \ {"sys"}
    /\ trouble' = trouble \cup {"sys"}
    /\ UNCHANGED <<prompt, amplifier>>

\* unidoli_audio_service_config: the codec, then one thing after the other up
\* to the first that fails.  Its result is ignored.
Configure ==
    /\ At("config", "run")
    /\ \E n \in 0..Len(Enabled) :
          media' = media \cup {Enabled[k] : k \in 1..n}
    /\ UNCHANGED <<prompt, amplifier, trouble>>

\* The file is played, its parts sent or not, or, as the users of this module
\* add, both answers have come.
Finish ==
    /\ At("run", "stop_ai")
    /\ prompt \/ "ai" \in media
    /\ UNCHANGED <<prompt, media, amplifier, trouble>>

\* unidoli_aduio_read fails: the loop is left.
ReadFails ==
    /\ ~prompt /\ At("run", "stop_ai")
    /\ UNCHANGED <<prompt, media, amplifier, trouble>>

\* The channel is disabled, then the device, unless one of the calls fails.
Disable(dev, s, t) ==
    /\ At(s, t)
    /\ \/ media' = media \ {dev} /\ UNCHANGED trouble
       \/ media' = media /\ trouble' = trouble \cup {"stop"}
    /\ UNCHANGED <<prompt, amplifier>>

StopAi == Disable("ai", "stop_ai", "stop_ao")
StopAo == Disable("ao", "stop_ao", "exit")

\* Mutant: only the prompt ends the media system.
ExitListening ==
    /\ At("exit", "done")
    /\ media' = IF prompt THEN media \ {"sys"} ELSE media
    /\ \/ amplifier' = (amplifier /\ ~prompt) /\ UNCHANGED trouble
       \/ prompt /\ amplifier' = amplifier /\ trouble' = trouble \cup {"gpio"}
    /\ UNCHANGED prompt

\* SAMPLE_COMM_SYS_Exit; a prompt then switches the amplifier off.
Exit ==
    /\ At("exit", "done")
    /\ media' = media \ {"sys"}
    /\ \/ amplifier' = (amplifier /\ ~prompt) /\ UNCHANGED trouble
       \/ prompt /\ amplifier' = amplifier /\ trouble' = trouble \cup {"gpio"}
    /\ UNCHANGED prompt

\* The caller goes on.
Return ==
    /\ At("done", "idle")
    /\ prompt' = FALSE /\ trouble' = {}
    /\ UNCHANGED <<media, amplifier>>

\* The thread inside a service.
AudioStep ==
    \/ SysInit \/ SysInitFails \/ Configure \/ ReadFails
    \/ StopAi \/ StopAo \/ Exit

-----------------------------------------------------------------------------
\* Every service that could begin and end its work leaves nothing behind: not
\* what it has enabled itself, not what an earlier one could not disable, and
\* after a prompt not the amplifier, on whichever step it left its way
\* (wpa2APP.c:58-99 and 105-172).
AudioReleased ==
    stage = "done" =>
        /\ trouble \cap {"sys", "stop"} = {} => media = {}
        /\ prompt /\ trouble \cap {"sys", "gpio"} = {} => ~amplifier
=============================================================================
