--------------------------------- MODULE Device ---------------------------------
(***************************************************************************)
(* The device from power-up to the running services: the beginning of main *)
(* (unidoliMainAPP.c:38-76), its calls into network.c, and the set-up of   *)
(* the network and the pan-tilt head composed with it, now and while the   *)
(* services run.  After the boot loop the thread of this module stands for *)
(* networkStatusPthread; losses of the network are in Supervisor.          *)
(*                                                                         *)
(* Abstractions.  A lookup is one step.  Of the descriptors of the process *)
(* those of the NTP sockets are counted; when none is left the serial port *)
(* cannot be opened.                                                       *)
(***************************************************************************)
EXTENDS WifiSetup, PanTilt

CONSTANTS
    LongTexts,  \* what get_conf_value cannot put into 25 characters
    FdLimit     \* NTP sockets that can be open

ASSUME LongAssumption == LongTexts \cap {Factory.ssid, Factory.psk} = {}
ASSUME FdAssumption == FdLimit \in Nat

VARIABLES
    where,   \* where the thread is
    i,       \* the index of domain[]
    leaked   \* open NTP sockets

deviceVars == <<where, i, leaked>>
vars == <<audioVars, wifiVars, panVars, deviceVars>>

Wild == 3   \* any index that never comes to be one of domain[]
Domain == 0..2
NextIndex == IF i = Wild THEN Wild ELSE (i + 1) % 3

Init ==
    /\ WifiInit /\ PanInit
    /\ where = "off" /\ i = 0 /\ leaked = 0

\* The thread goes from a to b and nothing of the others changes.
Goes(a, b) == where = a /\ where' = b
Apart == UNCHANGED <<audioVars, panVars>>

-----------------------------------------------------------------------------
\* i is not initialised; incremented before each use it wraps at 3 only.
PowerOn ==
    /\ Goes("off", "check")
    /\ i' \in -1..Wild /\ leaked' = 0
    /\ Apart /\ UNCHANGED wifiVars

\* configureWIFI, which ends in a reboot: i and leaked do not count any more.
Configuring == where' = "setup" /\ job' = "ask" /\ i' = 0 /\ leaked' = 0

Check ==
    /\ where = "check"
    /\ IF LooksNew(stored) THEN Configuring
       ELSE where' = "report" /\ job' = "report" /\ UNCHANGED <<i, leaked>>
    /\ Apart /\ UNCHANGED <<heard, requests, network, harmed>>

\* A long name is copied past the end of getva; with a new device's name, a
\* long password.
CheckOverruns ==
    /\ \/ delspace(stored.ssid) \in LongTexts
       \/ delspace(stored.ssid) = Factory.ssid /\ delspace(stored.psk) \in LongTexts
    /\ Goes("check", "crashed")
    /\ Apart /\ UNCHANGED <<wifiVars, i, leaked>>

\* reportWIFIConnetStatus: which of two prompts is played is left out.
Reported ==
    /\ job = "none" /\ Goes("report", "key")
    /\ i' = NextIndex
    /\ Apart /\ UNCHANGED <<wifiVars, leaked>>

-----------------------------------------------------------------------------
(* getKeyStatus, called from both loops *)

\* The boot loop takes anything but 0 for the key, the other only 1.
KeyCounts(k) == IF where = "key" THEN k # 0 ELSE k = 1

NextStop == IF where = "key" THEN "lookup" ELSE where

Ask ==
    /\ where \in {"key", "running"} /\ leaked < FdLimit
    /\ AskKey
    /\ UNCHANGED <<audioVars, wifiVars, deviceVars>>

\* The port cannot be opened.
KeyFails ==
    /\ leaked = FdLimit /\ Goes("key", "lookup")
    /\ Apart /\ UNCHANGED <<wifiVars, i, leaked>>

Answered ==
    /\ where \in {"key", "running"}
    /\ KeyEnds
    /\ \E k \in KeyAnswers :
          IF KeyCounts(k) THEN Configuring
          ELSE where' = NextStop /\ UNCHANGED <<job, i, leaked>>
    /\ UNCHANGED <<audioVars, heard, requests, network, harmed>>

-----------------------------------------------------------------------------
(* getip, getNtpTime *)

\* The next server, and the key before that.
Again ==
    /\ Goes("lookup", "key")
    /\ i' = NextIndex

\* getip fails, or there is no descriptor for the socket.
LookupFails ==
    /\ i \in Domain /\ Again
    /\ Apart /\ UNCHANGED <<wifiVars, leaked>>

\* No answer in two seconds, or one that is too short; the socket stays open.
NtpFails ==
    /\ i \in Domain /\ leaked < FdLimit /\ Again
    /\ leaked' = leaked + 1
    /\ Apart /\ UNCHANGED wifiVars

\* i has done its service.
NtpAnswers ==
    /\ i \in Domain /\ leaked < FdLimit
    /\ Goes("lookup", "running")
    /\ leaked' = leaked + 1 /\ i' = 0
    /\ Apart /\ UNCHANGED wifiVars

\* domain[i] is no string: getaddrinfo finds nothing, or the program dies.
WildLookup ==
    /\ i \notin Domain /\ where = "lookup" /\ where' \in {"key", "crashed"}
    /\ Apart /\ UNCHANGED <<wifiVars, i, leaked>>

-----------------------------------------------------------------------------
(* The set-up, the prompts, the messages of the control topic *)

Work ==
    /\ where \in {"report", "setup"}
    /\ WifiStep
    /\ UNCHANGED <<panVars, deviceVars>>

\* fopen returns NULL for the file of a prompt.
PromptMissing ==
    /\ where \in {"report", "setup"} /\ where' = "crashed"
    /\ stage = "run" /\ prompt
    /\ Apart /\ UNCHANGED <<wifiVars, i, leaked>>

Order ==
    /\ where = "running"
    /\ \E o \in Orders : SendOrder(o)
    /\ UNCHANGED <<audioVars, wifiVars, deviceVars>>

\* A field that panMsgDeal needs is missing.
OrderCrashes ==
    /\ Goes("running", "crashed") /\ talk = "none"
    /\ \E o \in Orders : ~Complete(o)
    /\ Apart /\ UNCHANGED <<wifiVars, i, leaked>>

\* The exchange with the head goes on.
Talk ==
    /\ where \notin {"off", "crashed"}
    /\ OrderEnds \/ HeadHears \/ Echo
    /\ UNCHANGED <<audioVars, wifiVars, deviceVars>>

-----------------------------------------------------------------------------
Down ==
    /\ where' = "off" /\ i' = 0 /\ leaked' = 0
    /\ WifiDown /\ PanDown

\* configureWIFI ends so.
Reboot == job = "reboot" /\ where = "setup" /\ Down

PowerCut == where # "off" /\ Down

Own ==
    \/ Check \/ CheckOverruns \/ Reported \/ Ask \/ KeyFails \/ Answered
    \/ LookupFails \/ NtpFails \/ NtpAnswers \/ WildLookup \/ Work \/ Reboot \/ Talk

Next ==
    \/ PowerOn \/ Own \/ Order \/ OrderCrashes \/ PromptMissing
    \/ PowerCut

Spec == Init /\ [][Next]_vars

\* The thread and the exchange under way go on; and, what the code cannot
\* bring about, one of the servers asked time and again answers some time.
FairSpec == Spec /\ WF_vars(Own) /\ SF_vars(NtpAnswers)

-----------------------------------------------------------------------------
\* The key starts a set-up only if the head has said so in answer to this
\* question: no fault of the line and no echo makes it so (wpa2APP.c:519-549).
KeyWasPressed ==
    [][where' = "setup" /\ where \in {"key", "running"} => saidKey]_vars

\* What is chosen is taken for a new device's if, without its blanks and
\* quotes, it has a new device's name and its password; or no password, since
\* the old one stays in the file.
TakenForNew(answers) ==
    /\ delspace(answers.ssid) = Factory.ssid
    /\ answers.psk = Empty \/ delspace(answers.psk) = Factory.psk

\* A device whose network was chosen and saved is not set up again at the next
\* boot, except for a choice that is taken for a new device's
\* (unidoliMainAPP.c:45; wpa2APP.c:174-272, 427-436 and 493-517).
SetUpOnce ==
    [][where = "check" /\ where' = "setup"
        => chosen = NoNetwork \/ TakenForNew(chosen)]_vars

\* The device runs in the end, or listens for another network: no set-up,
\* prompt, exchange or lookup holds it, unless it has used up its descriptors,
\* looks up domain[i] with a wild i, has died, or is off (unidoliMainAPP.c:45-76).
Boots ==
    []<>( \/ where \in {"running", "crashed", "off"}
          \/ stage = "run" /\ ~prompt
          \/ leaked = FdLimit \/ i = Wild )
=============================================================================
