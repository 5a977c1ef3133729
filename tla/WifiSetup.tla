------------------------------- MODULE WifiSetup -------------------------------
(***************************************************************************)
(* The set-up of the network (wpa2APP.c): configureWIFI asks for it with a *)
(* prompt, listens to the phone, hands what it heard to wpa_supplicant     *)
(* (set_wifi_config), confirms with another prompt and reboots.  The same  *)
(* prompts report the state of the network at boot.                        *)
(*                                                                         *)
(* Abstractions.  Of the one network of wpa_supplicant the name, the       *)
(* password and whether it is open are kept.  wpa_supplicant is external:  *)
(* it obeys a request, refuses it with a text nobody looks at, or does not *)
(* answer in time, having obeyed or not; saving is one step.  What the     *)
(* phone plays is any name and any password, each a sequence of characters *)
(* of which only the blank ones are told from the others.                  *)
(***************************************************************************)
EXTENDS AudioDevice

CONSTANTS
    Names, Passwords,
    Factory,        \* the name and password of a new device
    NotHeard, NoNetwork

Empty == <<>>   \* the empty name and password

\* What is read from the file of wpa_supplicant is without these characters.
Blanks == {" ", "\t", "\n", "\""}
delspace(text) == SelectSeq(text, LAMBDA c : c \notin Blanks)

ASSUME FactoryAssumption ==
    /\ Factory.ssid \in Names /\ Factory.psk \in Passwords \ {Empty}
    /\ delspace(Factory.ssid) = Factory.ssid /\ delspace(Factory.psk) = Factory.psk
ASSUME NamesAssumption ==
    NotHeard \notin Names \cup Passwords

VARIABLES
    job,         \* what the thread is at in configureWIFI or in the report
    heard,       \* the answers of the phone
    requests,    \* what set_wifi_config has still to ask for
    supplicant,  \* the network of the running wpa_supplicant
    stored,      \* the one in its configuration file
    chosen,      \* history: the answers saved last, NoNetwork unless both had
                 \* been heard and nothing refused
    harmed       \* history: not so in this set-up

wifiVars == <<job, heard, requests, supplicant, stored, chosen, harmed>>
network == <<supplicant, stored, chosen>>

NoAnswers == [ssid |-> NotHeard, psk |-> NotHeard]
New == [ssid |-> Factory.ssid, psk |-> Factory.psk, open |-> FALSE]

WifiInit ==
    /\ AudioInit
    /\ job = "none" /\ heard = NoAnswers /\ requests = <<>>
    /\ supplicant = New /\ stored = New
    /\ chosen = NoNetwork /\ harmed = FALSE

\* strcpy into buffers that were cleared
Text(answer) == IF answer = NotHeard THEN Empty ELSE answer
Ssid == Text(heard.ssid)
Passwd == Text(heard.psk)
AllHeard == NotHeard \notin {heard.ssid, heard.psk}

-----------------------------------------------------------------------------
(* The services *)

Prompts == {"ask", "confirm", "report"}

Serve ==
    /\ \/ job \in Prompts /\ StartPrompt /\ UNCHANGED heard
       \/ job = "listen" /\ StartListen /\ heard' = NoAnswers
    /\ UNCHANGED <<job, requests, network, harmed>>

\* An answer: 'S' and the name, or 'P' and the password; one of a kind that
\* has been heard is replaced.
Hear ==
    /\ stage = "run" /\ ~prompt /\ "ai" \in media /\ ~AllHeard
    /\ \/ \E n \in Names : heard' = [heard EXCEPT !.ssid = n]
       \/ \E p \in Passwords : heard' = [heard EXCEPT !.psk = p]
    /\ UNCHANGED <<audioVars, job, requests, network, harmed>>

ServiceStep ==
    /\ AudioStep \/ (Finish /\ (prompt \/ AllHeard))
    /\ UNCHANGED wifiVars

\* Its result is only printed.
PromptReturns ==
    /\ Return
    /\ \/ job = "ask" /\ job' = "listen"
       \/ job = "confirm" /\ job' = "reboot"
       \/ job = "report" /\ job' = "none"
    /\ UNCHANGED <<heard, requests, network, harmed>>

-----------------------------------------------------------------------------
(* set_wifi_config *)

\* Mutant: the network is saved before the password is sent.
RequestListSavedEarly ==
    IF Passwd = Empty THEN <<"ssid", "none", "save", "enable">>
    ELSE <<"ssid", "wpa", "save", "psk", "enable">>

RequestList ==
    IF Passwd = Empty THEN <<"ssid", "none", "save", "enable">>
    ELSE <<"ssid", "wpa", "psk", "save", "enable">>

\* Whatever the outcome of the service was, what it has left in the buffers is
\* set, unless wpa_ctrl_open fails.
ListenReturns ==
    /\ Return
    /\ job = "listen" /\ job' = "set"
    /\ requests' \in {RequestList, <<>>}
    /\ harmed' = ~AllHeard
    /\ UNCHANGED <<heard, network>>

Obeyed(r) ==
    /\ supplicant' = CASE r = "ssid" -> [supplicant EXCEPT !.ssid = Ssid]
                       [] r = "none" -> [supplicant EXCEPT !.open = TRUE]
                       [] r = "wpa"  -> [supplicant EXCEPT !.open = FALSE]
                       [] r = "psk"  -> [supplicant EXCEPT !.psk = Passwd]
                       [] OTHER -> supplicant
    /\ IF r = "save"
       THEN /\ stored' = supplicant
            /\ chosen' = IF harmed THEN NoNetwork ELSE [ssid |-> Ssid, psk |-> Passwd]
       ELSE UNCHANGED <<stored, chosen>>

NotObeyed == UNCHANGED network

\* wpa_ctrl_request returns 0; the answer, OK or FAIL, is only printed.
Request ==
    /\ job = "set" /\ requests # <<>> /\ requests' = Tail(requests)
    /\ \/ Obeyed(Head(requests)) /\ UNCHANGED harmed
       \/ NotObeyed /\ harmed' = TRUE
    /\ UNCHANGED <<audioVars, job, heard>>

\* It returns something else: set_wifi_config gives up.
RequestFails ==
    /\ job = "set" /\ requests # <<>> /\ requests' = <<>>
    /\ Obeyed(Head(requests)) \/ NotObeyed
    /\ UNCHANGED <<audioVars, job, heard, harmed>>

\* The result of set_wifi_config is only printed.
SetReturns ==
    /\ job = "set" /\ requests = <<>> /\ job' = "confirm"
    /\ UNCHANGED <<audioVars, heard, requests, network, harmed>>

WifiStep ==
    Serve \/ Hear \/ ServiceStep \/ PromptReturns \/ ListenReturns \/ Request \/ RequestFails \/ SetReturns

\* The device goes down: what is in the file stays.
WifiDown ==
    /\ stage' = "idle" /\ prompt' = FALSE /\ media' = {} /\ trouble' = {}
    /\ amplifier' = FALSE
    /\ job' = "none" /\ heard' = NoAnswers /\ requests' = <<>> /\ harmed' = FALSE
    /\ supplicant' = stored /\ UNCHANGED <<stored, chosen>>

-----------------------------------------------------------------------------
\* Mutant: the name alone tells.
LooksNewByName(net) == delspace(net.ssid) = Factory.ssid

\* Two searches in the file (getWIFIConfigureStasus), which look at the name
\* and the password only.
LooksNew(net) ==
    delspace(net.ssid) = Factory.ssid /\ delspace(net.psk) = Factory.psk

\* The stored network is the one that was chosen, whole, although it is set in
\* four or five requests (wpa2APP.c:174-272) and any of them may fail or the
\* power be cut between them: only a refused request and an answer that was
\* not heard can make it another.
StoredIsChosen ==
    chosen # NoNetwork =>
        /\ stored.ssid = chosen.ssid
        /\ stored.open = (chosen.psk = Empty)
        /\ ~stored.open => stored.psk = chosen.psk
=============================================================================
