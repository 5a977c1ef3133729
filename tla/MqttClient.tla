------------------------------- MODULE MqttClient -------------------------------
(***************************************************************************)
(* The MQTT threads (iot.c).  Each start of the services creates a thread  *)
(* that runs mqtt_client once: it finds or fetches the device secret,      *)
(* authenticates, connects, subscribes, and then yields to the SDK until   *)
(* loop_mqtt is 0, which it sets to 1 again on its way out.  main() and    *)
(* networkStatusPthread stop the services by raise(SIGUSR2), whose handler *)
(* mqttStop clears loop_mqtt.  The flag belongs to no thread in particular *)
(* and nobody sets it when a client starts.                                *)
(*                                                                         *)
(* Abstractions.  The SDK and the server let a step pass or fail; the SDK  *)
(* reconnects by itself while a client yields.  What the handlers of the   *)
(* three topics do during a yield is in RtmpControl (configArrived) or     *)
(* keeps no state here.  The device secret is stored or not.               *)
(***************************************************************************)
EXTENDS Naturals

CONSTANTS
    MqttThreads,  \* the threads running MqttPthread, one for each (re)start
    First         \* the one created at boot

ASSUME FirstAssumption == First \in MqttThreads

VARIABLES
    pc,             \* per thread
    loop_mqtt,      \* the program's flag
    dvcSecret,      \* ./dvcSecret holds the secret
    lastNetStatus,  \* main()'s variable: 1 while it wants the services up
    installed,      \* some MqttPthread has installed mqttStop
    configuring,    \* networkStatusPthread is in configureWIFI
    up,             \* the process runs
    \* history variables, read by no guard
    command,        \* the last command to the services
    overlapped,     \* at the last start an earlier thread was still alive
    stale,          \* ... or loop_mqtt was 0 already
    gaveUp,         \* a client has failed since the last start
    missed          \* a stop has found no client to take it

vars == <<pc, loop_mqtt, dvcSecret, lastNetStatus, installed, configuring, up,
          command, overlapped, stale, gaveUp, missed>>

main    == <<lastNetStatus, configuring>>
history == <<command, overlapped, stale, gaveUp, missed>>

\* The steps of a client that another one follows if they succeed.
After == [alloc |-> "secret", fetch |-> "auth", auth |-> "construct",
          construct |-> "subscribe", subscribe |-> "version", version |-> "yield"]

Preparing == {"created", "secret"} \cup DOMAIN After
Serving   == {"yield", "test"}
Leaving   == {"reset", "leave"}
Labels    == {"none", "ended"} \cup Preparing \cup Serving \cup Leaving

Init ==
    /\ pc = [t \in MqttThreads |-> IF t = First THEN "created" ELSE "none"]
    /\ loop_mqtt = 1
    /\ dvcSecret \in BOOLEAN
    /\ lastNetStatus = 1
    /\ installed = FALSE /\ configuring = FALSE /\ up = TRUE
    /\ command = "start" /\ overlapped = FALSE /\ stale = FALSE
    /\ gaveUp = FALSE /\ missed = FALSE

-----------------------------------------------------------------------------
(* MqttPthread and mqtt_client. *)

Step(t, k, l) == pc[t] = k /\ pc' = [pc EXCEPT ![t] = l]

\* Mutant: the flag is set when the client starts.
BeginResets(t) ==
    /\ Step(t, "created", "alloc")
    /\ installed' = TRUE /\ loop_mqtt' = 1
    /\ UNCHANGED <<dvcSecret, main, up, history>>

\* signal(SIGUSR2, mqttStop).
Begin(t) ==
    /\ Step(t, "created", "alloc")
    /\ installed' = TRUE
    /\ UNCHANGED <<loop_mqtt, dvcSecret, main, up, history>>

\* The SDK, and the other steps on the way to the loop, succeed ...
Proceed(t) ==
    /\ \E k \in {"alloc", "auth", "construct", "subscribe", "version"} : Step(t, k, After[k])
    /\ UNCHANGED <<loop_mqtt, dvcSecret, main, installed, up, history>>

\* ... or fail: the client is destroyed and the thread ends, for good.
GiveUp(t) ==
    /\ \E k \in {"alloc", "auth", "construct", "subscribe"} : Step(t, k, "ended")
    /\ gaveUp' = TRUE
    /\ missed' = (missed \/ loop_mqtt = 0)
    /\ UNCHANGED <<loop_mqtt, dvcSecret, main, installed, up, command, overlapped, stale>>

\* open fails on dvcSecret or unidoli.ver: exit(1).
NoFile(t) ==
    /\ pc[t] \in {"secret", "version"}
    /\ up' = FALSE
    /\ UNCHANGED <<pc, loop_mqtt, dvcSecret, main, installed, history>>

ReadSecret(t) ==
    /\ Step(t, "secret", IF dvcSecret THEN "auth" ELSE "fetch")
    /\ UNCHANGED <<loop_mqtt, dvcSecret, main, installed, up, history>>

\* getSecret, retried until it succeeds, and the writing of the file, of which nobody
\* asks whether it succeeded.
FetchSecret(t) ==
    /\ Step(t, "fetch", After["fetch"])
    /\ dvcSecret' \in BOOLEAN
    /\ UNCHANGED <<loop_mqtt, main, installed, up, history>>

Yield(t) ==
    /\ Step(t, "yield", "test")
    /\ UNCHANGED <<loop_mqtt, dvcSecret, main, installed, up, history>>

\* Mutant: while (1)
TestLoopForever(t) ==
    /\ Step(t, "test", "yield")
    /\ UNCHANGED <<loop_mqtt, dvcSecret, main, installed, up, history>>

\* Mutant: a failed yield ends the loop.
TestLoopBreaks(t) ==
    /\ Step(t, "test", "reset") \/ (loop_mqtt = 1 /\ Step(t, "test", "yield"))
    /\ UNCHANGED <<loop_mqtt, dvcSecret, main, installed, up, history>>

\* while (loop_mqtt)
TestLoop(t) ==
    /\ Step(t, "test", IF loop_mqtt = 1 THEN "yield" ELSE "reset")
    /\ UNCHANGED <<loop_mqtt, dvcSecret, main, installed, up, history>>

\* Mutant: the flag stays 0.
ResetForgets(t) ==
    /\ Step(t, "reset", "leave")
    /\ UNCHANGED <<loop_mqtt, dvcSecret, main, installed, up, history>>

Reset(t) ==
    /\ Step(t, "reset", "leave")
    /\ loop_mqtt' = 1
    /\ UNCHANGED <<dvcSecret, main, installed, up, history>>

\* Unsubscribes, destroys the client and returns.
Leave(t) ==
    /\ Step(t, "leave", "ended")
    /\ UNCHANGED <<loop_mqtt, dvcSecret, main, installed, up, history>>

Client(t) == \/ Begin(t) \/ Proceed(t) \/ GiveUp(t) \/ NoFile(t) \/ ReadSecret(t)
             \/ FetchSecret(t) \/ Yield(t) \/ TestLoop(t) \/ Reset(t) \/ Leave(t)

-----------------------------------------------------------------------------
(* The threads that start and stop the services. *)

Alive(t) == pc[t] \notin {"none", "ended"}

\* A client that is going to test loop_mqtt.
Takes(t) == pc[t] \in Preparing \cup Serving

\* raise(SIGUSR2): mqttStop runs in the raising thread; without a handler the
\* signal kills the process.
RaiseUSR2 ==
    /\ command' = "stop"
    /\ IF installed THEN loop_mqtt' = 0 /\ UNCHANGED up
                    ELSE up' = FALSE /\ UNCHANGED loop_mqtt
    /\ missed' = (missed \/ ~\E t \in MqttThreads : Takes(t))
    /\ UNCHANGED <<pc, dvcSecret, installed, overlapped, stale, gaveUp>>

\* main() sees the network lost.  It copies netStatus, which may have become 1
\* since it was tested, and raises SIGUSR2 whatever it copied.
NetLost ==
    /\ lastNetStatus = 1 /\ lastNetStatus' \in {0, 1}
    /\ RaiseUSR2
    /\ UNCHANGED configuring

\* main() sees it back and creates a thread.
NetBack ==
    /\ lastNetStatus = 0 /\ lastNetStatus' = 1
    /\ \E t \in MqttThreads : Step(t, "none", "created")
    /\ command' = "start"
    /\ overlapped' = \E t \in MqttThreads : Alive(t)
    /\ stale' = (loop_mqtt = 0)
    /\ gaveUp' = FALSE
    /\ UNCHANGED <<loop_mqtt, dvcSecret, configuring, installed, up, missed>>

KeyPressed ==
    /\ ~configuring /\ configuring' = TRUE
    /\ RaiseUSR2
    /\ UNCHANGED lastNetStatus

\* configureWIFI ends in a reboot.
Reboot ==
    /\ configuring
    /\ up' = FALSE
    /\ UNCHANGED <<pc, loop_mqtt, dvcSecret, main, installed, history>>

Next == up /\ ((\E t \in MqttThreads : Client(t)) \/ NetLost \/ NetBack \/ KeyPressed \/ Reboot)

\* getSecret is asked while the network is lost: it has no timeout and no limit of
\* attempts (curlGetDat.c:99-127), so it need not come back.
Held(t) == pc[t] = "fetch" /\ lastNetStatus = 0

\* Each thread runs; the SDK comes back in the end, with an answer or without, and
\* getSecret does while the network is up.
Fairness == \A t \in MqttThreads : WF_vars(up /\ ~Held(t) /\ Client(t))

Spec == Init /\ [][Next]_vars /\ Fairness

-----------------------------------------------------------------------------
(* Properties. *)

TypeOK ==
    /\ pc \in [MqttThreads -> Labels]
    /\ loop_mqtt \in {0, 1} /\ lastNetStatus \in {0, 1}
    /\ command \in {"start", "stop"}
    /\ \A b \in {dvcSecret, installed, configuring, up, overlapped, stale, gaveUp, missed} : b \in BOOLEAN

\* A stop reaches the client it is meant for, wherever that is on its way to the loop
\* or in it (iot.c:30-33 and 426-459), also when a second stop follows the first,
\* provided no thread of an earlier start was left that could take the stop instead.
StopReachesClient ==
    command = "stop" /\ up /\ ~overlapped /\ (\E t \in MqttThreads : Takes(t))
        => loop_mqtt = 0

\* A stop is spent on the client that takes it: when all threads have ended loop_mqtt
\* is 1 again for the next one, unless some stop found no client, or one that failed
\* before its loop (iot.c:459-460).
StopIsSpent ==
    ~missed /\ (\A t \in MqttThreads : ~Alive(t)) => loop_mqtt = 1

\* A client leaves its loop only for a stop meant for it: not for one that an earlier
\* client took no notice of (loop_mqtt was 0 at the start), nor for one that an
\* earlier thread was to take (iot.c:459-460).
NoClientLeavesUnasked ==
    [][\A t \in MqttThreads : pc[t] = "test" /\ pc'[t] = "reset"
          => command = "stop" \/ overlapped \/ stale]_vars

\* The services stopped for good are without MQTT client in the end, but for one that
\* is held in getSecret by the loss of the network that stopped it (iot.c:293) ...
StopEndsClients ==
    <>[](command = "stop" /\ ~overlapped)
        => <>[](~up \/ \A t \in MqttThreads : ~Alive(t) \/ Held(t))

\* ... and started for good they have one, unless it failed to connect: nothing tries
\* again (iot.c:322-381).
StartIsServed ==
    <>[](command = "start" /\ ~overlapped /\ ~stale /\ ~gaveUp)
        => <>[](~up \/ \E t \in MqttThreads : pc[t] \in Serving)
=============================================================================
