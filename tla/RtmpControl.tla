------------------------------ MODULE RtmpControl ------------------------------
(***************************************************************************)
(* Start and stop of the RTMP stream (rtmp.c).                             *)
(*                                                                         *)
(* rtmpStart and rtmpStop are signal handlers: rtmpStop runs on SIGUSR1,   *)
(* rtmpStart on SIGALRM (the 11 hour timer) and SIGCHLD (a new             *)
(* configuration, and every child of system()), and rtmpPthread calls      *)
(* rtmpStart(SIGIO) directly.  A handler runs in whichever thread the      *)
(* signal is delivered to, on top of what that thread was doing; only its  *)
(* own signal is blocked while it runs (signal() has BSD semantics).  So   *)
(* several activations may be under way in different threads, and nested   *)
(* in one thread.  An activation is identified by its thread and by the    *)
(* argument signo; "SECRET" stands for getSecret, called by mqtt_client,   *)
(* which takes the same curl_mutex as getpushurl.                          *)
(*                                                                         *)
(* Abstractions.  A configuration is the number of the write that made it  *)
(* (0 is the shipped file); the file is read in one step.  A failed HTTP   *)
(* request is retried for ever with the mutex held, which is a stuttering  *)
(* step here.  The streaming library (a binary) is an on/off flag with the *)
(* configuration it was launched with; a call that stops or launches it    *)
(* may fail, and the code goes on as if it had not.                        *)
(***************************************************************************)
EXTENDS Naturals, Sequences

CONSTANTS
    Main, Net, Mqtt,  \* the threads of main(), networkStatusPthread, MqttPthread
    RtmpThreads,      \* the threads running rtmpPthread, one for each (re)start
    NoThread,
    AutoConfs,        \* configurations with urlFrom = "auto": the URL is fetched
    AsyncSignals,     \* process-directed signals that occur: ALRM, CHLD
    MaxConf,          \* bound: configurations that arrive
    MaxAsync          \* bound: process-directed signals delivered

Threads == {Main, Net, Mqtt} \cup RtmpThreads
StartFrames == {"IO", "ALRM", "CHLD"}         \* activations of rtmpStart
StopFrames  == {"USR1"}                       \* activations of rtmpStop
Frames == StartFrames \cup StopFrames \cup {"SECRET"}
Confs  == 0..MaxConf

ASSUME ThreadsAssumption ==
    /\ NoThread \notin Threads
    /\ Main # Net /\ Main # Mqtt /\ Net # Mqtt
    /\ RtmpThreads \cap {Main, Net, Mqtt} = {}
ASSUME BoundsAssumption ==
    /\ MaxConf \in Nat /\ MaxAsync \in Nat
    /\ AsyncSignals \subseteq {"ALRM", "CHLD"}

VARIABLES
    pc,             \* the next step of each activation, "idle" when there is none
    nest,           \* per thread, its activations, the one that runs first
    snap,           \* the configuration an activation of rtmpStart has read
    rtmp_status,    \* the program's flag: 1 once started, 0 once stopped
    curl_mutex,     \* the thread that holds it
    conf,           \* contents of ./unidoli.conf
    libconf,        \* argument of the last unidoli_rtmp_set_config
    stream,         \* the library: streaming or not, and with what
    lastNetStatus,  \* main()'s variable: 1 while it wants the services up
    life,           \* of MqttPthread and the rtmpPthreads
    installed,      \* some rtmpPthread has installed the three handlers
    configuring,    \* networkStatusPthread is in configureWIFI, which ends in a reboot
    up,             \* the process runs
    async,          \* process-directed signals delivered so far
    \* history variables, read by no guard
    failed,         \* the last call of the library, to stop or launch the stream, failed
    raced,          \* rtmpStop and rtmpStart overlapped
    reordered,      \* an older configuration was set over a newer one
    missed          \* main() stopped the services and noted the network as up

vars == <<pc, nest, snap, rtmp_status, curl_mutex, conf, libconf, stream,
          lastNetStatus, life, installed, configuring, up, async,
          failed, raced, reordered, missed>>

lib     == <<libconf, stream>>
threads == <<lastNetStatus, life, installed, configuring, up>>
inputs  == <<conf, async>>
history == <<failed, raced, reordered, missed>>

StartLabels == {"guard", "mark", "halt", "read", "lock", "fetch", "apply", "launch"}
StopLabels  == {"stop", "clear"}
Labels == StartLabels \cup StopLabels \cup {"idle"}

\* The lines an activation goes through: those of its handler.
LabelsOf(f) == IF f \in StartFrames THEN StartLabels
               ELSE IF f \in StopFrames THEN StopLabels
               ELSE {"lock", "fetch"}

Init ==
    /\ pc = [t \in Threads |-> [f \in Frames |-> "idle"]]
    /\ nest = [t \in Threads |-> <<>>]
    /\ snap = [t \in Threads |-> [f \in Frames |-> 0]]
    /\ rtmp_status = 0
    /\ curl_mutex = NoThread
    /\ conf = 0 /\ libconf = 0
    /\ stream = [on |-> FALSE, conf |-> 0]
    /\ lastNetStatus = 1              \* the first rtmpPthread has been created
    /\ life \in [RtmpThreads \cup {Mqtt} -> {"none", "created"}]
    /\ life[Mqtt] = "created"
    /\ \E r \in RtmpThreads : \A s \in RtmpThreads : life[s] = "created" <=> s = r
    /\ installed = FALSE /\ configuring = FALSE /\ up = TRUE /\ async = 0
    /\ failed = FALSE /\ raced = FALSE /\ reordered = FALSE /\ missed = FALSE

-----------------------------------------------------------------------------
(* Activations. *)

At(t, f, l) == pc[t][f] = l /\ nest[t] # <<>> /\ f = Head(nest[t])
Goto(t, f, l) == pc' = [pc EXCEPT ![t][f] = l] /\ UNCHANGED nest
Return(t, f) == pc' = [pc EXCEPT ![t][f] = "idle"] /\ nest' = [nest EXCEPT ![t] = Tail(@)]

\* The kernel starts a handler for f on top of whatever t is doing.
Enter(t, f, l) == /\ pc[t][f] = "idle"
                  /\ pc' = [pc EXCEPT ![t][f] = l]
                  /\ nest' = [nest EXCEPT ![t] = <<f>> \o @]

Alive(t) == t \in DOMAIN life => life[t] = "live"

\* A start that a stop does not cancel: accepted, or the first of a new thread.
StartInFlight ==
    \/ \E t \in Threads, f \in StartFrames : pc[t][f] \in StartLabels \ {"guard"}
    \/ \E r \in RtmpThreads : life[r] = "created" \/ pc[r]["IO"] = "guard"
StopHalfDone  == \E t \in Threads, f \in StopFrames : pc[t][f] = "clear"

-----------------------------------------------------------------------------
(* rtmpStart. *)

\* A timer tick or a SIGCHLD while the stream is stopped is ignored.
StartIgnored(t, f) ==
    /\ At(t, f, "guard") /\ f \in {"ALRM", "CHLD"} /\ rtmp_status = 0
    /\ Return(t, f)
    /\ UNCHANGED <<snap, rtmp_status, curl_mutex, inputs, lib, threads, history>>

\* Mutant: the status is not tested.
StartAcceptedAlways(t, f) ==
    /\ At(t, f, "guard")
    /\ Goto(t, f, "mark")
    /\ raced' = (raced \/ StopHalfDone)
    /\ UNCHANGED <<snap, rtmp_status, curl_mutex, inputs, lib, threads,
                   failed, reordered, missed>>

StartAccepted(t, f) ==
    /\ At(t, f, "guard") /\ ~(f \in {"ALRM", "CHLD"} /\ rtmp_status = 0)
    /\ Goto(t, f, "mark")
    /\ raced' = (raced \/ StopHalfDone)
    /\ UNCHANGED <<snap, rtmp_status, curl_mutex, inputs, lib, threads,
                   failed, reordered, missed>>

\* Mutant: the flag is forgotten.
StartMarkForgets(t, f) ==
    /\ At(t, f, "mark")
    /\ Goto(t, f, "halt")
    /\ UNCHANGED <<snap, rtmp_status, curl_mutex, inputs, lib, threads, history>>

StartMark(t, f) ==
    /\ At(t, f, "mark")
    /\ rtmp_status' = 1
    /\ Goto(t, f, "halt")
    /\ UNCHANGED <<snap, curl_mutex, inputs, lib, threads, history>>

\* unidoli_rtmp_pthread_stop: a failure is printed at most.
LibraryStop ==
    \/ stream' = [on |-> FALSE, conf |-> 0] /\ failed' = FALSE
    \/ UNCHANGED stream /\ failed' = TRUE

StartHalt(t, f) ==
    /\ At(t, f, "halt")
    /\ LibraryStop
    /\ Goto(t, f, "read")
    /\ UNCHANGED <<snap, rtmp_status, curl_mutex, inputs, libconf, threads,
                   raced, reordered, missed>>

StartRead(t, f) ==
    /\ At(t, f, "read")
    /\ snap' = [snap EXCEPT ![t][f] = conf]
    /\ Goto(t, f, IF conf \in AutoConfs THEN "lock" ELSE "apply")
    /\ UNCHANGED <<rtmp_status, curl_mutex, inputs, lib, threads, history>>

\* The file cannot be opened: exit(1) from the handler.
StartNoFile(t, f) ==
    /\ At(t, f, "read")
    /\ up' = FALSE
    /\ UNCHANGED <<pc, nest, snap, rtmp_status, curl_mutex, inputs, lib, history,
                   lastNetStatus, life, installed, configuring>>

\* getpushurl and getSecret: pthread_mutex_lock on a plain mutex, so a second
\* lock by the thread that holds it waits for ever.
LockCurl(t, f) ==
    /\ At(t, f, "lock") /\ curl_mutex = NoThread
    /\ curl_mutex' = t
    /\ Goto(t, f, "fetch")
    /\ UNCHANGED <<snap, rtmp_status, inputs, lib, threads, history>>

\* Mutant: a return path that keeps the mutex.
FetchUrlKeepsMutex(t, f) ==
    /\ At(t, f, "fetch") /\ f # "SECRET"
    /\ Goto(t, f, "apply")
    /\ UNCHANGED <<snap, rtmp_status, curl_mutex, inputs, lib, threads, history>>

FetchUrl(t, f) ==
    /\ At(t, f, "fetch") /\ f # "SECRET"
    /\ curl_mutex' = NoThread
    /\ Goto(t, f, "apply")
    /\ UNCHANGED <<snap, rtmp_status, inputs, lib, threads, history>>

StartApply(t, f) ==
    /\ At(t, f, "apply")
    /\ libconf' = snap[t][f]
    /\ reordered' = (reordered \/ snap[t][f] < libconf)
    /\ snap' = [snap EXCEPT ![t][f] = 0]      \* not read again
    /\ Goto(t, f, "launch")
    /\ UNCHANGED <<rtmp_status, curl_mutex, inputs, stream, threads,
                   failed, raced, missed>>

StartLaunch(t, f) ==
    /\ At(t, f, "launch")
    /\ \/ stream' = [on |-> TRUE, conf |-> libconf] /\ failed' = FALSE
       \/ UNCHANGED stream /\ failed' = TRUE
    /\ Return(t, f)
    /\ UNCHANGED <<snap, rtmp_status, curl_mutex, inputs, libconf, threads,
                   raced, reordered, missed>>

-----------------------------------------------------------------------------
(* rtmpStop. *)

StopHalt(t, f) ==
    /\ At(t, f, "stop")
    /\ LibraryStop
    /\ raced' = (raced \/ StartInFlight)
    /\ Goto(t, f, "clear")
    /\ UNCHANGED <<snap, rtmp_status, curl_mutex, inputs, libconf, threads,
                   reordered, missed>>

\* Mutant: the flag stays.
StopClearForgets(t, f) ==
    /\ At(t, f, "clear")
    /\ Return(t, f)
    /\ UNCHANGED <<snap, rtmp_status, curl_mutex, inputs, lib, threads, history>>

StopClear(t, f) ==
    /\ At(t, f, "clear")
    /\ rtmp_status' = 0
    /\ Return(t, f)
    /\ UNCHANGED <<snap, curl_mutex, inputs, lib, threads, history>>

-----------------------------------------------------------------------------
(* The threads that call the handlers. *)

\* rtmpPthread installs the handlers, arms the timer and calls rtmpStart(SIGIO).
RtmpBegin(r) ==
    /\ life[r] = "created"
    /\ life' = [life EXCEPT ![r] = "live"]
    /\ installed' = TRUE
    /\ Enter(r, "IO", "guard")
    /\ UNCHANGED <<snap, rtmp_status, curl_mutex, inputs, lib, history,
                   lastNetStatus, up, configuring>>

\* ... and returns after a sleep.
RtmpEnd(r) ==
    /\ life[r] = "live" /\ nest[r] = <<>>
    /\ life' = [life EXCEPT ![r] = "gone"]
    /\ UNCHANGED <<pc, nest, snap, rtmp_status, curl_mutex, inputs, lib, history,
                   lastNetStatus, installed, up, configuring>>

\* mqtt_client finds the device secret in its file ...
MqttKnowsSecret ==
    /\ life[Mqtt] = "created" /\ nest[Mqtt] = <<>>
    /\ life' = [life EXCEPT ![Mqtt] = "live"]
    /\ UNCHANGED <<pc, nest, snap, rtmp_status, curl_mutex, inputs, lib, history,
                   lastNetStatus, installed, up, configuring>>

\* ... or asks the server for it first.
MqttAsksSecret ==
    /\ life[Mqtt] = "created"
    /\ life' = [life EXCEPT ![Mqtt] = "live"]
    /\ Enter(Mqtt, "SECRET", "lock")
    /\ UNCHANGED <<snap, rtmp_status, curl_mutex, inputs, lib, history,
                   lastNetStatus, installed, up, configuring>>

\* Mutant: a return path that keeps the mutex.
FetchSecretKeepsMutex(t, f) ==
    /\ At(t, f, "fetch") /\ f = "SECRET"
    /\ Return(t, f)
    /\ UNCHANGED <<snap, rtmp_status, curl_mutex, inputs, lib, threads, history>>

FetchSecret(t, f) ==
    /\ At(t, f, "fetch") /\ f = "SECRET"
    /\ curl_mutex' = NoThread
    /\ Return(t, f)
    /\ UNCHANGED <<snap, rtmp_status, inputs, lib, threads, history>>

\* Mutant: nobody is told of the new file.
ConfigArrivedSilent ==
    /\ life[Mqtt] = "live" /\ nest[Mqtt] = <<>> /\ conf < MaxConf
    /\ conf' = conf + 1
    /\ UNCHANGED <<pc, nest, snap, rtmp_status, curl_mutex, lib, threads, async, history>>

\* Mutant: kill(getpid(), SIGCHLD), which any thread may take.
ConfigArrivedKill ==
    /\ life[Mqtt] = "live" /\ nest[Mqtt] = <<>> /\ conf < MaxConf
    /\ conf' = conf + 1
    /\ IF installed THEN \E t \in Threads : Alive(t) /\ Enter(t, "CHLD", "guard")
                    ELSE UNCHANGED <<pc, nest>>
    /\ UNCHANGED <<snap, rtmp_status, curl_mutex, lib, threads, async, history>>

\* configArrived rewrites the file and raises SIGCHLD in its own thread.  Before
\* a handler is installed SIGCHLD is ignored.
ConfigArrived ==
    /\ life[Mqtt] = "live" /\ nest[Mqtt] = <<>> /\ conf < MaxConf
    /\ conf' = conf + 1
    /\ IF installed THEN Enter(Mqtt, "CHLD", "guard") ELSE UNCHANGED <<pc, nest>>
    /\ UNCHANGED <<snap, rtmp_status, curl_mutex, lib, threads, async, history>>

\* raise(SIGUSR1) in thread t; without a handler it kills the process.
RaiseUSR1(t) ==
    /\ nest[t] = <<>>
    /\ IF installed THEN Enter(t, "USR1", "stop") /\ UNCHANGED up
                    ELSE up' = FALSE /\ UNCHANGED <<pc, nest>>
    /\ UNCHANGED <<snap, rtmp_status, curl_mutex, inputs, lib,
                   life, installed, failed, raced, reordered>>

\* main() sees the network lost.  It copies netStatus, which may have become 1
\* since it was tested, and raises SIGUSR1 whatever it copied.
NetLost ==
    /\ lastNetStatus = 1 /\ lastNetStatus' \in {0, 1}
    /\ missed' = (lastNetStatus' = 1)
    /\ RaiseUSR1(Main)
    /\ UNCHANGED configuring

\* main() sees the network back: goto restart.
NetBack ==
    /\ lastNetStatus = 0 /\ nest[Main] = <<>>
    /\ lastNetStatus' = 1
    /\ \E r \in RtmpThreads : /\ life[r] = "none"
                              /\ life' = [life EXCEPT ![r] = "created"]
    /\ UNCHANGED <<pc, nest, snap, rtmp_status, curl_mutex, inputs, lib, history,
                   installed, up, configuring>>

\* networkStatusPthread sees the key pressed: it stops the services and stays in
\* configureWIFI until that reboots the device.
KeyPressed ==
    /\ ~configuring /\ configuring' = TRUE
    /\ RaiseUSR1(Net)
    /\ UNCHANGED <<lastNetStatus, missed>>

Reboot ==
    /\ configuring /\ nest[Net] = <<>>
    /\ up' = FALSE
    /\ UNCHANGED <<pc, nest, snap, rtmp_status, curl_mutex, lib, inputs, history,
                   lastNetStatus, life, installed, configuring>>

\* The timer expires or a child of system() exits: the signal is directed to the
\* process and any thread that does not block it may take it.
Deliver(t, f) ==
    /\ installed /\ Alive(t) /\ async < MaxAsync
    /\ f \in AsyncSignals
    /\ Enter(t, f, "guard")
    /\ async' = async + 1
    /\ UNCHANGED <<snap, rtmp_status, curl_mutex, conf, lib, threads, history>>

-----------------------------------------------------------------------------
(* The specification. *)

\* The activation on top of the others takes its step.
Step(t) == \E f \in Frames :
    /\ nest[t] # <<>> /\ f = Head(nest[t])
    /\ \/ StartIgnored(t, f) \/ StartAccepted(t, f) \/ StartMark(t, f) \/ StartHalt(t, f)
       \/ StartRead(t, f) \/ StartNoFile(t, f) \/ LockCurl(t, f) \/ FetchUrl(t, f)
       \/ StartApply(t, f) \/ StartLaunch(t, f)
       \/ StopHalt(t, f) \/ StopClear(t, f) \/ FetchSecret(t, f)

Environment ==
    \/ \E r \in RtmpThreads : RtmpBegin(r) \/ RtmpEnd(r)
    \/ MqttKnowsSecret \/ MqttAsksSecret \/ ConfigArrived
    \/ NetLost \/ NetBack \/ KeyPressed \/ Reboot
    \/ \E t \in Threads, f \in {"ALRM", "CHLD"} : Deliver(t, f)

Next == up /\ ((\E t \in Threads : Step(t)) \/ Environment)

\* Every thread runs: its next step is taken unless it waits for the mutex.  The
\* HTTP request is assumed to succeed in the end.
Fairness == \A t \in Threads : WF_vars(up /\ Step(t))

Spec == Init /\ [][Next]_vars /\ Fairness

-----------------------------------------------------------------------------
(* Properties. *)

\* The values the variables take.
ActivationsOK ==
    /\ pc \in [Threads -> [Frames -> Labels]]
    /\ \A t \in Threads, f \in Frames : pc[t][f] \in LabelsOf(f) \cup {"idle"}
    /\ nest \in [Threads -> Seq(Frames)]

TypeOK ==
    /\ ActivationsOK
    /\ snap \in [Threads -> [Frames -> Confs]]
    /\ rtmp_status \in {0, 1}
    /\ curl_mutex \in Threads \cup {NoThread}
    /\ conf \in Confs /\ libconf \in Confs
    /\ stream \in [on : BOOLEAN, conf : Confs]
    /\ lastNetStatus \in {0, 1}
    /\ life \in [RtmpThreads \cup {Mqtt} -> {"none", "created", "live", "gone"}]
    /\ installed \in BOOLEAN /\ configuring \in BOOLEAN /\ up \in BOOLEAN
    /\ async \in Nat
    /\ failed \in BOOLEAN /\ raced \in BOOLEAN /\ reordered \in BOOLEAN /\ missed \in BOOLEAN

Active(t) == nest[t] # <<>>
Quiet == \A t \in Threads : ~Active(t)

\* curl_mutex is held exactly while one activation, of the thread that owns the
\* mutex, is in its HTTP exchange (curlGetDat.c:17-56 and 79-122): no return path
\* keeps it and no two exchanges overlap, however the handlers nest.
MutexHeldByFetch ==
    /\ \A t \in Threads : curl_mutex = t <=> \E f \in Frames : pc[t][f] = "fetch"
    /\ \A t \in Threads : \A f, g \in Frames :
          pc[t][f] = "fetch" /\ pc[t][g] = "fetch" => f = g

\* The owner of curl_mutex runs a handler that wants curl_mutex.
SelfDeadlock ==
    \E t \in Threads, f \in Frames : curl_mutex = t /\ At(t, f, "lock")

CanStep(t) ==
    /\ Active(t) /\ pc[t][Head(nest[t])] # "idle"
    /\ pc[t][Head(nest[t])] = "lock" => curl_mutex = NoThread

\* While activations are under way one of them can go on, except when a handler
\* interrupted the exchange of its own thread and waits for the mutex that thread
\* holds (curlGetDat.c:17): there is no other way to block.
OnlySelfDeadlock ==
    (\E t \in Threads : Active(t)) => (\E t \in Threads : CanStep(t)) \/ SelfDeadlock

\* As long as no process-directed signal has been delivered no handler runs inside an
\* exchange of its thread: SIGCHLD raised by configArrived (iot.c:241) and SIGUSR1 raised by main
\* and networkStatusPthread arrive outside getSecret and getpushurl.
NoSelfDeadlock == async = 0 => ~SelfDeadlock

\* rtmp_status = 1 is not a lie: the stream is up, or the last call of the library
\* failed, or an activation that will launch or has halted it is still under way (rtmp.c:20-117).
StatusMeansStreaming ==
    rtmp_status = 1 /\ ~stream.on =>
        \/ failed
        \/ \E t \in Threads, f \in StartFrames \cup StopFrames :
              pc[t][f] \in {"halt", "read", "lock", "fetch", "apply", "launch", "clear"}

\* Nothing streams with rtmp_status = 0, the state in which timer ticks and new
\* configurations are ignored (rtmp.c:54), unless rtmpStop and rtmpStart overlapped or
\* the last call of the library failed (rtmpStop does not look, rtmp.c:25).
StoppedStaysStopped == ~raced /\ ~failed /\ stream.on => rtmp_status = 1

\* When all activations have returned the stream runs exactly if main() wants it, up to
\* a call of the library that failed, the key and an overlap of start and stop.  One
\* order of the steps of main() and of the network thread leaves it off though main()
\* has noted the network as up: netStatus becomes 1 between the test and the copy
\* (unidoliMainAPP.c:107-109), and the services are stopped until the network is lost
\* and comes back once more.  No other order of starts, ticks and configurations does.
FollowsMain ==
    /\ Quiet /\ \A r \in RtmpThreads : life[r] # "created"
    /\ ~raced /\ ~failed /\ ~configuring
    => (stream.on <=> lastNetStatus = 1 /\ ~missed)

\* When all activations have returned the stream uses the configuration in the file,
\* though each activation read it at another time, unless an activation has set an
\* older one over a newer one (rtmp.c:108), a start and a stop overlapped or the last
\* call of the library failed.
UsesLatestConf ==
    Quiet /\ stream.on /\ ~raced /\ ~reordered /\ ~failed => stream.conf = conf

\* Activations do not pile up: from any state on, all of them have returned at some
\* later time, or the process has ended, or a thread has locked itself out.
ActivationsEnd == []<>(Quiet \/ ~up \/ SelfDeadlock)
=============================================================================
