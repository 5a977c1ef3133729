------------------------------- MODULE Supervisor -------------------------------
(***************************************************************************)
(* The main loop and the network thread (unidoliMainAPP.c) once the device *)
(* has booted: main() starts the services, checks the network once a       *)
(* minute and stops or restarts them; networkStatusPthread looks up a host *)
(* every three seconds, records a success in netStatus and watches the     *)
(* configuration key.  The two threads share netStatus without a lock.     *)
(*                                                                         *)
(* Abstractions.  The services are the last command given to them.  Time   *)
(* is the number of lookups the network thread completes during one of     *)
(* main's sleeps.  A lookup of a host fails exactly when the network is    *)
(* down.  i, uninitialized in networkStatusPthread, starts anywhere in     *)
(* FirstIndex; Beyond stands for every index above the array, which grows  *)
(* without ever reaching the wrap at 3.                                    *)
(***************************************************************************)
EXTENDS Integers

CONSTANTS
    FirstIndex,      \* what the uninitialized i may hold
    Beyond,          \* an index past domain[]
    ThreadLimit,     \* threads the process can create; none is ever joined
    ProbesPerSleep,  \* lookups completed during one sleep(60), at least
    MaxChecks        \* bound of the counter of checks made offline

Domain == 0..2       \* indices of domain[]

ASSUME SupervisorAssumption ==
    /\ FirstIndex \subseteq Int
    /\ Beyond \in Int /\ Beyond > 3
    /\ ThreadLimit \in Nat /\ ProbesPerSleep \in Nat /\ MaxChecks \in Nat

VARIABLES
    mainPc, netPc,   \* where main and networkStatusPthread are
    i,               \* index of the host to look up
    netStatus,       \* 1 once a lookup has succeeded, cleared by main
    lastNetStatus,   \* 1 while main wants the services up
    threads,         \* threads created
    proc,            \* "up", "exited", "rebooting", "crashed"
    online,          \* the network
    probes,          \* lookups completed since main began its sleep
    \* history variables
    command,         \* last command to the services: "none", "start", "stop"
    missed,          \* main stopped the services but noted the network as up
    restarts,        \* starts of the services since the key was pressed
    steady,          \* since main cleared netStatus the network has been up and i in
                     \* the array
    checks           \* checks main has made since the network went down

history == <<command, missed, restarts, steady, checks>>
vars == <<mainPc, netPc, i, netStatus, lastNetStatus, threads, proc, online, probes, history>>

MainLabels == {"net", "mqtt", "rtmp", "settle", "sleep", "back?", "lost?", "note",
               "usr2", "usr1", "clear"}
NetLabels  == {"none", "sleep", "key", "lookup", "store", "configureWIFI"}

Lesser(a, b) == IF a < b THEN a ELSE b

\* After the boot loop: netStatus and lastNetStatus have just been set.
Init ==
    /\ mainPc = "net" /\ netPc = "none" /\ i \in FirstIndex
    /\ netStatus = 1 /\ lastNetStatus = 1
    /\ threads = 0 /\ proc = "up"
    /\ online \in BOOLEAN /\ probes = 0
    /\ command = "none" /\ missed = FALSE /\ restarts = 0
    /\ steady = FALSE /\ checks = 0

-----------------------------------------------------------------------------
(* main. *)

MainAt(l, m) == mainPc = l /\ mainPc' = m

\* pthread_create; when it fails main returns and the process ends.
CreateThread(l, m) ==
    \/ /\ threads < ThreadLimit
       /\ threads' = threads + 1
       /\ MainAt(l, m)
       /\ UNCHANGED proc
    \/ /\ threads = ThreadLimit
       /\ mainPc = l /\ proc' = "exited"
       /\ UNCHANGED <<threads, mainPc>>

CreateNet ==
    /\ CreateThread("net", "mqtt")
    /\ netPc' = IF proc' = "up" THEN "sleep" ELSE netPc
    /\ UNCHANGED <<i, netStatus, lastNetStatus, online, probes, history>>

CreateMqtt ==
    /\ CreateThread("mqtt", "rtmp")
    /\ UNCHANGED <<netPc, i, netStatus, lastNetStatus, online, probes, history>>

CreateRtmp ==
    /\ CreateThread("rtmp", "settle")
    /\ command' = IF proc' = "up" THEN "start" ELSE command
    /\ restarts' = IF proc' = "up" /\ netPc = "configureWIFI" THEN restarts + 1 ELSE restarts
    /\ UNCHANGED <<netPc, i, netStatus, lastNetStatus, online, probes, missed, steady, checks>>

Settle ==
    /\ MainAt("settle", "sleep")
    /\ probes' = 0
    /\ UNCHANGED <<netPc, i, netStatus, lastNetStatus, threads, proc, online, history>>

Wake ==
    /\ MainAt("sleep", "back?")
    /\ probes >= ProbesPerSleep \/ netPc = "configureWIFI"
    /\ checks' = IF online THEN 0 ELSE Lesser(checks + 1, MaxChecks)
    /\ UNCHANGED <<netPc, i, netStatus, lastNetStatus, threads, proc, online, probes,
                   command, missed, restarts, steady>>

\* Mutant: lastNetStatus is not tested.
SeesNetBackAnyway ==
    /\ MainAt("back?", "mqtt")
    /\ netStatus = 1
    /\ lastNetStatus' = netStatus
    /\ steady' = (online /\ i \in Domain)
    /\ UNCHANGED <<netPc, i, netStatus, threads, proc, online, probes,
                   command, missed, restarts, checks>>

\* Mutant: lastNetStatus is not set.
SeesNetBackForgets ==
    /\ MainAt("back?", "mqtt")
    /\ lastNetStatus = 0 /\ netStatus = 1
    /\ steady' = (online /\ i \in Domain)
    /\ UNCHANGED <<netPc, i, netStatus, lastNetStatus, threads, proc, online, probes,
                   command, missed, restarts, checks>>

\* The network is back: goto restart, which passes by the clearing of netStatus.
SeesNetBack ==
    /\ MainAt("back?", "mqtt")
    /\ lastNetStatus = 0 /\ netStatus = 1
    /\ lastNetStatus' = netStatus
    /\ steady' = (online /\ i \in Domain)
    /\ UNCHANGED <<netPc, i, netStatus, threads, proc, online, probes,
                   command, missed, restarts, checks>>

SeesNoNetBack ==
    /\ MainAt("back?", "lost?")
    /\ ~(lastNetStatus = 0 /\ netStatus = 1)
    /\ UNCHANGED <<netPc, i, netStatus, lastNetStatus, threads, proc, online, probes, history>>

\* Mutant: netStatus is not tested.
SeesNetLostAnyway ==
    /\ MainAt("lost?", "note")
    /\ lastNetStatus = 1
    /\ UNCHANGED <<netPc, i, netStatus, lastNetStatus, threads, proc, online, probes, history>>

SeesNetLost ==
    /\ MainAt("lost?", "note")
    /\ lastNetStatus = 1 /\ netStatus = 0
    /\ UNCHANGED <<netPc, i, netStatus, lastNetStatus, threads, proc, online, probes, history>>

SeesNoNetLost ==
    /\ MainAt("lost?", "clear")
    /\ ~(lastNetStatus = 1 /\ netStatus = 0)
    /\ UNCHANGED <<netPc, i, netStatus, lastNetStatus, threads, proc, online, probes, history>>

\* Mutant: the loss is not noted.
NoteNetLostForgets ==
    /\ MainAt("note", "usr2")
    /\ missed' = (netStatus = 1)
    /\ UNCHANGED <<netPc, i, netStatus, lastNetStatus, threads, proc, online, probes,
                   command, restarts, steady, checks>>

\* lastNetStatus = netStatus reads netStatus once more.
NoteNetLost ==
    /\ MainAt("note", "usr2")
    /\ lastNetStatus' = netStatus
    /\ missed' = (netStatus = 1)
    /\ UNCHANGED <<netPc, i, netStatus, threads, proc, online, probes,
                   command, restarts, steady, checks>>

StopMqtt ==
    /\ MainAt("usr2", "usr1")
    /\ UNCHANGED <<netPc, i, netStatus, lastNetStatus, threads, proc, online, probes, history>>

StopRtmp ==
    /\ MainAt("usr1", "clear")
    /\ command' = "stop"
    /\ UNCHANGED <<netPc, i, netStatus, lastNetStatus, threads, proc, online, probes,
                   missed, restarts, steady, checks>>

\* Mutant: the success is kept.
ClearNetStatusForgets ==
    /\ MainAt("clear", "sleep")
    /\ probes' = 0
    /\ steady' = (online /\ i \in Domain)
    /\ UNCHANGED <<netPc, i, netStatus, lastNetStatus, threads, proc, online,
                   command, missed, restarts, checks>>

ClearNetStatus ==
    /\ MainAt("clear", "sleep")
    /\ netStatus' = 0
    /\ probes' = 0
    /\ steady' = (online /\ i \in Domain)
    /\ UNCHANGED <<netPc, i, lastNetStatus, threads, proc, online,
                   command, missed, restarts, checks>>

-----------------------------------------------------------------------------
(* networkStatusPthread. *)

NetAt(l, m) == netPc = l /\ netPc' = m
Probed == probes' = Lesser(probes + 1, ProbesPerSleep)

\* i++ and the wrap; an index above the array is not wrapped.
NetWake ==
    /\ NetAt("sleep", "key")
    /\ i' = IF i + 1 = 3 THEN 0 ELSE Lesser(i + 1, Beyond)
    /\ UNCHANGED <<mainPc, netStatus, lastNetStatus, threads, proc, online, probes, history>>

KeyNotPressed ==
    /\ NetAt("key", "lookup")
    /\ UNCHANGED <<mainPc, i, netStatus, lastNetStatus, threads, proc, online, probes, history>>

\* Both signals are raised, then the device is configured anew.
KeyPressed ==
    /\ NetAt("key", "configureWIFI")
    /\ command' = "stop" /\ restarts' = 0
    /\ UNCHANGED <<mainPc, i, netStatus, lastNetStatus, threads, proc, online, probes,
                   missed, steady, checks>>

\* configureWIFI always ends in a reboot.
Reboot ==
    /\ netPc = "configureWIFI"
    /\ proc' = "rebooting"
    /\ UNCHANGED <<mainPc, netPc, i, netStatus, lastNetStatus, threads, online, probes, history>>

LookupSucceeds ==
    /\ NetAt("lookup", "store")
    /\ i \in Domain /\ online
    /\ UNCHANGED <<mainPc, i, netStatus, lastNetStatus, threads, proc, online, probes, history>>

LookupFails ==
    /\ NetAt("lookup", "sleep")
    /\ i \notin Domain \/ ~online
    /\ Probed
    /\ UNCHANGED <<mainPc, i, netStatus, lastNetStatus, threads, proc, online, history>>

\* domain[i] read outside the array is any pointer.
LookupCrashes ==
    /\ netPc = "lookup" /\ i \notin Domain
    /\ proc' = "crashed"
    /\ UNCHANGED <<mainPc, netPc, i, netStatus, lastNetStatus, threads, online, probes, history>>

StoreNetStatus ==
    /\ NetAt("store", "sleep")
    /\ netStatus' = 1
    /\ Probed
    /\ UNCHANGED <<mainPc, i, lastNetStatus, threads, proc, online, history>>

-----------------------------------------------------------------------------
(* The rest of the world. *)

NetChanges ==
    /\ online' = ~online
    /\ steady' = (steady /\ online')
    /\ checks' = 0
    /\ UNCHANGED <<mainPc, netPc, i, netStatus, lastNetStatus, threads, proc, probes,
                   command, missed, restarts>>

\* SIGINT or SIGTERM: the services are stopped and the process exits.
Termination ==
    /\ command' = "stop" /\ proc' = "exited"
    /\ UNCHANGED <<mainPc, netPc, i, netStatus, lastNetStatus, threads, online, probes,
                   missed, restarts, steady, checks>>

MainStep == \/ CreateNet \/ CreateMqtt \/ CreateRtmp \/ Settle \/ Wake
            \/ SeesNetBack \/ SeesNoNetBack \/ SeesNetLost \/ SeesNoNetLost
            \/ NoteNetLost \/ StopMqtt \/ StopRtmp \/ ClearNetStatus
NetStep  == \/ NetWake \/ KeyNotPressed \/ KeyPressed \/ Reboot
            \/ LookupSucceeds \/ LookupFails \/ LookupCrashes \/ StoreNetStatus

Next == proc = "up" /\ (MainStep \/ NetStep \/ NetChanges \/ Termination)

\* Both threads are scheduled; nothing obliges the network, the key or an
\* operator to do anything.
Fairness == WF_vars(proc = "up" /\ MainStep) /\ WF_vars(proc = "up" /\ NetStep)

Spec == Init /\ [][Next]_vars /\ Fairness

-----------------------------------------------------------------------------
(* Properties. *)

TypeOK ==
    /\ mainPc \in MainLabels /\ netPc \in NetLabels
    /\ i \in Int
    /\ netStatus \in {0, 1} /\ lastNetStatus \in {0, 1}
    /\ threads \in 0..ThreadLimit
    /\ proc \in {"up", "exited", "rebooting", "crashed"}
    /\ online \in BOOLEAN
    /\ probes \in 0..ProbesPerSleep
    /\ command \in {"none", "start", "stop"}
    /\ missed \in BOOLEAN /\ steady \in BOOLEAN
    /\ restarts \in Nat /\ checks \in 0..MaxChecks

\* main never starts the services while they run: each start has been preceded by a
\* stop, whatever the network thread writes in between (unidoliMainAPP.c:102-111).
NoSecondStart ==
    [][mainPc = "rtmp" /\ mainPc' = "settle" => command # "start"]_vars

\* While main sleeps, what it believes is what it has ordered, unless a lookup
\* succeeded between its test and its copy of netStatus (unidoliMainAPP.c:107-109) or
\* the network thread has stopped the services itself for the key.
BeliefMatchesCommand ==
    mainPc = "sleep" /\ proc = "up" /\ netPc # "configureWIFI" /\ ~missed
        => (lastNetStatus = 1 <=> command = "start")

\* The services come back at most once while the device is being configured: a
\* success recorded before the key was pressed is used up (unidoliMainAPP.c:131-139).
AtMostOneRestartAfterKey == restarts <= 1

\* main never declares the network lost when it was up all the time since netStatus
\* was cleared and the index was in the array already, if a lookup starts and ends
\* during each sleep (unidoliMainAPP.c:100-113).
NoFalseLoss ==
    ProbesPerSleep >= 2 /\ mainPc = "note" /\ steady => netPc = "configureWIFI"

\* The services are stopped at the fourth check on a dead network at the latest: a
\* lookup under way when the network goes down may restart them on its stale success,
\* and the restart does not clear netStatus (unidoliMainAPP.c:102-113).
LossNoticedInTime ==
    ProbesPerSleep >= 2 /\ mainPc = "sleep" /\ proc = "up" /\ checks >= 4
        => command # "start"

\* A network that stays down ends the services.
LossEndsServices ==
    <>[](~online) => <>[](command # "start" \/ proc # "up")

\* A network that stays up brings the services back, except after a loss noted as
\* "up", in a device being configured, and with an index outside the array.
ReturnRestoresServices ==
    <>[](online /\ netPc # "configureWIFI" /\ ~missed /\ i \in Domain)
        => <>[](command = "start" \/ proc # "up")
=============================================================================
