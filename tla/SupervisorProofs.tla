---------------------------- MODULE SupervisorProofs ----------------------------
(***************************************************************************)
(* Theorems about Supervisor, for any index, any number of threads and any *)
(* number of lookups per sleep.                                            *)
(***************************************************************************)
EXTENDS Supervisor, TLAPS

\* Counters stop at their bounds.
LEMMA LesserFacts ==
    /\ \A m \in Nat : 0 \in 0..m
    /\ \A m \in Nat : \A a \in 0..m : Lesser(a + 1, m) \in 0..m
    /\ \A m \in Nat : \A a \in 0..m : a < m => a + 1 \in 0..m
    /\ \A a \in Int : Lesser(a + 1, Beyond) \in Int
  BY SupervisorAssumption DEF Lesser

\* Every variable keeps the values it may have (unidoliMainAPP.c:78-150).
THEOREM TypeCorrect == Spec => []TypeOK
<1> USE DEF TypeOK, MainLabels, NetLabels
<1>1. ASSUME Init
      PROVE  TypeOK
  <2>1. i \in Int
    BY <1>1, SupervisorAssumption DEF Init
  <2>2. threads \in 0..ThreadLimit /\ probes \in 0..ProbesPerSleep /\ checks \in 0..MaxChecks
    BY <1>1, SupervisorAssumption, LesserFacts DEF Init
  <2>3. restarts \in Nat
    BY <1>1 DEF Init
  <2> QED
    BY <1>1, <2>1, <2>2, <2>3, Zenon DEF Init
<1>2. ASSUME TypeOK, [Next]_vars
      PROVE  TypeOK'
  <2> USE <1>2 DEF MainAt, NetAt, history
  <2>1. CASE CreateNet \/ CreateMqtt \/ CreateRtmp
    BY <2>1, SupervisorAssumption, LesserFacts DEF CreateNet, CreateMqtt, CreateRtmp, CreateThread
  <2>2. CASE Settle \/ SeesNoNetBack \/ SeesNetLost \/ SeesNoNetLost
    BY <2>2, SupervisorAssumption, LesserFacts
       DEF Settle, SeesNoNetBack, SeesNetLost, SeesNoNetLost
  <2>13. CASE SeesNetBack
    <3>1. steady' \in BOOLEAN
      BY <2>13, Zenon DEF SeesNetBack
    <3> QED
      BY <2>13, <3>1 DEF SeesNetBack
  <2>3. CASE Wake
    <3>1. checks' \in 0..MaxChecks
      BY <2>3, SupervisorAssumption, LesserFacts DEF Wake
    <3> QED
      BY <2>3, <3>1 DEF Wake
  <2>4. CASE NoteNetLost
    <3>1. missed' \in BOOLEAN
      BY <2>4 DEF NoteNetLost
    <3> QED
      BY <2>4, <3>1 DEF NoteNetLost
  <2>10. CASE StopMqtt \/ StopRtmp
    BY <2>10 DEF StopMqtt, StopRtmp
  <2>11. CASE ClearNetStatus
    <3>1. steady' \in BOOLEAN
      BY <2>11, Zenon DEF ClearNetStatus
    <3> QED
      BY <2>11, <3>1, SupervisorAssumption, LesserFacts DEF ClearNetStatus
  <2>5. CASE NetWake
    <3>1. i' \in Int
      BY <2>5, LesserFacts DEF NetWake
    <3> QED
      BY <2>5, <3>1 DEF NetWake
  <2>6. CASE KeyNotPressed \/ KeyPressed \/ Reboot \/ LookupSucceeds \/ LookupCrashes
    BY <2>6 DEF KeyNotPressed, KeyPressed, Reboot, LookupSucceeds, LookupCrashes
  <2>7. CASE LookupFails \/ StoreNetStatus
    <3>1. probes' \in 0..ProbesPerSleep
      BY <2>7, SupervisorAssumption, LesserFacts DEF LookupFails, StoreNetStatus, Probed
    <3> QED
      BY <2>7, <3>1 DEF LookupFails, StoreNetStatus
  <2>8. CASE NetChanges
    <3>1. online' \in BOOLEAN /\ steady' \in BOOLEAN
      BY <2>8 DEF NetChanges
    <3> QED
      BY <2>8, <3>1, SupervisorAssumption, LesserFacts DEF NetChanges
  <2>12. CASE Termination
    BY <2>12 DEF Termination
  <2>9. CASE UNCHANGED vars
    BY <2>9 DEF vars
  <2> QED
    BY <2>1, <2>2, <2>3, <2>4, <2>5, <2>6, <2>7, <2>8, <2>9, <2>10, <2>11, <2>12, <2>13
       DEF Next, MainStep, NetStep
<1> QED
  BY <1>1, <1>2, PTL DEF Spec

\* What main knows at each of its lines.  Outside the stop of the services, believing
\* the network down implies that they are not running; on the way to a start main
\* believes it up and they do not run.
StartInv ==
    /\ mainPc \in {"mqtt", "rtmp"} => command # "start" /\ lastNetStatus = 1
    /\ mainPc = "net" => command # "start" /\ lastNetStatus = 1 /\ netPc = "none"
    /\ lastNetStatus = 0 /\ mainPc \notin {"usr2", "usr1"} => command # "start"

LEMMA StartStep ==
    ASSUME TypeOK, StartInv, [Next]_vars
    PROVE  StartInv'
<1> USE DEF StartInv, TypeOK, MainAt, NetAt, history
<1>1. CASE CreateNet \/ CreateMqtt \/ CreateRtmp
  BY <1>1 DEF CreateNet, CreateMqtt, CreateRtmp, CreateThread
<1>2. CASE Settle \/ Wake \/ SeesNetBack \/ SeesNoNetBack \/ SeesNetLost \/ SeesNoNetLost
  BY <1>2 DEF Settle, Wake, SeesNetBack, SeesNoNetBack, SeesNetLost, SeesNoNetLost
<1>3. CASE NoteNetLost \/ StopMqtt \/ StopRtmp \/ ClearNetStatus
  BY <1>3 DEF NoteNetLost, StopMqtt, StopRtmp, ClearNetStatus
<1>4. CASE NetStep
  BY <1>4 DEF NetStep, NetWake, KeyNotPressed, KeyPressed, Reboot, LookupSucceeds,
     LookupFails, LookupCrashes, StoreNetStatus
<1>5. CASE NetChanges \/ Termination
  BY <1>5 DEF NetChanges, Termination
<1>6. CASE UNCHANGED vars
  BY <1>6 DEF vars
<1> QED
  BY <1>1, <1>2, <1>3, <1>4, <1>5, <1>6 DEF Next, MainStep

\* main never starts the services while they run, though the network thread writes
\* netStatus between its tests and its copy of it (unidoliMainAPP.c:84-111).
THEOREM StartsAlternate == Spec => NoSecondStart
<1>1. Init => StartInv
  BY DEF Init, StartInv
<1>2. StartInv /\ [Next]_vars
         => [mainPc = "rtmp" /\ mainPc' = "settle" => command # "start"]_vars
  BY DEF StartInv
<1> QED
  BY <1>1, <1>2, StartStep, TypeCorrect, PTL DEF Spec, NoSecondStart

\* What holds at each line of main unless it has missed a change of netStatus: the
\* belief follows the command, and inside the stop the network is noted as down.
BeliefInv ==
    proc = "up" /\ netPc # "configureWIFI" /\ ~missed =>
        /\ mainPc \in {"settle", "sleep", "back?", "lost?", "note", "clear"}
              => (lastNetStatus = 1 <=> command = "start")
        /\ mainPc \in {"usr2", "usr1"} => lastNetStatus = 0
        /\ mainPc \in {"net", "mqtt", "rtmp"} => lastNetStatus = 1

LEMMA BeliefStep ==
    ASSUME TypeOK, BeliefInv, StartInv, [Next]_vars
    PROVE  BeliefInv'
<1> USE DEF BeliefInv, TypeOK, MainAt, NetAt, history
<1>1. CASE CreateNet \/ CreateMqtt
  BY <1>1 DEF CreateNet, CreateMqtt, CreateThread, StartInv
<1>8. CASE CreateRtmp
  BY <1>8 DEF CreateRtmp, CreateThread
<1>2. CASE Settle \/ Wake \/ SeesNoNetBack \/ SeesNetLost \/ SeesNoNetLost
  BY <1>2 DEF Settle, Wake, SeesNoNetBack, SeesNetLost, SeesNoNetLost
<1>7. CASE SeesNetBack
  BY <1>7 DEF SeesNetBack
<1>3. CASE StopMqtt \/ StopRtmp \/ ClearNetStatus
  BY <1>3 DEF StopMqtt, StopRtmp, ClearNetStatus
<1>9. CASE NoteNetLost
  <2>1. mainPc' = "usr2" /\ (~missed' => lastNetStatus' = 0)
    BY <1>9 DEF NoteNetLost
  <2> QED
    BY <2>1
<1>4. CASE NetStep
  BY <1>4 DEF NetStep, NetWake, KeyNotPressed, KeyPressed, Reboot, LookupSucceeds,
     LookupFails, LookupCrashes, StoreNetStatus
<1>5. CASE NetChanges \/ Termination
  BY <1>5 DEF NetChanges, Termination
<1>6. CASE UNCHANGED vars
  BY <1>6 DEF vars
<1> QED
  BY <1>1, <1>2, <1>3, <1>4, <1>5, <1>6, <1>7, <1>8, <1>9 DEF Next, MainStep

\* While main sleeps, what it believes is what it has ordered, unless a lookup
\* succeeded between its test and its copy of netStatus (unidoliMainAPP.c:107-109).
THEOREM BeliefCorrect == Spec => []BeliefMatchesCommand
<1>1. Init => BeliefInv /\ StartInv
  BY DEF Init, BeliefInv, StartInv
<1>2. BeliefInv => BeliefMatchesCommand
  BY DEF BeliefInv, BeliefMatchesCommand
<1> QED
  BY <1>1, <1>2, BeliefStep, StartStep, TypeCorrect, PTL DEF Spec

\* After a restart in a device being configured main believes the network up, or
\* netStatus, which nobody sets again, is clear: so it is the only one.
KeyInv ==
    /\ restarts <= 1
    /\ restarts >= 1 => /\ netPc = "configureWIFI"
                        /\ mainPc \notin {"net", "mqtt", "rtmp"}
                        /\ lastNetStatus = 1 \/ netStatus = 0

LEMMA KeyStep ==
    ASSUME TypeOK, KeyInv, StartInv, [Next]_vars
    PROVE  KeyInv'
<1> USE DEF KeyInv, TypeOK, MainAt, NetAt, history
<1>1. CASE CreateNet \/ CreateMqtt
  BY <1>1 DEF CreateNet, CreateMqtt, CreateThread, StartInv
<1>2. CASE CreateRtmp
  BY <1>2 DEF CreateRtmp, CreateThread, StartInv
<1>3. CASE Settle \/ Wake \/ SeesNetBack \/ SeesNoNetBack \/ SeesNetLost \/ SeesNoNetLost
  BY <1>3 DEF Settle, Wake, SeesNetBack, SeesNoNetBack, SeesNetLost, SeesNoNetLost
<1>4. CASE NoteNetLost \/ StopMqtt \/ StopRtmp \/ ClearNetStatus
  BY <1>4 DEF NoteNetLost, StopMqtt, StopRtmp, ClearNetStatus
<1>5. CASE NetStep
  BY <1>5 DEF NetStep, NetWake, KeyNotPressed, KeyPressed, Reboot, LookupSucceeds,
     LookupFails, LookupCrashes, StoreNetStatus
<1>6. CASE NetChanges \/ Termination
  BY <1>6 DEF NetChanges, Termination
<1>7. CASE UNCHANGED vars
  BY <1>7 DEF vars
<1> QED
  BY <1>1, <1>2, <1>3, <1>4, <1>5, <1>6, <1>7 DEF Next, MainStep

\* The services come back at most once while the device is being configured
\* (unidoliMainAPP.c:102-105 and 131-139).
THEOREM KeyCorrect == Spec => []AtMostOneRestartAfterKey
<1>1. Init => KeyInv /\ StartInv
  BY DEF Init, KeyInv, StartInv
<1>2. KeyInv => AtMostOneRestartAfterKey
  BY DEF KeyInv, AtMostOneRestartAfterKey
<1> QED
  BY <1>1, <1>2, KeyStep, StartStep, TypeCorrect, PTL DEF Spec

\* While the network has stayed up and the index in the array, a lookup cannot fail: each
\* one completed during a sleep has set netStatus, and main finds it set.
SteadyInv ==
    ProbesPerSleep >= 2 /\ steady =>
        /\ online /\ i \in Domain
        /\ netPc # "configureWIFI" =>
              /\ mainPc = "sleep" /\ probes >= 1 => netStatus = 1
              /\ mainPc \in {"back?", "lost?"} => netStatus = 1
              /\ mainPc # "note"

LEMMA SteadyStep ==
    ASSUME TypeOK, SteadyInv, [Next]_vars
    PROVE  SteadyInv'
<1> USE DEF SteadyInv, TypeOK, MainAt, NetAt, history
<1>1. CASE CreateNet \/ CreateMqtt \/ CreateRtmp
  BY <1>1 DEF CreateNet, CreateMqtt, CreateRtmp, CreateThread
<1>2. CASE Settle
  BY <1>2 DEF Settle
<1>13. CASE SeesNoNetBack
  BY <1>13 DEF SeesNoNetBack
<1>14. CASE SeesNetLost
  BY <1>14 DEF SeesNetLost
<1>15. CASE SeesNoNetLost
  BY <1>15 DEF SeesNoNetLost
<1>12. CASE Wake
  <2>1. /\ mainPc = "sleep" /\ mainPc' = "back?"
        /\ UNCHANGED <<netPc, i, netStatus, online, steady>>
        /\ probes >= ProbesPerSleep \/ netPc = "configureWIFI"
    BY <1>12 DEF Wake
  <2>2. ProbesPerSleep >= 2 /\ probes >= ProbesPerSleep => probes >= 1
    BY SupervisorAssumption
  <2> QED
    BY <2>1, <2>2
<1>10. CASE SeesNetBack
  <2>1. steady' => online /\ i \in Domain
    BY <1>10, Zenon DEF SeesNetBack
  <2> QED
    BY <1>10, <2>1 DEF SeesNetBack
<1>3. CASE NoteNetLost \/ StopMqtt \/ StopRtmp
  <2>1. mainPc' \in {"usr2", "usr1", "clear"} /\ UNCHANGED <<steady, online, i>>
    BY <1>3 DEF NoteNetLost, StopMqtt, StopRtmp
  <2> QED
    BY <2>1
<1>11. CASE ClearNetStatus
  <2>1. steady' => online /\ i \in Domain
    BY <1>11, Zenon DEF ClearNetStatus
  <2> QED
    BY <1>11, <2>1 DEF ClearNetStatus
<1>4. CASE NetWake
  <2>1. i \in Domain => i' \in Domain
    BY <1>4, SupervisorAssumption DEF NetWake, Lesser, Domain
  <2> QED
    BY <1>4, <2>1 DEF NetWake
<1>5. CASE KeyNotPressed \/ KeyPressed \/ Reboot \/ LookupSucceeds \/ LookupCrashes
  BY <1>5 DEF KeyNotPressed, KeyPressed, Reboot, LookupSucceeds, LookupCrashes
<1>6. CASE LookupFails
  BY <1>6 DEF LookupFails
<1>7. CASE StoreNetStatus
  BY <1>7 DEF StoreNetStatus
<1>8. CASE NetChanges \/ Termination
  BY <1>8 DEF NetChanges, Termination
<1>9. CASE UNCHANGED vars
  BY <1>9 DEF vars
<1> QED
  BY <1>1, <1>2, <1>3, <1>4, <1>5, <1>6, <1>7, <1>8, <1>9, <1>10, <1>11, <1>12, <1>13, <1>14, <1>15
     DEF Next, MainStep, NetStep

\* main never declares the network lost when it was up all the time since netStatus
\* was cleared and the index was in the array already (unidoliMainAPP.c:100-113).
THEOREM NoFalseLossCorrect == Spec => []NoFalseLoss
<1>1. Init => SteadyInv
  BY DEF Init, SteadyInv
<1>2. SteadyInv => NoFalseLoss
  BY DEF SteadyInv, NoFalseLoss
<1> QED
  BY <1>1, <1>2, SteadyStep, TypeCorrect, PTL DEF Spec

\* What is left of the network's last life at each check on a dead one.  A lookup under
\* way when it went down ends before the second check; from there on nobody sets
\* netStatus, and main passes from "down, but a success is stored" (restart) to "up, a
\* success is stored" (clear) to "up, none is stored" (stop) in one check each.
OfflineInv ==
    ProbesPerSleep >= 2 =>
      /\ checks >= 1 => ~online
      /\ mainPc \in {"net", "mqtt", "rtmp", "settle"} => checks <= 2
      /\ mainPc = "settle" => lastNetStatus = 1
      /\ mainPc = "sleep" /\ checks >= 1 /\ probes >= 1 => netPc # "store"
      /\ checks >= 2 =>
          /\ netPc # "store"
          /\ mainPc \in {"sleep", "lost?"} => lastNetStatus = 1 \/ netStatus = 0
          /\ mainPc = "note" => netStatus = 0
          /\ mainPc \in {"usr2", "usr1"} => lastNetStatus = 0 /\ netStatus = 0
          /\ mainPc = "clear" => lastNetStatus = netStatus
      /\ checks >= 3 =>
          /\ mainPc = "sleep" => netStatus = 0
          /\ mainPc = "back?" => lastNetStatus = 1 \/ netStatus = 0
      /\ checks >= 4 =>
          /\ mainPc \in {"back?", "lost?", "clear"} => netStatus = 0
          /\ mainPc = "sleep" => lastNetStatus = 0

LEMMA OfflineStep ==
    ASSUME TypeOK, OfflineInv, StartInv, [Next]_vars
    PROVE  OfflineInv'
<1> USE DEF OfflineInv, TypeOK, MainAt, NetAt, history
<1> HAVE ProbesPerSleep >= 2
<1>1. CASE CreateNet \/ CreateMqtt \/ CreateRtmp
  BY <1>1 DEF CreateNet, CreateMqtt, CreateRtmp, CreateThread, StartInv
<1>2. CASE Settle \/ SeesNoNetBack \/ SeesNetLost \/ SeesNoNetLost
  BY <1>2 DEF Settle, SeesNoNetBack, SeesNetLost, SeesNoNetLost
<1>3. CASE Wake
  BY <1>3, SupervisorAssumption DEF Wake, Lesser
<1>4. CASE SeesNetBack
  BY <1>4 DEF SeesNetBack
<1>5. CASE NoteNetLost \/ StopMqtt \/ StopRtmp
  BY <1>5 DEF NoteNetLost, StopMqtt, StopRtmp
<1>6. CASE ClearNetStatus
  BY <1>6 DEF ClearNetStatus
<1>7. CASE NetWake \/ KeyNotPressed \/ KeyPressed \/ Reboot \/ LookupSucceeds \/ LookupCrashes
  BY <1>7 DEF NetWake, KeyNotPressed, KeyPressed, Reboot, LookupSucceeds, LookupCrashes
<1>8. CASE LookupFails \/ StoreNetStatus
  BY <1>8 DEF LookupFails, StoreNetStatus
<1>9. CASE NetChanges \/ Termination
  BY <1>9, SupervisorAssumption DEF NetChanges, Termination
<1>10. CASE UNCHANGED vars
  BY <1>10 DEF vars
<1> QED
  BY <1>1, <1>2, <1>3, <1>4, <1>5, <1>6, <1>7, <1>8, <1>9, <1>10 DEF Next, MainStep, NetStep

\* The services are stopped at the fourth check on a dead network at the latest
\* (unidoliMainAPP.c:102-113).
THEOREM LossCorrect == Spec => []LossNoticedInTime
<1>1. Init => OfflineInv /\ StartInv
  BY DEF Init, OfflineInv, StartInv
<1>2. OfflineInv /\ StartInv => LossNoticedInTime
  BY DEF OfflineInv, StartInv, LossNoticedInTime
<1> QED
  BY <1>1, <1>2, OfflineStep, StartStep, TypeCorrect, PTL DEF Spec
=============================================================================
