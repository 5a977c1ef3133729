--------------------------- MODULE RtmpControlProofs ---------------------------
(***************************************************************************)
(* Theorems about RtmpControl, for any number of rtmpPthreads, any set of  *)
(* configurations and any number of signals.                               *)
(***************************************************************************)
EXTENDS RtmpControl, TLAPS

\* The actions of the threads, without the process being up.
Action(t, f) ==
    \/ StartIgnored(t, f) \/ StartAccepted(t, f) \/ StartMark(t, f) \/ StartHalt(t, f)
    \/ StartRead(t, f) \/ StartNoFile(t, f) \/ LockCurl(t, f) \/ FetchUrl(t, f)
    \/ StartApply(t, f) \/ StartLaunch(t, f)
    \/ StopHalt(t, f) \/ StopClear(t, f) \/ FetchSecret(t, f)

LEMMA ConfsFacts == 0 \in Confs /\ \A c \in Confs : c < MaxConf => c + 1 \in Confs
  BY BoundsAssumption DEF Confs

LEMMA InitType == Init => TypeOK
<1> SUFFICES ASSUME Init PROVE TypeOK
  OBVIOUS
<1>1. ActivationsOK
  BY DEF Init, ActivationsOK, Labels, LabelsOf, Frames
<1> QED
  BY <1>1, ConfsFacts DEF Init, TypeOK

(* How the control part of the state moves. *)

LEMMA GotoType ==
    ASSUME ActivationsOK, NEW t \in Threads, NEW f \in Frames, NEW l \in LabelsOf(f),
           Goto(t, f, l)
    PROVE  ActivationsOK'
  BY DEF ActivationsOK, Goto, Labels, LabelsOf, StartLabels, StopLabels

LEMMA ReturnType ==
    ASSUME ActivationsOK, NEW t \in Threads, NEW f \in Frames, nest[t] # <<>>,
           Return(t, f)
    PROVE  ActivationsOK'
<1>1. Tail(nest[t]) \in Seq(Frames)
  BY DEF ActivationsOK
<1> QED
  BY <1>1 DEF ActivationsOK, Return, Labels

LEMMA EnterType ==
    ASSUME ActivationsOK, NEW t \in Threads, NEW f \in Frames, NEW l \in LabelsOf(f),
           Enter(t, f, l)
    PROVE  ActivationsOK'
<1>1. <<f>> \o nest[t] \in Seq(Frames)
  BY DEF ActivationsOK
<1> QED
  BY <1>1 DEF ActivationsOK, Enter, Labels, LabelsOf, StartLabels, StopLabels

LEMMA LabelFacts ==
    /\ \A f \in StartFrames : LabelsOf(f) = StartLabels
    /\ \A f \in StopFrames : LabelsOf(f) = StopLabels
    /\ LabelsOf("SECRET") = {"lock", "fetch"}
    /\ StartFrames = {"IO", "ALRM", "CHLD"} /\ StopFrames = {"USR1"}
    /\ Frames = {"IO", "ALRM", "CHLD", "USR1", "SECRET"}
  BY DEF LabelsOf, StartFrames, StopFrames, Frames

\* A running activation is at a line of its own handler.
LEMMA AtFacts ==
    ASSUME ActivationsOK, NEW t \in Threads, NEW f \in Frames
    PROVE  /\ \A l : At(t, f, l) => nest[t] # <<>>
           /\ \A l \in {"guard", "mark", "halt", "read", "apply", "launch"} :
                 At(t, f, l) => f \in StartFrames
           /\ \A l \in {"lock", "fetch"} : At(t, f, l) => f \in StartFrames \cup {"SECRET"}
           /\ \A l \in {"stop", "clear"} : At(t, f, l) => f \in StopFrames
<1>1. ASSUME NEW l, At(t, f, l)
      PROVE  nest[t] # <<>> /\ pc[t][f] = l /\ (l # "idle" => l \in LabelsOf(f))
  BY <1>1 DEF ActivationsOK, At
<1>2. f \in StartFrames \/ f \in StopFrames \/ f = "SECRET"
  BY DEF Frames
<1>3. /\ f \in StartFrames => LabelsOf(f) = StartLabels
      /\ f \in StopFrames  => LabelsOf(f) = StopLabels
      /\ f = "SECRET" => LabelsOf(f) = {"lock", "fetch"}
  BY LabelFacts
<1> QED
  BY <1>1, <1>2, <1>3 DEF StartLabels, StopLabels

LEMMA SnapType ==
    ASSUME NEW s \in [Threads -> [Frames -> Confs]], NEW t \in Threads, NEW f \in Frames,
           NEW c \in Confs
    PROVE  [s EXCEPT ![t][f] = c] \in [Threads -> [Frames -> Confs]]
  OBVIOUS

\* A call that stops the stream leaves it off, or fails and leaves it as it is.
LEMMA LibraryStopFacts ==
    ASSUME TypeOK, LibraryStop
    PROVE  /\ stream' \in [on : BOOLEAN, conf : Confs] /\ failed' \in BOOLEAN
           /\ failed' \/ stream'.on = FALSE
           /\ stream'.on => stream' = stream /\ failed'
<1>1. [on |-> FALSE, conf |-> 0] \in [on : BOOLEAN, conf : Confs]
  BY ConfsFacts
<1>2. CASE UNCHANGED stream /\ failed' = TRUE
  BY <1>2 DEF TypeOK
<1>3. CASE stream' = [on |-> FALSE, conf |-> 0] /\ failed' = FALSE
  BY <1>1, <1>3
<1> QED
  BY <1>2, <1>3 DEF LibraryStop

LEMMA ActionType ==
    ASSUME TypeOK, NEW t \in Threads, NEW f \in Frames, Action(t, f)
    PROVE  TypeOK'
<1> USE AtFacts, LabelFacts DEF TypeOK, StartLabels, StopLabels, lib, threads, inputs, history
<1>1. ActivationsOK'
  <2>1. CASE StartIgnored(t, f) \/ StartLaunch(t, f) \/ StopClear(t, f) \/ FetchSecret(t, f)
    BY <2>1, ReturnType DEF StartIgnored, StartLaunch, StopClear, FetchSecret
  <2>2. CASE StartAccepted(t, f) \/ StartMark(t, f) \/ StartHalt(t, f) \/ StartRead(t, f)
    BY <2>2, GotoType DEF StartAccepted, StartMark, StartHalt, StartRead
  <2>3. CASE LockCurl(t, f) \/ FetchUrl(t, f) \/ StartApply(t, f) \/ StopHalt(t, f)
    BY <2>3, GotoType DEF LockCurl, FetchUrl, StartApply, StopHalt
  <2>4. CASE StartNoFile(t, f)
    BY <2>4 DEF StartNoFile, ActivationsOK
  <2> QED
    BY <2>1, <2>2, <2>3, <2>4 DEF Action
<1> HIDE AtFacts, LabelFacts DEF StartLabels, StopLabels
<1>2. CASE StartIgnored(t, f)
  BY <1>1, <1>2 DEF StartIgnored
<1>8. CASE StartAccepted(t, f)
  <2>1. raced' \in BOOLEAN
    BY <1>8 DEF StartAccepted
  <2> QED
    BY <1>1, <1>8, <2>1 DEF StartAccepted
<1>9. CASE StartMark(t, f)
  BY <1>1, <1>9 DEF StartMark
<1>10. CASE StartHalt(t, f)
  <2>1. stream' \in [on : BOOLEAN, conf : Confs] /\ failed' \in BOOLEAN
    BY <1>10, LibraryStopFacts DEF StartHalt
  <2> QED
    BY <1>1, <1>10, <2>1 DEF StartHalt
<1>3. CASE StartNoFile(t, f)
  BY <1>1, <1>3 DEF StartNoFile
<1>11. CASE LockCurl(t, f)
  BY <1>1, <1>11 DEF LockCurl
<1>12. CASE FetchUrl(t, f)
  BY <1>1, <1>12 DEF FetchUrl
<1>4. CASE StartRead(t, f)
  BY <1>1, <1>4, SnapType DEF StartRead
<1>5. CASE StartApply(t, f)
  <2>1. snap[t][f] \in Confs
    OBVIOUS
  <2> QED
    BY <1>1, <1>5, <2>1, SnapType, ConfsFacts DEF StartApply
<1>7. CASE StartLaunch(t, f)
  <2>1. stream' \in [on : BOOLEAN, conf : Confs] /\ failed' \in BOOLEAN
    <3>1. [on |-> TRUE, conf |-> libconf] \in [on : BOOLEAN, conf : Confs]
      OBVIOUS
    <3>2. CASE UNCHANGED stream /\ failed' = TRUE
      BY <3>2
    <3>3. CASE stream' = [on |-> TRUE, conf |-> libconf] /\ failed' = FALSE
      BY <3>1, <3>3
    <3> QED
      BY <1>7, <3>2, <3>3 DEF StartLaunch
  <2> QED
    BY <1>1, <1>7, <2>1 DEF StartLaunch
<1>6. CASE StopHalt(t, f)
  <2>1. /\ stream' \in [on : BOOLEAN, conf : Confs] /\ failed' \in BOOLEAN
        /\ raced' \in BOOLEAN
    BY <1>6, LibraryStopFacts DEF StopHalt
  <2> QED
    BY <1>1, <1>6, <2>1 DEF StopHalt
<1>13. CASE StopClear(t, f) \/ FetchSecret(t, f)
  BY <1>1, <1>13 DEF StopClear, FetchSecret
<1> HIDE DEF TypeOK
<1> QED
  BY <1>2, <1>3, <1>4, <1>5, <1>6, <1>7, <1>8, <1>9, <1>10, <1>11, <1>12, <1>13 DEF Action

LEMMA EnvironmentType ==
    ASSUME TypeOK, Environment
    PROVE  TypeOK'
<1> USE LabelFacts DEF TypeOK, StartLabels, StopLabels, lib, threads, inputs, history
<1>1. Mqtt \in Threads /\ Main \in Threads /\ Net \in Threads /\ RtmpThreads \subseteq Threads
  BY DEF Threads
<1>2. ASSUME NEW r \in RtmpThreads, RtmpBegin(r)
      PROVE  TypeOK'
  <2>1. ActivationsOK'
    BY <1>1, <1>2, EnterType DEF RtmpBegin
  <2> QED
    BY <1>2, <2>1 DEF RtmpBegin
<1>3. ASSUME NEW r \in RtmpThreads, RtmpEnd(r)
      PROVE  TypeOK'
  BY <1>3 DEF RtmpEnd, ActivationsOK
<1>4. CASE MqttKnowsSecret
  BY <1>4 DEF MqttKnowsSecret, ActivationsOK
<1>5. CASE MqttAsksSecret
  <2>1. ActivationsOK'
    BY <1>1, <1>5, EnterType DEF MqttAsksSecret
  <2> QED
    BY <1>5, <2>1 DEF MqttAsksSecret
<1>6. CASE ConfigArrived
  <2>1. ActivationsOK'
    <3>1. CASE Enter(Mqtt, "CHLD", "guard")
      BY <1>1, <3>1, EnterType
    <3>2. CASE UNCHANGED <<pc, nest>>
      BY <3>2 DEF ActivationsOK
    <3> QED
      BY <1>6, <3>1, <3>2 DEF ConfigArrived
  <2> QED
    BY <1>6, <2>1, ConfsFacts DEF ConfigArrived
<1>7. ASSUME NEW t \in Threads, RaiseUSR1(t)
      PROVE  ActivationsOK' /\ up' \in BOOLEAN
  <2>1. CASE Enter(t, "USR1", "stop") /\ UNCHANGED up
    BY <2>1, EnterType
  <2>2. CASE up' = FALSE /\ UNCHANGED <<pc, nest>>
    BY <2>2 DEF ActivationsOK
  <2> QED
    BY <1>7, <2>1, <2>2 DEF RaiseUSR1
<1>8. CASE NetLost
  <2>1. ActivationsOK' /\ up' \in BOOLEAN
    BY <1>1, <1>7, <1>8 DEF NetLost
  <2> QED
    BY <1>8, <2>1 DEF NetLost, RaiseUSR1
<1>12. CASE KeyPressed
  <2>1. ActivationsOK' /\ up' \in BOOLEAN
    BY <1>1, <1>7, <1>12 DEF KeyPressed
  <2> QED
    BY <1>12, <2>1 DEF KeyPressed, RaiseUSR1
<1>9. CASE NetBack
  BY <1>9 DEF NetBack, ActivationsOK
<1>10. CASE Reboot
  BY <1>10 DEF Reboot, ActivationsOK
<1>11. ASSUME NEW t \in Threads, NEW f \in {"ALRM", "CHLD"}, Deliver(t, f)
       PROVE  TypeOK'
  <2>1. ActivationsOK'
    BY <1>11, EnterType DEF Deliver
  <2> QED
    BY <1>11, <2>1 DEF Deliver
<1> HIDE DEF TypeOK
<1> QED
  BY <1>2, <1>3, <1>4, <1>5, <1>6, <1>8, <1>9, <1>10, <1>11, <1>12 DEF Environment

\* Every variable keeps the values it may have, in the handlers and in the threads
\* that call them (rtmp.c:18-130).
THEOREM TypeCorrect == Spec => []TypeOK
<1>1. ASSUME TypeOK, [Next]_vars
      PROVE  TypeOK'
  <2>1. ASSUME NEW t \in Threads, Step(t)
        PROVE  TypeOK'
    BY <1>1, <2>1, ActionType DEF Step, Action
  <2>2. CASE UNCHANGED vars
    BY <1>1, <2>2 DEF vars, TypeOK, ActivationsOK
  <2> QED
    BY <1>1, <2>1, <2>2, EnvironmentType DEF Next
<1> QED
  BY <1>1, InitType, PTL DEF Spec

-----------------------------------------------------------------------------
(* The mutex. *)

\* An activation other than one in its exchange moves, to a line before or after
\* the exchange.
KeepsMutex == /\ UNCHANGED curl_mutex
              /\ \/ UNCHANGED pc
                 \/ \E t \in Threads, f \in Frames, l \in Labels \ {"fetch"} :
                       /\ pc[t][f] # "fetch"
                       /\ pc' = [pc EXCEPT ![t][f] = l]

LEMMA KeepsMutexSteps ==
    ASSUME TypeOK, NEW t \in Threads, NEW f \in Frames,
           Action(t, f), ~LockCurl(t, f), ~FetchUrl(t, f), ~FetchSecret(t, f)
    PROVE  KeepsMutex
<1>1. {"idle", "mark", "halt", "read", "lock", "apply", "launch", "clear"}
         \subseteq Labels \ {"fetch"}
  BY DEF Labels, StartLabels, StopLabels
<1>2. CASE StartIgnored(t, f) \/ StartAccepted(t, f) \/ StartMark(t, f) \/ StartHalt(t, f)
  BY <1>1, <1>2 DEF StartIgnored, StartAccepted, StartMark, StartHalt, At, Goto, Return,
                    KeepsMutex
<1>3. CASE StartRead(t, f)
  <2>1. \E l \in {"lock", "apply"} : Goto(t, f, l)
    BY <1>3 DEF StartRead
  <2> QED
    BY <1>1, <1>3, <2>1 DEF StartRead, At, Goto, KeepsMutex
<1>4. CASE StartNoFile(t, f) \/ StartApply(t, f) \/ StartLaunch(t, f)
  BY <1>1, <1>4 DEF StartNoFile, StartApply, StartLaunch, At, Goto, Return, KeepsMutex
<1>5. CASE StopHalt(t, f) \/ StopClear(t, f)
  BY <1>1, <1>5 DEF StopHalt, StopClear, At, Goto, Return, KeepsMutex
<1> QED
  BY <1>2, <1>3, <1>4, <1>5 DEF Action

LEMMA KeepsMutexEnvironment ==
    ASSUME TypeOK, Environment
    PROVE  KeepsMutex
<1>1. {"guard", "lock", "stop"} \subseteq Labels \ {"fetch"}
  BY DEF Labels, StartLabels, StopLabels
<1>2. ASSUME NEW t \in Threads, NEW f \in Frames, NEW l \in {"guard", "lock", "stop"},
             Enter(t, f, l), UNCHANGED curl_mutex
      PROVE  KeepsMutex
  BY <1>1, <1>2 DEF Enter, KeepsMutex
<1>3. ASSUME NEW t \in Threads, RaiseUSR1(t)
      PROVE  KeepsMutex
  BY <1>2, <1>3, LabelFacts DEF RaiseUSR1, KeepsMutex
<1>4. CASE NetLost \/ KeyPressed
  BY <1>3, <1>4 DEF NetLost, KeyPressed, Threads
<1>5. CASE NetBack \/ Reboot \/ MqttKnowsSecret
  BY <1>5 DEF NetBack, Reboot, MqttKnowsSecret, KeepsMutex
<1>6. CASE ConfigArrived
  BY <1>2, <1>6, LabelFacts DEF ConfigArrived, Threads, KeepsMutex
<1>7. CASE MqttAsksSecret
  BY <1>2, <1>7, LabelFacts DEF MqttAsksSecret, Threads
<1>8. ASSUME NEW r \in RtmpThreads, RtmpBegin(r) \/ RtmpEnd(r)
      PROVE  KeepsMutex
  BY <1>2, <1>8, LabelFacts DEF RtmpBegin, RtmpEnd, Threads, KeepsMutex
<1>9. ASSUME NEW t \in Threads, NEW f \in {"ALRM", "CHLD"}, Deliver(t, f)
      PROVE  KeepsMutex
  BY <1>2, <1>9, LabelFacts DEF Deliver
<1> QED
  BY <1>4, <1>5, <1>6, <1>7, <1>8, <1>9 DEF Environment

LEMMA PcUpdate ==
    ASSUME TypeOK, NEW t \in Threads, NEW f \in Frames, NEW l \in Labels,
           pc' = [pc EXCEPT ![t][f] = l]
    PROVE  \A u \in Threads, g \in Frames :
              pc'[u][g] = IF u = t /\ g = f THEN l ELSE pc[u][g]
  BY DEF TypeOK, ActivationsOK

LEMMA MutexStep ==
    ASSUME TypeOK, MutexHeldByFetch, [Next]_vars
    PROVE  MutexHeldByFetch'
<1> USE DEF MutexHeldByFetch
<1>1. CASE KeepsMutex
  <2>1. CASE UNCHANGED pc
    BY <1>1, <2>1 DEF KeepsMutex
  <2>2. ASSUME NEW t \in Threads, NEW f \in Frames, NEW l \in Labels \ {"fetch"},
               pc[t][f] # "fetch", pc' = [pc EXCEPT ![t][f] = l]
        PROVE  MutexHeldByFetch'
    <3>1. \A u \in Threads, g \in Frames : pc'[u][g] = "fetch" <=> pc[u][g] = "fetch"
      BY <2>2, PcUpdate
    <3> QED
      BY <1>1, <3>1 DEF KeepsMutex
  <2> QED
    BY <1>1, <2>1, <2>2 DEF KeepsMutex
<1>2. CASE UNCHANGED vars
  BY <1>2 DEF vars
<1>3. ASSUME NEW t \in Threads, NEW f \in Frames, LockCurl(t, f)
      PROVE  MutexHeldByFetch'
  <2>1. \A u \in Threads, g \in Frames : pc[u][g] # "fetch"
    BY <1>3, ThreadsAssumption DEF LockCurl
  <2>2. \A u \in Threads, g \in Frames : pc'[u][g] = "fetch" <=> u = t /\ g = f
    <3>1. pc' = [pc EXCEPT ![t][f] = "fetch"]
      BY <1>3 DEF LockCurl, Goto
    <3>2. \A u \in Threads, g \in Frames :
             pc'[u][g] = IF u = t /\ g = f THEN "fetch" ELSE pc[u][g]
      BY <3>1 DEF TypeOK, ActivationsOK
    <3> QED
      BY <2>1, <3>2
  <2> QED
    BY <1>3, <2>2 DEF LockCurl
<1>4. ASSUME NEW t \in Threads, NEW f \in Frames, FetchUrl(t, f) \/ FetchSecret(t, f)
      PROVE  MutexHeldByFetch'
  <2>1. pc[t][f] = "fetch" /\ curl_mutex' = NoThread
    BY <1>4 DEF FetchUrl, FetchSecret, At
  <2>2. PICK l \in {"apply", "idle"} : pc' = [pc EXCEPT ![t][f] = l]
    BY <1>4 DEF FetchUrl, FetchSecret, Goto, Return
  <2>3. \A u \in Threads, g \in Frames : pc[u][g] = "fetch" => u = t /\ g = f
    BY <2>1
  <2>4. \A u \in Threads, g \in Frames : pc'[u][g] # "fetch"
    <3>1. \A u \in Threads, g \in Frames :
             pc'[u][g] = IF u = t /\ g = f THEN l ELSE pc[u][g]
      BY <2>2 DEF TypeOK, ActivationsOK
    <3> QED
      BY <2>2, <2>3, <3>1
  <2> QED
    BY <2>1, <2>4, ThreadsAssumption
<1> HIDE DEF MutexHeldByFetch
<1>5. ASSUME NEW t \in Threads, Step(t)
      PROVE  MutexHeldByFetch'
  BY <1>1, <1>3, <1>4, <1>5, KeepsMutexSteps DEF Step, Action
<1> QED
  BY <1>1, <1>2, <1>5, KeepsMutexEnvironment DEF Next

\* curl_mutex is held exactly during the HTTP exchange of one activation of its
\* owner (curlGetDat.c:17-56 and 79-122).
THEOREM MutexCorrect == Spec => []MutexHeldByFetch
<1>1. Init => MutexHeldByFetch
  BY ThreadsAssumption DEF Init, MutexHeldByFetch
<1> QED
  BY <1>1, MutexStep, TypeCorrect, PTL DEF Spec

-----------------------------------------------------------------------------
(* Blocking. *)

\* nest[t] lists the activations of t, each of them once.
NestInv ==
    \A t \in Threads :
       /\ \A f \in Frames : pc[t][f] # "idle" <=> \E i \in 1..Len(nest[t]) : nest[t][i] = f
       /\ \A i, j \in 1..Len(nest[t]) : nest[t][i] = nest[t][j] => i = j

\* A step moves the running activation of one thread, ends it, or starts one.
Moves(t, f) == \E l \in Labels \ {"idle"} : pc[t][f] # "idle" /\ Goto(t, f, l)
Ends(t, f)  == nest[t] # <<>> /\ f = Head(nest[t]) /\ Return(t, f)
Starts(t, f) == \E l \in Labels \ {"idle"} : Enter(t, f, l)

LEMMA MovesNest ==
    ASSUME TypeOK, NestInv, NEW t \in Threads, NEW f \in Frames, Moves(t, f)
    PROVE  NestInv'
<1> PICK l \in Labels \ {"idle"} : pc[t][f] # "idle" /\ Goto(t, f, l)
  BY DEF Moves
<1>1. \A u \in Threads, g \in Frames : pc'[u][g] # "idle" <=> pc[u][g] # "idle"
  BY DEF Goto, TypeOK, ActivationsOK
<1> QED
  BY <1>1 DEF NestInv, Goto

LEMMA EndsNest ==
    ASSUME TypeOK, NestInv, NEW t \in Threads, NEW f \in Frames, Ends(t, f)
    PROVE  NestInv'
<1> DEFINE s == nest[t]
<1>1. s \in Seq(Frames) /\ s # <<>> /\ s[1] = f
  BY DEF Ends, TypeOK, ActivationsOK
<1>2. /\ Len(Tail(s)) = Len(s) - 1
      /\ \A i \in 1..Len(s) - 1 : Tail(s)[i] = s[i + 1]
      /\ Len(s) \in Nat /\ Len(s) >= 1
  BY <1>1
<1>3. \A u \in Threads : nest'[u] = IF u = t THEN Tail(s) ELSE nest[u]
  BY DEF Ends, Return, TypeOK, ActivationsOK
<1>4. \A u \in Threads, g \in Frames :
         pc'[u][g] = IF u = t /\ g = f THEN "idle" ELSE pc[u][g]
  BY DEF Ends, Return, TypeOK, ActivationsOK
<1>5. \A i, j \in 1..Len(s) : s[i] = s[j] => i = j
  BY DEF NestInv
<1>6. \A g \in Frames : pc'[t][g] # "idle" <=> \E i \in 1..Len(Tail(s)) : Tail(s)[i] = g
  <2> TAKE g \in Frames
  <2>1. (\E i \in 1..Len(Tail(s)) : Tail(s)[i] = g) <=> \E i \in 2..Len(s) : s[i] = g
    <3>1. ASSUME NEW i \in 2..Len(s)
          PROVE  i - 1 \in 1..Len(Tail(s)) /\ Tail(s)[i - 1] = s[i]
      BY <1>2
    <3>2. ASSUME NEW i \in 1..Len(Tail(s))
          PROVE  i + 1 \in 2..Len(s) /\ Tail(s)[i] = s[i + 1]
      BY <1>2
    <3> QED
      BY <3>1, <3>2
  <2>2. (\E i \in 1..Len(s) : s[i] = g) <=> g = f \/ \E i \in 2..Len(s) : s[i] = g
    BY <1>1, <1>2
  <2>3. g = f => ~\E i \in 2..Len(s) : s[i] = g
    BY <1>1, <1>2, <1>5
  <2>4. pc[t][g] # "idle" <=> \E i \in 1..Len(s) : s[i] = g
    BY DEF NestInv
  <2> QED
    BY <1>4, <2>1, <2>2, <2>3, <2>4
<1>7. \A i, j \in 1..Len(Tail(s)) : Tail(s)[i] = Tail(s)[j] => i = j
  BY <1>2, <1>5
<1> HIDE DEF s
<1>8. ASSUME NEW u \in Threads
      PROVE  /\ \A g \in Frames :
                   pc'[u][g] # "idle" <=> \E i \in 1..Len(nest'[u]) : nest'[u][i] = g
             /\ \A i, j \in 1..Len(nest'[u]) : nest'[u][i] = nest'[u][j] => i = j
  <2>1. CASE u = t
    <3>1. nest'[u] = Tail(s)
      BY <1>3, <2>1
    <3>2. \A g \in Frames : pc'[u][g] # "idle" <=> \E i \in 1..Len(nest'[u]) : nest'[u][i] = g
      BY <1>6, <2>1, <3>1
    <3>3. \A i, j \in 1..Len(nest'[u]) : nest'[u][i] = nest'[u][j] => i = j
      BY <1>7, <3>1
    <3> QED
      BY <3>2, <3>3
  <2>2. CASE u # t
    <3>1. nest'[u] = nest[u] /\ \A g \in Frames : pc'[u][g] = pc[u][g]
      BY <1>3, <1>4, <2>2
    <3> QED
      BY <3>1 DEF NestInv
  <2> QED
    BY <2>1, <2>2
<1> QED
  BY <1>8 DEF NestInv

LEMMA StartsNest ==
    ASSUME TypeOK, NestInv, NEW t \in Threads, NEW f \in Frames, Starts(t, f)
    PROVE  NestInv'
<1> PICK l \in Labels \ {"idle"} : Enter(t, f, l)
  BY DEF Starts
<1> DEFINE s == nest[t]
           n == <<f>> \o s
<1>1. s \in Seq(Frames)
  BY DEF TypeOK, ActivationsOK
<1>2. /\ Len(n) = Len(s) + 1 /\ Len(s) \in Nat
      /\ n[1] = f
      /\ \A i \in 1..Len(s) : n[i + 1] = s[i]
  BY <1>1
<1>3. \A u \in Threads : nest'[u] = IF u = t THEN n ELSE nest[u]
  BY DEF Enter, TypeOK, ActivationsOK
<1>4. \A u \in Threads, g \in Frames :
         pc'[u][g] = IF u = t /\ g = f THEN l ELSE pc[u][g]
  BY DEF Enter, TypeOK, ActivationsOK
<1>5. \A g \in Frames : pc[t][g] # "idle" <=> \E i \in 1..Len(s) : s[i] = g
  BY DEF NestInv
<1>6. \A i \in 1..Len(s) : s[i] # f
  BY <1>5 DEF Enter
<1>7. \A i \in 1..Len(n) : i = 1 \/ (i - 1 \in 1..Len(s) /\ n[i] = s[i - 1])
  BY <1>2
<1>8. \A g \in Frames : pc'[t][g] # "idle" <=> \E i \in 1..Len(n) : n[i] = g
  <2> TAKE g \in Frames
  <2>1. (\E i \in 1..Len(n) : n[i] = g) <=> g = f \/ \E i \in 1..Len(s) : s[i] = g
    <3>1. ASSUME NEW i \in 1..Len(s)
          PROVE  i + 1 \in 1..Len(n) /\ n[i + 1] = s[i]
      BY <1>2
    <3>2. 1 \in 1..Len(n) /\ n[1] = f
      BY <1>2
    <3> QED
      BY <1>7, <3>1, <3>2
  <2> QED
    BY <1>4, <1>5, <2>1
<1>9. \A i, j \in 1..Len(n) : n[i] = n[j] => i = j
  <2>1. \A i, j \in 1..Len(s) : s[i] = s[j] => i = j
    BY DEF NestInv
  <2> QED
    BY <1>2, <1>6, <1>7, <2>1
<1> HIDE DEF s, n
<1>10. ASSUME NEW u \in Threads
       PROVE  /\ \A g \in Frames :
                    pc'[u][g] # "idle" <=> \E i \in 1..Len(nest'[u]) : nest'[u][i] = g
              /\ \A i, j \in 1..Len(nest'[u]) : nest'[u][i] = nest'[u][j] => i = j
  <2>1. CASE u = t
    <3>1. nest'[u] = n
      BY <1>3, <2>1
    <3> QED
      BY <1>8, <1>9, <2>1, <3>1
  <2>2. CASE u # t
    <3>1. nest'[u] = nest[u] /\ \A g \in Frames : pc'[u][g] = pc[u][g]
      BY <1>3, <1>4, <2>2
    <3> QED
      BY <3>1 DEF NestInv
  <2> QED
    BY <2>1, <2>2
<1> QED
  BY <1>10 DEF NestInv

LEMMA ActionNest ==
    ASSUME TypeOK, NEW t \in Threads, NEW f \in Frames, Action(t, f)
    PROVE  UNCHANGED <<pc, nest>> \/ Moves(t, f) \/ Ends(t, f)
<1>1. {"mark", "halt", "read", "lock", "fetch", "apply", "launch", "clear"}
         \subseteq Labels \ {"idle"}
  BY DEF Labels, StartLabels, StopLabels
<1>2. CASE StartIgnored(t, f) \/ StartLaunch(t, f) \/ StopClear(t, f) \/ FetchSecret(t, f)
  BY <1>2 DEF StartIgnored, StartLaunch, StopClear, FetchSecret, At, Ends
<1>3. CASE StartAccepted(t, f) \/ StartMark(t, f) \/ StartHalt(t, f) \/ StartApply(t, f)
  BY <1>1, <1>3 DEF StartAccepted, StartMark, StartHalt, StartApply, At, Moves
<1>4. CASE LockCurl(t, f) \/ FetchUrl(t, f) \/ StopHalt(t, f)
  BY <1>1, <1>4 DEF LockCurl, FetchUrl, StopHalt, At, Moves
<1>5. CASE StartRead(t, f)
  <2>1. \E l \in {"lock", "apply"} : Goto(t, f, l)
    BY <1>5 DEF StartRead
  <2> QED
    BY <1>1, <1>5, <2>1 DEF StartRead, At, Moves
<1>6. CASE StartNoFile(t, f)
  BY <1>6 DEF StartNoFile
<1> QED
  BY <1>2, <1>3, <1>4, <1>5, <1>6 DEF Action

LEMMA EnvironmentNest ==
    ASSUME TypeOK, Environment
    PROVE  UNCHANGED <<pc, nest>> \/ \E t \in Threads, f \in Frames : Starts(t, f)
<1>1. {"guard", "lock", "stop"} \subseteq Labels \ {"idle"}
  BY DEF Labels, StartLabels, StopLabels
<1>2. ASSUME NEW t \in Threads, NEW f \in Frames, NEW l \in {"guard", "lock", "stop"},
             Enter(t, f, l)
      PROVE  \E u \in Threads, g \in Frames : Starts(u, g)
  BY <1>1, <1>2 DEF Starts
<1>3. CASE NetLost \/ KeyPressed
  BY <1>2, <1>3, LabelFacts DEF NetLost, KeyPressed, RaiseUSR1, Threads
<1>4. CASE NetBack \/ Reboot \/ MqttKnowsSecret
  BY <1>4 DEF NetBack, Reboot, MqttKnowsSecret
<1>5. CASE ConfigArrived
  BY <1>2, <1>5, LabelFacts DEF ConfigArrived, Threads
<1>6. CASE MqttAsksSecret
  BY <1>2, <1>6, LabelFacts DEF MqttAsksSecret, Threads
<1>7. ASSUME NEW r \in RtmpThreads, RtmpBegin(r) \/ RtmpEnd(r)
      PROVE  UNCHANGED <<pc, nest>> \/ \E t \in Threads, f \in Frames : Starts(t, f)
  BY <1>2, <1>7, LabelFacts DEF RtmpBegin, RtmpEnd, Threads
<1>8. ASSUME NEW t \in Threads, NEW f \in {"ALRM", "CHLD"}, Deliver(t, f)
      PROVE  \E u \in Threads, g \in Frames : Starts(u, g)
  BY <1>2, <1>8, LabelFacts DEF Deliver
<1> QED
  BY <1>3, <1>4, <1>5, <1>6, <1>7, <1>8 DEF Environment

LEMMA NestStep ==
    ASSUME TypeOK, NestInv, [Next]_vars
    PROVE  NestInv'
<1>1. CASE UNCHANGED <<pc, nest>>
  BY <1>1 DEF NestInv
<1>2. CASE UNCHANGED vars
  BY <1>1, <1>2 DEF vars
<1>3. ASSUME NEW t \in Threads, Step(t)
      PROVE  NestInv'
  BY <1>1, <1>3, ActionNest, MovesNest, EndsNest DEF Step, Action
<1>4. CASE Environment
  BY <1>1, <1>4, EnvironmentNest, StartsNest
<1> QED
  BY <1>2, <1>3, <1>4 DEF Next

\* Activations block one another only through a thread that waits for the mutex it
\* holds itself (curlGetDat.c:17): an owner that runs no such handler goes on.
THEOREM BlockingCorrect == Spec => []OnlySelfDeadlock
<1>1. Init => NestInv
  BY DEF Init, NestInv
<1>2. ASSUME TypeOK, NestInv, MutexHeldByFetch
      PROVE  OnlySelfDeadlock
  <2> SUFFICES ASSUME NEW t \in Threads, Active(t), ~SelfDeadlock
               PROVE  \E u \in Threads : CanStep(u)
    BY DEF OnlySelfDeadlock
  <2>1. ASSUME NEW u \in Threads, Active(u)
        PROVE  Head(nest[u]) \in Frames /\ pc[u][Head(nest[u])] # "idle"
    <3>1. nest[u] \in Seq(Frames) /\ nest[u] # <<>>
      BY <1>2, <2>1 DEF TypeOK, ActivationsOK, Active
    <3>2. Head(nest[u]) \in Frames /\ 1 \in 1..Len(nest[u]) /\ nest[u][1] = Head(nest[u])
      BY <3>1
    <3> QED
      BY <3>2, <1>2 DEF NestInv
  <2>2. CASE curl_mutex = NoThread
    BY <2>1, <2>2 DEF CanStep
  <2>3. CASE curl_mutex # NoThread
    <3>1. PICK o \in Threads : curl_mutex = o
      BY <1>2, <2>3 DEF TypeOK
    <3>2. PICK g \in Frames : pc[o][g] = "fetch"
      BY <1>2, <3>1 DEF MutexHeldByFetch
    <3>3. Active(o)
      <4>1. PICK i \in 1..Len(nest[o]) : nest[o][i] = g
        BY <1>2, <3>2 DEF NestInv
      <4>2. nest[o] \in Seq(Frames) /\ 1..Len(nest[o]) # {}
        BY <1>2, <4>1 DEF TypeOK, ActivationsOK
      <4> QED
        BY <4>2 DEF Active
    <3>4. ~At(o, Head(nest[o]), "lock")
      BY <2>1, <3>1, <3>3 DEF SelfDeadlock
    <3> QED
      BY <2>1, <3>3, <3>4 DEF CanStep, At, Active
  <2> QED
    BY <2>2, <2>3
<1> QED
  BY <1>1, <1>2, NestStep, TypeCorrect, MutexCorrect, PTL DEF Spec

-----------------------------------------------------------------------------
(* The stream and the flag. *)

PastMark == {"halt", "read", "lock", "fetch", "apply", "launch"}

\* A step of the environment leaves the stream, the flag and the history alone and
\* brings no activation past its first line.
LEMMA EnvironmentFacts ==
    ASSUME TypeOK, Environment
    PROVE  /\ UNCHANGED <<rtmp_status, stream, failed, raced>>
           /\ \A t \in Threads, f \in StartFrames \cup StopFrames :
                 \/ pc'[t][f] = pc[t][f]
                 \/ pc[t][f] = "idle" /\ pc'[t][f] \in {"guard", "stop"}
<1>1. UNCHANGED <<rtmp_status, stream, failed, raced>>
  BY DEF Environment, RtmpBegin, RtmpEnd, MqttKnowsSecret, MqttAsksSecret, ConfigArrived,
         NetLost, NetBack, KeyPressed, RaiseUSR1, Reboot, Deliver, lib, history
<1> DEFINE Same == \A t \in Threads, f \in StartFrames \cup StopFrames :
                      \/ pc'[t][f] = pc[t][f]
                      \/ pc[t][f] = "idle" /\ pc'[t][f] \in {"guard", "stop"}
<1>2. ASSUME UNCHANGED pc
      PROVE  Same
  BY <1>2
<1>3. ASSUME NEW t \in Threads, NEW f \in Frames, NEW l \in {"guard", "stop"}, Enter(t, f, l)
      PROVE  Same
  BY <1>3, LabelFacts DEF Enter, TypeOK, ActivationsOK
<1>4. ASSUME MqttAsksSecret
      PROVE  Same
  BY <1>4, LabelFacts DEF MqttAsksSecret, Enter, TypeOK, ActivationsOK, Threads
<1> HIDE DEF Same
<1>5. ASSUME NetLost \/ KeyPressed
      PROVE  Same
  BY <1>2, <1>3, <1>5, LabelFacts DEF NetLost, KeyPressed, RaiseUSR1, Threads
<1>6. ASSUME NetBack \/ Reboot \/ MqttKnowsSecret
      PROVE  Same
  BY <1>2, <1>6 DEF NetBack, Reboot, MqttKnowsSecret
<1>7. ASSUME ConfigArrived
      PROVE  Same
  BY <1>2, <1>3, <1>7, LabelFacts DEF ConfigArrived, Threads
<1>8. ASSUME NEW r \in RtmpThreads, RtmpBegin(r) \/ RtmpEnd(r)
      PROVE  Same
  BY <1>2, <1>3, <1>8, LabelFacts DEF RtmpBegin, RtmpEnd, Threads
<1>9. ASSUME NEW t \in Threads, NEW f \in {"ALRM", "CHLD"}, Deliver(t, f)
      PROVE  Same
  BY <1>3, <1>9, LabelFacts DEF Deliver
<1>10. Same
  BY <1>4, <1>5, <1>6, <1>7, <1>8, <1>9 DEF Environment
<1> QED
  BY <1>1, <1>10 DEF Same

\* What a step of an activation does to the program counters.
Moved(t, f, k, l) ==
    /\ pc[t][f] = k
    /\ \A u \in Threads, g \in Frames : pc'[u][g] = IF u = t /\ g = f THEN l ELSE pc[u][g]

LEMMA ActionMoves ==
    ASSUME TypeOK, NEW t \in Threads, NEW f \in Frames
    PROVE  /\ StartIgnored(t, f) => Moved(t, f, "guard", "idle")
           /\ StartAccepted(t, f) => Moved(t, f, "guard", "mark")
           /\ StartMark(t, f) => Moved(t, f, "mark", "halt")
           /\ StartHalt(t, f) => Moved(t, f, "halt", "read")
           /\ StartRead(t, f) => \E l \in {"lock", "apply"} : Moved(t, f, "read", l)
           /\ LockCurl(t, f) => Moved(t, f, "lock", "fetch")
           /\ FetchUrl(t, f) => Moved(t, f, "fetch", "apply")
           /\ StartApply(t, f) => Moved(t, f, "apply", "launch")
           /\ StartLaunch(t, f) => Moved(t, f, "launch", "idle")
           /\ StopHalt(t, f) => Moved(t, f, "stop", "clear")
           /\ StopClear(t, f) => Moved(t, f, "clear", "idle")
           /\ FetchSecret(t, f) => Moved(t, f, "fetch", "idle")
<1>1. ASSUME NEW k, NEW l \in Labels, pc[t][f] = k, pc' = [pc EXCEPT ![t][f] = l]
      PROVE  Moved(t, f, k, l)
  BY <1>1 DEF Moved, TypeOK, ActivationsOK
<1>2. {"idle", "mark", "halt", "read", "lock", "fetch", "apply", "launch", "clear"}
         \subseteq Labels
  BY DEF Labels, StartLabels, StopLabels
<1>3. StartIgnored(t, f) => Moved(t, f, "guard", "idle")
  BY <1>1, <1>2 DEF StartIgnored, At, Return
<1>4. StartAccepted(t, f) => Moved(t, f, "guard", "mark")
  BY <1>1, <1>2 DEF StartAccepted, At, Goto
<1>5. StartMark(t, f) => Moved(t, f, "mark", "halt")
  BY <1>1, <1>2 DEF StartMark, At, Goto
<1>6. StartHalt(t, f) => Moved(t, f, "halt", "read")
  BY <1>1, <1>2 DEF StartHalt, At, Goto
<1>7. LockCurl(t, f) => Moved(t, f, "lock", "fetch")
  BY <1>1, <1>2 DEF LockCurl, At, Goto
<1>8. FetchUrl(t, f) => Moved(t, f, "fetch", "apply")
  BY <1>1, <1>2 DEF FetchUrl, At, Goto
<1>9. StartApply(t, f) => Moved(t, f, "apply", "launch")
  BY <1>1, <1>2 DEF StartApply, At, Goto
<1>10. StartLaunch(t, f) => Moved(t, f, "launch", "idle")
  BY <1>1, <1>2 DEF StartLaunch, At, Return
<1>11. StopHalt(t, f) => Moved(t, f, "stop", "clear")
  BY <1>1, <1>2 DEF StopHalt, At, Goto
<1>12. StopClear(t, f) => Moved(t, f, "clear", "idle")
  BY <1>1, <1>2 DEF StopClear, At, Return
<1>13. FetchSecret(t, f) => Moved(t, f, "fetch", "idle")
  BY <1>1, <1>2 DEF FetchSecret, At, Return
<1>14. StartRead(t, f) => \E l \in {"lock", "apply"} : Moved(t, f, "read", l)
  BY <1>1, <1>2 DEF StartRead, At, Goto
<1> QED
  BY <1>3, <1>4, <1>5, <1>6, <1>7, <1>8, <1>9, <1>10, <1>11, <1>12, <1>13, <1>14

LEMMA StatusStep ==
    ASSUME TypeOK, StatusMeansStreaming, [Next]_vars
    PROVE  StatusMeansStreaming'
<1> DEFINE BusyLabels == PastMark \cup {"clear"}
           Busy == \E t \in Threads, f \in StartFrames \cup StopFrames : pc[t][f] \in BusyLabels
<1>1. StatusMeansStreaming <=> (rtmp_status = 1 /\ ~stream.on => failed \/ Busy)
  BY DEF StatusMeansStreaming, PastMark
<1>2. StatusMeansStreaming' <=> (rtmp_status' = 1 /\ ~stream'.on => failed' \/ Busy')
  BY DEF StatusMeansStreaming, PastMark
<1>3. ASSUME UNCHANGED <<rtmp_status, stream, failed>>, Busy => Busy'
      PROVE  StatusMeansStreaming'
  BY <1>1, <1>2, <1>3
<1>4. CASE UNCHANGED vars
  BY <1>3, <1>4 DEF vars
<1>5. CASE Environment
  BY <1>3, <1>5, EnvironmentFacts DEF PastMark
<1>6. ASSUME NEW t \in Threads, NEW f \in Frames, Action(t, f)
      PROVE  StatusMeansStreaming'
  <2>1. CASE StartNoFile(t, f)
    BY <1>3, <2>1 DEF StartNoFile, lib, history
  <2>2. ASSUME NEW k \in Labels, NEW l \in Labels, Moved(t, f, k, l),
               k \notin BusyLabels \/ f = "SECRET", UNCHANGED <<rtmp_status, stream, failed>>
        PROVE  StatusMeansStreaming'
    <3>1. f = "SECRET" => f \notin StartFrames \cup StopFrames
      BY LabelFacts
    <3>2. Busy => Busy'
      BY <2>2, <3>1 DEF Moved, StartFrames, StopFrames, Frames
    <3> QED
      BY <1>3, <2>2, <3>2
  <2>3. CASE StartIgnored(t, f) \/ StartAccepted(t, f) \/ FetchSecret(t, f)
    BY <2>2, <2>3, ActionMoves DEF StartIgnored, StartAccepted, FetchSecret, lib, history,
       PastMark, Labels, StartLabels, StopLabels
  <2>4. ASSUME NEW k, NEW l \in BusyLabels, Moved(t, f, k, l), f # "SECRET"
        PROVE  StatusMeansStreaming'
    <3>1. f \in StartFrames \cup StopFrames /\ pc'[t][f] \in BusyLabels
      BY <2>4 DEF Moved, StartFrames, StopFrames, Frames
    <3> QED
      BY <1>2, <3>1
  <2>5. CASE LockCurl(t, f)
    <3>1. CASE f = "SECRET"
      <4>1. Moved(t, f, "lock", "fetch") /\ UNCHANGED <<rtmp_status, stream, failed>>
        BY <2>5, ActionMoves DEF LockCurl, lib, history
      <4> QED
        BY <2>2, <3>1, <4>1 DEF Labels, StartLabels
    <3>2. CASE f # "SECRET"
      BY <2>4, <2>5, <3>2, ActionMoves DEF PastMark
    <3> QED
      BY <3>1, <3>2
  <2>6. CASE \/ StartMark(t, f) \/ StartHalt(t, f) \/ StartRead(t, f) \/ FetchUrl(t, f)
             \/ StartApply(t, f) \/ StopHalt(t, f)
    <3>1. f # "SECRET"
      BY <2>6, AtFacts, LabelFacts DEF StartMark, StartHalt, StartRead, FetchUrl, StartApply,
         StopHalt, TypeOK
    <3> QED
      BY <2>4, <2>6, <3>1, ActionMoves DEF PastMark
  <2>7. CASE StartLaunch(t, f)
    BY <1>2, <2>7 DEF StartLaunch
  <2>8. CASE StopClear(t, f)
    BY <1>2, <2>8 DEF StopClear
  <2> QED
    BY <1>6, <2>1, <2>3, <2>5, <2>6, <2>7, <2>8 DEF Action
<1> QED
  BY <1>4, <1>5, <1>6 DEF Next, Step, Action

\* rtmp_status = 1 says that the stream is up, that the last call of the library failed,
\* or that a handler at work on it will decide (rtmp.c:20-117).
THEOREM StatusCorrect == Spec => []StatusMeansStreaming
<1>1. Init => StatusMeansStreaming
  BY DEF Init, StatusMeansStreaming
<1> QED
  BY <1>1, StatusStep, TypeCorrect, PTL DEF Spec

\* Why nothing streams behind a cleared flag: without an overlap a start past its
\* assignment has the flag set, and while a stop is between its two statements
\* nothing streams and no start is under way.
Started   == PastMark \cup {"mark"}
Runs      == stream.on /\ ~failed
StoppedInv ==
    ~raced =>
       /\ \A t \in Threads, f \in StartFrames : pc[t][f] \in PastMark => rtmp_status = 1
       /\ Runs => rtmp_status = 1
       /\ StopHalfDone => /\ ~Runs
                          /\ \A t \in Threads, f \in StartFrames : pc[t][f] \notin Started

LEMMA StoppedStep ==
    ASSUME TypeOK, StoppedInv, [Next]_vars
    PROVE  StoppedInv'
<1> SUFFICES ASSUME ~raced' PROVE StoppedInv'
  BY DEF StoppedInv
<1>0. /\ raced => raced'
      /\ StartFrames \cap StopFrames = {} /\ StartFrames \cup StopFrames \subseteq Frames
  <2>1. Environment => UNCHANGED raced
    BY EnvironmentFacts
  <2>2. ASSUME NEW t \in Threads, NEW f \in Frames, Action(t, f), raced
        PROVE  raced'
    BY <2>2 DEF Action, StartIgnored, StartAccepted, StartMark, StartHalt, StartRead, StartNoFile,
       LockCurl, FetchUrl, StartApply, StartLaunch, StopHalt, StopClear, FetchSecret, history
  <2>3. UNCHANGED vars => UNCHANGED raced
    BY DEF vars
  <2> QED
    BY <2>1, <2>2, <2>3 DEF Next, Step, Action, StartFrames, StopFrames, Frames
<1>1. ~raced
  BY <1>0
<1>2. CASE UNCHANGED vars
  BY <1>2 DEF vars, StoppedInv, StopHalfDone, Runs
<1>3. CASE Environment
  <2>1. /\ StopHalfDone' => StopHalfDone
        /\ \A t \in Threads, f \in StartFrames :
              /\ pc'[t][f] \in PastMark => pc[t][f] \in PastMark
              /\ pc'[t][f] \in Started => pc[t][f] \in Started
    BY <1>3, EnvironmentFacts DEF StopHalfDone, PastMark, Started
  <2> QED
    BY <1>1, <1>3, <2>1, EnvironmentFacts DEF StoppedInv, Runs
<1>4. ASSUME NEW t \in Threads, NEW f \in Frames, Action(t, f)
      PROVE  StoppedInv'
  <2>1. CASE StartNoFile(t, f)
    BY <2>1 DEF StartNoFile, lib, history, StoppedInv, StopHalfDone, Runs
  \* steps that bring no activation into Started or PastMark and no stop to "clear"
  <2>2. ASSUME NEW k, NEW l, Moved(t, f, k, l), l # "clear",
               l \in Started => k \in Started \/ f \notin StartFrames,
               l \in PastMark => k \in PastMark \/ f \notin StartFrames,
               UNCHANGED rtmp_status, Runs' => Runs
        PROVE  StoppedInv'
    <3>1. /\ StopHalfDone' => StopHalfDone
          /\ \A u \in Threads, g \in StartFrames :
                /\ pc'[u][g] \in PastMark => pc[u][g] \in PastMark
                /\ pc'[u][g] \in Started => pc[u][g] \in Started
      BY <1>0, <2>2 DEF StopHalfDone, Moved
    <3> QED
      BY <1>1, <2>2, <3>1 DEF StoppedInv
  <2>3. CASE StartIgnored(t, f) \/ StartApply(t, f) \/ FetchSecret(t, f)
    BY <2>2, <2>3, ActionMoves DEF StartIgnored, StartApply, FetchSecret,
       lib, history, PastMark, Started, Runs
  <2>10. CASE StartHalt(t, f)
    <3>1. ~Runs'
      BY <2>10, LibraryStopFacts DEF StartHalt, Runs
    <3> QED
      BY <2>2, <2>10, <3>1, ActionMoves DEF StartHalt, PastMark, Started
  <2>11. CASE StartRead(t, f)
    <3>1. PICK l \in {"lock", "apply"} : Moved(t, f, "read", l)
      BY <2>11, ActionMoves
    <3> QED
      BY <2>2, <2>11, <3>1 DEF StartRead, lib, history, PastMark, Started, Runs
  <2>4. CASE LockCurl(t, f) \/ FetchUrl(t, f)
    BY <2>2, <2>4, ActionMoves DEF LockCurl, FetchUrl, lib, history, PastMark, Started, Moved, Runs
  <2>5. CASE StartAccepted(t, f)
    <3>1. ~StopHalfDone
      BY <2>5 DEF StartAccepted
    <3>2. Moved(t, f, "guard", "mark")
      BY <2>5, ActionMoves
    <3>3. /\ ~StopHalfDone'
          /\ \A u \in Threads, g \in StartFrames : pc'[u][g] \in PastMark => pc[u][g] \in PastMark
      BY <1>0, <3>1, <3>2 DEF StopHalfDone, Moved, PastMark
    <3> QED
      BY <1>1, <2>5, <3>3 DEF StoppedInv, StartAccepted, lib, Runs
  <2>6. CASE StartMark(t, f)
    <3>1. Moved(t, f, "mark", "halt") /\ rtmp_status' = 1 /\ UNCHANGED Runs
      BY <2>6, ActionMoves DEF StartMark, lib, history, Runs
    <3>2. f \in StartFrames
      BY <2>6, AtFacts DEF StartMark, TypeOK
    <3>3. ~StopHalfDone
      BY <1>1, <3>1, <3>2 DEF StoppedInv, Started, Moved
    <3>4. ~StopHalfDone'
      BY <1>0, <3>1, <3>3 DEF StopHalfDone, Moved
    <3> QED
      BY <3>1, <3>4 DEF StoppedInv
  <2>7. CASE StartLaunch(t, f)
    <3>1. Moved(t, f, "launch", "idle") /\ UNCHANGED rtmp_status
      BY <2>7, ActionMoves DEF StartLaunch
    <3>2. f \in StartFrames
      BY <2>7, AtFacts DEF StartLaunch, TypeOK
    <3>3. rtmp_status = 1 /\ ~StopHalfDone
      BY <1>1, <3>1, <3>2 DEF StoppedInv, Started, PastMark, Moved
    <3>4. ~StopHalfDone'
      BY <1>0, <3>1, <3>3 DEF StopHalfDone, Moved
    <3> QED
      BY <3>1, <3>3, <3>4 DEF StoppedInv
  <2>8. CASE StopHalt(t, f)
    <3>1. Moved(t, f, "stop", "clear") /\ UNCHANGED rtmp_status
      BY <2>8, ActionMoves DEF StopHalt
    <3>2. ~Runs'
      BY <2>8, LibraryStopFacts DEF StopHalt, Runs
    <3>3. \A u \in Threads, g \in StartFrames : pc[u][g] \notin Started
      BY <2>8 DEF StopHalt, StartInFlight, Started, PastMark, StartLabels
    <3>4. \A u \in Threads, g \in StartFrames : pc'[u][g] \notin Started
      BY <1>0, <3>1, <3>3 DEF Moved, Started, PastMark
    <3> QED
      BY <3>1, <3>2, <3>4 DEF StoppedInv, Started
  <2>9. CASE StopClear(t, f)
    <3>1. Moved(t, f, "clear", "idle") /\ UNCHANGED Runs
      BY <2>9, ActionMoves DEF StopClear, lib, history, Runs
    <3>2. f \in StopFrames
      BY <2>9, AtFacts DEF StopClear, TypeOK
    <3>3. ~Runs /\ \A u \in Threads, g \in StartFrames : pc[u][g] \notin Started
      BY <1>1, <3>1, <3>2 DEF StoppedInv, StopHalfDone, Moved
    <3>4. \A u \in Threads, g \in StartFrames : pc'[u][g] \notin Started
      BY <1>0, <3>1, <3>3 DEF Moved, Started, PastMark
    <3> QED
      BY <3>1, <3>3, <3>4 DEF StoppedInv, Started
  <2> QED
    BY <1>4, <2>1, <2>3, <2>4, <2>5, <2>6, <2>7, <2>8, <2>9,
       <2>10, <2>11 DEF Action
<1> QED
  BY <1>2, <1>3, <1>4 DEF Next, Step, Action

\* Nothing streams with the flag cleared, the state in which timer ticks and new
\* configurations are ignored, unless a stop and a start overlapped or the last call of
\* the library failed (rtmp.c:20-117).
THEOREM StoppedCorrect == Spec => []StoppedStaysStopped
<1>1. Init => StoppedInv
  BY DEF Init, StoppedInv, Runs, StopHalfDone, PastMark, StartFrames, StopFrames, Frames
<1>2. StoppedInv => StoppedStaysStopped
  BY DEF StoppedInv, StoppedStaysStopped, Runs
<1> QED
  BY <1>1, <1>2, StoppedStep, TypeCorrect, PTL DEF Spec

-----------------------------------------------------------------------------
(* Who runs what. *)

LEMMA EmptyNest ==
    ASSUME TypeOK, NestInv, NEW t \in Threads, nest[t] = <<>>
    PROVE  \A f \in Frames : pc[t][f] = "idle"
<1>1. 1..Len(nest[t]) = {}
  OBVIOUS
<1> QED
  BY <1>1 DEF NestInv

LEMMA EnterMoves ==
    ASSUME TypeOK, NEW t \in Threads, NEW f \in Frames, NEW l \in Labels, Enter(t, f, l)
    PROVE  /\ Moved(t, f, "idle", l)
           /\ \A u \in Threads : u # t => nest'[u] = nest[u]
  BY DEF Enter, Moved, TypeOK, ActivationsOK

\* An activation's own steps bring no other one into being and leave the threads as
\* they are.
LEMMA ActionKeeps ==
    ASSUME TypeOK, NEW t \in Threads, NEW f \in Frames, Action(t, f)
    PROVE  /\ UNCHANGED <<life, async, lastNetStatus, missed, installed, configuring, conf>>
           /\ \A u \in Threads, g \in Frames : pc'[u][g] # "idle" => pc[u][g] # "idle"
           /\ \A u \in Threads : nest[u] = <<>> => nest'[u] = <<>>
<1>1. UNCHANGED <<life, async, lastNetStatus, missed, installed, configuring, conf>>
  BY DEF Action, StartIgnored, StartAccepted, StartMark, StartHalt, StartRead, StartNoFile,
     LockCurl, FetchUrl, StartApply, StartLaunch, StopHalt, StopClear, FetchSecret,
     threads, inputs, history
<1>2. UNCHANGED <<pc, nest>> \/ Moves(t, f) \/ Ends(t, f)
  BY ActionNest
<1>3. ASSUME Moves(t, f)
      PROVE  /\ \A u \in Threads, g \in Frames : pc'[u][g] # "idle" => pc[u][g] # "idle"
             /\ UNCHANGED nest
  BY <1>3 DEF Moves, Goto, TypeOK, ActivationsOK
<1>4. ASSUME Ends(t, f)
      PROVE  /\ \A u \in Threads, g \in Frames : pc'[u][g] # "idle" => pc[u][g] # "idle"
             /\ \A u \in Threads : nest[u] = <<>> => nest'[u] = <<>>
  BY <1>4 DEF Ends, Return, TypeOK, ActivationsOK
<1> QED
  BY <1>1, <1>2, <1>3, <1>4

\* A thread that has not begun or is gone runs nothing; without process-directed
\* signals no thread runs two activations.
AloneInv ==
    /\ \A t \in RtmpThreads \cup {Mqtt} : life[t] # "live" => nest[t] = <<>>
    /\ async = 0 => \A t \in Threads : \A f, g \in Frames :
                       pc[t][f] # "idle" /\ pc[t][g] # "idle" => f = g

\* An activation begins in a thread that ran none.
LEMMA EnterAlone ==
    ASSUME TypeOK, NestInv, AloneInv, NEW t \in Threads, NEW f \in Frames, NEW l \in Labels,
           nest[t] = <<>>, Enter(t, f, l), UNCHANGED async,
           \A u \in RtmpThreads \cup {Mqtt} : u # t => life'[u] = life[u],
           t \in RtmpThreads \cup {Mqtt} => life'[t] = "live"
    PROVE  AloneInv'
<1>1. /\ \A u \in Threads, g \in Frames :
            pc'[u][g] = IF u = t /\ g = f THEN l ELSE pc[u][g]
      /\ \A u \in Threads : u # t => nest'[u] = nest[u]
  BY EnterMoves DEF Moved
<1>2. \A g \in Frames : pc[t][g] = "idle"
  BY EmptyNest
<1>3. RtmpThreads \cup {Mqtt} \subseteq Threads
  BY DEF Threads
<1> QED
  BY <1>1, <1>2, <1>3 DEF AloneInv

LEMMA AloneStep ==
    ASSUME TypeOK, NestInv, AloneInv, [Next]_vars
    PROVE  AloneInv'
<1>0. /\ RtmpThreads \cup {Mqtt} \subseteq Threads /\ Main \in Threads /\ Net \in Threads
      /\ Main \notin RtmpThreads \cup {Mqtt} /\ Net \notin RtmpThreads \cup {Mqtt}
      /\ {"guard", "lock", "stop"} \subseteq Labels
      /\ {"IO", "CHLD", "USR1", "SECRET", "ALRM"} \subseteq Frames
  BY ThreadsAssumption, LabelFacts DEF Threads, Labels, StartLabels, StopLabels
<1>1. CASE UNCHANGED vars
  BY <1>1 DEF vars, AloneInv
<1>2. ASSUME NEW t \in Threads, NEW f \in Frames, Action(t, f)
      PROVE  AloneInv'
  BY <1>0, <1>2, ActionKeeps DEF AloneInv
<1>3. ASSUME NEW r \in RtmpThreads, RtmpBegin(r)
      PROVE  AloneInv'
  <2>1. nest[r] = <<>> /\ Enter(r, "IO", "guard") /\ UNCHANGED async
    BY <1>3 DEF RtmpBegin, AloneInv, inputs
  <2>2. /\ \A u \in RtmpThreads \cup {Mqtt} : u # r => life'[u] = life[u]
        /\ life'[r] = "live"
    BY <1>3 DEF RtmpBegin, TypeOK
  <2> QED
    BY <1>0, <2>1, <2>2, EnterAlone
<1>4. ASSUME NEW r \in RtmpThreads, RtmpEnd(r)
      PROVE  AloneInv'
  BY <1>4 DEF RtmpEnd, AloneInv, inputs, TypeOK
<1>5. CASE MqttKnowsSecret
  BY <1>5 DEF MqttKnowsSecret, AloneInv, inputs, TypeOK
<1>6. CASE MqttAsksSecret
  <2>1. nest[Mqtt] = <<>> /\ Enter(Mqtt, "SECRET", "lock") /\ UNCHANGED async
    BY <1>6 DEF MqttAsksSecret, AloneInv, inputs
  <2>2. /\ \A u \in RtmpThreads \cup {Mqtt} : u # Mqtt => life'[u] = life[u]
        /\ life'[Mqtt] = "live"
    BY <1>6 DEF MqttAsksSecret, TypeOK
  <2> QED
    BY <1>0, <2>1, <2>2, EnterAlone
<1>7. CASE ConfigArrived
  <2>1. life[Mqtt] = "live" /\ nest[Mqtt] = <<>> /\ UNCHANGED <<life, async>>
    BY <1>7 DEF ConfigArrived, threads
  <2>2. CASE Enter(Mqtt, "CHLD", "guard")
    BY <1>0, <2>1, <2>2, EnterAlone
  <2>3. CASE UNCHANGED <<pc, nest>>
    BY <2>1, <2>3 DEF AloneInv
  <2> QED
    BY <1>7, <2>2, <2>3 DEF ConfigArrived
<1>8. ASSUME NEW t \in {Main, Net}, RaiseUSR1(t)
      PROVE  AloneInv'
  <2>1. nest[t] = <<>> /\ UNCHANGED <<life, async>>
    BY <1>8 DEF RaiseUSR1, inputs
  <2>2. CASE Enter(t, "USR1", "stop")
    BY <1>0, <2>1, <2>2, EnterAlone
  <2>3. CASE UNCHANGED <<pc, nest>>
    BY <2>1, <2>3 DEF AloneInv
  <2> QED
    BY <1>8, <2>2, <2>3 DEF RaiseUSR1
<1>9. CASE NetLost \/ KeyPressed
  BY <1>8, <1>9 DEF NetLost, KeyPressed
<1>10. CASE NetBack
  <2>1. PICK r \in RtmpThreads : life[r] = "none" /\ life' = [life EXCEPT ![r] = "created"]
    BY <1>10 DEF NetBack
  <2> QED
    BY <1>10, <2>1 DEF NetBack, AloneInv, inputs, TypeOK
<1>11. CASE Reboot
  BY <1>11 DEF Reboot, AloneInv, inputs
<1>12. ASSUME NEW t \in Threads, NEW f \in {"ALRM", "CHLD"}, Deliver(t, f)
       PROVE  AloneInv'
  <2>1. async' # 0 /\ UNCHANGED life /\ Alive(t) /\ Enter(t, f, "guard")
    BY <1>12 DEF Deliver, threads, TypeOK
  <2>2. \A u \in Threads : u # t => nest'[u] = nest[u]
    BY <1>0, <2>1, EnterMoves
  <2>3. t \in RtmpThreads \cup {Mqtt} => life[t] = "live"
    BY <2>1 DEF Alive, TypeOK
  <2> QED
    BY <1>0, <2>1, <2>2, <2>3 DEF AloneInv
<1> QED
  BY <1>1, <1>2, <1>3, <1>4, <1>5, <1>6, <1>7, <1>9, <1>10, <1>11, <1>12
     DEF Next, Step, Action, Environment

LEMMA AloneCorrect == Spec => [](TypeOK /\ NestInv /\ AloneInv)
<1>1. Init => NestInv /\ AloneInv
  BY DEF Init, NestInv, AloneInv, Threads
<1> QED
  BY <1>1, NestStep, AloneStep, TypeCorrect, PTL DEF Spec

\* As long as no process-directed signal has been delivered no handler runs inside an
\* exchange of its own thread: the signals raised by configArrived, main and
\* networkStatusPthread arrive outside getSecret and getpushurl (iot.c:241,
\* curlGetDat.c:17 and 79).
THEOREM NoSelfDeadlockCorrect == Spec => []NoSelfDeadlock
<1>1. TypeOK /\ AloneInv /\ MutexHeldByFetch => NoSelfDeadlock
  <2> SUFFICES ASSUME TypeOK, AloneInv, MutexHeldByFetch, async = 0,
                      NEW t \in Threads, NEW f \in Frames, curl_mutex = t, At(t, f, "lock")
               PROVE  FALSE
    BY DEF NoSelfDeadlock, SelfDeadlock
  <2>1. PICK g \in Frames : pc[t][g] = "fetch"
    BY DEF MutexHeldByFetch
  <2>2. pc[t][f] = "lock"
    BY DEF At
  <2> QED
    BY <2>1, <2>2 DEF AloneInv
<1> QED
  BY <1>1, AloneCorrect, MutexCorrect, PTL

-----------------------------------------------------------------------------
(* What main wants. *)

\* What the services have been told: main wants them up and has not stopped them all
\* the same.
Wanted == lastNetStatus = 1 /\ ~missed

\* SIGUSR1 is raised by main when it notes the network as lost and by the network thread
\* when it goes to configureWIFI; rtmpPthreads alone run rtmpStart(SIGIO); before one
\* has installed the handlers nothing has been started and the first is still to begin.
OriginInv ==
    /\ \A t \in Threads : pc[t]["USR1"] # "idle" =>
          (t = Main /\ ~Wanted) \/ (t = Net /\ configuring)
    /\ \A t \in Threads : pc[t]["IO"] # "idle" => t \in RtmpThreads
    /\ ~installed => /\ ~stream.on
                     /\ \A t \in Threads, f \in StartFrames : pc[t][f] = "idle"
                     /\ \E r \in RtmpThreads : life[r] = "created"
                     /\ up => Wanted
    /\ missed => lastNetStatus = 1

LEMMA ThreadFacts ==
    /\ RtmpThreads \subseteq Threads /\ Mqtt \in Threads /\ Main \in Threads /\ Net \in Threads
    /\ Mqtt \notin RtmpThreads /\ Main \notin RtmpThreads /\ Net \notin RtmpThreads
    /\ Main # Net /\ Main # Mqtt /\ Net # Mqtt
    /\ {"idle", "guard", "lock", "stop"} \subseteq Labels
    /\ {"IO", "CHLD", "USR1", "SECRET", "ALRM"} \subseteq Frames
    /\ StartFrames \subseteq Frames /\ StopFrames \subseteq Frames
  BY ThreadsAssumption, LabelFacts DEF Threads, Labels, StartLabels, StopLabels

\* What each step of the environment does to the program counters.
LEMMA EnvironmentMoves ==
    ASSUME TypeOK
    PROVE  /\ \A r \in RtmpThreads : RtmpBegin(r) => Moved(r, "IO", "idle", "guard")
           /\ \A r \in RtmpThreads : RtmpEnd(r) => UNCHANGED pc
           /\ MqttAsksSecret => Moved(Mqtt, "SECRET", "idle", "lock")
           /\ MqttKnowsSecret \/ NetBack \/ Reboot => UNCHANGED pc
           /\ ConfigArrived => IF installed THEN Moved(Mqtt, "CHLD", "idle", "guard")
                                            ELSE UNCHANGED pc
           /\ NetLost => IF installed THEN Moved(Main, "USR1", "idle", "stop")
                                      ELSE UNCHANGED pc
           /\ KeyPressed => IF installed THEN Moved(Net, "USR1", "idle", "stop")
                                         ELSE UNCHANGED pc
           /\ \A t \in Threads, f \in {"ALRM", "CHLD"} :
                 Deliver(t, f) => Moved(t, f, "idle", "guard")
<1>1. \A t \in Threads, f \in Frames, l \in Labels : Enter(t, f, l) => Moved(t, f, "idle", l)
  BY EnterMoves
<1>2. \A r \in RtmpThreads : RtmpBegin(r) => Moved(r, "IO", "idle", "guard")
  BY <1>1, ThreadFacts DEF RtmpBegin
<1>3. \A r \in RtmpThreads : RtmpEnd(r) => UNCHANGED pc
  BY DEF RtmpEnd
<1>4. MqttAsksSecret => Moved(Mqtt, "SECRET", "idle", "lock")
  BY <1>1, ThreadFacts DEF MqttAsksSecret
<1>5. MqttKnowsSecret \/ NetBack \/ Reboot => UNCHANGED pc
  BY DEF MqttKnowsSecret, NetBack, Reboot
<1>6. ConfigArrived => IF installed THEN Moved(Mqtt, "CHLD", "idle", "guard") ELSE UNCHANGED pc
  BY <1>1, ThreadFacts DEF ConfigArrived
<1>7. NetLost => IF installed THEN Moved(Main, "USR1", "idle", "stop") ELSE UNCHANGED pc
  BY <1>1, ThreadFacts DEF NetLost, RaiseUSR1
<1>8. KeyPressed => IF installed THEN Moved(Net, "USR1", "idle", "stop") ELSE UNCHANGED pc
  BY <1>1, ThreadFacts DEF KeyPressed, RaiseUSR1
<1>9. \A t \in Threads, f \in {"ALRM", "CHLD"} : Deliver(t, f) => Moved(t, f, "idle", "guard")
  BY <1>1, ThreadFacts DEF Deliver
<1> QED
  BY <1>2, <1>3, <1>4, <1>5, <1>6, <1>7, <1>8, <1>9

LEMMA OriginStep ==
    ASSUME TypeOK, NestInv, OriginInv, [Next]_vars
    PROVE  OriginInv'
<1> USE ThreadFacts, LabelFacts DEF OriginInv, Wanted, history
<1>1. CASE UNCHANGED vars
  BY <1>1 DEF vars
<1>2. ASSUME NEW t \in Threads, NEW f \in Frames, Action(t, f), up
      PROVE  OriginInv'
  <2>1. ~installed => f \notin StartFrames
    <3>1. \E l \in Labels \ {"idle"} : At(t, f, l)
      BY <1>2 DEF Action, StartIgnored, StartAccepted, StartMark, StartHalt, StartRead, StartNoFile,
         LockCurl, FetchUrl, StartApply, StartLaunch, StopHalt, StopClear, FetchSecret,
         Labels, StartLabels, StopLabels
    <3> QED
      BY <3>1 DEF At
  <2>2. ~installed => ~stream'.on
    BY <1>2, <2>1, AtFacts DEF Action, StartIgnored, StartAccepted, StartMark, StartHalt, StartRead,
       StartNoFile, LockCurl, FetchUrl, StartApply, StartLaunch, StopHalt, StopClear, FetchSecret,
       LibraryStop, lib, TypeOK
  <2> QED
    BY <1>2, <2>2, ActionKeeps
<1>3. ASSUME NEW r \in RtmpThreads, RtmpBegin(r)
      PROVE  OriginInv'
  <2>1. installed' /\ UNCHANGED <<lastNetStatus, missed, configuring>>
    BY <1>3 DEF RtmpBegin
  <2>2. Moved(r, "IO", "idle", "guard")
    BY <1>3, EnvironmentMoves
  <2>3. \A u \in Threads, g \in Frames :
           pc'[u][g] = IF u = r /\ g = "IO" THEN "guard" ELSE pc[u][g]
    BY <2>2 DEF Moved
  <2> QED
    BY <2>1, <2>3
<1>4. ASSUME NEW r \in RtmpThreads, RtmpEnd(r)
      PROVE  OriginInv'
  <2>1. \A u \in RtmpThreads : life[u] = "created" => life'[u] = "created"
    BY <1>4 DEF RtmpEnd, TypeOK
  <2> QED
    BY <1>4, <2>1 DEF RtmpEnd, lib
<1>5. CASE MqttKnowsSecret \/ MqttAsksSecret
  <2>1. \A u \in RtmpThreads : life'[u] = life[u]
    BY <1>5 DEF MqttKnowsSecret, MqttAsksSecret, TypeOK
  <2>2. UNCHANGED <<stream, lastNetStatus, missed, configuring, installed, up>>
    BY <1>5 DEF MqttKnowsSecret, MqttAsksSecret, lib
  <2>3. UNCHANGED pc \/ Moved(Mqtt, "SECRET", "idle", "lock")
    BY <1>5, EnvironmentMoves
  <2> QED
    BY <2>1, <2>2, <2>3 DEF Moved
<1>6. CASE ConfigArrived
  BY <1>6, EnvironmentMoves DEF ConfigArrived, Moved, lib, threads
<1>7. CASE NetLost
  <2>1. /\ ~Wanted' /\ (missed' => lastNetStatus' = 1)
        /\ UNCHANGED <<stream, life, installed, configuring>>
        /\ ~installed => ~up'
    BY <1>7 DEF NetLost, RaiseUSR1, lib
  <2> QED
    BY <1>7, <2>1, EnvironmentMoves DEF Moved, TypeOK
<1>8. CASE KeyPressed
  <2>1. /\ configuring' /\ UNCHANGED <<stream, life, installed, lastNetStatus, missed>>
        /\ ~installed => ~up'
    BY <1>8 DEF KeyPressed, RaiseUSR1, lib
  <2> QED
    BY <1>8, <2>1, EnvironmentMoves DEF Moved
<1>9. CASE NetBack
  <2>1. pc[Main]["USR1"] = "idle"
    BY <1>9, EmptyNest DEF NetBack
  <2>2. \A u \in RtmpThreads : life[u] = "created" => life'[u] = "created"
    <3>1. PICK r \in RtmpThreads : life' = [life EXCEPT ![r] = "created"]
      BY <1>9 DEF NetBack
    <3> QED
      BY <3>1 DEF TypeOK
  <2> QED
    BY <1>9, <2>1, <2>2 DEF NetBack, lib
<1>10. CASE Reboot
  BY <1>10 DEF Reboot, lib
<1>11. ASSUME NEW t \in Threads, NEW f \in {"ALRM", "CHLD"}, Deliver(t, f)
       PROVE  OriginInv'
  <2>1. installed /\ UNCHANGED <<installed, lastNetStatus, missed, configuring>>
    BY <1>11 DEF Deliver, threads
  <2> QED
    BY <1>11, <2>1, EnvironmentMoves DEF Moved
<1> HIDE DEF OriginInv, Wanted, history
<1> QED
  BY <1>1, <1>2, <1>3, <1>4, <1>5, <1>6, <1>7, <1>8, <1>9, <1>10, <1>11
     DEF Next, Step, Action, Environment

LEMMA FlightFacts ==
    ASSUME TypeOK, NEW t \in Threads, NEW f \in Frames, NEW k, NEW l, Moved(t, f, k, l),
           \A r \in RtmpThreads : life'[r] = life[r]
    PROVE  /\ f \notin StartFrames \/ k = "idle" \/ (k = "guard" /\ f # "IO")
                 => (StartInFlight => StartInFlight')
           /\ f \in StartFrames /\ l \in StartLabels \ {"guard"} => StartInFlight'
           /\ f \notin StartFrames \/ l = "idle" \/ (l = "guard" /\ f # "IO")
                 => (StartInFlight' => StartInFlight)
<1>1. \A u \in Threads, g \in Frames : pc'[u][g] = IF u = t /\ g = f THEN l ELSE pc[u][g]
  BY DEF Moved
<1>2. "idle" \notin StartLabels /\ pc[t][f] = k
  BY DEF StartLabels, Moved
<1> QED
  BY <1>1, <1>2, ThreadFacts, LabelFacts DEF StartInFlight

\* A handler past its guard that goes on, and the exchange of getSecret.
GoesOn(t, f) ==
    /\ f \in StartFrames
    /\ \E k, l \in StartLabels \ {"guard"} : Moved(t, f, k, l)
Secret(t, f) ==
    /\ f = "SECRET"
    /\ \E k, l \in Labels : Moved(t, f, k, l)
    /\ UNCHANGED <<rtmp_status, stream, libconf, snap, history>>

LEMMA ActionKinds ==
    ASSUME TypeOK, NEW t \in Threads, NEW f \in Frames, Action(t, f)
    PROVE  \/ StartNoFile(t, f) \/ StartIgnored(t, f) \/ StartAccepted(t, f)
           \/ GoesOn(t, f) \/ StartLaunch(t, f) \/ StopHalt(t, f) \/ StopClear(t, f)
           \/ Secret(t, f)
<1>1. CASE StartMark(t, f) \/ StartHalt(t, f) \/ StartRead(t, f) \/ FetchUrl(t, f) \/ StartApply(t, f)
  <2>1. f \in StartFrames
    BY <1>1, AtFacts DEF StartMark, StartHalt, StartRead, FetchUrl, StartApply, TypeOK
  <2> QED
    BY <1>1, <2>1, ActionMoves DEF GoesOn, StartLabels
<1>2. CASE LockCurl(t, f)
  <2>1. f \in StartFrames \/ f = "SECRET"
    BY <1>2, AtFacts DEF LockCurl, TypeOK
  <2>2. Moved(t, f, "lock", "fetch") /\ UNCHANGED <<rtmp_status, stream, libconf, snap, history>>
    BY <1>2, ActionMoves DEF LockCurl, lib
  <2> QED
    BY <2>1, <2>2 DEF GoesOn, Secret, StartLabels, Labels
<1>3. CASE FetchSecret(t, f)
  <2>1. f = "SECRET" /\ Moved(t, f, "fetch", "idle")
        /\ UNCHANGED <<rtmp_status, stream, libconf, snap, history>>
    BY <1>3, ActionMoves DEF FetchSecret, lib
  <2> QED
    BY <2>1 DEF Secret, StartLabels, Labels
<1> QED
  BY <1>1, <1>2, <1>3 DEF Action

LEMMA RacedStays ==
    ASSUME TypeOK, [Next]_vars
    PROVE  (raced => raced') /\ (reordered => reordered')
<1>1. Environment => UNCHANGED <<raced, reordered>>
  BY ThreadFacts DEF Environment, RtmpBegin, RtmpEnd, MqttKnowsSecret, MqttAsksSecret, ConfigArrived,
     NetLost, NetBack, KeyPressed, RaiseUSR1, Reboot, Deliver, history
<1>2. ASSUME NEW t \in Threads, NEW f \in Frames, Action(t, f)
      PROVE  (raced => raced') /\ (reordered => reordered')
  <2>1. CASE StartApply(t, f)
    <3>1. raced => raced'
      BY <2>1 DEF StartApply
    <3>2. reordered => reordered'
      BY <2>1 DEF StartApply
    <3> QED
      BY <3>1, <3>2
  <2>2. CASE StartAccepted(t, f) \/ StopHalt(t, f)
    <3>1. raced => raced'
      BY <2>2 DEF StartAccepted, StopHalt
    <3>2. reordered => reordered'
      BY <2>2 DEF StartAccepted, StopHalt
    <3> QED
      BY <3>1, <3>2
  <2>3. CASE ~StartApply(t, f) /\ ~StartAccepted(t, f) /\ ~StopHalt(t, f)
    <3>1. UNCHANGED <<raced, reordered>>
      BY <1>2, <2>3 DEF Action, StartIgnored, StartMark, StartHalt, StartRead, StartNoFile,
         LockCurl, FetchUrl, StartLaunch, StopClear, FetchSecret, history
    <3> QED
      BY <3>1
  <2> QED
    BY <2>1, <2>2, <2>3
<1>3. UNCHANGED vars => UNCHANGED <<raced, reordered>>
  BY DEF vars
<1> QED
  BY <1>1, <1>2, <1>3 DEF Next, Step, Action

\* While the services are wanted the stream is up or a start is on its way.
WantedInv ==
    ~raced /\ Wanted /\ ~configuring => stream.on \/ failed \/ StartInFlight

LEMMA WantedStep ==
    ASSUME TypeOK, OriginInv, WantedInv, [Next]_vars
    PROVE  WantedInv'
<1> USE DEF Wanted, history
<1> SUFFICES ASSUME ~raced', Wanted', ~configuring'
             PROVE  stream'.on \/ failed' \/ StartInFlight'
  BY DEF WantedInv
<1>1. ~raced
  BY RacedStays
<1>2. CASE UNCHANGED vars
  BY <1>1, <1>2 DEF vars, WantedInv, StartInFlight
<1>3. ASSUME UNCHANGED <<stream, failed, lastNetStatus, missed, configuring>>,
             StartInFlight => StartInFlight'
      PROVE  stream'.on \/ failed' \/ StartInFlight'
  BY <1>1, <1>3 DEF WantedInv
<1>4. ASSUME NEW r \in RtmpThreads, RtmpBegin(r)
      PROVE  StartInFlight'
  BY <1>4, EnvironmentMoves, ThreadFacts DEF Moved, StartInFlight
<1>5. ASSUME NEW r \in RtmpThreads, RtmpEnd(r)
      PROVE  stream'.on \/ failed' \/ StartInFlight'
  <2>1. UNCHANGED pc /\ \A u \in RtmpThreads : life[u] = "created" => life'[u] = "created"
    BY <1>5 DEF RtmpEnd, TypeOK
  <2>2. StartInFlight => StartInFlight'
    BY <2>1 DEF StartInFlight
  <2> QED
    BY <1>3, <1>5, <2>2 DEF RtmpEnd, lib, history
<1>6. ASSUME NEW t \in Threads, NEW f \in {"SECRET", "ALRM", "CHLD"}, NEW l,
             UNCHANGED pc \/ Moved(t, f, "idle", l),
             UNCHANGED <<stream, failed, lastNetStatus, missed, configuring>>,
             \A u \in RtmpThreads : life'[u] = life[u]
      PROVE  stream'.on \/ failed' \/ StartInFlight'
  <2>1. f \in Frames
    BY ThreadFacts
  <2>2. CASE UNCHANGED pc
    BY <1>3, <1>6, <2>2 DEF StartInFlight
  <2>3. CASE Moved(t, f, "idle", l)
    BY <1>3, <1>6, <2>1, <2>3, FlightFacts
  <2> QED
    BY <1>6, <2>2, <2>3
<1>7. CASE MqttKnowsSecret \/ MqttAsksSecret
  <2>1. \A u \in RtmpThreads : life'[u] = life[u]
    BY <1>7, ThreadFacts DEF MqttKnowsSecret, MqttAsksSecret, TypeOK
  <2>2. UNCHANGED <<stream, failed, lastNetStatus, missed, configuring>>
    BY <1>7 DEF MqttKnowsSecret, MqttAsksSecret, lib, history
  <2>3. UNCHANGED pc \/ Moved(Mqtt, "SECRET", "idle", "lock")
    BY <1>7, EnvironmentMoves
  <2> QED
    BY <1>6, <2>1, <2>2, <2>3, ThreadFacts
<1>8. CASE ConfigArrived
  <2>1. UNCHANGED <<stream, failed, lastNetStatus, missed, configuring, life>>
    BY <1>8 DEF ConfigArrived, lib, history, threads
  <2>2. UNCHANGED pc \/ Moved(Mqtt, "CHLD", "idle", "guard")
    BY <1>8, EnvironmentMoves
  <2> QED
    BY <1>6, <2>1, <2>2, ThreadFacts
<1>9. CASE NetLost \/ KeyPressed
  BY <1>9 DEF NetLost, KeyPressed
<1>10. CASE NetBack
  <2>1. PICK r \in RtmpThreads : life' = [life EXCEPT ![r] = "created"]
    BY <1>10 DEF NetBack
  <2>2. life'[r] = "created"
    BY <2>1 DEF TypeOK
  <2> QED
    BY <2>2 DEF StartInFlight
<1>11. CASE Reboot
  BY <1>3, <1>11 DEF Reboot, lib, history, StartInFlight
<1>12. ASSUME NEW t \in Threads, NEW f \in {"ALRM", "CHLD"}, Deliver(t, f)
       PROVE  stream'.on \/ failed' \/ StartInFlight'
  <2>1. UNCHANGED <<stream, failed, lastNetStatus, missed, configuring, life>>
    BY <1>12 DEF Deliver, lib, history, threads
  <2>2. Moved(t, f, "idle", "guard")
    BY <1>12, EnvironmentMoves
  <2> QED
    BY <1>6, <2>1, <2>2
<1>13. ASSUME NEW t \in Threads, NEW f \in Frames, Action(t, f)
       PROVE  stream'.on \/ failed' \/ StartInFlight'
  <2>0. UNCHANGED <<life, lastNetStatus, missed, configuring>>
    BY <1>13, ActionKeeps
  <2>1. CASE StartNoFile(t, f)
    BY <1>3, <2>0, <2>1 DEF StartNoFile, lib, history, StartInFlight
  <2>2. CASE StartIgnored(t, f)
    <3>1. Moved(t, f, "guard", "idle") /\ f # "IO" /\ UNCHANGED <<stream, failed>>
      BY <2>2, ActionMoves DEF StartIgnored, lib, history
    <3> QED
      BY <1>3, <2>0, <3>1, FlightFacts
  <2>3. CASE StartAccepted(t, f)
    <3>1. Moved(t, f, "guard", "mark") /\ f \in StartFrames
      BY <2>3, ActionMoves, AtFacts DEF StartAccepted, TypeOK
    <3> QED
      BY <2>0, <3>1, FlightFacts DEF StartLabels
  <2>4. CASE GoesOn(t, f)
    BY <2>0, <2>4, FlightFacts DEF GoesOn
  <2>5. CASE StartLaunch(t, f)
    BY <2>5 DEF StartLaunch
  <2>6. CASE StopHalt(t, f)
    <3>1. pc[t]["USR1"] # "idle"
      BY <2>6, AtFacts, LabelFacts DEF StopHalt, At, TypeOK
    <3> QED
      BY <2>0, <3>1 DEF OriginInv
  <2>7. CASE StopClear(t, f)
    <3>1. Moved(t, f, "clear", "idle") /\ f \notin StartFrames /\ UNCHANGED <<stream, failed>>
      BY <2>7, ActionMoves, AtFacts, LabelFacts DEF StopClear, TypeOK, lib, history
    <3> QED
      BY <1>3, <2>0, <3>1, FlightFacts
  <2>8. CASE Secret(t, f)
    <3>1. PICK k, l \in Labels : Moved(t, f, k, l)
      BY <2>8 DEF Secret
    <3>2. f \notin StartFrames /\ UNCHANGED <<stream, failed>>
      BY <2>8, LabelFacts DEF Secret, history
    <3> QED
      BY <1>3, <2>0, <3>1, <3>2, FlightFacts
  <2> QED
    BY <1>13, <2>1, <2>2, <2>3, <2>4, <2>5, <2>6, <2>7, <2>8, ActionKinds
<1> QED
  BY <1>2, <1>4, <1>5, <1>7, <1>8, <1>9, <1>10, <1>11, <1>12, <1>13
     DEF Next, Step, Action, Environment

\* While they are not wanted, once main's signal is being handled, the stream is off and no
\* start is on its way; once it has been handled, ticks and configurations are ignored.
UnwantedInv ==
    ~raced /\ ~Wanted /\ installed /\ pc[Main]["USR1"] # "stop" =>
       /\ ~Runs /\ ~StartInFlight
       /\ pc[Main]["USR1"] = "idle" => rtmp_status = 0

LEMMA UnwantedStep ==
    ASSUME TypeOK, OriginInv, UnwantedInv, [Next]_vars
    PROVE  UnwantedInv'
<1> USE DEF Wanted, history, Runs
<1> DEFINE Goal == /\ ~Runs' /\ ~StartInFlight'
                   /\ pc'[Main]["USR1"] = "idle" => rtmp_status' = 0
<1> SUFFICES ASSUME ~raced', ~Wanted', installed', pc'[Main]["USR1"] # "stop"
             PROVE  Goal
  BY DEF UnwantedInv
<1>1. ~raced
  BY RacedStays
<1>2. CASE UNCHANGED vars
  BY <1>1, <1>2 DEF vars, UnwantedInv, StartInFlight
<1>3. ASSUME UNCHANGED <<stream, failed, rtmp_status, lastNetStatus, missed, installed>>,
             pc'[Main]["USR1"] = pc[Main]["USR1"],
             StartInFlight' => StartInFlight
      PROVE  Goal
  BY <1>1, <1>3 DEF UnwantedInv
<1>4. ASSUME NEW r \in RtmpThreads, RtmpBegin(r), up
      PROVE  FALSE
  <2>1. life[r] = "created" /\ UNCHANGED <<lastNetStatus, missed>>
    BY <1>4 DEF RtmpBegin
  <2>2. pc'[Main]["USR1"] = pc[Main]["USR1"]
    BY <1>4, EnvironmentMoves, ThreadFacts DEF Moved
  <2>3. StartInFlight
    BY <2>1 DEF StartInFlight
  <2> QED
    BY <1>1, <1>4, <2>1, <2>2, <2>3 DEF UnwantedInv, OriginInv
<1>5. ASSUME NEW r \in RtmpThreads, RtmpEnd(r)
      PROVE  Goal
  <2>1. UNCHANGED pc /\ \A u \in RtmpThreads : life'[u] = "created" => life[u] = "created"
    BY <1>5 DEF RtmpEnd, TypeOK
  <2>2. StartInFlight' => StartInFlight
    BY <2>1 DEF StartInFlight
  <2> QED
    BY <1>3, <1>5, <2>1, <2>2 DEF RtmpEnd, lib
<1>6. ASSUME NEW t \in Threads, NEW f \in {"SECRET", "ALRM", "CHLD", "USR1"}, NEW l,
             UNCHANGED pc \/ Moved(t, f, "idle", l),
             f \in {"ALRM", "CHLD"} => l = "guard", f = "USR1" => t # Main,
             UNCHANGED <<stream, failed, rtmp_status, lastNetStatus, missed, installed>>,
             \A u \in RtmpThreads : life'[u] = life[u]
      PROVE  Goal
  <2>1. f \in Frames
    BY ThreadFacts
  <2>2. CASE UNCHANGED pc
    BY <1>3, <1>6, <2>2 DEF StartInFlight
  <2>3. CASE Moved(t, f, "idle", l)
    <3>1. pc'[Main]["USR1"] = pc[Main]["USR1"]
      BY <1>6, <2>3, ThreadFacts DEF Moved
    <3> QED
      BY <1>3, <1>6, <2>1, <2>3, <3>1, FlightFacts, LabelFacts
  <2> QED
    BY <1>6, <2>2, <2>3
<1>7. CASE MqttKnowsSecret \/ MqttAsksSecret
  <2>1. \A u \in RtmpThreads : life'[u] = life[u]
    BY <1>7, ThreadFacts DEF MqttKnowsSecret, MqttAsksSecret, TypeOK
  <2>2. UNCHANGED <<stream, failed, rtmp_status, lastNetStatus, missed, installed>>
    BY <1>7 DEF MqttKnowsSecret, MqttAsksSecret, lib
  <2>3. UNCHANGED pc \/ Moved(Mqtt, "SECRET", "idle", "lock")
    BY <1>7, EnvironmentMoves
  <2> QED
    BY <1>6, <2>1, <2>2, <2>3, ThreadFacts
<1>8. CASE ConfigArrived
  <2>1. UNCHANGED <<stream, failed, rtmp_status, lastNetStatus, missed, installed, life>>
    BY <1>8 DEF ConfigArrived, lib, threads
  <2>2. UNCHANGED pc \/ Moved(Mqtt, "CHLD", "idle", "guard")
    BY <1>8, EnvironmentMoves
  <2> QED
    BY <1>6, <2>1, <2>2, ThreadFacts
<1>9. CASE NetLost
  <2>1. UNCHANGED installed
    BY <1>9 DEF NetLost, RaiseUSR1
  <2>2. pc'[Main]["USR1"] = "stop"
    BY <1>9, <2>1, EnvironmentMoves, ThreadFacts DEF Moved
  <2> QED
    BY <2>2
<1>10. CASE KeyPressed
  <2>1. UNCHANGED <<stream, failed, rtmp_status, lastNetStatus, missed, installed, life>>
    BY <1>10 DEF KeyPressed, RaiseUSR1, lib
  <2>2. UNCHANGED pc \/ Moved(Net, "USR1", "idle", "stop")
    BY <1>10, EnvironmentMoves
  <2> QED
    BY <1>6, <2>1, <2>2, ThreadFacts
<1>11. CASE NetBack
  BY <1>11 DEF NetBack, OriginInv
<1>12. CASE Reboot
  BY <1>3, <1>12 DEF Reboot, lib, StartInFlight
<1>13. ASSUME NEW t \in Threads, NEW f \in {"ALRM", "CHLD"}, Deliver(t, f)
       PROVE  Goal
  <2>1. UNCHANGED <<stream, failed, rtmp_status, lastNetStatus, missed, installed, life>>
    BY <1>13 DEF Deliver, lib, threads
  <2>2. Moved(t, f, "idle", "guard")
    BY <1>13, EnvironmentMoves
  <2> QED
    BY <1>6, <2>1, <2>2
<1>14. ASSUME NEW t \in Threads, NEW f \in Frames, Action(t, f)
       PROVE  Goal
  <2>0. UNCHANGED <<life, lastNetStatus, missed, installed>>
    BY <1>14, ActionKeeps
  <2> DEFINE Off == ~Runs /\ ~StartInFlight /\ (pc[Main]["USR1"] = "idle" => rtmp_status = 0)
  <2>1. f # "USR1" => (\A k, l : Moved(t, f, k, l) => pc'[Main]["USR1"] = pc[Main]["USR1"])
    BY ThreadFacts DEF Moved
  <2>2. pc[Main]["USR1"] # "stop" => Off
    BY <1>1, <2>0 DEF UnwantedInv
  <2>3. CASE StartNoFile(t, f)
    BY <1>3, <2>0, <2>3 DEF StartNoFile, lib, StartInFlight
  <2>4. CASE StartIgnored(t, f)
    <3>1. Moved(t, f, "guard", "idle") /\ f # "USR1" /\ UNCHANGED <<stream, failed, rtmp_status>>
      BY <2>4, ActionMoves DEF StartIgnored, lib
    <3> QED
      BY <1>3, <2>0, <2>1, <3>1, FlightFacts
  <2>5. CASE StartAccepted(t, f)
    <3>1. Moved(t, f, "guard", "mark") /\ f \in StartFrames
      BY <2>5, ActionMoves, AtFacts DEF StartAccepted, TypeOK
    <3>2. Off
      BY <2>1, <2>2, <3>1, LabelFacts
    <3>3. CASE f = "IO"
      <4>1. pc[t]["IO"] = "guard" /\ t \in RtmpThreads
        BY <3>1, <3>3 DEF Moved, OriginInv
      <4> QED
        BY <3>2, <4>1 DEF StartInFlight
    <3>4. CASE f # "IO"
      <4>1. rtmp_status # 0
        BY <2>5, <3>1, <3>4, LabelFacts DEF StartAccepted
      <4>2. pc[Main]["USR1"] # "idle" /\ pc[Main]["USR1"] # "stop"
        BY <2>1, <3>1, <3>2, <4>1, LabelFacts
      <4>3. pc[Main]["USR1"] \in StopLabels \cup {"idle"}
        BY ThreadFacts, LabelFacts DEF TypeOK, ActivationsOK
      <4>4. pc[Main]["USR1"] = "clear"
        BY <4>2, <4>3 DEF StopLabels
      <4>5. StopHalfDone
        BY <4>4, ThreadFacts, LabelFacts DEF StopHalfDone
      <4> QED
        BY <2>5, <4>5 DEF StartAccepted
    <3> QED
      BY <3>3, <3>4
  <2>6. CASE GoesOn(t, f) \/ StartLaunch(t, f)
    <3>1. PICK k \in StartLabels \ {"guard"} : \E l : Moved(t, f, k, l)
      BY <2>6, ActionMoves DEF GoesOn, StartLabels
    <3>2. f \in StartFrames
      BY <2>6, AtFacts DEF GoesOn, StartLaunch, TypeOK
    <3>3. StartInFlight
      BY <3>1, <3>2 DEF Moved, StartInFlight
    <3> QED
      BY <2>1, <2>2, <3>1, <3>2, <3>3, LabelFacts
  <2>7. CASE StopHalt(t, f)
    <3>1. Moved(t, f, "stop", "clear") /\ f = "USR1" /\ UNCHANGED rtmp_status
      BY <2>7, ActionMoves, AtFacts, LabelFacts DEF StopHalt, TypeOK
    <3>2. ~Runs'
      BY <2>7, LibraryStopFacts DEF StopHalt
    <3>3. ~StartInFlight
      BY <2>7 DEF StopHalt
    <3>4. ~StartInFlight'
      BY <2>0, <3>1, <3>3, FlightFacts, LabelFacts
    <3>5. CASE t = Main
      <4>1. pc'[Main]["USR1"] = "clear"
        BY <3>1, <3>5 DEF Moved
      <4> QED
        BY <3>2, <3>4, <4>1
    <3>6. CASE t # Main
      <4>1. pc'[Main]["USR1"] = pc[Main]["USR1"]
        BY <3>1, <3>6, ThreadFacts DEF Moved
      <4> QED
        BY <2>2, <3>1, <3>2, <3>4, <4>1
    <3> QED
      BY <3>5, <3>6
  <2>8. CASE StopClear(t, f)
    <3>1. /\ Moved(t, f, "clear", "idle") /\ f = "USR1"
          /\ rtmp_status' = 0 /\ UNCHANGED <<stream, failed>>
      BY <2>8, ActionMoves, AtFacts, LabelFacts DEF StopClear, TypeOK, lib
    <3>2. pc[Main]["USR1"] # "stop"
      BY <3>1, ThreadFacts DEF Moved
    <3>3. ~StartInFlight'
      BY <2>0, <2>2, <3>1, <3>2, FlightFacts, LabelFacts
    <3> QED
      BY <2>2, <3>1, <3>2, <3>3
  <2>9. CASE Secret(t, f)
    <3>1. PICK k, l \in Labels : Moved(t, f, k, l)
      BY <2>9 DEF Secret
    <3>2. f \notin StartFrames /\ f # "USR1" /\ UNCHANGED <<stream, failed, rtmp_status>>
      BY <2>9, LabelFacts DEF Secret
    <3> QED
      BY <1>3, <2>0, <2>1, <3>1, <3>2, FlightFacts
  <2> QED
    BY <1>14, <2>3, <2>4, <2>5, <2>6, <2>7, <2>8, <2>9, ActionKinds
<1> HIDE DEF Goal
<1> QED
  BY <1>2, <1>4, <1>5, <1>7, <1>8, <1>9, <1>10, <1>11, <1>12, <1>13, <1>14
     DEF Next, Step, Action, Environment

LEMMA OrderCorrect == Spec => [](TypeOK /\ NestInv /\ OriginInv /\ WantedInv /\ UnwantedInv)
<1>1. Init => NestInv
  BY DEF Init, NestInv
<1>2. Init => OriginInv /\ WantedInv /\ UnwantedInv
  BY ThreadFacts DEF Init, Wanted, Runs, OriginInv, WantedInv, UnwantedInv, StartInFlight, StartFrames
<1> QED
  BY <1>1, <1>2, NestStep, OriginStep, WantedStep, UnwantedStep, TypeCorrect, PTL DEF Spec

\* When all activations have returned the stream runs exactly if main wants it, up to a
\* failed call of the library, the key and an overlap of start and stop, and is off when
\* main has stopped it and noted the network as up (unidoliMainAPP.c:97-113,
\* rtmp.c:20-117): no other order of ticks, configurations and losses loses it.
THEOREM FollowsCorrect == Spec => []FollowsMain
<1>1. TypeOK /\ NestInv /\ OriginInv /\ WantedInv /\ UnwantedInv => FollowsMain
  <2> SUFFICES ASSUME TypeOK, NestInv, OriginInv, WantedInv, UnwantedInv,
                      Quiet, \A r \in RtmpThreads : life[r] # "created",
                      ~raced, ~failed, ~configuring
               PROVE  stream.on <=> Wanted
    BY DEF FollowsMain, Wanted
  <2>1. \A t \in Threads, f \in Frames : pc[t][f] = "idle"
    BY EmptyNest DEF Quiet, Active
  <2>2. ~StartInFlight
    BY <2>1, ThreadFacts DEF StartInFlight, StartLabels
  <2>3. installed
    BY DEF OriginInv
  <2>4. Wanted => stream.on
    BY <2>2 DEF WantedInv
  <2>5. ~Wanted => ~stream.on
    BY <2>1, <2>3, ThreadFacts DEF UnwantedInv, Runs
  <2> QED
    BY <2>4, <2>5
<1> QED
  BY <1>1, OrderCorrect, PTL

-----------------------------------------------------------------------------
(* Which configuration streams. *)

\* A start that has not read the file yet, or has read its present contents and has
\* not set them.
Fresh(t, f) == \/ pc[t][f] \in {"guard", "mark", "halt", "read"}
               \/ pc[t][f] \in {"lock", "fetch", "apply"} /\ snap[t][f] = conf
SomeFresh  == \E t \in Threads, f \in StartFrames : Fresh(t, f)
SomePast   == \E t \in Threads, f \in StartFrames : pc[t][f] \in PastMark
SomeLaunch == \E t \in Threads, f \in StartFrames : pc[t][f] = "launch"

\* Without an overlap or a reordering the library has the newest configuration or a
\* start that will set it is under way, and streams with what it was last given or
\* is about to be launched again.
ConfInv ==
    /\ libconf <= conf /\ \A t \in Threads, f \in Frames : snap[t][f] <= conf
    /\ ~raced /\ ~reordered =>
          /\ Runs \/ SomePast => libconf = conf \/ SomeFresh
          /\ Runs => stream.conf = libconf \/ SomeLaunch

LEMMA ConfTypes ==
    ASSUME TypeOK
    PROVE  /\ libconf \in Nat /\ conf \in Nat
           /\ \A t \in Threads, f \in Frames : snap[t][f] \in Nat
  BY BoundsAssumption DEF TypeOK, Confs

\* Steps that only begin starts.
LEMMA ConfCalm ==
    ASSUME TypeOK, ConfInv, UNCHANGED <<libconf, conf, stream, snap, failed>>,
           raced => raced', reordered => reordered',
           \A u \in Threads, g \in StartFrames :
              pc'[u][g] = pc[u][g] \/ (pc[u][g] = "idle" /\ pc'[u][g] = "guard")
    PROVE  ConfInv'
<1>1. SomePast' => SomePast
  BY DEF SomePast, PastMark
<1>2. SomeFresh => SomeFresh'
  BY DEF SomeFresh, Fresh
<1>3. SomeLaunch => SomeLaunch'
  BY DEF SomeLaunch
<1> QED
  BY <1>1, <1>2, <1>3 DEF ConfInv, Runs

LEMMA ConfAction ==
    ASSUME TypeOK, StoppedInv, ConfInv, NEW t \in Threads, NEW f \in Frames, Action(t, f),
           raced => raced', reordered => reordered'
    PROVE  ConfInv'
<1>0. UNCHANGED conf /\ StartFrames \subseteq Frames
  BY ActionKeeps, ThreadFacts
<1>1. \A k, l : Moved(t, f, k, l) =>
         /\ pc[t][f] = k
         /\ \A u \in Threads, g \in StartFrames :
               pc'[u][g] = IF u = t /\ g = f THEN l ELSE pc[u][g]
  BY <1>0 DEF Moved
<1>2. CASE StartNoFile(t, f)
  BY <1>0, <1>2, ConfCalm DEF StartNoFile, lib, history
<1>3. CASE Secret(t, f) \/ StopClear(t, f)
  <2>1. PICK k, l \in Labels : Moved(t, f, k, l)
    BY <1>3, ActionMoves DEF Secret, Labels, StopLabels
  <2>2. f \notin StartFrames /\ UNCHANGED <<stream, libconf, snap, failed>>
    BY <1>3, AtFacts, LabelFacts DEF Secret, StopClear, TypeOK, lib, history
  <2> QED
    BY <1>0, <1>1, <2>1, <2>2, ConfCalm
\* a start that goes on from k to l without touching the library
<1>4. ASSUME NEW k, NEW l, Moved(t, f, k, l), f \in StartFrames,
             l \in PastMark => k \in PastMark \/ k = "mark",
             k \in {"guard", "mark", "halt", "read"} => l \in {"guard", "mark", "halt", "read"},
             k \in {"lock", "fetch", "apply"} => l \in {"lock", "fetch", "apply"},
             k # "launch", UNCHANGED <<libconf, snap>>,
             UNCHANGED <<stream, failed>> \/ ~Runs'
      PROVE  ConfInv'
  <2>1. SomeFresh => SomeFresh'
    BY <1>0, <1>1, <1>4 DEF SomeFresh, Fresh
  <2>2. SomeLaunch => SomeLaunch'
    BY <1>1, <1>4 DEF SomeLaunch
  <2>3. SomePast' => SomePast \/ SomeFresh
    BY <1>1, <1>4 DEF SomePast, SomeFresh, Fresh
  <2> QED
    BY <1>0, <1>4, <2>1, <2>2, <2>3 DEF ConfInv, Runs
<1>5. CASE StartAccepted(t, f) \/ StartMark(t, f)
  <2>1. f \in StartFrames /\ UNCHANGED <<stream, libconf, snap, failed>>
    BY <1>5, AtFacts DEF StartAccepted, StartMark, TypeOK, lib, history
  <2>2. Moved(t, f, "guard", "mark") \/ Moved(t, f, "mark", "halt")
    BY <1>5, ActionMoves
  <2> QED
    BY <1>4, <2>1, <2>2 DEF PastMark
<1>6. CASE StartHalt(t, f)
  <2>1. f \in StartFrames /\ UNCHANGED <<libconf, snap>>
    BY <1>6, AtFacts DEF StartHalt, TypeOK
  <2>2. ~Runs'
    BY <1>6, LibraryStopFacts DEF StartHalt, Runs
  <2>3. Moved(t, f, "halt", "read")
    BY <1>6, ActionMoves
  <2> QED
    BY <1>4, <2>1, <2>2, <2>3 DEF PastMark
<1>7. CASE (LockCurl(t, f) \/ FetchUrl(t, f)) /\ f # "SECRET"
  <2>1. f \in StartFrames /\ UNCHANGED <<stream, libconf, snap, failed>>
    BY <1>7, AtFacts DEF LockCurl, FetchUrl, TypeOK, lib, history
  <2>2. Moved(t, f, "lock", "fetch") \/ Moved(t, f, "fetch", "apply")
    BY <1>7, ActionMoves
  <2> QED
    BY <1>4, <2>1, <2>2 DEF PastMark
<1>8. CASE StartRead(t, f)
  <2>1. /\ f \in StartFrames /\ UNCHANGED <<stream, libconf, failed>>
        /\ \A u \in Threads, g \in Frames :
              snap'[u][g] = IF u = t /\ g = f THEN conf ELSE snap[u][g]
    BY <1>8, AtFacts DEF StartRead, TypeOK, lib, history
  <2>2. PICK l \in {"lock", "apply"} : Moved(t, f, "read", l)
    BY <1>8, ActionMoves
  <2>3. SomeFresh'
    BY <1>0, <1>1, <2>1, <2>2 DEF SomeFresh, Fresh
  <2>4. SomeLaunch => SomeLaunch'
    BY <1>1, <2>2 DEF SomeLaunch
  <2>5. \A u \in Threads, g \in Frames : snap'[u][g] <= conf
    BY <2>1, ConfTypes DEF ConfInv
  <2> QED
    BY <1>0, <2>1, <2>3, <2>4, <2>5 DEF ConfInv, Runs
<1>9. CASE StartApply(t, f)
  <2>1. /\ f \in StartFrames /\ UNCHANGED <<stream, failed>> /\ libconf' = snap[t][f]
        /\ \A u \in Threads, g \in Frames :
              snap'[u][g] = IF u = t /\ g = f THEN 0 ELSE snap[u][g]
    BY <1>9, AtFacts DEF StartApply, TypeOK
  <2>2. Moved(t, f, "apply", "launch")
    BY <1>9, ActionMoves
  <2>3. SomeLaunch' /\ SomePast
    BY <1>1, <2>1, <2>2 DEF SomeLaunch, SomePast, PastMark
  <2>4. libconf' <= conf' /\ \A u \in Threads, g \in Frames : snap'[u][g] <= conf'
    BY <1>0, <2>1, ConfTypes DEF ConfInv
  <2>5. ASSUME ~raced', ~reordered', libconf' # conf'
        PROVE  SomeFresh'
    <3>1. snap[t][f] < conf
      BY <1>0, <2>1, <2>5, ConfTypes DEF ConfInv
    <3>2. libconf # conf
      BY <1>9, <2>5, <3>1 DEF StartApply
    <3>3. SomeFresh
      BY <2>3, <2>5, <3>2 DEF ConfInv
    <3>4. ~Fresh(t, f)
      BY <2>1, <2>2, <3>1, <1>1, ConfTypes DEF Fresh
    <3> QED
      BY <1>0, <1>1, <2>1, <2>2, <3>3, <3>4 DEF SomeFresh, Fresh
  <2> QED
    BY <2>3, <2>4, <2>5 DEF ConfInv, Runs
<1>10. CASE StartLaunch(t, f)
  <2>1. f \in StartFrames /\ UNCHANGED <<libconf, snap>>
    BY <1>10, AtFacts DEF StartLaunch, TypeOK
  <2>2. Moved(t, f, "launch", "idle")
    BY <1>10, ActionMoves
  <2>3. SomePast
    BY <1>1, <2>1, <2>2 DEF SomePast, PastMark
  <2>4. SomeFresh => SomeFresh'
    BY <1>0, <1>1, <2>1, <2>2 DEF SomeFresh, Fresh
  <2>5. stream'.conf = libconf' \/ failed'
    BY <1>10, <2>1 DEF StartLaunch
  <2> QED
    BY <1>0, <2>1, <2>3, <2>4, <2>5 DEF ConfInv, Runs
\* an ignored start finds nothing running
<1>11. CASE StartIgnored(t, f) \/ StopHalt(t, f)
  <2>1. UNCHANGED <<libconf, snap>>
    BY <1>11 DEF StartIgnored, StopHalt, lib
  <2>2. ASSUME ~raced'
        PROVE  ~Runs' /\ ~SomePast'
    <3>1. CASE StartIgnored(t, f)
      <4>1. ~Runs /\ ~SomePast
        BY <2>2, <3>1 DEF StoppedInv, StartIgnored, SomePast
      <4>2. Moved(t, f, "guard", "idle") /\ UNCHANGED <<stream, failed>>
        BY <3>1, ActionMoves DEF StartIgnored, lib, history
      <4> QED
        BY <1>1, <4>1, <4>2 DEF SomePast, PastMark, Runs
    <3>2. CASE StopHalt(t, f)
      <4>1. ~Runs'
        BY <3>2, LibraryStopFacts DEF StopHalt, Runs
      <4>2. ~SomePast
        BY <2>2, <3>2 DEF StopHalt, StartInFlight, SomePast, PastMark, StartLabels
      <4>3. Moved(t, f, "stop", "clear")
        BY <3>2, ActionMoves
      <4> QED
        BY <1>1, <4>1, <4>2, <4>3 DEF SomePast, PastMark
    <3> QED
      BY <1>11, <3>1, <3>2
  <2> QED
    BY <1>0, <2>1, <2>2 DEF ConfInv
<1> QED
  <2>1. Secret(t, f) \/ ~(LockCurl(t, f) \/ FetchUrl(t, f)) \/ f # "SECRET"
    <3>1. FetchUrl(t, f) => f # "SECRET"
      BY DEF FetchUrl
    <3>2. LockCurl(t, f) /\ f = "SECRET" => Secret(t, f)
      BY ActionMoves DEF LockCurl, Secret, lib, Labels, StartLabels
    <3> QED
      BY <3>1, <3>2
  <2>2. FetchSecret(t, f) => Secret(t, f)
    BY ActionMoves DEF FetchSecret, Secret, lib, Labels, StartLabels
  <2> QED
    BY <1>2, <1>3, <1>5, <1>6, <1>7, <1>8, <1>9, <1>10, <1>11, <2>1, <2>2 DEF Action

LEMMA ConfStep ==
    ASSUME TypeOK, OriginInv, StoppedInv, ConfInv, [Next]_vars
    PROVE  ConfInv'
<1>1. (raced => raced') /\ (reordered => reordered')
  BY RacedStays
<1>2. CASE UNCHANGED vars
  BY <1>1, <1>2, ConfCalm DEF vars
<1>3. ASSUME NEW t \in Threads, NEW f \in Frames, Action(t, f)
      PROVE  ConfInv'
  BY <1>1, <1>3, ConfAction
<1>4. CASE Environment /\ ~ConfigArrived
  <2>1. UNCHANGED <<libconf, conf, stream, snap, failed>>
    BY <1>4 DEF Environment, RtmpBegin, RtmpEnd, MqttKnowsSecret, MqttAsksSecret,
       NetLost, NetBack, KeyPressed, RaiseUSR1, Reboot, Deliver, lib, inputs, history
  <2>2. \A u \in Threads, g \in StartFrames :
           pc'[u][g] = pc[u][g] \/ (pc[u][g] = "idle" /\ pc'[u][g] = "guard")
    BY <1>4, EnvironmentMoves, ThreadFacts, LabelFacts DEF Environment, Moved
  <2> QED
    BY <1>1, <2>1, <2>2, ConfCalm
<1>5. CASE ConfigArrived
  <2>1. conf' = conf + 1 /\ UNCHANGED <<libconf, stream, snap, failed, installed>>
    BY <1>5 DEF ConfigArrived, lib, history, threads
  <2>2. libconf' <= conf' /\ \A u \in Threads, g \in Frames : snap'[u][g] <= conf'
    BY <2>1, ConfTypes DEF ConfInv
  <2>3. CASE installed
    <3>1. Moved(Mqtt, "CHLD", "idle", "guard")
      BY <1>5, <2>3, EnvironmentMoves
    <3>2. SomeFresh'
      BY <3>1, ThreadFacts, LabelFacts DEF Moved, SomeFresh, Fresh
    <3>3. SomeLaunch => SomeLaunch'
      BY <3>1, ThreadFacts DEF Moved, SomeLaunch
    <3> QED
      BY <1>1, <2>1, <2>2, <3>2, <3>3 DEF ConfInv, Runs
  <2>4. CASE ~installed
    <3>1. ~stream'.on /\ UNCHANGED pc
      BY <1>5, <2>1, <2>4, EnvironmentMoves DEF OriginInv
    <3>2. ~SomePast'
      BY <2>4, <3>1 DEF SomePast, PastMark, OriginInv
    <3> QED
      BY <2>2, <3>1, <3>2 DEF ConfInv, Runs
  <2> QED
    BY <2>3, <2>4
<1> QED
  BY <1>2, <1>3, <1>4, <1>5 DEF Next, Step, Action

\* When all activations have returned the stream uses the configuration in the file, though
\* each read it at another time, unless one has set an older configuration over a newer
\* one, a start and a stop overlapped or the last call of the library failed
\* (rtmp.c:20-117, iot.c:241).
THEOREM LatestConfCorrect == Spec => []UsesLatestConf
<1>1. Init => ConfInv /\ StoppedInv
  <2>1. Init => ~SomePast /\ ~StopHalfDone
    BY ThreadFacts, LabelFacts DEF Init, SomePast, StopHalfDone, PastMark
  <2> QED
    BY <2>1, ThreadFacts DEF Init, ConfInv, StoppedInv, Runs, PastMark
<1>2. TypeOK /\ NestInv /\ ConfInv => UsesLatestConf
  <2> SUFFICES ASSUME TypeOK, NestInv, ConfInv, Quiet, stream.on, ~raced, ~reordered, ~failed
               PROVE  stream.conf = conf
    BY DEF UsesLatestConf
  <2>1. \A t \in Threads, f \in StartFrames : pc[t][f] = "idle"
    BY EmptyNest, ThreadFacts DEF Quiet, Active
  <2>2. ~SomeFresh /\ ~SomeLaunch
    BY <2>1 DEF SomeFresh, SomeLaunch, Fresh
  <2> QED
    BY <2>2 DEF ConfInv, Runs
<1> QED
  BY <1>1, <1>2, ConfStep, StoppedStep, OrderCorrect, PTL DEF Spec
=============================================================================
