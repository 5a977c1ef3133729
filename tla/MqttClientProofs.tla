---------------------------- MODULE MqttClientProofs ----------------------------
(***************************************************************************)
(* Theorems about MqttClient, for any number of restarts.                  *)
(***************************************************************************)
EXTENDS MqttClient, TLAPS

LEMMA AfterFacts ==
    /\ DOMAIN After = {"alloc", "fetch", "auth", "construct", "subscribe", "version"}
    /\ \A k \in DOMAIN After : After[k] \in Labels /\ After[k] \in Preparing \cup Serving
  BY DEF After, Labels, Preparing, Serving

\* The steps of a client on its way to the loop or in it that leave the flag alone.
Onward(t) ==
    /\ \E k \in Preparing \cup Serving, l \in Preparing \cup Serving : Step(t, k, l)
    /\ UNCHANGED <<loop_mqtt, command, overlapped, stale, missed>>

LEMMA OnwardFacts ==
    \A t \in MqttThreads : Begin(t) \/ Proceed(t) \/ ReadSecret(t) \/ FetchSecret(t) \/ Yield(t)
        => Onward(t)
<1> USE DEF Onward, Step, history
<1>1. /\ {"created", "secret"} \cup DOMAIN After \subseteq Preparing
      /\ {"yield", "test"} \subseteq Serving
  BY DEF Preparing, Serving
<1> QED
  BY <1>1, AfterFacts DEF Begin, Proceed, ReadSecret, FetchSecret, Yield

LEMMA TypeStep ==
    ASSUME TypeOK, [Next]_vars
    PROVE  TypeOK'
<1> USE AfterFacts DEF TypeOK, Step, main, history
<1>1. {"none", "ended", "created", "alloc", "secret", "fetch", "auth", "version", "yield",
       "test", "reset", "leave"} \subseteq Labels
  BY DEF Labels, Preparing, Serving, Leaving
<1>2. ASSUME NEW t \in MqttThreads, Begin(t) \/ ReadSecret(t) \/ FetchSecret(t) \/ Yield(t)
      PROVE  TypeOK'
  BY <1>1, <1>2 DEF Begin, ReadSecret, FetchSecret, Yield
<1>3. ASSUME NEW t \in MqttThreads, Proceed(t)
      PROVE  TypeOK'
  BY <1>3 DEF Proceed
<1>4. ASSUME NEW t \in MqttThreads, GiveUp(t) \/ NoFile(t)
      PROVE  TypeOK'
  BY <1>1, <1>4 DEF GiveUp, NoFile
<1>5. ASSUME NEW t \in MqttThreads, TestLoop(t) \/ Reset(t) \/ Leave(t)
      PROVE  TypeOK'
  BY <1>1, <1>5 DEF TestLoop, Reset, Leave
<1>6. CASE NetLost \/ KeyPressed
  BY <1>6 DEF NetLost, KeyPressed, RaiseUSR2
<1>7. CASE NetBack
  BY <1>1, <1>7 DEF NetBack
<1>8. CASE Reboot \/ UNCHANGED vars
  BY <1>8 DEF Reboot, vars
<1> HIDE DEF TypeOK
<1> QED
  BY <1>2, <1>3, <1>4, <1>5, <1>6, <1>7, <1>8 DEF Next, Client

\* Every variable keeps the values it may have (iot.c:28-33 and 249-492).
THEOREM TypeCorrect == Spec => []TypeOK
<1>1. Init => TypeOK
  BY FirstAssumption DEF Init, TypeOK, Labels, Preparing
<1> QED
  BY <1>1, TypeStep, PTL DEF Spec

-----------------------------------------------------------------------------
(* loop_mqtt and the clients. *)

\* One client at a time unless a start has overlapped; a stop stays in the flag until
\* the client takes it; the flag is 1 for a client that starts afresh.
LoopInv ==
    /\ ~overlapped => \A s, t \in MqttThreads : Alive(s) /\ Alive(t) => s = t
    /\ StopReachesClient
    /\ ~missed /\ loop_mqtt = 0 => \E t \in MqttThreads : Takes(t) \/ pc[t] = "reset"
    /\ command = "start" /\ ~overlapped /\ ~stale => loop_mqtt = 1

LEMMA LoopInit == Init => LoopInv
  BY DEF Init, LoopInv, StopReachesClient, Alive

LEMMA TakesFacts == \A t \in MqttThreads :
    /\ Takes(t) => Alive(t)
    /\ pc[t] \in {"reset", "leave"} => Alive(t) /\ ~Takes(t)
    /\ pc[t] \in {"none", "ended"} => ~Takes(t)
    /\ pc[t] \in {"created", "yield", "test"} => Takes(t)
  BY DEF Takes, Alive, Preparing, Serving, After

LEMMA LoopStep ==
    ASSUME TypeOK, LoopInv, [Next]_vars
    PROVE  LoopInv'
<1> USE DEF LoopInv, StopReachesClient
<1>1. pc \in [MqttThreads -> Labels] /\ loop_mqtt \in {0, 1}
  BY DEF TypeOK
<1>2. ASSUME NEW t \in MqttThreads, Onward(t), up' = up
      PROVE  LoopInv'
  <2>1. /\ \A s \in MqttThreads : Takes(s)' <=> Takes(s)
        /\ \A s \in MqttThreads : pc'[s] = "reset" <=> pc[s] = "reset"
        /\ \A s \in MqttThreads : Alive(s)' <=> Alive(s)
    BY <1>1, <1>2 DEF Onward, Step, Takes, Alive, Preparing, Serving, After
  <2> QED
    BY <1>2, <2>1 DEF Onward
<1>3. ASSUME NEW t \in MqttThreads, Step(t, "test", "yield") \/ Step(t, "test", "reset"),
             TestLoop(t)
      PROVE  LoopInv'
  <2>1. CASE loop_mqtt = 1
    <3>1. Onward(t) /\ up' = up
      BY <1>3, <2>1 DEF TestLoop, Onward, Step, Serving, history
    <3> QED
      BY <1>2, <3>1
  <2>2. CASE loop_mqtt = 0
    <3>1. /\ \A s \in MqttThreads : Takes(s)' => Takes(s)
          /\ \A s \in MqttThreads : Alive(s)' => Alive(s)
          /\ pc'[t] = "reset"
      BY <1>1, <1>3, <2>2 DEF TestLoop, Step, Takes, Alive, Preparing, Serving, After
    <3> QED
      BY <1>3, <2>2, <3>1 DEF TestLoop, history
  <2> QED
    BY <1>1, <2>1, <2>2
<1>4. ASSUME NEW t \in MqttThreads, Reset(t)
      PROVE  LoopInv'
  <2>1. /\ \A s \in MqttThreads : Takes(s)' => Takes(s)
        /\ \A s \in MqttThreads : Alive(s)' => Alive(s)
        /\ Alive(t) /\ ~Takes(t)
    BY <1>1, <1>4 DEF Reset, Step, Takes, Alive, Preparing, Serving, After
  <2>2. ~overlapped => \A s \in MqttThreads : ~Takes(s)
    BY <2>1, TakesFacts
  <2> QED
    BY <1>4, <2>1, <2>2 DEF Reset, history
<1>5. ASSUME NEW t \in MqttThreads, GiveUp(t) \/ Leave(t)
      PROVE  LoopInv'
  <2>1. /\ \A s \in MqttThreads : Takes(s)' => Takes(s)
        /\ \A s \in MqttThreads : Alive(s)' => Alive(s)
    BY <1>1, <1>5 DEF GiveUp, Leave, Step, Takes, Alive, Preparing, Serving, After
  <2>2. \A s \in MqttThreads : Leave(t) /\ (Takes(s) \/ pc[s] = "reset")
           => Takes(s)' \/ pc'[s] = "reset"
    BY <1>1, <1>5, TakesFacts DEF Leave, Step, Takes
  <2>3. CASE Leave(t)
    BY <2>1, <2>2, <2>3 DEF Leave, history
  <2>4. CASE GiveUp(t)
    BY <1>1, <2>1, <2>4 DEF GiveUp
  <2> QED
    BY <1>5, <2>3, <2>4
<1>6. CASE (\E t \in MqttThreads : NoFile(t)) \/ Reboot
  BY <1>6 DEF NoFile, Reboot, Takes, Alive, main, history
<1>7. CASE NetLost \/ KeyPressed
  BY <1>7 DEF NetLost, KeyPressed, RaiseUSR2, Takes, Alive
<1>8. CASE NetBack
  <2>1. PICK t \in MqttThreads : Step(t, "none", "created")
    BY <1>8 DEF NetBack
  <2>2. /\ \A s \in MqttThreads : s # t => pc'[s] = pc[s]
        /\ pc[t] = "none" /\ pc'[t] = "created"
    BY <1>1, <2>1 DEF Step
  <2>3. ~overlapped' => \A s \in MqttThreads : ~Alive(s)
    BY <1>8 DEF NetBack
  <2>4. \A s \in MqttThreads : s # t => (Alive(s)' <=> Alive(s))
    BY <2>2 DEF Alive
  <2>5. Takes(t)'
    BY <2>2 DEF Takes, Preparing
  <2>6. command' = "start" /\ loop_mqtt' = loop_mqtt /\ stale' = (loop_mqtt = 0)
    BY <1>8 DEF NetBack
  <2>7. ~overlapped' => \A s, u \in MqttThreads : Alive(s)' /\ Alive(u)' => s = u
    BY <2>3, <2>4
  <2> QED
    BY <1>1, <2>5, <2>6, <2>7
<1>9. CASE UNCHANGED vars
  BY <1>9 DEF vars, Takes, Alive
<1> HIDE DEF LoopInv
<1>10. \A t \in MqttThreads :
          Begin(t) \/ Proceed(t) \/ ReadSecret(t) \/ FetchSecret(t) \/ Yield(t) => up' = up
  BY DEF Begin, Proceed, ReadSecret, FetchSecret, Yield
<1>11. \A t \in MqttThreads :
          TestLoop(t) => Step(t, "test", "yield") \/ Step(t, "test", "reset")
  BY DEF TestLoop, Step
<1> QED
  BY <1>2, <1>3, <1>4, <1>5, <1>6, <1>7, <1>8, <1>9, <1>10, <1>11, OnwardFacts DEF Next, Client

THEOREM LoopCorrect == Spec => []LoopInv
<1> QED
  BY LoopInit, LoopStep, TypeCorrect, PTL DEF Spec

\* A stop reaches the client on its way to the loop or in it (iot.c:30-33 and 426-459).
THEOREM StopReaches == Spec => []StopReachesClient
<1>1. LoopInv => StopReachesClient
  BY DEF LoopInv
<1> QED
  BY <1>1, LoopCorrect, PTL

\* A stop is spent on the client that takes it (iot.c:459-460).
THEOREM StopSpent == Spec => []StopIsSpent
<1>1. TypeOK /\ LoopInv => StopIsSpent
  BY TakesFacts DEF LoopInv, StopIsSpent, TypeOK
<1> QED
  BY <1>1, LoopCorrect, TypeCorrect, PTL

LEMMA TestFacts ==
    ASSUME NEW t \in MqttThreads, Client(t), pc[t] = "test"
    PROVE  TestLoop(t) \/ pc'[t] # "reset"
<1>1. \A k \in DOMAIN After : k # "test"
  BY AfterFacts
<1> QED
  BY <1>1, AfterFacts DEF Client, Begin, Proceed, GiveUp, NoFile, ReadSecret, FetchSecret,
     Yield, Reset, Leave, Step

LEMMA OtherFacts ==
    ASSUME TypeOK, NEW s \in MqttThreads, NEW t \in MqttThreads, s # t, Client(s)
    PROVE  pc'[t] = pc[t]
<1>1. pc' = pc \/ \E l : pc' = [pc EXCEPT ![s] = l]
  BY DEF Client, Begin, Proceed, GiveUp, NoFile, ReadSecret, FetchSecret, Yield, TestLoop,
     Reset, Leave, Step
<1> QED
  BY <1>1 DEF TypeOK

\* A client leaves its loop only for a stop meant for it (iot.c:459-460).
THEOREM LeavesWhenAsked == Spec => NoClientLeavesUnasked
<1> DEFINE Unasked == \A t \in MqttThreads : pc[t] = "test" /\ pc'[t] = "reset"
                         => command = "stop" \/ overlapped \/ stale
<1>1. ASSUME TypeOK, LoopInv, [Next]_vars
      PROVE  Unasked
  <2> SUFFICES ASSUME NEW t \in MqttThreads, pc[t] = "test", pc'[t] = "reset"
               PROVE  command = "stop" \/ overlapped \/ stale
    OBVIOUS
  <2>1. TestLoop(t)
    <3>1. PICK s \in MqttThreads : Client(s)
      <4>1. NetLost \/ KeyPressed \/ Reboot \/ UNCHANGED vars => pc' = pc
        BY DEF NetLost, KeyPressed, RaiseUSR2, Reboot, vars
      <4>2. NetBack => pc'[t] # "reset"
        BY <1>1 DEF NetBack, Step, TypeOK
      <4> QED
        BY <1>1, <4>1, <4>2 DEF Next
    <3>2. s = t
      BY <1>1, <3>1, OtherFacts
    <3> QED
      BY <3>1, <3>2, TestFacts
  <2>2. loop_mqtt # 1
    BY <1>1, <2>1 DEF TestLoop, Step, TypeOK
  <2> QED
    BY <1>1, <2>2 DEF LoopInv, TypeOK
<1>2. ASSUME TypeOK, LoopInv, [Next]_vars
      PROVE  [Unasked]_vars
  BY <1>1, <1>2
<1> QED
  BY <1>2, TypeCorrect, LoopCorrect, PTL DEF Spec, NoClientLeavesUnasked
=============================================================================
