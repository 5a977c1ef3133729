------------------------------ MODULE SerialProofs ------------------------------
(* Proofs about Serial, for any threads, buffer sizes and bounds. *)
EXTENDS Serial, SequenceTheorems, TLAPS

\* The pieces of a queue all have a property: what the operators on it preserve.
LEMMA PieceFacts ==
    ASSUME NEW S, NEW p \in Seq(S), NEW q \in Seq(S), NEW e \in S
    PROVE  /\ p \o q \in Seq(S) /\ Append(p, e) \in Seq(S)
           /\ p # <<>> => Tail(p) \in Seq(S) /\ Head(p) \in S
           /\ Len(p \o q) = Len(p) + Len(q)
  OBVIOUS

LEMMA CopyFacts ==
    ASSUME NEW S, NEW e \in S, NEW n \in Nat
    PROVE  /\ [k \in 1..n |-> e] \in Seq(S)
           /\ <<>> \in Seq(S)
<1>1. [k \in 1..n |-> e] \in [1..n -> S]
  OBVIOUS
<1> QED
  BY <1>1, SeqDef

LEMMA PartFacts ==
    ASSUME NEW S, NEW p \in Seq(S), NEW n \in 0..Len(p)
    PROVE  /\ SubSeq(p, 1, n) \in Seq(S) /\ Len(SubSeq(p, 1, n)) = n
           /\ SubSeq(p, n + 1, Len(p)) \in Seq(S)
  OBVIOUS

\* A step of thread t that ends in another label or in the same one.
LEMMA StepFacts ==
    ASSUME pc \in [Threads -> {"idle", "lock"} \cup Inside], NEW t \in Threads,
           NEW k, NEW l \in {"idle", "lock"} \cup Inside, Step(t, k, l)
    PROVE  /\ pc' \in [Threads -> {"idle", "lock"} \cup Inside]
           /\ pc[t] = k /\ pc'[t] = l
           /\ \A s \in Threads : s # t => pc'[s] = pc[s]
  BY DEF Step

-----------------------------------------------------------------------------
(* Types. *)

LEMMA ReadFacts ==
    ASSUME TypeOK, NEW t \in Threads, Read(t), NEW S,
           buf \in Seq(S), pending \in Seq(S)
    PROVE  /\ buf' \in Seq(S) /\ pending' \in Seq(S)
           /\ Len(buf') <= maxlen(t)
<1> DEFINE n == Lesser(Len(pending), maxlen(t) - Len(buf))
<1>1. /\ Len(buf) \in Nat /\ Len(pending) \in Nat /\ maxlen(t) \in Nat
      /\ Len(buf) <= maxlen(t)
  BY LengthAssumption DEF Read, Step, TypeOK, maxlen
<1>2. n \in 0..Len(pending) /\ Len(buf) + n <= maxlen(t)
  BY <1>1 DEF Lesser
<1>3. buf' = buf \o SubSeq(pending, 1, n) /\ pending' = SubSeq(pending, n + 1, Len(pending))
  BY DEF Read
<1> HIDE DEF n
<1>4. /\ SubSeq(pending, 1, n) \in Seq(S) /\ Len(SubSeq(pending, 1, n)) = n
      /\ SubSeq(pending, n + 1, Len(pending)) \in Seq(S)
  BY <1>2, PartFacts
<1> QED
  BY <1>1, <1>2, <1>3, <1>4, PieceFacts

\* PortHasOneOwner is needed: the buffer is empty when a thread begins to read.
LEMMA TypeStep ==
    ASSUME TypeOK, PortHasOneOwner, [Next]_vars
    PROVE  TypeOK'
<1> DEFINE Labels == {"idle", "lock"} \cup Inside
           Pieces == Seq(1..requests)
<1>1. /\ pc \in [Threads -> Labels] /\ serial_mutex \in Threads \cup {Nobody}
      /\ requests \in Nat /\ late \in BOOLEAN
      /\ buf \in Pieces /\ pending \in Pieces /\ line \in Pieces /\ <<>> \in Pieces
      /\ \A t \in Threads : pc[t] \in {"read", "close"} => Len(buf) <= maxlen(t)
  BY DEF TypeOK
<1>2. {"idle", "lock", "open", "flush", "send", "read", "close"} \subseteq Labels
  BY DEF Inside
<1>3. ASSUME NEW t \in Threads, NEW l \in Labels \ {"read", "close"}, NEW k, Step(t, k, l),
             serial_mutex' \in Threads \cup {Nobody}, late' \in BOOLEAN,
             UNCHANGED <<buf, line, requests>>, pending' \in {pending, <<>>}
      PROVE  TypeOK'
  BY <1>1, <1>3 DEF TypeOK, Step
<1>4. ASSUME NEW t \in Threads, Call(t) \/ Lock(t) \/ Open(t) \/ OpenFails(t)
      PROVE  TypeOK'
  BY <1>1, <1>2, <1>3, <1>4 DEF Call, Lock, Open, OpenFails, head
<1>5. CASE Busy
  BY <1>1, <1>2, <1>3, <1>5 DEF Busy, head, Threads
<1>6. CASE Flush
  BY <1>1, <1>2, <1>3, <1>6 DEF Flush, Threads
<1>7. ASSUME NEW t \in Threads, Send(t)
      PROVE  TypeOK'
  <2>1. PICK n \in 0..MaxAnswer : line' = line \o [k \in 1..n |-> requests']
    BY <1>7 DEF Send
  <2>2. requests' = requests + 1 /\ requests' \in Nat
    BY <1>1, <1>7 DEF Send
  <2>3. \A q \in Pieces : q \in Seq(1..requests')
    BY <1>1, <2>2
  <2>4. [k \in 1..n |-> requests'] \in Seq(1..requests')
    <3>1. requests' \in 1..requests' /\ n \in Nat
      BY <1>1, <2>2, BoundAssumption
    <3> QED
      BY <3>1, CopyFacts
  <2>5. line' \in Seq(1..requests')
    BY <1>1, <2>1, <2>3, <2>4, PieceFacts
  <2>6. buf' \in Seq(1..requests') /\ pending' \in Seq(1..requests')
    BY <1>1, <1>7, <2>3 DEF Send
  <2>7. pc' \in [Threads -> Labels] /\ pc[t] = "send" /\ \A s \in Threads : s # t => pc'[s] = pc[s]
    BY <1>1, <1>2, <1>7, StepFacts DEF Send
  <2>8. buf' = <<>>
    <3>1. serial_mutex = t
      BY <2>7 DEF PortHasOneOwner, Inside
    <3>2. \A s \in Threads : pc[s] \notin {"read", "close"}
      BY <2>7, <3>1 DEF PortHasOneOwner, Inside
    <3> QED
      BY <1>7, <3>2 DEF PortHasOneOwner, Send
  <2>9. \A s \in Threads : Len(buf') <= maxlen(s)
    BY <2>8, LengthAssumption DEF maxlen
  <2> QED
    BY <1>1, <1>7, <2>2, <2>5, <2>6, <2>7, <2>9 DEF TypeOK, Send
<1>8. ASSUME NEW t \in Threads, Read(t)
      PROVE  TypeOK'
  <2>1. pc' = pc
    BY <1>1, <1>8 DEF Read, Step
  <2>2. buf' \in Pieces /\ pending' \in Pieces /\ Len(buf') <= maxlen(t)
    BY <1>1, <1>8, ReadFacts
  <2>3. \A s \in Threads : pc[s] \in {"read", "close"} => s = t
    BY <1>1, <1>8 DEF Read, Step, PortHasOneOwner, Inside
  <2> QED
    BY <1>1, <1>8, <2>1, <2>2, <2>3 DEF TypeOK, Read
<1>9. ASSUME NEW t \in Threads, TimeOut(t) \/ Interrupted(t)
      PROVE  TypeOK'
  <2>1. /\ pc' \in [Threads -> Labels] /\ pc[t] = "read"
        /\ \A s \in Threads : s # t => pc'[s] = pc[s]
    BY <1>1, <1>2, <1>9, StepFacts DEF TimeOut, Interrupted
  <2>2. \A s \in Threads : pc'[s] \in {"read", "close"} => pc[s] \in {"read", "close"}
    BY <2>1
  <2> QED
    BY <1>1, <1>9, <2>1, <2>2 DEF TypeOK, TimeOut, Interrupted, head
<1>10. ASSUME NEW t \in Threads, Close(t)
       PROVE  TypeOK'
  <2>1. /\ pc' \in [Threads -> Labels] /\ pc[t] = "close" /\ pc'[t] = "idle"
        /\ \A s \in Threads : s # t => pc'[s] = pc[s]
    BY <1>1, <1>2, <1>10, StepFacts DEF Close
  <2>2. \A s \in Threads : pc'[s] \notin {"read", "close"}
    BY <1>1, <1>10, <2>1 DEF PortHasOneOwner, Inside
  <2> QED
    BY <1>1, <1>10, <2>1, <2>2 DEF TypeOK, Close
<1>11. CASE Arrive
  BY <1>1, <1>11, PieceFacts DEF Arrive, TypeOK
<1>12. CASE UNCHANGED vars
  BY <1>12 DEF TypeOK, vars
<1> QED
  BY <1>4, <1>5, <1>6, <1>7, <1>8, <1>9, <1>10, <1>11, <1>12 DEF Next, Access

LEMMA OwnerStep ==
    ASSUME TypeOK, PortHasOneOwner, [Next]_vars
    PROVE  PortHasOneOwner'
<1>1. /\ pc \in [Threads -> {"idle", "lock"} \cup Inside]
      /\ serial_mutex \in Threads \cup {Nobody} /\ Nobody \notin Threads
  BY ThreadsAssumption DEF TypeOK, Threads
<1>2. ASSUME NEW t \in Threads, NEW k \in Inside, NEW l \in Inside, Step(t, k, l),
             UNCHANGED serial_mutex, buf' = <<>> \/ l \in {"read", "close"}
      PROVE  PortHasOneOwner'
  <2>1. /\ pc[t] = k /\ pc'[t] = l
        /\ \A s \in Threads : s # t => pc'[s] = pc[s]
    BY <1>1, <1>2, StepFacts
  <2>2. \A s \in Threads : pc'[s] \in Inside <=> serial_mutex' = s
    BY <1>2, <2>1 DEF PortHasOneOwner
  <2>3. buf' # <<>> => pc'[t] \in {"read", "close"}
    BY <1>2, <2>1
  <2> QED
    BY <2>2, <2>3 DEF PortHasOneOwner
<1>3. ASSUME NEW t \in Threads, NEW k \in Inside, Step(t, k, "idle"),
             serial_mutex' = Nobody, buf' = <<>>
      PROVE  PortHasOneOwner'
  BY <1>1, <1>3, StepFacts DEF PortHasOneOwner, Inside
<1>4. ASSUME NEW t \in Threads, pc[t] \in Inside \ {"read", "close"}
      PROVE  buf = <<>>
  BY <1>4 DEF PortHasOneOwner, Inside
<1>5. ASSUME NEW t \in Threads, NEW k, NEW l \in {"idle", "lock"}, Step(t, k, l),
             k \in {"idle", "lock"}, UNCHANGED <<serial_mutex, buf>>
      PROVE  PortHasOneOwner'
  BY <1>1, <1>5, StepFacts DEF PortHasOneOwner, Inside
<1>6. ASSUME NEW t \in Threads, Call(t)
      PROVE  PortHasOneOwner'
  BY <1>5, <1>6 DEF Call
<1>7. ASSUME NEW t \in Threads, Lock(t)
      PROVE  PortHasOneOwner'
  BY <1>1, <1>7, StepFacts DEF Lock, PortHasOneOwner, Inside
<1>8. CASE Busy
  BY <1>5, <1>8 DEF Busy, Threads
<1>9. ASSUME NEW t \in Threads, Open(t)
      PROVE  PortHasOneOwner'
  BY <1>2, <1>4, <1>9 DEF Open, Step, Inside
<1>10. ASSUME NEW t \in Threads, OpenFails(t)
       PROVE  PortHasOneOwner'
  BY <1>3, <1>4, <1>10 DEF OpenFails, Step, Inside
<1>11. CASE Flush
  BY <1>2, <1>4, <1>11 DEF Flush, Step, Inside, Threads
<1>12. ASSUME NEW t \in Threads, Send(t) \/ TimeOut(t) \/ Interrupted(t) \/ Read(t)
       PROVE  PortHasOneOwner'
  BY <1>2, <1>12 DEF Send, TimeOut, Interrupted, Read, Inside
<1>13. ASSUME NEW t \in Threads, Close(t)
       PROVE  PortHasOneOwner'
  BY <1>3, <1>13 DEF Close, Inside
<1>14. CASE Arrive
  BY <1>14 DEF Arrive, PortHasOneOwner
<1>15. CASE UNCHANGED vars
  BY <1>15 DEF PortHasOneOwner, vars
<1> QED
  BY <1>6, <1>7, <1>8, <1>9, <1>10, <1>11, <1>12, <1>13, <1>14, <1>15 DEF Next, Access

LEMMA OwnerInvariant == Spec => [](TypeOK /\ PortHasOneOwner)
<1>1. ASSUME Init
      PROVE  TypeOK /\ PortHasOneOwner
  <2>1. \A t \in Threads : pc[t] = "idle"
    BY <1>1 DEF Init
  <2>2. PortHasOneOwner
    BY <1>1, <2>1, ThreadsAssumption DEF Init, PortHasOneOwner, Inside, Threads
  <2>3. \A q \in {buf, pending, line} : q = <<>>
    BY <1>1 DEF Init
  <2> QED
    BY <1>1, <2>1, <2>2, <2>3, EmptySeq DEF Init, TypeOK
<1>2. TypeOK /\ PortHasOneOwner /\ [Next]_vars => (TypeOK /\ PortHasOneOwner)'
  BY TypeStep, OwnerStep
<1> QED
  BY <1>1, <1>2, PTL DEF Spec

\* All values keep their types, and the buffer its size (serial.c:102-128).
THEOREM TypeCorrect == Spec => []TypeOK
<1> QED
  BY OwnerInvariant, PTL

\* The port has one owner, who has the mutex (serial.c:48-94 and 158-163).
THEOREM OwnerCorrect == Spec => []PortHasOneOwner
<1> QED
  BY OwnerInvariant, PTL

-----------------------------------------------------------------------------
(* getKeyStatus reads its own answer. *)

\* After a flush with the head silent there is nothing about but what the head sends
\* for the request that follows, since no other thread can send one.
KeyInv ==
    ~late =>
        /\ pc[Key] = "send" => buf = <<>> /\ pending = <<>> /\ line = <<>>
        /\ pc[Key] \in {"read", "close"} =>
               \A q \in {buf, pending, line} : q \in Seq({requests})

LEMMA KeyStep ==
    ASSUME TypeOK, PortHasOneOwner, KeyInv, [Next]_vars
    PROVE  KeyInv'
<1> DEFINE InUse == {"send", "read", "close"}
           Own == Seq({requests})
<1>1. /\ pc \in [Threads -> {"idle", "lock"} \cup Inside] /\ Key \in Threads
      /\ requests \in Nat
  BY DEF TypeOK, Threads
<1>2. ASSUME NEW t \in Threads, pc[t] \in Inside, pc[Key] \in Inside
      PROVE  t = Key
  BY <1>1, <1>2 DEF PortHasOneOwner
<1>3. ASSUME pc'[Key] \notin InUse
      PROVE  KeyInv'
  BY <1>3 DEF KeyInv
<1>4. ASSUME NEW t \in Threads \ {Key}, pc[t] \in Inside, pc'[Key] = pc[Key]
      PROVE  KeyInv'
  BY <1>1, <1>2, <1>3, <1>4 DEF Inside
<1>5. ASSUME UNCHANGED <<buf, head>>, pc'[Key] = pc[Key]
      PROVE  KeyInv'
  BY <1>5 DEF KeyInv, head
<1>6. ASSUME NEW t \in Threads, Call(t) \/ Lock(t)
      PROVE  KeyInv'
  <2>1. pc'[Key] = pc[Key] \/ pc'[Key] \in {"lock", "open"}
    BY <1>1, <1>6 DEF Call, Lock, Step
  <2> QED
    BY <1>3, <1>5, <1>6, <2>1 DEF Call, Lock
<1>7. CASE Busy
  BY <1>1, <1>3, <1>7 DEF Busy, Step
<1>8. ASSUME NEW t \in Threads \ {Key}, Access(t) \/ Interrupted(t)
      PROVE  KeyInv'
  <2>1. pc[t] \in Inside /\ pc'[Key] = pc[Key]
    BY <1>1, <1>8 DEF Access, Open, OpenFails, Send, Read, TimeOut, Interrupted,
           Close, Step, Inside
  <2> QED
    BY <1>4, <2>1
<1>9. CASE Open(Key) \/ OpenFails(Key) \/ Close(Key)
  BY <1>1, <1>3, <1>9 DEF Open, OpenFails, Close, Step
<1>10. CASE Flush
  <2>1. pc[Key] = "flush" /\ pc'[Key] = "send"
    BY <1>1, <1>10 DEF Flush, Step
  <2>2. buf = <<>>
    BY <1>1, <1>2, <2>1 DEF PortHasOneOwner, Inside
  <2> QED
    BY <1>10, <2>1, <2>2 DEF Flush, KeyInv, TypeOK
<1>11. CASE Send(Key)
  <2>1. pc[Key] = "send" /\ pc'[Key] = "read"
    BY <1>1, <1>11 DEF Send, Step
  <2>2. SUFFICES ASSUME ~late
                 PROVE  \A q \in {buf', pending', line'} : q \in Seq({requests'})
    BY <1>11, <2>1 DEF KeyInv, Send
  <2>3. buf = <<>> /\ pending = <<>> /\ line = <<>>
    BY <2>1, <2>2 DEF KeyInv
  <2>4. PICK n \in 0..MaxAnswer : line' = line \o [k \in 1..n |-> requests']
    BY <1>11 DEF Send
  <2>5. [k \in 1..n |-> requests'] \in Seq({requests'}) /\ <<>> \in Seq({requests'})
    <3>1. n \in Nat
      BY BoundAssumption
    <3> QED
      BY <3>1, CopyFacts
  <2>6. line' \in Seq({requests'})
    BY <2>3, <2>4, <2>5, PieceFacts
  <2>7. buf' = <<>> /\ pending' = <<>>
    BY <1>11, <2>3 DEF Send
  <2> QED
    BY <2>5, <2>6, <2>7
<1>12. CASE Read(Key)
  <2>1. pc[Key] = "read" /\ pc' = pc
    BY <1>1, <1>12 DEF Read, Step
  <2>2. SUFFICES ASSUME ~late
                 PROVE  \A q \in {buf', pending', line'} : q \in Seq({requests'})
    BY <1>12, <2>1 DEF KeyInv, Read
  <2>3. buf \in Own /\ pending \in Own /\ line \in Own
    BY <2>1, <2>2 DEF KeyInv
  <2>4. buf' \in Own /\ pending' \in Own
    BY <1>1, <1>12, <2>3, ReadFacts
  <2> QED
    BY <1>12, <2>3, <2>4 DEF Read
<1>13. CASE TimeOut(Key) \/ Interrupted(Key)
  <2>1. pc[Key] = "read" /\ pc'[Key] = "close"
    BY <1>1, <1>13 DEF TimeOut, Interrupted, Step
  <2> QED
    BY <1>13, <2>1 DEF TimeOut, Interrupted, KeyInv, head
<1>14. CASE Arrive
  <2>1. pc' = pc /\ line # <<>> /\ UNCHANGED <<buf, requests, late>>
        /\ line' = Tail(line) /\ pending' = Append(pending, Head(line))
    BY <1>14 DEF Arrive
  <2>2. ASSUME ~late, pc[Key] \in {"read", "close"}
        PROVE  buf \in Own /\ pending' \in Own /\ line' \in Own
    <3>1. buf \in Own /\ pending \in Own /\ line \in Own
      BY <2>2 DEF KeyInv
    <3> HIDE DEF Own
    <3>2. Tail(line) \in Own /\ Head(line) \in {requests}
      BY <2>1, <3>1, PieceFacts DEF Own
    <3> QED
      BY <2>1, <3>1, <3>2, PieceFacts DEF Own
  <2> QED
    BY <2>1, <2>2 DEF KeyInv
<1>15. CASE UNCHANGED vars
  BY <1>15 DEF KeyInv, vars, head
<1> QED
  BY <1>6, <1>7, <1>8, <1>9, <1>10, <1>11, <1>12, <1>13, <1>14, <1>15 DEF Next, Access

\* What getKeyStatus reads answers its own request (wpa2APP.c:532).
THEOREM KeyReadsOwn == Spec => []KeyReadsOwnAnswer
<1>1. Init => KeyInv
  BY DEF Init, KeyInv, Threads
<1>2. TypeOK /\ KeyInv => KeyReadsOwnAnswer
  BY DEF KeyInv, KeyReadsOwnAnswer
<1>3. TypeOK /\ PortHasOneOwner /\ KeyInv /\ [Next]_vars => KeyInv'
  BY KeyStep
<1> QED
  BY <1>1, <1>2, <1>3, TypeCorrect, OwnerCorrect, PTL DEF Spec
=============================================================================
