---------------------------- MODULE CurlFetchProofs ----------------------------
(***************************************************************************)
(* Theorems about CurlFetch, for any threads and any way bodies arrive.    *)
(***************************************************************************)
EXTENDS CurlFetch, SequenceTheorems, TLAPS

\* The step of caller c, with the process up.
Action(c) ==
    \/ Call(c) \/ Lock(c) \/ GlobalInit(c) \/ Perform(c) \/ Retry(c)
    \/ ParseAnswer(c) \/ ParseCrashes(c) \/ FreeData(c) \/ Unlock(c)
    \/ WriteData(c) \/ TransferFails(c) \/ TransferEnds(c)

LEMMA NextIsAction == [Next]_vars => UNCHANGED vars \/ \E c \in Callers : Action(c)
  BY DEF Next, Work, Action

ResponsePieces == BodyPieces \cup {"header"}

\* What arrives when the body is b.
Response(c, b) == IF c \in Secret THEN <<"header">> \o b ELSE b

LEMMA TodoFacts ==
    ASSUME NEW s \in Seq(ResponsePieces), s # <<>>
    PROVE  Head(s) \in ResponsePieces /\ Tail(s) \in Seq(ResponsePieces)
  OBVIOUS

LEMMA ResponseFacts ==
    ASSUME NEW b \in Bodies, NEW c \in Callers
    PROVE  b \in Seq(BodyPieces) /\ Response(c, b) \in Seq(ResponsePieces)
<1>1. b \in Seq(BodyPieces)
  BY BodiesAssumption
<1>2. b \in Seq(ResponsePieces)
  BY <1>1 DEF ResponsePieces
<1>3. <<"header">> \in Seq(ResponsePieces)
  BY DEF ResponsePieces
<1>4. <<"header">> \o b \in Seq(ResponsePieces)
  BY <1>2, <1>3
<1> QED
  BY <1>1, <1>2, <1>4 DEF Response

LEMMA BufFacts == \A c \in Callers : Buf(c) \in Buffers
  BY DEF Buf, Buffers

LEMMA TypeStep ==
    ASSUME TypeOK, [Next]_vars
    PROVE  TypeOK'
<1> USE DEF TypeOK, Labels, Step, history
<1>0. BodyPieces \cup {"header"} = ResponsePieces
  BY DEF ResponsePieces
<1>1. ASSUME NEW c \in Callers, Call(c) \/ GlobalInit(c) \/ Retry(c)
      PROVE  TypeOK'
  BY <1>1 DEF Call, GlobalInit, Retry
<1>9. ASSUME NEW c \in Callers, Lock(c)
      PROVE  TypeOK'
  BY <1>9 DEF Lock
<1>2. ASSUME NEW c \in Callers, Perform(c)
      PROVE  TypeOK'
  <2>1. todo' \in Seq(BodyPieces \cup {"header"}) /\ body' \in Seq(BodyPieces)
    BY <1>0, <1>2, ResponseFacts DEF Perform, Response
  <2> QED
    BY <1>2, <2>1 DEF Perform
<1>3. ASSUME NEW c \in Callers, WriteData(c)
      PROVE  TypeOK'
  <2>1. /\ [of |-> c, piece |-> Head(todo)] \in [of : Callers \cup {Nobody}, piece : Pieces]
        /\ todo' \in Seq(BodyPieces \cup {"header"})
    BY <1>0, <1>3, TodoFacts DEF WriteData, Pieces
  <2> QED
    BY <1>3, <2>1, BufFacts DEF WriteData
<1>4. ASSUME NEW c \in Callers, TransferFails(c) \/ TransferEnds(c)
      PROVE  TypeOK'
  <2>1. CASE TransferFails(c)
    <3>1. <<>> \in Seq(BodyPieces \cup {"header"})
      OBVIOUS
    <3> QED
      BY <2>1, <3>1 DEF TransferFails
  <2>2. CASE TransferEnds(c)
    BY <2>2 DEF TransferEnds
  <2> QED
    BY <1>4, <2>1, <2>2
<1>5. ASSUME NEW c \in Callers, ParseAnswer(c)
      PROVE  TypeOK'
  <2>1. dat[Buf(c)].of \in Callers \cup {Nobody}
    BY <1>5, BufFacts
  <2> QED
    BY <1>5, <2>1 DEF ParseAnswer
<1>6. ASSUME NEW c \in Callers, ParseCrashes(c) \/ Unlock(c)
      PROVE  TypeOK'
  BY <1>6 DEF ParseCrashes, Unlock
<1>7. ASSUME NEW c \in Callers, FreeData(c)
      PROVE  TypeOK'
  BY <1>7, BufFacts DEF FreeData, NULL, Pieces
<1>8. CASE UNCHANGED vars
  BY <1>8 DEF vars
<1> HIDE DEF TypeOK
<1> QED
  BY <1>1, <1>2, <1>3, <1>4, <1>5, <1>6, <1>7, <1>8, <1>9, NextIsAction DEF Action

\* Every variable keeps the values it may have (curlGetDat.c:10-140).
THEOREM TypeCorrect == Spec => []TypeOK
<1>a. <<>> \in Seq(BodyPieces) /\ <<>> \in Seq(BodyPieces \cup {"header"})
  OBVIOUS
<1>1. Init => todo \in Seq(BodyPieces \cup {"header"}) /\ body \in Seq(BodyPieces)
  BY <1>a, Zenon DEF Init
<1>2. Init => pc \in [Callers -> Labels]
  BY DEF Init, Labels
<1>3. Init => dat \in [Buffers -> [of : Callers \cup {Nobody}, piece : Pieces]]
  BY DEF Init, NULL, Pieces
<1>4. Init => /\ url \in [Callers -> Callers \cup {Nobody}]
              /\ curl_mutex \in Callers \cup {Nobody} /\ up \in BOOLEAN /\ stale \in BOOLEAN
  BY DEF Init
<1>5. Init => TypeOK
  BY <1>1, <1>2, <1>3, <1>4, Zenon DEF TypeOK
<1> QED
  BY <1>5, TypeStep, PTL DEF Spec

\* The owner of the mutex is the caller between lock and unlock, what the buffers
\* hold is its own, and it has an answer from the parsing on.
Waiting  == {"none", "lock", "init", "perform", "transfer", "sleep", "parse"}
Answered == {"free", "unlock", "returned"}

OwnerInv ==
    /\ \A c \in Callers : pc[c] \in Critical <=> curl_mutex = c
    /\ BuffersBelongToOwner
    /\ \A c \in Callers : pc[c] = "unlock" => dat[Buf(c)] = NULL
    /\ \A c \in Callers : pc[c] \in Critical =>
          \A b \in Buffers : b # Buf(c) => dat[b] = NULL
    /\ \A c \in Callers : /\ pc[c] \in Waiting  => url[c] = Nobody
                          /\ pc[c] \in Answered => url[c] = c

LEMMA OwnerInit == Init => OwnerInv
<1> SUFFICES ASSUME Init PROVE OwnerInv
  OBVIOUS
<1>1. \A c \in Callers : c # Nobody
  BY CallersAssumption
<1> QED
  BY <1>1 DEF Init, OwnerInv, BuffersBelongToOwner, Critical, Waiting, Answered, Buffers

\* A step that only moves its caller inside the critical section.
Inner(c) ==
    /\ \/ Step(c, "init", "perform") \/ Step(c, "perform", "transfer")
       \/ Step(c, "transfer", "sleep") \/ Step(c, "sleep", "perform")
       \/ Step(c, "transfer", "parse")
    /\ UNCHANGED <<curl_mutex, dat, url>>

LEMMA OwnerStep ==
    ASSUME TypeOK, OwnerInv, [Next]_vars
    PROVE  OwnerInv'
<1> USE DEF OwnerInv, BuffersBelongToOwner, Step, Critical, Waiting, Answered
<1>a. /\ pc \in [Callers -> Labels] /\ url \in [Callers -> Callers \cup {Nobody}]
      /\ dat \in [Buffers -> [of : Callers \cup {Nobody}, piece : Pieces]]
      /\ \A c \in Callers : c # Nobody
  BY CallersAssumption DEF TypeOK
<1>1. ASSUME NEW c \in Callers, Call(c)
      PROVE  OwnerInv'
  BY <1>a, <1>1 DEF Call
<1>2. ASSUME NEW c \in Callers, Lock(c)
      PROVE  OwnerInv'
  BY <1>a, <1>2 DEF Lock
<1>3. ASSUME NEW c \in Callers, Inner(c)
      PROVE  OwnerInv'
  BY <1>a, <1>3 DEF Inner
<1>4. ASSUME NEW c \in Callers, WriteData(c)
      PROVE  OwnerInv'
  <2>1. /\ dat'[Buf(c)].of = c /\ curl_mutex = c
        /\ \A b \in Buffers : b # Buf(c) => dat'[b] = NULL
    BY <1>a, <1>4, BufFacts DEF WriteData
  <2>2. \A d \in Callers : d # c => pc[d] \notin Critical
    BY <1>a, <2>1
  <2> QED
    BY <1>a, <1>4, <2>1, <2>2 DEF WriteData
<1>5. ASSUME NEW c \in Callers, ParseAnswer(c)
      PROVE  OwnerInv'
  <2>1. dat[Buf(c)].of = c
    BY <1>a, <1>5, BufFacts DEF ParseAnswer, Parses, NULL
  <2> QED
    BY <1>a, <1>5, <2>1 DEF ParseAnswer
<1>6. ASSUME NEW c \in Callers, ParseCrashes(c)
      PROVE  OwnerInv'
  BY <1>a, <1>6 DEF ParseCrashes
<1>7. ASSUME NEW c \in Callers, FreeData(c)
      PROVE  OwnerInv'
  <2>1. \A b \in Buffers : dat'[b] = NULL
    BY <1>a, <1>7, BufFacts DEF FreeData
  <2>2. \A d \in Callers : Buf(d) \in Buffers
    BY BufFacts
  <2> QED
    BY <1>a, <1>7, <2>1, <2>2 DEF FreeData
<1>8. ASSUME NEW c \in Callers, Unlock(c)
      PROVE  OwnerInv'
  <2>1. \A b \in Buffers : dat[b] = NULL
    BY <1>a, <1>8 DEF Unlock
  <2> QED
    BY <1>a, <1>8, <2>1 DEF Unlock
<1>9. CASE UNCHANGED vars
  BY <1>9 DEF vars
<1> HIDE DEF OwnerInv
<1>10. \A c \in Callers : GlobalInit(c) \/ Perform(c) \/ Retry(c) \/ TransferFails(c)
                             \/ TransferEnds(c) => Inner(c)
  BY DEF GlobalInit, Perform, Retry, TransferFails, TransferEnds, Inner
<1> QED
  BY <1>1, <1>2, <1>3, <1>4, <1>5, <1>6, <1>7, <1>8, <1>9, <1>10, NextIsAction DEF Action

THEOREM OwnerCorrect == Spec => []OwnerInv
<1> QED
  BY OwnerInit, OwnerStep, TypeCorrect, PTL DEF Spec

\* What the buffers hold is the mutex owner's; a free mutex leaves them empty.
THEOREM BuffersCorrect == Spec => []BuffersBelongToOwner
<1>1. OwnerInv => BuffersBelongToOwner
  BY DEF OwnerInv
<1> QED
  BY <1>1, OwnerCorrect, PTL

LEMMA ServiceInit == Init => Service!Init
  BY DEF Init, Service!Init

LEMMA ServiceStep ==
    ASSUME TypeOK, OwnerInv, [Next]_vars
    PROVE  [Service!Next]_(Service!vars)
<1> USE DEF OwnerInv, Step, Critical, Waiting, Answered
<1>a. /\ pc \in [Callers -> Labels] /\ url \in [Callers -> Callers \cup {Nobody}]
      /\ \A c \in Callers : c # Nobody
  BY CallersAssumption DEF TypeOK
<1>1. ASSUME NEW c \in Callers, Call(c)
      PROVE  Service!Ask(c)
  BY <1>a, <1>1 DEF Call, Service!Ask
<1>2. ASSUME NEW c \in Callers, Lock(c)
      PROVE  Service!Serve(c)
  BY <1>a, <1>2 DEF Lock, Service!Serve
<1>3. ASSUME NEW c \in Callers, ParseAnswer(c)
      PROVE  Service!Answer(c)
  <2>1. dat[Buf(c)].of = c /\ curl_mutex = c
    BY <1>a, <1>3, BufFacts DEF ParseAnswer, Parses, NULL, BuffersBelongToOwner
  <2> QED
    BY <1>a, <1>3, <2>1 DEF ParseAnswer, Service!Answer
<1>4. ASSUME NEW c \in Callers, Unlock(c)
      PROVE  Service!Release(c)
  BY <1>a, <1>4 DEF Unlock, Service!Release
<1>5. ASSUME NEW c \in Callers,
             \/ GlobalInit(c) \/ Perform(c) \/ Retry(c) \/ WriteData(c) \/ TransferFails(c)
             \/ TransferEnds(c) \/ ParseCrashes(c) \/ FreeData(c)
      PROVE  UNCHANGED Service!vars
  BY <1>5 DEF GlobalInit, Perform, Retry, WriteData, TransferFails, TransferEnds,
              ParseCrashes, FreeData, Service!vars
<1>6. CASE UNCHANGED vars
  BY <1>6 DEF vars, Service!vars
<1> QED
  BY <1>1, <1>2, <1>3, <1>4, <1>5, <1>6, NextIsAction DEF Action, Service!Next

\* Requests are served one at a time, each caller gets its own answer, and the mutex is
\* given back only then (curlGetDat.c:14-62 and 76-128).
THEOREM ServiceImplemented == Spec => ImplementsService
<1> QED
  BY ServiceInit, ServiceStep, TypeCorrect, OwnerCorrect, PTL
     DEF Spec, ImplementsService, Service!Spec

-----------------------------------------------------------------------------
(* What is parsed is the last piece of the response. *)

Last(s) == s[Len(s)]

LEMMA TailFacts ==
    ASSUME NEW s \in Seq(ResponsePieces), s # <<>>
    PROVE  /\ Tail(s) # <<>> => Last(Tail(s)) = Last(s)
           /\ Tail(s) = <<>> => Head(s) = Last(s)
<1>1. Len(s) \in Nat /\ Len(s) >= 1
  OBVIOUS
<1>2. /\ Tail(s) \in Seq(ResponsePieces) /\ Len(Tail(s)) = Len(s) - 1
      /\ \A n \in 1..(Len(s) - 1) : Tail(s)[n] = s[n + 1]
  BY <1>1
<1>3. CASE Tail(s) = <<>>
  <2>1. Len(Tail(s)) = 0
    BY <1>3, EmptySeq, Zenon
  <2>2. Len(s) - 1 = 0
    BY <1>2, <2>1, Zenon
  <2>3. Len(s) = 1
    BY <1>1, <2>2
  <2> QED
    BY <1>3, <2>3 DEF Last
<1>4. CASE Tail(s) # <<>>
  <2>1. Len(Tail(s)) # 0
    BY <1>2, <1>4
  <2>2. Len(s) - 1 \in 1..(Len(s) - 1) /\ (Len(s) - 1) + 1 = Len(s)
    BY <1>1, <1>2, <2>1
  <2>3. Tail(s)[Len(Tail(s))] = s[Len(s)]
    BY <1>2, <2>2
  <2> QED
    BY <1>4, <2>3 DEF Last
<1> QED
  BY <1>3, <1>4

\* The response to getSecret is never empty, and a whole body is its last piece.
LEMMA WholeFacts ==
    ASSUME NEW c \in Callers, NEW b \in Seq(BodyPieces)
    PROVE  /\ c \in Secret \/ b # <<>> => Response(c, b) # <<>>
           /\ b = <<"whole">> => Last(Response(c, b)) = "whole"
<1>1. CASE c \in Secret
  <2>1. Len(<<"header">> \o b) = Len(b) + 1
    OBVIOUS
  <2>2. Len(<<"header">> \o b) # 0
    BY <2>1
  <2>3. Response(c, b) = <<"header">> \o b
    BY <1>1 DEF Response
  <2>4. Response(c, b) # <<>>
    BY <2>2, <2>3, EmptySeq, Zenon
  <2>5. Last(<<"header">> \o <<"whole">>) = "whole"
    BY DEF Last
  <2> QED
    BY <2>3, <2>4, <2>5, Zenon
<1>2. CASE c \notin Secret
  <2>1. Last(<<"whole">>) = "whole"
    BY DEF Last
  <2>2. Response(c, b) = b
    BY <1>2 DEF Response
  <2> QED
    BY <1>2, <2>1, <2>2, Zenon
<1> QED
  BY <1>1, <1>2

\* While a response arrives its last piece is still to come or is in the buffer, in
\* place of all that failed attempts have left; and the process ends only in the
\* parsing of what does not parse.
Done(c)   == Response(c, body) # <<>> =>
                ~stale /\ dat[Buf(c)].piece = Last(Response(c, body))
Arrive(c) == /\ todo # <<>> => Last(todo) = Last(Response(c, body))
             /\ todo = <<>> => Done(c)

PieceInv ==
    /\ \A c \in Callers : /\ pc[c] = "transfer" => Arrive(c)
                          /\ pc[c] = "parse" => Done(c)
    /\ ~up => \E c \in Callers : pc[c] = "parse" /\ ~Parses(c)

LEMMA PieceStep ==
    ASSUME TypeOK, OwnerInv, PieceInv, [Next]_vars
    PROVE  PieceInv'
<1> USE DEF PieceInv, Step
<1>a. /\ pc \in [Callers -> Labels] /\ up \in BOOLEAN
      /\ todo \in Seq(ResponsePieces)
      /\ dat \in [Buffers -> [of : Callers \cup {Nobody}, piece : Pieces]]
  BY DEF TypeOK, ResponsePieces
<1>b. ASSUME NEW c \in Callers, NEW d \in Callers, pc[c] \in Critical, pc[d] \in Critical
      PROVE  c = d
  BY <1>b DEF OwnerInv
<1>0. Next => up
  BY DEF Next
<1>1. ASSUME NEW c \in Callers, up,
             Call(c) \/ Lock(c) \/ GlobalInit(c) \/ Retry(c) \/ ParseAnswer(c) \/ Unlock(c)
      PROVE  PieceInv'
  <2>1. /\ UNCHANGED <<dat, todo, up, body, stale>>
        /\ \A d \in Callers : pc'[d] = "transfer" => pc[d] = "transfer"
        /\ \A d \in Callers : pc'[d] = "parse" => pc[d] = "parse"
    BY <1>a, <1>1 DEF Call, Lock, GlobalInit, Retry, ParseAnswer, Unlock, history
  <2> QED
    BY <1>1, <2>1 DEF Arrive, Done, Response
<1>2. ASSUME NEW c \in Callers, up, Perform(c)
      PROVE  PieceInv'
  <2>1. /\ UNCHANGED up /\ pc[c] = "perform" /\ todo' = Response(c, body')
        /\ \A d \in Callers : pc'[d] = "transfer" => pc[d] = "transfer" \/ d = c
        /\ \A d \in Callers : pc'[d] = "parse" => pc[d] = "parse"
    BY <1>a, <1>2 DEF Perform, Response
  <2>2. Arrive(c)'
    BY <2>1 DEF Arrive, Done
  <2>3. \A d \in Callers : (pc'[d] = "transfer" => d = c) /\ pc'[d] # "parse"
    BY <1>b, <2>1 DEF Critical
  <2> QED
    BY <1>2, <2>1, <2>2, <2>3
<1>3. ASSUME NEW c \in Callers, up, WriteData(c)
      PROVE  PieceInv'
  <2>1. /\ UNCHANGED <<pc, up, body>> /\ pc[c] = "transfer" /\ todo # <<>>
        /\ todo' = Tail(todo) /\ dat'[Buf(c)].piece = Head(todo) /\ ~stale'
    BY <1>a, <1>3, BufFacts DEF WriteData
  <2>2. Last(todo) = Last(Response(c, body))
    BY <2>1 DEF Arrive
  <2>3. /\ todo' # <<>> => Last(todo') = Last(todo)
        /\ todo' = <<>> => Head(todo) = Last(todo)
    BY <1>a, <2>1, TailFacts
  <2>4. Arrive(c)'
    BY <2>1, <2>2, <2>3 DEF Arrive, Done, Response
  <2>5. \A d \in Callers : pc[d] \in {"transfer", "parse"} => d = c
    BY <1>b, <2>1 DEF Critical
  <2> QED
    BY <1>3, <2>1, <2>4, <2>5
<1>4. ASSUME NEW c \in Callers, up, TransferFails(c)
      PROVE  PieceInv'
  <2>1. /\ UNCHANGED <<dat, up>> /\ pc[c] = "transfer" /\ pc' = [pc EXCEPT ![c] = "sleep"]
    BY <1>4 DEF TransferFails
  <2>2. \A d \in Callers : pc'[d] # "transfer" /\ pc'[d] # "parse"
    BY <1>a, <1>b, <2>1 DEF Critical
  <2> QED
    BY <1>4, <2>1, <2>2
<1>5. ASSUME NEW c \in Callers, up, TransferEnds(c)
      PROVE  PieceInv'
  <2>1. /\ UNCHANGED <<dat, up, body, stale>> /\ pc[c] = "transfer" /\ todo = <<>>
        /\ pc' = [pc EXCEPT ![c] = "parse"]
    BY <1>5 DEF TransferEnds, history
  <2>2. Done(c)
    BY <2>1 DEF Arrive
  <2>3. Done(c)'
    BY <2>1, <2>2 DEF Done, Response
  <2>4. \A d \in Callers : pc'[d] # "transfer" /\ (pc'[d] = "parse" => d = c)
    BY <1>a, <1>b, <2>1 DEF Critical
  <2> QED
    BY <1>5, <2>1, <2>3, <2>4
<1>6. ASSUME NEW c \in Callers, up, ParseCrashes(c)
      PROVE  PieceInv'
  BY <1>6 DEF ParseCrashes, Parses, Arrive, Done, Response, history
<1>7. ASSUME NEW c \in Callers, up, FreeData(c)
      PROVE  PieceInv'
  <2>1. /\ UNCHANGED up /\ pc[c] = "free" /\ pc' = [pc EXCEPT ![c] = "unlock"]
    BY <1>7 DEF FreeData
  <2>2. \A d \in Callers : pc'[d] # "transfer" /\ pc'[d] # "parse"
    BY <1>a, <1>b, <2>1 DEF Critical
  <2> QED
    BY <1>7, <2>1, <2>2
<1>8. CASE UNCHANGED vars
  BY <1>8 DEF vars, Arrive, Done, Response, Parses
<1> HIDE DEF PieceInv
<1> QED
  BY <1>0, <1>1, <1>2, <1>3, <1>4, <1>5, <1>6, <1>7, <1>8, NextIsAction DEF Action

\* The answer that is expected is never misread if it arrives in one piece, whatever
\* attempts failed before it; what one of them has left is parsed in its place by
\* getpushurl alone, when the body is empty (curlGetDat.c:20-54 and 84-120).
THEOREM BodiesCorrect == Spec => []OnlyOddBodiesCrash
<1>1. Init => PieceInv
  BY DEF Init, PieceInv
<1>2. TypeOK /\ PieceInv => OnlyOddBodiesCrash
  <2> SUFFICES ASSUME TypeOK, PieceInv
               PROVE  OnlyOddBodiesCrash
    OBVIOUS
  <2>0. body \in Seq(BodyPieces)
    BY DEF TypeOK
  <2>1. ASSUME ~up, body = <<"whole">>
        PROVE  FALSE
    <3>1. PICK c \in Callers : pc[c] = "parse" /\ ~Parses(c)
      BY <2>1 DEF PieceInv
    <3>2. Done(c)
      BY <3>1 DEF PieceInv
    <3>3. body # <<>>
      BY <2>1
    <3>4. dat[Buf(c)].piece = "whole"
      BY <2>0, <2>1, <3>2, <3>3, WholeFacts DEF Done
    <3> QED
      BY <3>1, <3>4 DEF Parses
  <2>2. ASSUME NEW c \in Callers, pc[c] = "parse", stale
        PROVE  body = <<>> /\ c \notin Secret
    <3>1. Done(c)
      BY <2>2 DEF PieceInv
    <3> QED
      BY <2>0, <2>2, <3>1, WholeFacts DEF Done
  <2> QED
    BY <2>1, <2>2 DEF OnlyOddBodiesCrash
<1> QED
  BY <1>1, <1>2, PieceStep, TypeCorrect, OwnerCorrect, PTL DEF Spec
=============================================================================
