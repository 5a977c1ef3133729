---------------------------- MODULE AudioDecodeProofs ----------------------------
(* Proofs about AudioDecode, for any payloads, strays and bounds. *)
EXTENDS AudioDecode, SequenceTheorems, FiniteSetTheorems, TLAPS

-----------------------------------------------------------------------------
(* Tones and symbols. *)

LEMMA ToneFacts ==
    ASSUME NEW d \in Symbol
    PROVE  /\ Tone(d) \in Nat /\ Tone(d) % 900 = 0 /\ Tone(d) # FREE_FREQ
           /\ IsSymbol(Tone(d)) /\ SymbolOf(Tone(d)) = d
  BY DEF Symbol, Tone, IsSymbol, SymbolOf, FREE_FREQ

LEMMA ToneHeard ==
    ASSUME NEW d \in Symbol
    PROVE  Tone(d) # 0
  BY DEF Symbol, Tone

LEMMA SymbolFacts ==
    ASSUME NEW freq \in Nat, freq % 900 = 0, IsSymbol(freq)
    PROVE  SymbolOf(freq) \in Symbol
  BY DEF Symbol, IsSymbol, SymbolOf, FREE_FREQ

LEMMA WrapFacts ==
    ASSUME NEW p \in 0..255
    PROVE  /\ Wrap(p + 1) \in 0..255
           /\ Wrap(p + 1) = 0 \/ Wrap(p + 1) = p + 1
  BY DEF Wrap

LEMMA WrapAtEnd ==
    ASSUME NEW p \in 0..255, NEW l \in 0..255, Wrap(p + 1) = l + 16
    PROVE  p = l + 15
<1>1. l + 16 = 0 \/ l + 16 = p + 1
  BY WrapFacts, Zenon
<1> QED
  BY <1>1

LEMMA AppendFacts ==
    ASSUME NEW s \in Seq(Symbol), NEW d \in Symbol
    PROVE  /\ Append(s, d) \in Seq(Symbol) /\ Len(Append(s, d)) = Len(s) + 1
           /\ \A k \in 1..Len(s) : Append(s, d)[k] = s[k]
           /\ Append(s, d)[Len(s) + 1] = d
  BY AppendProperties, SMT

LEMMA SubSeqFacts ==
    ASSUME NEW s \in Seq(Symbol), NEW m \in Nat \ {0}, NEW n \in Nat, n <= Len(s)
    PROVE  /\ SubSeq(s, m, n) \in Seq(Symbol)
           /\ Len(SubSeq(s, m, n)) = IF m <= n THEN n - m + 1 ELSE 0
           /\ \A i \in 1..(n - m + 1) : SubSeq(s, m, n)[i] = s[m + i - 1]
<1>1. \A i \in m..n : i \in 1..Len(s)
  OBVIOUS
<1>2. \A i \in m..n : s[i] \in Symbol
  BY <1>1, ElementOfSeq, Zenon
<1> QED
  BY <1>2, SubSeqProperties

LEMMA SubSeqType ==
    ASSUME NEW s \in Seq(Symbol), NEW m \in Nat \ {0}, NEW n \in Nat, n <= Len(s)
    PROVE  SubSeq(s, m, n) \in Seq(Symbol)
  BY SubSeqFacts

LEMMA TextType ==
    ASSUME NEW s \in Seq(Symbol)
    PROVE  TextOf(s) \in Seq(Symbol)
<1> DEFINE l == Len(s)
           m == l \div 4
           kept == {k \in 1..m : \A j \in 1..k : SubSeq(s, 4 * j - 3, 4 * j) # <<0, 0, 0, 0>>}
           c == Cardinality(kept)
<1>1. l \in Nat
  BY LenProperties
<1>2. m \in Nat /\ 4 * m <= l
  BY <1>1
<1>3. IsFiniteSet(1..m) /\ Cardinality(1..m) = m
  <2> HIDE DEF m
  <2>1. 1 \in Int /\ m \in Int /\ (1 > m => m = 0) /\ m - 1 + 1 = m
    BY <1>2
  <2> QED BY <2>1, FS_Interval
<1>4. kept \subseteq 1..m
  OBVIOUS
<1> HIDE DEF kept
<1>5. c \in Nat /\ c <= m
  <2>1. IsFiniteSet(kept) /\ Cardinality(kept) <= Cardinality(1..m)
    BY <1>3, <1>4, FS_Subset
  <2> QED BY <1>3, <2>1, FS_CardinalityType
<1>6. TextOf(s) = SubSeq(s, 1, 4 * c)
  BY DEF TextOf, kept
<1> HIDE DEF c, m
<1>7. 1 \in Nat \ {0} /\ 4 * c \in Nat /\ 4 * c <= l
  BY <1>1, <1>2, <1>5
<1> QED BY <1>6, <1>7, SubSeqType

LEMMA AnswerType ==
    ASSUME NEW p \in Seq(Symbol)
    PROVE  Answer(p) \in Seq(Symbol)
<1>1. 5 \in Nat \ {0} /\ Len(p) \in Nat /\ Len(p) <= Len(p)
  BY LenProperties
<1>2. SubSeq(p, 5, Len(p)) \in Seq(Symbol)
  BY <1>1, SubSeqType, Zenon
<1> QED BY <1>2, TextType, Zenon DEF Answer

LEMMA GetByteType ==
    ASSUME NEW b \in Seq(Symbol), Len(b) = 12
    PROVE  GetByte(b, 8) \in 0..255
<1>1. \A k \in 1..12 : b[k] \in Symbol
  BY ElementOfSeq
<1>2. b[9] \in 0..3 /\ b[10] \in 0..3 /\ b[11] \in 0..3 /\ b[12] \in 0..3
  BY <1>1 DEF Symbol
<1>3. \A w, x, y, z \in 0..3 : 64 * w + 16 * x + 4 * y + z \in 0..255
  OBVIOUS
<1>4. 8 + 1 = 9 /\ 8 + 2 = 10 /\ 8 + 3 = 11 /\ 8 + 4 = 12
  OBVIOUS
<1>5. GetByte(b, 8) = 64 * b[9] + 16 * b[10] + 4 * b[11] + b[12]
  BY <1>4, Zenon DEF GetByte
<1>6. 64 * b[9] + 16 * b[10] + 4 * b[11] + b[12] \in 0..255
  BY <1>2, <1>3, Zenon
<1> QED
  BY <1>5, <1>6, Zenon

LEMMA DigitsFacts ==
    ASSUME NEW n \in 0..255
    PROVE  /\ Digits(n) \in Seq(Symbol) /\ Len(Digits(n)) = 4
           /\ 64 * Digits(n)[1] + 16 * Digits(n)[2] + 4 * Digits(n)[3] + Digits(n)[4] = n
  BY DEF Digits, Symbol

\* r is p, of length m, followed by q, of length n.
Joined(r, p, m, q, n, l) ==
    /\ r \in Seq(Symbol) /\ Len(r) = l
    /\ \A k \in 1..m : r[k] = p[k]
    /\ \A k \in 1..n : r[m + k] = q[k]

LEMMA ConcatFacts ==
    \A p, q \in Seq(Symbol) : \A m, n, l \in Nat :
        Len(p) = m /\ Len(q) = n /\ l = m + n => Joined(p \o q, p, m, q, n, l)
  BY DEF Joined

\* The symbols of a frame by their place in it.
SymbolsAre(s, f, n) ==
    /\ s \in Seq(Symbol) /\ Len(s) = n + 16
    /\ \A k \in 1..8 : s[k] = Header[k]
    /\ \A k \in 1..4 : s[8 + k] = Digits(n)[k]
    /\ \A k \in 1..n : s[12 + k] = f[k]
    /\ \A k \in 1..4 : s[n + 12 + k] = Trailer[k]

LEMMA ThreeJoined ==
    ASSUME NEW f, NEW n \in Nat, NEW hd, NEW hf, NEW s,
           Joined(hd, Header, 8, Digits(n), 4, 12), Joined(hf, hd, 12, f, n, n + 12),
           Joined(s, hf, n + 12, Trailer, 4, n + 16)
    PROVE  SymbolsAre(s, f, n)
<1>1. /\ \A k \in 1..8 : k \in 1..12 /\ k \in 1..(n + 12)
      /\ \A k \in 1..4 : 8 + k \in 1..12 /\ 8 + k \in 1..(n + 12)
      /\ \A k \in 1..n : 12 + k \in 1..(n + 12)
  OBVIOUS
<1> QED
  BY <1>1, ZenonT(30) DEF Joined, SymbolsAre

LEMMA SymbolsFacts ==
    ASSUME NEW f \in Frames
    PROVE  SymbolsAre(Symbols(f), f, Len(f))
<1>1. /\ f \in Seq(Symbol) /\ Len(f) \in 4..255
      /\ Header \in Seq(Symbol) /\ Len(Header) = 8
      /\ Trailer \in Seq(Symbol) /\ Len(Trailer) = 4
  BY FramesAssumption DEF Header, Trailer, Symbol
<1> DEFINE n == Len(f)
<1>2. n \in 0..255
  BY <1>1
<1> HIDE DEF n
<1>3. /\ 4 \in Nat /\ 8 \in Nat /\ 12 \in Nat /\ n \in Nat /\ n + 12 \in Nat /\ n + 16 \in Nat
      /\ 12 = 8 + 4 /\ n + 12 = 12 + n /\ n + 16 = (n + 12) + 4
  BY <1>2
<1>4. Joined(Header \o Digits(n), Header, 8, Digits(n), 4, 12)
  BY <1>1, <1>2, <1>3, DigitsFacts, ConcatFacts, Zenon
<1>5. Joined((Header \o Digits(n)) \o f, Header \o Digits(n), 12, f, n, n + 12)
  <2>1. Header \o Digits(n) \in Seq(Symbol) /\ Len(Header \o Digits(n)) = 12
    BY <1>4, Zenon DEF Joined
  <2> QED
    BY <1>1, <1>3, <2>1, ConcatFacts, Zenon DEF n
<1>6. Joined(((Header \o Digits(n)) \o f) \o Trailer, (Header \o Digits(n)) \o f, n + 12, Trailer, 4, n + 16)
  <2>1. (Header \o Digits(n)) \o f \in Seq(Symbol) /\ Len((Header \o Digits(n)) \o f) = n + 12
    BY <1>5, Zenon DEF Joined
  <2> QED
    BY <1>1, <1>3, <2>1, ConcatFacts, Zenon
<1>7. SymbolsAre(((Header \o Digits(n)) \o f) \o Trailer, f, n)
  BY <1>3, <1>4, <1>5, <1>6, ThreeJoined, Zenon
<1> QED
  BY <1>7, Zenon DEF Symbols, n

LEMMA ToneAtFacts ==
    ASSUME NEW f \in Frames, NEW h \in Nat
    PROVE  /\ LastPos(f) = 2 * (Len(f) + 16)
           /\ ToneAt(f, 2 * h) = FREE_FREQ
           /\ ToneAt(f, 2 * h + 1) = Tone(Symbols(f)[h + 1])
<1>1. /\ (2 * h) % 2 # 1 /\ (2 * h + 1) % 2 = 1 /\ ((2 * h + 1) + 1) \div 2 = h + 1
  OBVIOUS
<1>2. Len(Symbols(f)) = Len(f) + 16
  BY SymbolsFacts, Zenon DEF SymbolsAre
<1>3. LastPos(f) = 2 * (Len(f) + 16)
  BY <1>2, Zenon DEF LastPos
<1>4. ToneAt(f, 2 * h) = FREE_FREQ
  BY <1>1, Zenon DEF ToneAt
<1>5. ToneAt(f, 2 * h + 1) = Tone(Symbols(f)[h + 1])
  BY <1>1, Zenon DEF ToneAt
<1> QED
  BY <1>3, <1>4, <1>5

LEMMA ToneAtType ==
    ASSUME NEW f \in Frames, NEW p \in 1..LastPos(f)
    PROVE  ToneAt(f, p) \in Nat /\ ToneAt(f, p) % 900 = 0
<1>1. CASE p % 2 # 1
  BY <1>1 DEF ToneAt, FREE_FREQ
<1>2. CASE p % 2 = 1
  <2>1. Len(f) \in Nat /\ LastPos(f) = 2 * (Len(f) + 16)
    BY FramesAssumption, ToneAtFacts
  <2>2. Symbols(f) \in Seq(Symbol) /\ Len(Symbols(f)) = Len(f) + 16
    BY SymbolsFacts DEF SymbolsAre
  <2>3. (p + 1) \div 2 \in 1..(Len(f) + 16)
    BY <1>2, <2>1
  <2>4. Symbols(f)[(p + 1) \div 2] \in Symbol
    BY <2>2, <2>3
  <2>5. ToneAt(f, p) = Tone(Symbols(f)[(p + 1) \div 2])
    BY <1>2, Zenon DEF ToneAt
  <2> QED
    BY <2>4, <2>5, ToneFacts
<1> QED
  BY <1>1, <1>2

-----------------------------------------------------------------------------
(* Types. *)

HeardOK == Last_Freq % 900 = 0

LEMMA AnalysisType ==
    ASSUME TypeOK, HeardOK, NEW freq \in Nat, freq % 900 = 0, Analysis(freq)
    PROVE  /\ Freq_Dat_buffer' \in Seq(Symbol) /\ ptr' = Len(Freq_Dat_buffer')
           /\ ptr' \in 0..255 /\ Dat_Len' \in 0..255
           /\ Last_Freq' = freq
           /\ \A answer \in {ssid', pwd', got'} : answer = None \/ answer \in Seq(Symbol)
<1>0. /\ Freq_Dat_buffer \in Seq(Symbol) /\ ptr = Len(Freq_Dat_buffer)
      /\ ptr \in 0..255 /\ Dat_Len \in 0..255
      /\ \A answer \in {ssid, pwd, got} : answer = None \/ answer \in Seq(Symbol)
  BY Zenon DEF TypeOK
<1>00. ptr \in 0..255 /\ Dat_Len \in 0..255
  BY <1>0
<1>1. CASE HearNothing(freq)
  BY <1>0, <1>1, Zenon DEF HearNothing
<1>2. ASSUME NewSymbol(freq), Accept(SymbolOf(freq))
      PROVE  /\ Freq_Dat_buffer' \in Seq(Symbol) /\ ptr' = Len(Freq_Dat_buffer')
             /\ ptr' \in 0..255 /\ Last_Freq' = freq
  <2>1. SymbolOf(freq) \in Symbol
    BY <1>2, SymbolFacts DEF NewSymbol
  <2>2. ptr' = Wrap(ptr + 1) /\ ptr' \in 0..255 /\ (ptr' = 0 \/ ptr' = ptr + 1)
    <3>1. ptr' = Wrap(ptr + 1)
      BY <1>2, Zenon DEF Accept
    <3>2. Wrap(ptr + 1) \in 0..255 /\ (Wrap(ptr + 1) = 0 \/ Wrap(ptr + 1) = ptr + 1)
      BY <1>00, WrapFacts, ZenonT(30)
    <3> QED
      BY <3>1, <3>2, Zenon
  <2>3. CASE ptr' = 0
    <3>1. Freq_Dat_buffer' = <<>> /\ Last_Freq' = freq
      BY <1>2, <2>3, Zenon DEF Accept, NewSymbol
    <3> QED
      BY <2>3, <3>1
  <2>4. CASE ptr' # 0
    <3>1. Freq_Dat_buffer' = Append(Freq_Dat_buffer, SymbolOf(freq)) /\ ptr' = ptr + 1
      BY <1>2, <2>2, <2>4, Zenon DEF Accept
    <3> QED
      BY <1>0, <1>2, <2>1, <2>2, <3>1, AppendFacts, Zenon DEF NewSymbol
  <2> QED
    BY <2>3, <2>4
<1>3. CASE HearHeader(freq)
  <2>1. NewSymbol(freq) /\ Accept(SymbolOf(freq)) /\ UNCHANGED <<ssid, pwd, got>>
    BY <1>3, Zenon DEF HearHeader
  <2>2. ptr' = 12 => GetByte(Freq_Dat_buffer', 8) \in 0..255
    BY <1>2, <2>1, GetByteType, Zenon
  <2>3. Dat_Len' \in 0..255
    BY <1>0, <1>3, <2>2, Zenon DEF HearHeader
  <2> QED
    BY <1>0, <1>2, <2>1, <2>3, Zenon
<1>4. CASE HearData(freq)
  BY <1>0, <1>2, <1>4, Zenon DEF HearData
<1>5. CASE HearTrailer(freq)
  BY <1>0, <1>2, <1>5, Zenon DEF HearTrailer
<1>6. CASE Invalid(freq)
  <2>1. /\ Freq_Dat_buffer' = <<>> /\ ptr' = 0 /\ Last_Freq' = freq
        /\ UNCHANGED <<Dat_Len, ssid, pwd, got>>
    BY <1>6, Zenon DEF Invalid, Restart, NewSymbol
  <2>2. <<>> \in Seq(Symbol) /\ 0 = Len(<<>>) /\ 0 \in 0..255
    OBVIOUS
  <2> QED
    BY <1>0, <2>1, <2>2, Zenon
<1>7. CASE Return(freq)
  <2>1. /\ Freq_Dat_buffer' = <<>> /\ ptr' = 0 /\ Dat_Len' = 0 /\ Last_Freq' = freq
    BY <1>7, Zenon DEF Return, Restart, NewSymbol
  <2>2. SymbolOf(freq) \in Symbol
    BY <1>7, SymbolFacts DEF Return, NewSymbol
  <2>3. \E k \in 0..3 : ptr = Dat_Len + 12 + k
    BY <1>7, Zenon DEF Return, InTrailer
  <2>4. ptr = Dat_Len + 15
    <3>1. Wrap(ptr + 1) = Dat_Len + 16
      BY <1>7, Zenon DEF Return
    <3> QED
      BY <1>00, <3>1, WrapAtEnd, ZenonT(30)
  <2> DEFINE b == Append(Freq_Dat_buffer, SymbolOf(freq))
             m == 12 + 4 * ((Dat_Len + 3) \div 4)
  <2>5. b \in Seq(Symbol) /\ Len(b) = Dat_Len + 16
    <3>1. Freq_Dat_buffer \in Seq(Symbol) /\ Len(Freq_Dat_buffer) + 1 = Dat_Len + 16
      BY <1>0, <2>4
    <3> QED
      BY <2>2, <3>1, AppendFacts, Zenon
  <2>6. m \in 12..(Dat_Len + 16)
    BY <1>0
  <2> HIDE DEF b, m
  <2>7. SubSeq(b, 13, m) \in Seq(Symbol)
    <3>1. 13 \in Nat \ {0} /\ m \in Nat /\ m <= Dat_Len + 16
      BY <1>0, <2>6
    <3>2. m <= Len(b)
      BY <2>5, <3>1, Zenon
    <3> QED
      BY <2>5, <3>1, <3>2, SubSeqType, Zenon
  <2>8. got' \in Seq(Symbol)
    BY <1>7, <2>7, Zenon DEF Return, Payload, b, m
  <2>9. Keep(got') => \A answer \in {ssid', pwd'} : answer = None \/ answer \in Seq(Symbol)
    <3>1. Answer(got') \in Seq(Symbol)
      BY <2>8, AnswerType
    <3>2. Keep(got') => /\ ssid' \in {Answer(got'), ssid}
                        /\ pwd' \in {Answer(got'), pwd}
      BY DEF Keep
    <3>3. /\ ssid = None \/ ssid \in Seq(Symbol)
          /\ pwd = None \/ pwd \in Seq(Symbol)
      BY <1>0
    <3> QED
      BY <3>1, <3>2, <3>3
  <2>10. \A answer \in {ssid', pwd'} : answer = None \/ answer \in Seq(Symbol)
    BY <1>0, <1>7, <2>9, Zenon DEF Return
  <2>11. <<>> \in Seq(Symbol) /\ 0 = Len(<<>>) /\ 0 \in 0..255
    OBVIOUS
  <2> QED
    BY <2>1, <2>8, <2>10, <2>11
<1> QED
  BY <1>1, <1>3, <1>4, <1>5, <1>6, <1>7, Zenon DEF Analysis

TypeInv == TypeOK /\ HeardOK

\* What the decoder does not touch.
PhoneOK ==
    /\ frame \in Frames \cup {None}
    /\ pos \in Nat /\ missed \in 0..MaxNoise /\ strays \in 0..MaxStrays
    /\ began \in 0..255 /\ clean \in BOOLEAN /\ pure \in BOOLEAN

LEMMA AnalysisStep ==
    ASSUME TypeInv, NEW freq \in Nat, freq % 900 = 0, Analysis(freq), PhoneOK'
    PROVE  TypeInv'
<1>1. /\ Freq_Dat_buffer' \in Seq(Symbol) /\ ptr' = Len(Freq_Dat_buffer')
      /\ ptr' \in 0..255 /\ Dat_Len' \in 0..255
      /\ Last_Freq' = freq
      /\ \A answer \in {ssid', pwd', got'} : answer = None \/ answer \in Seq(Symbol)
  BY AnalysisType, Zenon DEF TypeInv
<1> QED
  BY <1>1, Zenon DEF TypeInv, TypeOK, HeardOK, PhoneOK

LEMMA TypeInit == Init => TypeInv
<1> SUFFICES ASSUME Init PROVE TypeInv
  OBVIOUS
<1>1. Len(Symbols(frame)) \in Nat /\ None \notin Frames
  <2>1. frame \in Frames /\ Len(frame) \in Nat
    BY FramesAssumption DEF Init
  <2> QED
    BY <2>1, SymbolsFacts, FramesAssumption, NoneAssumption DEF SymbolsAre
<1> QED
  BY <1>1, BoundAssumption DEF Init, TypeInv, TypeOK, HeardOK, LastPos

LEMMA TypeStep == TypeInv /\ [Next]_vars => TypeInv'
<1> SUFFICES ASSUME TypeInv, [Next]_vars PROVE TypeInv'
  OBVIOUS
<1>1. Last_Freq \in Nat /\ Last_Freq % 900 = 0 /\ PhoneOK
  BY DEF TypeInv, TypeOK, HeardOK, PhoneOK
<1>2. ASSUME NEW f \in Frames, Play(f) PROVE TypeInv'
  BY <1>2 DEF Play, TypeInv, TypeOK, HeardOK, decoder
<1>3. CASE Hear
  <2>1. frame \in Frames
    BY <1>1, <1>3 DEF Hear, PhoneOK
  <2>2. pos' \in 1..LastPos(frame) /\ Analysis(ToneAt(frame, pos'))
    <3>1. pos \in Nat /\ LastPos(frame) \in Nat /\ pos < LastPos(frame) /\ pos' = pos + 1
      BY <1>1, <1>3, <2>1, ToneAtFacts, FramesAssumption DEF Hear, PhoneOK
    <3> QED
      BY <1>3, <3>1 DEF Hear
  <2>3. ToneAt(frame, pos') \in Nat /\ ToneAt(frame, pos') % 900 = 0
    BY <2>1, <2>2, ToneAtType
  <2>4. PhoneOK'
    BY <1>1, <1>3, <2>2 DEF Hear, PhoneOK
  <2> QED
    BY <2>2, <2>3, <2>4, AnalysisStep
<1>4. CASE HearAgain
  <2>1. PhoneOK' /\ Analysis(Last_Freq)
    BY <1>1, <1>4 DEF HearAgain, phone, PhoneOK
  <2> QED
    BY <1>1, <2>1, AnalysisStep
<1>5. CASE Miss
  <2>1. pos' \in Nat /\ missed' \in 0..MaxNoise
    BY <1>1, <1>5, BoundAssumption DEF Miss, PhoneOK
  <2> QED
    BY <1>5, <2>1 DEF Miss, TypeInv, TypeOK, HeardOK, decoder
<1>6. CASE Stray
  <2>1. PICK freq \in Strays : Analysis(freq)
    BY <1>6 DEF Stray
  <2>2. PhoneOK'
    <3>1. strays' \in 0..MaxStrays
      <4>1. strays < MaxStrays /\ strays' = strays + 1
        BY <1>6, Zenon DEF Stray
      <4> QED
        BY <1>1, <4>1, BoundAssumption DEF PhoneOK
    <3>2. UNCHANGED <<frame, pos, missed, began>> /\ clean' = FALSE /\ pure' = FALSE
      BY <1>6, Zenon DEF Stray
    <3> QED
      BY <1>1, <3>1, <3>2 DEF PhoneOK
  <2> QED
    BY <2>1, <2>2, StraysAssumption, AnalysisStep
<1>7. CASE Finish
  BY <1>7 DEF Finish, TypeInv, TypeOK, HeardOK, decoder
<1>8. CASE UNCHANGED vars
  BY <1>8 DEF vars, decoder, phone, TypeInv, TypeOK, HeardOK
<1> QED
  BY <1>2, <1>3, <1>4, <1>5, <1>6, <1>7, <1>8 DEF Next

\* The indices of the decoder stay in 8 bits, its buffer holds symbols, and what it
\* keeps are sequences of symbols (audio_transfer_fft.c:141-242).
THEOREM TypeCorrect == Spec => []TypeOK
<1>1. Spec => []TypeInv
  BY TypeInit, TypeStep, PTL DEF Spec
<1>2. TypeInv => TypeOK
  BY DEF TypeInv
<1> QED
  BY <1>1, <1>2, PTL

-----------------------------------------------------------------------------
(* The decoder follows a frame that it hears from the beginning. *)

\* h symbols of f are in the buffer.
Following(f, h) ==
    /\ ptr = h /\ got = None
    /\ \A k \in 1..h : Freq_Dat_buffer[k] = Symbols(f)[k]
    /\ h >= 12 => Dat_Len = Len(f)

\* h symbols of f have been heard: after 256 of them ptr is behind by as many.
Followed(f, h) ==
    /\ h < Len(f) + 16 /\ h <= 255 => Following(f, h)
    /\ h = Len(f) + 16 /\ h <= 255 => got = f
    /\ h >= 256 => ptr <= h - 256 /\ got = None

\* The decoder is not deaf to the first symbol, and the last tone was the frame's, unless
\* it has heard nothing yet.
LastHeard(f, p) == IF p = 0 THEN Last_Freq # Tone(0) ELSE Last_Freq \in {0, ToneAt(f, p)}

SyncInv ==
    frame # None /\ clean /\ began = 0 =>
        /\ pos <= LastPos(frame)
        /\ LastHeard(frame, pos)
        /\ Followed(frame, (pos + 1) \div 2)

\* A symbol is taken for the next one.
LEMMA AcceptStep ==
    ASSUME TypeOK, NEW f \in Frames, NEW h \in 0..254, Following(f, h),
           Symbols(f)[h + 1] \in Symbol, Accept(Symbols(f)[h + 1])
    PROVE  /\ ptr' = h + 1
           /\ Freq_Dat_buffer' = Append(Freq_Dat_buffer, Symbols(f)[h + 1])
           /\ \A k \in 1..(h + 1) : Freq_Dat_buffer'[k] = Symbols(f)[k]
<1>1. Freq_Dat_buffer \in Seq(Symbol) /\ Len(Freq_Dat_buffer) = h
  BY Zenon DEF TypeOK, Following
<1>2. ptr = h /\ \A k \in 1..h : Freq_Dat_buffer[k] = Symbols(f)[k]
  BY Zenon DEF Following
<1>3. Wrap(h + 1) = h + 1 /\ h + 1 # 0
  BY DEF Wrap
<1>4. ptr' = h + 1 /\ Freq_Dat_buffer' = Append(Freq_Dat_buffer, Symbols(f)[h + 1])
  BY <1>2, <1>3, Zenon DEF Accept
<1>5. /\ \A k \in 1..h : Freq_Dat_buffer'[k] = Freq_Dat_buffer[k]
      /\ Freq_Dat_buffer'[h + 1] = Symbols(f)[h + 1]
  BY <1>1, <1>4, AppendFacts, Zenon
<1>6. \A k \in 1..(h + 1) : k \in 1..h \/ k = h + 1
  OBVIOUS
<1> QED
  BY <1>2, <1>4, <1>5, <1>6, Zenon

\* After the wrap too few symbols are left for a payload.
LEMMA WrappedStep ==
    ASSUME TypeOK, NEW h \in 256..270, ptr <= h - 256, got = None,
           NEW freq, Analysis(freq)
    PROVE  ptr' <= (h + 1) - 256 /\ got' = None
<1>1. ptr \in 0..14 /\ Dat_Len \in Nat
  <2>1. ptr \in 0..255 /\ Dat_Len \in 0..255
    BY Zenon DEF TypeOK
  <2> QED
    BY <2>1
<1>2. ~Return(freq)
  <2>1. Wrap(ptr + 1) = ptr + 1 /\ ptr + 1 # Dat_Len + 16
    BY <1>1 DEF Wrap
  <2> QED
    BY <2>1, Zenon DEF Return
<1>3. Wrap(ptr + 1) <= (h + 1) - 256 /\ 0 <= (h + 1) - 256
  BY <1>1 DEF Wrap
<1>4. got' = None /\ ptr' \in {ptr, Wrap(ptr + 1), 0}
  BY <1>2 DEF Analysis, HearNothing, HearHeader, HearData, HearTrailer, Invalid, Accept, Restart
<1> QED
  BY <1>1, <1>3, <1>4

\* The frame whose symbols these are is the payload of the buffer.
LEMMA PayloadIsFrame ==
    ASSUME TypeOK, NEW f \in Frames, NEW b \in Seq(Symbol), Len(b) = Len(f) + 16,
           Dat_Len = Len(f), \A k \in 1..(Len(f) + 16) : b[k] = Symbols(f)[k]
    PROVE  Payload(b) = f
<1> DEFINE n == Len(f)
<1>1. f \in Seq(Symbol) /\ n \in 4..255 /\ 12 + 4 * ((n + 3) \div 4) = 12 + n
  <2>1. f \in Seq(Symbol) /\ n \in 4..255 /\ n % 4 = 0
    BY FramesAssumption, Zenon
  <2> HIDE DEF n
  <2>2. 12 + 4 * ((n + 3) \div 4) = 12 + n
    BY <2>1
  <2> QED
    BY <2>1, <2>2
<1>2. \A k \in 1..n : Symbols(f)[12 + k] = f[k]
  BY SymbolsFacts, Zenon DEF SymbolsAre
<1>3. \A k \in 1..n : b[12 + k] = f[k]
  <2>1. \A k \in 1..n : 12 + k \in 1..(n + 16)
    BY <1>1
  <2> QED
    BY <1>2, <2>1, Zenon
<1>5. /\ SubSeq(b, 13, 12 + n) \in Seq(Symbol)
      /\ Len(SubSeq(b, 13, 12 + n)) = IF 13 <= 12 + n THEN (12 + n) - 13 + 1 ELSE 0
      /\ \A i \in 1..((12 + n) - 13 + 1) : SubSeq(b, 13, 12 + n)[i] = b[13 + i - 1]
  <2>1. 13 \in Nat \ {0} /\ 12 + n \in Nat /\ 12 + n <= Len(b)
    BY <1>1
  <2> QED
    BY <2>1, SubSeqFacts, Zenon
<1> HIDE DEF n
<1>6. Len(SubSeq(b, 13, 12 + n)) = n /\ \A i \in 1..n : SubSeq(b, 13, 12 + n)[i] = b[12 + i]
  BY <1>1, <1>5
<1>7. SubSeq(b, 13, 12 + n) = f
  <2>1. Len(f) = n
    BY DEF n
  <2>2. \A i \in 1..n : SubSeq(b, 13, 12 + n)[i] = f[i]
    BY <1>3, <1>6, Zenon
  <2> QED
    BY <1>1, <1>5, <1>6, <2>1, <2>2, SeqEqual
<1>8. Payload(b) = SubSeq(b, 13, 12 + n)
  BY <1>1, Zenon DEF Payload, n
<1> QED
  BY <1>7, <1>8

\* The next symbol of the frame is heard, by a decoder that is not deaf to it.
LEMMA NextSymbol ==
    ASSUME TypeOK, NEW f \in Frames, NEW h \in Nat, h < Len(f) + 16, Followed(f, h),
           Last_Freq # Tone(Symbols(f)[h + 1]), Analysis(Tone(Symbols(f)[h + 1]))
    PROVE  Followed(f, h + 1)'
<1> DEFINE n == Len(f)
           d == Symbols(f)[h + 1]
           freq == Tone(d)
<1>1. n \in 4..255 /\ n % 4 = 0 /\ h \in 0..270 /\ h < n + 16
  <2>1. n \in 4..255 /\ n % 4 = 0
    BY FramesAssumption, Zenon
  <2>2. h < n + 16
    OBVIOUS
  <2> HIDE DEF n
  <2> QED
    BY <2>1, <2>2
<1>2. d \in Symbol
  <2>1. Symbols(f) \in Seq(Symbol) /\ Len(Symbols(f)) = n + 16
    BY SymbolsFacts, Zenon DEF SymbolsAre
  <2>2. h + 1 \in 1..(n + 16)
    BY <1>1
  <2> QED
    BY <2>1, <2>2, ElementOfSeq, Zenon
<1>3. SymbolOf(freq) = d /\ ~HearNothing(freq)
  <2>1. SymbolOf(freq) = d /\ IsSymbol(freq)
    <3> HIDE DEF d
    <3> QED
      BY <1>2, ToneFacts
  <2> QED
    BY <2>1, Zenon DEF HearNothing
<1>4. \/ HearHeader(freq) /\ InHeader(d)
      \/ HearData(freq) /\ ~InHeader(d) /\ InData
      \/ HearTrailer(freq) /\ ~InHeader(d) /\ ~InData /\ InTrailer(d)
      \/ Invalid(freq) /\ ~InHeader(d) /\ ~InData /\ ~InTrailer(d)
      \/ Return(freq) /\ ~InHeader(d) /\ ~InData /\ InTrailer(d)
  BY <1>3, Zenon DEF Analysis, HearHeader, HearData, HearTrailer, Invalid, Return
<1>5. ptr \in 0..255 /\ Dat_Len \in 0..255
  BY Zenon DEF TypeOK
<1>6. CASE h >= 256
  <2>1. ptr <= h - 256 /\ got = None
    BY <1>6 DEF Followed
  <2>2. ptr' <= (h + 1) - 256 /\ got' = None
    <3>1. h \in 256..270 /\ TypeOK
      BY <1>1, <1>6
    <3> QED
      BY <2>1, <3>1, WrappedStep, Zenon
  <2> QED
    BY <1>6, <2>2 DEF Followed
<1>7. CASE h <= 255
  <2>1. Following(f, h)
    BY <1>7, Zenon DEF Followed
  <2>2. ptr = h /\ got = None /\ (h >= 12 => Dat_Len = n)
    BY <2>1, Zenon DEF Following
  <2>3. ASSUME Accept(d), got' = None, h < n + 15 \/ h = 255,
               h + 1 >= 12 /\ h # 255 => Dat_Len' = n
        PROVE  Followed(f, h + 1)'
    <3>1. CASE h = 255
      <4>1. ptr' = 0
        BY <2>2, <2>3, <3>1 DEF Accept, Wrap
      <4> QED
        BY <2>3, <3>1, <4>1 DEF Followed
    <3>2. CASE h # 255
      <4>1. h \in 0..254
        BY <1>7, <3>2
      <4>2. ptr' = h + 1 /\ \A k \in 1..(h + 1) : Freq_Dat_buffer'[k] = Symbols(f)[k]
        <5>1. Accept(d)
          BY <2>3
        <5> QED
          BY <1>2, <2>1, <4>1, <5>1, AcceptStep, Zenon
      <4>3. Following(f, h + 1)'
        BY <2>3, <3>2, <4>2, Zenon DEF Following
      <4> HIDE DEF d, freq
      <4> QED
        BY <2>3, <3>2, <4>1, <4>3 DEF Followed
    <3> QED
      BY <3>1, <3>2
  <2>4. CASE h < 12
    <3>1. InHeader(d)
      <4>1. CASE h < 8
        <5>1. h + 1 \in 1..8
          BY <4>1
        <5>2. d = Header[h + 1]
          BY <5>1, SymbolsFacts, Zenon DEF SymbolsAre
        <5> QED
          BY <2>2, <4>1, <5>2, Zenon DEF InHeader
      <4>2. CASE h >= 8
        BY <2>2, <2>4, <4>2 DEF InHeader
      <4> QED
        BY <4>1, <4>2
    <3>2. HearHeader(freq)
      BY <1>4, <3>1, Zenon
    <3>3. Accept(d) /\ got' = None
      BY <1>3, <2>2, <3>2, Zenon DEF HearHeader
    <3>4. h + 1 >= 12 => Dat_Len' = n
      <4> SUFFICES ASSUME h + 1 >= 12 PROVE Dat_Len' = n
        OBVIOUS
      <4>1. h \in 0..254 /\ h + 1 = 12
        BY <2>4
      <4>2. /\ ptr' = 12
            /\ \A k \in 1..12 : Freq_Dat_buffer'[k] = Symbols(f)[k]
        BY <1>2, <2>1, <3>3, <4>1, AcceptStep, Zenon
      <4>3. Dat_Len' = GetByte(Freq_Dat_buffer', 8)
        BY <3>2, <4>2, Zenon DEF HearHeader
      <4>4. \A k \in 1..4 : k + 8 \in 1..12 /\ k + 8 = 8 + k
        OBVIOUS
      <4>5. \A k \in 1..4 : Freq_Dat_buffer'[8 + k] = Digits(n)[k]
        BY <4>2, <4>4, SymbolsFacts, ZenonT(30) DEF SymbolsAre
      <4>6. 1 \in 1..4 /\ 2 \in 1..4 /\ 3 \in 1..4 /\ 4 \in 1..4
        OBVIOUS
      <4>7. GetByte(Freq_Dat_buffer', 8) = 64 * Digits(n)[1] + 16 * Digits(n)[2] + 4 * Digits(n)[3] + Digits(n)[4]
        BY <4>5, <4>6, Zenon DEF GetByte
      <4>8. n \in 0..255
        BY <1>1
      <4> QED
        BY <4>3, <4>7, <4>8, DigitsFacts, Zenon
    <3>5. h < n + 15
      BY <1>1, <2>4
    <3> QED
      BY <2>3, <3>3, <3>4, <3>5, Zenon
  <2>5. CASE h >= 12 /\ h < n + 12
    <3>1. ~InHeader(d) /\ InData
      BY <2>2, <2>5 DEF InHeader, InData
    <3>2. HearData(freq)
      BY <1>4, <3>1, Zenon
    <3>3. Accept(d) /\ got' = None /\ Dat_Len' = n
      BY <1>3, <2>2, <2>5, <3>2, Zenon DEF HearData
    <3>4. h < n + 15
      BY <1>1, <2>5
    <3> QED
      BY <2>3, <3>3, <3>4, Zenon
  <2>6. CASE h >= n + 12
    <3>1. ~InHeader(d) /\ ~InData /\ Dat_Len = n
      BY <1>1, <2>2, <2>6 DEF InHeader, InData
    <3>2. InTrailer(d)
      <4> DEFINE k == h - n - 12
      <4>1. k \in 0..3 /\ ptr = Dat_Len + 12 + k
        <5> HIDE DEF n, d, freq
        <5> QED
          BY <1>1, <2>2, <2>6, <3>1
      <4>2. k + 1 \in 1..4 /\ n + 12 + (k + 1) = h + 1
        BY <1>1, <4>1
      <4> HIDE DEF k
      <4>3. d = Trailer[k + 1]
        <5>1. Symbols(f)[n + 12 + (k + 1)] = Trailer[k + 1]
          BY <4>2, SymbolsFacts, Zenon DEF SymbolsAre
        <5> QED
          BY <4>2, <5>1, Zenon
      <4> QED
        BY <4>1, <4>3, Zenon DEF InTrailer
    <3>3. CASE Wrap(h + 1) # n + 16
      <4>1. HearTrailer(freq)
        BY <1>4, <2>2, <3>1, <3>2, <3>3, Zenon DEF Return
      <4>2. Accept(d) /\ got' = None /\ Dat_Len' = n
        BY <1>3, <2>2, <3>1, <4>1, Zenon DEF HearTrailer
      <4>3. h < n + 15 \/ h = 255
        BY <1>1, <1>7, <3>3 DEF Wrap
      <4> QED
        BY <2>3, <4>2, <4>3, Zenon
    <3>4. CASE Wrap(h + 1) = n + 16
      <4>1. Return(freq)
        BY <1>4, <2>2, <3>1, <3>2, <3>4, Zenon DEF HearTrailer
      <4>2. h \in 0..254 /\ h + 1 = n + 16
        BY <1>1, <1>7, <3>4 DEF Wrap
      <4> DEFINE b == Append(Freq_Dat_buffer, d)
      <4>3. got' = Payload(b)
        BY <1>3, <4>1, Zenon DEF Return
      <4>4. /\ Freq_Dat_buffer \in Seq(Symbol) /\ Len(Freq_Dat_buffer) = h
            /\ \A k \in 1..h : Freq_Dat_buffer[k] = Symbols(f)[k]
        BY <2>1, <2>2, Zenon DEF TypeOK, Following
      <4>5. b \in Seq(Symbol) /\ Len(b) = h + 1
        BY <1>2, <4>4, AppendFacts, Zenon
      <4>6. \A k \in 1..(h + 1) : k \in 1..h \/ k = h + 1
        BY <4>2
      <4>7. \A k \in 1..(h + 1) : b[k] = Symbols(f)[k]
        <5>1. b[h + 1] = d /\ \A k \in 1..h : b[k] = Freq_Dat_buffer[k]
          BY <1>2, <4>4, AppendFacts, Zenon
        <5> QED
          BY <4>4, <4>6, <5>1, Zenon
      <4>8. Payload(b) = f
        BY <3>1, <4>2, <4>5, <4>7, PayloadIsFrame, Zenon
      <4> HIDE DEF b
      <4>9. got' = f
        BY <4>3, <4>8
      <4> HIDE DEF d, freq
      <4> QED
        BY <4>2, <4>9 DEF Followed
    <3> QED
      BY <3>3, <3>4
  <2> QED
    BY <1>1, <2>4, <2>5, <2>6
<1> QED
  BY <1>1, <1>6, <1>7

\* A frequency heard again changes nothing.
LEMMA SameAgain ==
    ASSUME NEW freq, freq = Last_Freq \/ ~IsSymbol(freq), Analysis(freq)
    PROVE  UNCHANGED <<Freq_Dat_buffer, ptr, Dat_Len, ssid, pwd, got>> /\ Last_Freq' = freq
  BY Zenon DEF Analysis, HearNothing, HearHeader, HearData, HearTrailer, Invalid, Return, NewSymbol

\* What the decoder hears of a frame: its next symbol, to which it is not deaf, or the
\* free tone after a symbol, which changes nothing.
HearsSymbol(f, h, d) ==
    /\ h < Len(f) + 16 /\ d = Symbols(f)[h + 1] /\ d \in Symbol
    /\ Last_Freq # Tone(d) /\ Analysis(Tone(d))

LEMMA HearFacts ==
    ASSUME TypeInv, Hear, pos <= LastPos(frame), LastHeard(frame, pos)
    PROVE  /\ frame \in Frames /\ frame' = frame
           /\ pos' <= LastPos(frame) /\ LastHeard(frame, pos)'
           /\ UNCHANGED <<began, clean>>
           /\ \E h \in Nat :
                 /\ (pos' + 1) \div 2 = h + 1
                 /\ \/ (pos + 1) \div 2 = h /\ HearsSymbol(frame, h, Symbols(frame)[h + 1])
                    \/ (pos + 1) \div 2 = h + 1 /\ UNCHANGED <<Freq_Dat_buffer, ptr, Dat_Len, ssid, pwd, got>>
<1>0. frame # None /\ UNCHANGED <<frame, began, clean>>
  BY Zenon DEF Hear
<1>1. PICK f \in Frames : f = frame
  BY <1>0, Zenon DEF TypeInv, TypeOK
<1>2. PICK p \in Nat : p = pos
  BY Zenon DEF TypeInv, TypeOK
<1>3. LastHeard(f, p) /\ p < LastPos(f)
  BY <1>1, <1>2, Zenon DEF Hear
<1>4. frame' = f /\ pos' = p + 1 /\ Analysis(ToneAt(f, p + 1))
  BY <1>1, <1>2, Zenon DEF Hear
<1>5. Len(f) \in Nat /\ LastPos(f) = 2 * (Len(f) + 16)
  BY <1>1, FramesAssumption, ToneAtFacts
<1>6. Last_Freq' = ToneAt(f, p + 1)
  BY <1>4, Zenon DEF Analysis, HearNothing, HearHeader, HearData, HearTrailer, Invalid, Return, NewSymbol
<1>7. p + 1 > 0 /\ p + 1 <= LastPos(f)
  BY <1>2, <1>3, <1>5
<1>8. LastHeard(f, p + 1)'
  <2>1. p + 1 # 0
    BY <1>7
  <2> QED
    BY <1>6, <2>1, Zenon DEF LastHeard
<1>9. PICK h \in Nat : p = 2 * h \/ p = 2 * h + 1
  <2>1. p = 2 * (p \div 2) \/ p = 2 * (p \div 2) + 1
    OBVIOUS
  <2>2. p \div 2 \in Nat
    OBVIOUS
  <2> QED
    BY <2>1, <2>2, Zenon
<1>10. CASE p = 2 * h
  <2> DEFINE d == Symbols(f)[h + 1]
  <2>1. (p + 1) \div 2 = h /\ (p + 1 + 1) \div 2 = h + 1 /\ h < Len(f) + 16
    BY <1>3, <1>5, <1>10
  <2>2. ToneAt(f, p + 1) = Tone(d)
    BY <1>10, ToneAtFacts, Zenon
  <2>3. Symbols(f) \in Seq(Symbol) /\ Len(Symbols(f)) = Len(f) + 16 /\ Symbols(f)[1] = 0
    <3>1. 1 \in 1..8 /\ Header[1] = 0
      BY DEF Header
    <3> QED
      BY <3>1, SymbolsFacts, Zenon DEF SymbolsAre
  <2>4. d \in Symbol
    BY <1>5, <2>1, <2>3, ElementOfSeq
  <2>5. Last_Freq # Tone(d)
    <3>1. CASE p = 0
      BY <1>3, <1>10, <2>3, <3>1 DEF LastHeard
    <3>2. CASE p > 0
      <4>1. Last_Freq \in {0, FREE_FREQ}
        BY <1>3, <1>10, <3>2, ToneAtFacts DEF LastHeard
      <4> QED
        BY <2>4, <4>1, ToneFacts, ToneHeard
    <3> QED
      BY <3>1, <3>2
  <2>6. HearsSymbol(f, h, d)
    BY <1>4, <2>1, <2>2, <2>4, <2>5, Zenon DEF HearsSymbol
  <2> QED
    BY <1>0, <1>1, <1>2, <1>4, <1>7, <1>8, <2>1, <2>6, Zenon DEF LastHeard
<1>11. CASE p = 2 * h + 1
  <2>1. (p + 1) \div 2 = h + 1 /\ (p + 1 + 1) \div 2 = h + 1 /\ p + 1 = 2 * (h + 1)
    BY <1>11
  <2>2. ToneAt(f, p + 1) = FREE_FREQ
    BY <2>1, ToneAtFacts
  <2>3. UNCHANGED <<Freq_Dat_buffer, ptr, Dat_Len, ssid, pwd, got>>
    <3>1. ~IsSymbol(ToneAt(f, p + 1))
      BY <2>2 DEF IsSymbol
    <3> QED
      BY <1>4, <3>1, SameAgain, Zenon
  <2> QED
    BY <1>0, <1>1, <1>2, <1>4, <1>7, <1>8, <2>1, <2>3, Zenon DEF LastHeard
<1> QED
  BY <1>9, <1>10, <1>11

LEMMA HearKeepsSync ==
    ASSUME TypeInv, SyncInv, Hear
    PROVE  SyncInv'
<1> SUFFICES ASSUME frame # None, clean, began = 0
             PROVE  /\ pos' <= LastPos(frame)
                    /\ LastHeard(frame, pos)'
                    /\ Followed(frame, (pos + 1) \div 2)'
  BY Zenon DEF SyncInv, Hear
<1>1. pos <= LastPos(frame) /\ LastHeard(frame, pos) /\ Followed(frame, (pos + 1) \div 2)
  BY Zenon DEF SyncInv
<1>2. frame \in Frames /\ frame' = frame /\ pos' <= LastPos(frame) /\ LastHeard(frame, pos)'
  BY <1>1, HearFacts, Zenon
<1>3. PICK h \in Nat :
         /\ (pos' + 1) \div 2 = h + 1
         /\ \/ (pos + 1) \div 2 = h /\ HearsSymbol(frame, h, Symbols(frame)[h + 1])
            \/ (pos + 1) \div 2 = h + 1 /\ UNCHANGED <<Freq_Dat_buffer, ptr, Dat_Len, ssid, pwd, got>>
  BY <1>1, HearFacts, Zenon
<1>4. PICK f \in Frames : f = frame
  BY <1>2
<1>5. Followed(f, h + 1)'
  <2>1. CASE (pos + 1) \div 2 = h /\ HearsSymbol(f, h, Symbols(f)[h + 1])
    <3>1. /\ TypeOK /\ h < Len(f) + 16 /\ Followed(f, h)
          /\ Last_Freq # Tone(Symbols(f)[h + 1]) /\ Analysis(Tone(Symbols(f)[h + 1]))
      BY <1>1, <1>4, <2>1, Zenon DEF HearsSymbol, TypeInv
    <3> QED
      BY <3>1, NextSymbol, Zenon
  <2>2. CASE (pos + 1) \div 2 = h + 1 /\ UNCHANGED <<Freq_Dat_buffer, ptr, Dat_Len, ssid, pwd, got>>
    <3>1. Followed(f, h + 1)
      BY <1>1, <1>4, <2>2, Zenon
    <3> QED
      BY <2>2, <3>1 DEF Followed, Following
  <2> QED
    BY <1>3, <1>4, <2>1, <2>2, Zenon
<1> QED
  BY <1>2, <1>3, <1>4, <1>5, Zenon DEF Followed, Following

\* A frame begins.
LEMMA NothingHeard ==
    ASSUME NEW f \in Frames
    PROVE  ~(0 = Len(f) + 16) /\ ~(0 >= 256) /\ ~(0 >= 12) /\ 1..0 = {}
  BY FramesAssumption

LEMMA SyncStep == TypeInv /\ SyncInv /\ [Next]_vars => SyncInv'
<1> SUFFICES ASSUME TypeInv, SyncInv, [Next]_vars PROVE SyncInv'
  OBVIOUS
<1>1. ASSUME NEW f \in Frames, Play(f) PROVE SyncInv'
  <2> SUFFICES ASSUME began' = 0, clean'
               PROVE  /\ pos' <= LastPos(f)
                      /\ LastHeard(f, pos)'
                      /\ Followed(f, (pos + 1) \div 2)'
    BY <1>1, Zenon DEF SyncInv, Play
  <2>1. pos' = 0 /\ ptr' = 0 /\ got' = None /\ Last_Freq' # Tone(0)
    BY <1>1 DEF Play, Header, decoder
  <2>2. Len(f) \in Nat /\ LastPos(f) = 2 * (Len(f) + 16) /\ (0 + 1) \div 2 = 0
    BY FramesAssumption, ToneAtFacts
  <2>3. (pos' + 1) \div 2 = 0 /\ pos' <= LastPos(f)
    BY <2>1, <2>2
  <2>4. Followed(f, 0)'
    BY <2>1, NothingHeard, Zenon DEF Followed, Following
  <2>5. LastHeard(f, pos)'
    BY <2>1, Zenon DEF LastHeard
  <2>6. Followed(f, (pos + 1) \div 2)'
    BY <2>3, <2>4 DEF Followed, Following
  <2> QED
    BY <2>3, <2>5, <2>6, Zenon
<1>2. CASE Hear
  BY <1>2, HearKeepsSync
<1>3. CASE HearAgain
  <2>1. UNCHANGED <<Freq_Dat_buffer, ptr, Dat_Len, got, Last_Freq, phone>>
    BY <1>3, SameAgain, Zenon DEF HearAgain
  <2> QED
    BY <2>1, Zenon DEF phone, SyncInv, LastHeard, Followed, Following
<1>4. CASE Miss
  BY <1>4, Zenon DEF Miss, SyncInv
<1>5. CASE Stray
  BY <1>5, Zenon DEF Stray, SyncInv
<1>6. CASE Finish
  BY <1>6, Zenon DEF Finish, SyncInv
<1>7. CASE UNCHANGED vars
  BY <1>7 DEF vars, decoder, phone, SyncInv, LastHeard, Followed, Following
<1> QED
  BY <1>1, <1>2, <1>3, <1>4, <1>5, <1>6, <1>7 DEF Next

LEMMA SyncInit == Init => SyncInv
<1> SUFFICES ASSUME Init, clean
             PROVE  /\ pos <= LastPos(frame)
                    /\ LastHeard(frame, pos)
                    /\ Followed(frame, (pos + 1) \div 2)
  BY DEF SyncInv
<1>1. pos = 0 /\ ptr = 0 /\ got = None /\ Last_Freq = 0 /\ frame \in Frames
  BY DEF Init
<1>2. Len(frame) \in Nat /\ LastPos(frame) = 2 * (Len(frame) + 16) /\ (0 + 1) \div 2 = 0
  BY <1>1, FramesAssumption, ToneAtFacts
<1>3. Tone(0) # 0
  BY DEF Tone
<1>4. (pos + 1) \div 2 = 0 /\ pos <= LastPos(frame)
  BY <1>1, <1>2
<1>5. Followed(frame, 0)
  BY <1>1, NothingHeard, Zenon DEF Followed, Following
<1>6. LastHeard(frame, pos)
  BY <1>1, <1>3 DEF LastHeard
<1> QED
  BY <1>4, <1>5, <1>6, Zenon

LEMMA SyncImplies == TypeInv /\ SyncInv => FrameInSyncReturned
<1> SUFFICES ASSUME TypeInv, SyncInv, HeardWhole, began = 0
             PROVE  got = IF Len(frame) <= 239 THEN frame ELSE None
  BY Zenon DEF FrameInSyncReturned
<1>1. frame # None /\ clean /\ frame \in Frames /\ pos \in Nat
  BY Zenon DEF HeardWhole, TypeInv, TypeOK
<1>2. Len(frame) \in 4..255 /\ LastPos(frame) = 2 * (Len(frame) + 16)
  BY <1>1, FramesAssumption, ToneAtFacts
<1>3. pos >= LastPos(frame) - 1 /\ pos <= LastPos(frame) /\ Followed(frame, (pos + 1) \div 2)
  BY <1>1, Zenon DEF HeardWhole, SyncInv
<1>4. (pos + 1) \div 2 = Len(frame) + 16
  BY <1>1, <1>2, <1>3
<1>5. Followed(frame, Len(frame) + 16)
  BY <1>3, <1>4, Zenon
<1> QED
  BY <1>2, <1>5 DEF Followed

\* A frame heard whole by a decoder that waits for one is returned as played when it
\* has at most 239 symbols, and nothing is returned for a longer one
\* (audio_transfer_fft.c:183-230).
THEOREM FrameReturned == Spec => []FrameInSyncReturned
<1>1. Spec => [](TypeInv /\ SyncInv)
  <2>1. Init => TypeInv /\ SyncInv
    BY TypeInit, SyncInit
  <2>2. TypeInv /\ SyncInv /\ [Next]_vars => (TypeInv /\ SyncInv)'
    BY TypeStep, SyncStep
  <2> QED
    BY <2>1, <2>2, PTL DEF Spec
<1> QED
  BY <1>1, SyncImplies, PTL

-----------------------------------------------------------------------------
(* The decoder that has lost the thread. *)

\* h symbols of f have been heard by a decoder that was inside a header when f began: the
\* last ptr of them are the beginning of a header that is not the one of f.
Lost(f, h) ==
    /\ got = None
    /\ h = 0 => ptr \in 1..3
    /\ h >= 1 => /\ ptr < h /\ ptr < 8
                 /\ \A j \in 1..ptr : Symbols(f)[h - ptr + j] = Header[j]
    /\ h = Len(f) + 15 => ptr = 0
    /\ h = Len(f) + 16 => ptr = 1

LostInv ==
    frame # None /\ clean /\ began \in 1..3 /\ ~HeaderInside(frame) =>
        /\ pos <= LastPos(frame)
        /\ LastHeard(frame, pos)
        /\ Lost(frame, (pos + 1) \div 2)

\* The symbols by which the decoder is led astray.
LEMMA LandmarkFacts ==
    ASSUME NEW f \in Frames
    PROVE  /\ Len(f) \in 4..255
           /\ Symbols(f)[1] = 0 /\ Symbols(f)[Len(f) + 15] = 2 /\ Symbols(f)[Len(f) + 16] = 0
<1> DEFINE n == Len(f)
<1>1. n \in 4..255
  BY FramesAssumption, Zenon
<1>2. /\ \A k \in 1..8 : Symbols(f)[k] = Header[k]
      /\ \A k \in 1..4 : Symbols(f)[n + 12 + k] = Trailer[k]
  BY SymbolsFacts, Zenon DEF SymbolsAre
<1> HIDE DEF n
<1>3. 1 \in 1..8 /\ 3 \in 1..4 /\ 4 \in 1..4 /\ n + 12 + 3 = n + 15 /\ n + 12 + 4 = n + 16
  BY <1>1
<1>4. Symbols(f)[1] = Header[1] /\ Symbols(f)[n + 15] = Trailer[3] /\ Symbols(f)[n + 16] = Trailer[4]
  <2>1. Symbols(f)[n + 12 + 3] = Trailer[3] /\ Symbols(f)[n + 12 + 4] = Trailer[4]
    BY <1>2, <1>3, Zenon
  <2> QED
    BY <1>2, <1>3, <2>1, Zenon
<1>5. Header[1] = 0 /\ Trailer[3] = 2 /\ Trailer[4] = 0
  BY DEF Header, Trailer
<1>6. Symbols(f)[1] = 0 /\ Symbols(f)[n + 15] = 2 /\ Symbols(f)[n + 16] = 0
  BY <1>4, <1>5
<1> QED
  BY <1>1, <1>6 DEF n

\* The decoder looks for a header: it takes what fits and gives up at what does not.
LEMMA HeaderStep ==
    ASSUME TypeOK, ptr < 8, NEW d \in Symbol, Last_Freq # Tone(d), Analysis(Tone(d))
    PROVE  /\ got' = got
           /\ ptr' = IF d = Header[ptr + 1] THEN ptr + 1 ELSE 0
<1>1. ptr \in 0..7 /\ Dat_Len \in 0..255
  <2>1. ptr \in 0..255 /\ Dat_Len \in 0..255
    BY Zenon DEF TypeOK
  <2> QED
    BY <2>1
<1>2. SymbolOf(Tone(d)) = d /\ IsSymbol(Tone(d))
  BY ToneFacts, Zenon
<1>3. ~InData /\ ~InTrailer(d) /\ (InHeader(d) <=> d = Header[ptr + 1])
  BY <1>1 DEF InData, InTrailer, InHeader
<1>4. IF d = Header[ptr + 1] THEN HearHeader(Tone(d)) ELSE Invalid(Tone(d))
  BY <1>2, <1>3, Zenon DEF Analysis, HearNothing, HearHeader, HearData, HearTrailer, Invalid, Return
<1>5. CASE d = Header[ptr + 1]
  <2>1. ptr' = Wrap(ptr + 1) /\ got' = got
    BY <1>4, <1>5, Zenon DEF HearHeader, Accept
  <2> QED
    BY <1>1, <1>5, <2>1 DEF Wrap
<1>6. CASE d # Header[ptr + 1]
  BY <1>4, <1>6, Zenon DEF Invalid, Restart
<1> QED
  BY <1>5, <1>6

LEMMA LostStep ==
    ASSUME TypeOK, NEW f \in Frames, ~HeaderInside(f), NEW h \in Nat, Lost(f, h),
           HearsSymbol(f, h, Symbols(f)[h + 1])
    PROVE  Lost(f, h + 1)'
<1> DEFINE n == Len(f)
           d == Symbols(f)[h + 1]
           s == Symbols(f)
<1>1. n \in 4..255 /\ s[1] = 0 /\ s[n + 15] = 2 /\ s[n + 16] = 0
  BY LandmarkFacts, Zenon
<1>2. h < n + 16 /\ d \in Symbol /\ Last_Freq # Tone(d) /\ Analysis(Tone(d))
  BY Zenon DEF HearsSymbol
<1>3. ptr \in 0..7 /\ (h = 0 => ptr \in 1..3) /\ got = None
  <2>1. ptr \in 0..255 /\ (h = 0 => ptr \in 1..3) /\ (h >= 1 => ptr < 8) /\ got = None
    BY Zenon DEF TypeOK, Lost
  <2> QED
    BY <2>1
<1>4. got' = None /\ ptr' = IF d = Header[ptr + 1] THEN ptr + 1 ELSE 0
  <2>1. ptr < 8
    BY <1>3
  <2> HIDE DEF d
  <2> QED
    BY <1>2, <1>3, <2>1, HeaderStep, Zenon
<1> HIDE DEF n, s
<1>5. CASE d = Header[ptr + 1]
  <2>1. d # 2
    BY <1>3, <1>5 DEF Header
  <2>2. h # 0
    BY <1>1, <1>3, <1>5 DEF Header, s
  <2>3. h >= 1 /\ ptr < h /\ \A j \in 1..ptr : s[h - ptr + j] = Header[j]
    BY <2>2 DEF Lost, s
  <2>4. ptr' = ptr + 1 /\ (h + 1) - ptr' = h - ptr
    BY <1>3, <1>4, <1>5
  <2>5. \A j \in 1..ptr' : s[(h + 1) - ptr' + j] = Header[j]
    <3>1. \A j \in 1..ptr' : j \in 1..ptr \/ (j = ptr + 1 /\ h - ptr + j = h + 1)
      BY <1>3, <2>4
    <3>2. d = s[h + 1]
      BY DEF s
    <3> QED
      BY <1>5, <2>3, <2>4, <3>1, <3>2, Zenon
  <2>6. ptr' < 8
    <3> SUFFICES ASSUME ptr = 7 PROVE FALSE
      BY <1>3, <2>4
    <3>1. h - 7 \in 1..(n + 8) /\ (h + 1) - ptr' = h - 7
      BY <1>1, <1>2, <2>3, <2>4
    <3>2. ptr' = 8
      BY <2>4
    <3>3. \A j \in 1..8 : s[(h - 7) + j] = Header[j]
      BY <2>5, <3>1, <3>2, Zenon
    <3> QED
      BY <3>1, <3>3, Zenon DEF HeaderInside, s, n
  <2>7. h + 1 # n + 15
    BY <1>1, <2>1 DEF s
  <2>8. h + 1 = n + 16 => ptr' = 1
    <3>1. h + 1 = n + 16 => h = n + 15
      BY <1>1
    <3> QED
      BY <2>4, <3>1 DEF Lost, n
  <2>9. ptr' < h + 1 /\ h + 1 # 0
    BY <1>3, <2>3, <2>4
  <2> HIDE DEF d
  <2> QED
    BY <1>4, <2>5, <2>6, <2>7, <2>8, <2>9, Zenon DEF Lost, s, n
<1>6. CASE d # Header[ptr + 1]
  <2>1. ptr' = 0 /\ ptr' < h + 1 /\ ptr' < 8 /\ h + 1 # 0
    BY <1>4, <1>6
  <2>2. h + 1 # n + 16
    <3> SUFFICES ASSUME h + 1 = n + 16 PROVE FALSE
      OBVIOUS
    <3>1. h = n + 15
      BY <1>1
    <3>2. ptr = 0
      BY <3>1 DEF Lost, n
    <3>3. d = 0
      BY <1>1 DEF s
    <3> QED
      BY <1>6, <3>2, <3>3 DEF Header
  <2>3. \A j \in 1..ptr' : FALSE
    BY <2>1
  <2> HIDE DEF d
  <2> QED
    BY <1>4, <2>1, <2>2, <2>3, Zenon DEF Lost, s, n
<1> QED
  BY <1>5, <1>6

LEMMA LostKept == TypeInv /\ LostInv /\ [Next]_vars => LostInv'
<1> SUFFICES ASSUME TypeInv, LostInv, [Next]_vars PROVE LostInv'
  OBVIOUS
<1>1. ASSUME NEW f \in Frames, Play(f) PROVE LostInv'
  <2> SUFFICES ASSUME began' \in 1..3, clean'
               PROVE  /\ pos' <= LastPos(f)
                      /\ LastHeard(f, pos)'
                      /\ Lost(f, (pos + 1) \div 2)'
    BY <1>1, Zenon DEF LostInv, Play
  <2>1. pos' = 0 /\ ptr' \in 1..3 /\ got' = None /\ Last_Freq' # Tone(0)
    BY <1>1 DEF Play, Header, decoder
  <2>2. Len(f) \in 4..255 /\ LastPos(f) = 2 * (Len(f) + 16) /\ (0 + 1) \div 2 = 0
    BY FramesAssumption, ToneAtFacts
  <2>3. (pos' + 1) \div 2 = 0 /\ pos' <= LastPos(f)
    BY <2>1, <2>2
  <2>4. 0 # Len(f) + 15 /\ 0 # Len(f) + 16 /\ ~(0 >= 1)
    BY <2>2
  <2>5. Lost(f, 0)'
    BY <2>1, <2>4, Zenon DEF Lost
  <2>6. LastHeard(f, pos)'
    BY <2>1, Zenon DEF LastHeard
  <2>7. Lost(f, (pos + 1) \div 2)'
    BY <2>3, <2>5, Zenon DEF Lost
  <2> QED
    BY <2>3, <2>6, <2>7, Zenon
<1>2. CASE Hear
  <2> SUFFICES ASSUME frame # None, clean, began \in 1..3, ~HeaderInside(frame)
               PROVE  /\ pos' <= LastPos(frame)
                      /\ LastHeard(frame, pos)'
                      /\ Lost(frame, (pos + 1) \div 2)'
    BY <1>2, Zenon DEF LostInv, Hear
  <2>1. pos <= LastPos(frame) /\ LastHeard(frame, pos) /\ Lost(frame, (pos + 1) \div 2)
    BY Zenon DEF LostInv
  <2>2. frame \in Frames /\ frame' = frame /\ pos' <= LastPos(frame) /\ LastHeard(frame, pos)'
    BY <1>2, <2>1, HearFacts, Zenon
  <2>3. PICK h \in Nat :
           /\ (pos' + 1) \div 2 = h + 1
           /\ \/ (pos + 1) \div 2 = h /\ HearsSymbol(frame, h, Symbols(frame)[h + 1])
              \/ (pos + 1) \div 2 = h + 1 /\ UNCHANGED <<Freq_Dat_buffer, ptr, Dat_Len, ssid, pwd, got>>
    BY <1>2, <2>1, HearFacts, Zenon
  <2>4. PICK f \in Frames : f = frame
    BY <2>2
  <2>5. Lost(f, h + 1)'
    <3>1. CASE (pos + 1) \div 2 = h /\ HearsSymbol(f, h, Symbols(f)[h + 1])
      <4>1. TypeOK /\ Lost(f, h) /\ ~HeaderInside(f)
        BY <2>1, <2>4, <3>1, Zenon DEF TypeInv
      <4> QED
        BY <3>1, <4>1, LostStep, Zenon
    <3>2. CASE (pos + 1) \div 2 = h + 1 /\ UNCHANGED <<Freq_Dat_buffer, ptr, Dat_Len, ssid, pwd, got>>
      <4>1. Lost(f, h + 1)
        BY <2>1, <2>4, <3>2, Zenon
      <4> QED
        BY <3>2, <4>1, Zenon DEF Lost
    <3> QED
      BY <2>3, <2>4, <3>1, <3>2, Zenon
  <2> QED
    BY <2>2, <2>3, <2>4, <2>5, Zenon DEF Lost
<1>3. CASE HearAgain
  <2>1. UNCHANGED <<Freq_Dat_buffer, ptr, Dat_Len, got, Last_Freq, phone>>
    BY <1>3, SameAgain, Zenon DEF HearAgain
  <2> QED
    BY <2>1, Zenon DEF phone, LostInv, LastHeard, Lost
<1>4. CASE Miss
  BY <1>4, Zenon DEF Miss, LostInv
<1>5. CASE Stray
  BY <1>5, Zenon DEF Stray, LostInv
<1>6. CASE Finish
  BY <1>6, Zenon DEF Finish, LostInv
<1>7. CASE UNCHANGED vars
  BY <1>7, Zenon DEF vars, decoder, phone, LostInv, LastHeard, Lost
<1> QED
  BY <1>1, <1>2, <1>3, <1>4, <1>5, <1>6, <1>7 DEF Next

\* A decoder that has lost the thread does not find it again from a frame heard whole,
\* unless the payload holds the header inside: it ends where it was, one symbol into
\* a header that is not there, and returns nothing (audio_transfer_fft.c:183-237).
THEOREM LostStaysLost == Spec => []OutOfSyncStays
<1>1. Init => TypeInv /\ LostInv
  <2>1. Init => LostInv
    BY DEF Init, LostInv
  <2> QED
    BY <2>1, TypeInit
<1>2. TypeInv /\ LostInv => OutOfSyncStays
  <2> SUFFICES ASSUME TypeInv, LostInv, HeardWhole, began \in 1..3, ~HeaderInside(frame)
               PROVE  ptr = 1 /\ got = None
    BY Zenon DEF OutOfSyncStays
  <2>1. frame # None /\ clean /\ frame \in Frames /\ pos \in Nat
    BY Zenon DEF HeardWhole, TypeInv, TypeOK
  <2>2. Len(frame) \in 4..255 /\ LastPos(frame) = 2 * (Len(frame) + 16)
    BY <2>1, FramesAssumption, ToneAtFacts
  <2>3. pos >= LastPos(frame) - 1 /\ pos <= LastPos(frame) /\ Lost(frame, (pos + 1) \div 2)
    BY <2>1, Zenon DEF HeardWhole, LostInv
  <2>4. (pos + 1) \div 2 = Len(frame) + 16
    BY <2>1, <2>2, <2>3
  <2> QED
    BY <2>3, <2>4, Zenon DEF Lost
<1> QED
  BY <1>1, <1>2, TypeStep, LostKept, PTL DEF Spec

-----------------------------------------------------------------------------
(* Nothing but frames is heard, from the beginning or not: what is kept was played. *)

Kept ==
    /\ ssid # None => \E f \in Frames : Tag(f) = TagS /\ ssid = Answer(f)
    /\ pwd  # None => \E f \in Frames : Tag(f) = TagP /\ pwd = Answer(f)

\* h symbols of f are over: the decoder has followed it, or has lost the thread.
Underway(f, h) ==
    IF h = Len(f) + 16 THEN ptr <= 1 ELSE (h <= 255 /\ Following(f, h)) \/ Lost(f, h)

UndisturbedInv ==
    missed = 0 /\ strays = 0 =>
        /\ Kept
        /\ frame = None => ptr <= 1 /\ Last_Freq \in {0, FREE_FREQ}
        /\ frame # None => /\ pos <= LastPos(frame)
                           /\ LastHeard(frame, pos)
                           /\ Underway(frame, (pos + 1) \div 2)

LEMMA KeepPlayed ==
    ASSUME NEW f \in Frames, Kept, Keep(f)
    PROVE  Kept'
<1>1. ssid' = ssid \/ (Tag(f) = TagS /\ ssid' = Answer(f))
  BY Zenon DEF Keep
<1>2. pwd' = pwd \/ (Tag(f) = TagP /\ pwd' = Answer(f))
  BY Zenon DEF Keep
<1> QED BY <1>1, <1>2, Zenon DEF Kept

\* A payload is returned only at the end of a frame that was followed.
LEMMA ReturnAtEnd ==
    ASSUME TypeOK, NEW f \in Frames, NEW h \in Nat, Underway(f, h), h < Len(f) + 16,
           NEW freq, Return(freq)
    PROVE  h + 1 = Len(f) + 16 /\ h + 1 <= 255 /\ Following(f, h)
<1> DEFINE n == Len(f)
<1>0. n \in 4..255
  BY FramesAssumption, Zenon
<1>1. ptr \in 0..255 /\ Dat_Len \in 0..255
  BY Zenon DEF TypeOK
<1>2. Wrap(ptr + 1) = Dat_Len + 16
  BY Zenon DEF Return
<1>3. ptr = Dat_Len + 15
  BY <1>1, <1>2, WrapAtEnd, ZenonT(30)
<1>4. ptr + 1 <= 255
  BY <1>1, <1>2, <1>3 DEF Wrap
<1>5. ~Lost(f, h)
  <2>1. ptr >= 15
    BY <1>1, <1>3
  <2>2. ~(ptr \in 1..3) /\ ~(ptr < 8)
    BY <1>1, <2>1
  <2>3. h = 0 \/ h >= 1
    OBVIOUS
  <2> QED BY <2>2, <2>3, Zenon DEF Lost
<1>6. Following(f, h)
  <2>1. h # n + 16
    BY <1>0
  <2> QED BY <1>5, <2>1, Zenon DEF Underway
<1>7. ptr = h /\ (h >= 12 => Dat_Len = n)
  BY <1>6, Zenon DEF Following
<1> HIDE DEF n
<1>8. h + 1 = n + 16
  BY <1>0, <1>1, <1>3, <1>7
<1> QED BY <1>4, <1>6, <1>7, <1>8 DEF n

LEMMA UnderwayStep ==
    ASSUME TypeOK, NEW f \in Frames, ~HeaderInside(f), NEW h \in Nat, h < Len(f) + 16,
           Underway(f, h), HearsSymbol(f, h, Symbols(f)[h + 1])
    PROVE  Underway(f, h + 1)'
<1> DEFINE n == Len(f)
           d == Symbols(f)[h + 1]
<1>1. n \in 4..255 /\ n % 4 = 0
  BY FramesAssumption, Zenon
<1>2. Last_Freq # Tone(d) /\ Analysis(Tone(d))
  BY Zenon DEF HearsSymbol
<1>3. CASE h <= 255 /\ Following(f, h)
  <2>1. Followed(f, h)
    <3>1. h # n + 16 /\ ~(h >= 256)
      BY <1>1, <1>3
    <3> QED BY <1>3, <3>1, Zenon DEF Followed
  <2>2. Followed(f, h + 1)'
    BY <1>2, <2>1, NextSymbol, Zenon
  <2>3. ptr' \in Nat
    <3>1. ptr \in 0..255
      BY Zenon DEF TypeOK
    <3>2. Wrap(ptr + 1) \in Nat
      BY <3>1 DEF Wrap
    <3>3. ptr' \in {ptr, Wrap(ptr + 1), 0}
      BY <1>2, Zenon DEF Analysis, HearNothing, HearHeader, HearData, HearTrailer, Invalid, Return, Accept, Restart
    <3> QED BY <3>1, <3>2, <3>3
  <2>4. CASE h + 1 <= 255 /\ h + 1 # n + 16
    <3>1. h + 1 < n + 16
      BY <1>1, <2>4
    <3> QED BY <2>2, <2>4, <3>1, Zenon DEF Followed, Underway
  <2>5. CASE h + 1 = n + 16 /\ h + 1 <= 255
    <3>1. got' = f /\ got = None /\ f # None
      <4>1. got' = f
        BY <2>2, <2>5, Zenon DEF Followed
      <4> QED BY <1>3, <4>1, FramesAssumption, NoneAssumption, Zenon DEF Following
    <3>2. Return(Tone(d))
      BY <1>2, <3>1, Zenon DEF Analysis, HearNothing, HearHeader, HearData, HearTrailer, Invalid
    <3>3. ptr' = 0
      BY <3>2, Zenon DEF Return, Restart
    <3>4. ptr' <= 1
      BY <3>3
    <3> QED BY <2>5, <3>4, Zenon DEF Underway
  <2>6. CASE h + 1 > 255
    <3>1. h + 1 = 256 /\ h + 1 >= 256 /\ (h + 1) - 256 = 0
      BY <1>3, <2>6
    <3>2. ptr' <= 0 /\ got' = None
      BY <2>2, <3>1, Zenon DEF Followed
    <3>3. ptr' = 0 /\ ptr' <= 1 /\ ptr' < 8 /\ ptr' < h + 1
      BY <2>3, <3>1, <3>2
    <3>4. h + 1 # n + 15 /\ h + 1 # 0
      BY <1>1, <3>1
    <3>5. \A j \in 1..ptr' : FALSE
      BY <3>3
    <3>6. h + 1 # n + 16 => Lost(f, h + 1)'
      BY <3>2, <3>3, <3>4, <3>5, Zenon DEF Lost
    <3> QED BY <3>3, <3>6, Zenon DEF Underway
  <2>7. h + 1 \in Nat
    OBVIOUS
  <2> QED BY <2>4, <2>5, <2>6, <2>7
<1>4. CASE Lost(f, h)
  <2>1. Lost(f, h + 1)'
    BY <1>4, LostStep, Zenon
  <2>2. h + 1 = n + 16 => ptr' <= 1
    <3>1. h + 1 = n + 16 => ptr' = 1
      BY <2>1, Zenon DEF Lost
    <3> QED BY <3>1
  <2> QED BY <2>1, <2>2, Zenon DEF Underway
<1>5. h # n + 16
  BY <1>1
<1> QED BY <1>3, <1>4, <1>5, Zenon DEF Underway

LEMMA KeptStep ==
    ASSUME TypeOK, Kept, NEW f \in Frames, NEW h \in Nat, h < Len(f) + 16,
           Underway(f, h), HearsSymbol(f, h, Symbols(f)[h + 1])
    PROVE  Kept'
<1> DEFINE d == Symbols(f)[h + 1]
<1>1. Last_Freq # Tone(d) /\ Analysis(Tone(d))
  BY Zenon DEF HearsSymbol
<1>2. CASE Return(Tone(d))
  <2>1. h + 1 = Len(f) + 16 /\ h + 1 <= 255 /\ Following(f, h)
    BY <1>2, ReturnAtEnd, Zenon
  <2>2. got' = f
    <3>1. Followed(f, h)
      <4>1. h # Len(f) + 16 /\ ~(h >= 256)
        BY <2>1
      <4> QED BY <2>1, <4>1, Zenon DEF Followed
    <3>2. Followed(f, h + 1)'
      BY <1>1, <3>1, NextSymbol, Zenon
    <3> QED BY <2>1, <3>2, Zenon DEF Followed
  <2>3. UNCHANGED <<ssid, pwd>> \/ Keep(f)
    BY <1>2, <2>2, Zenon DEF Return
  <2> QED BY <2>3, KeepPlayed, Zenon DEF Kept
<1>3. CASE ~Return(Tone(d))
  <2>1. UNCHANGED <<ssid, pwd>>
    BY <1>1, <1>3, Zenon DEF Analysis, HearNothing, HearHeader, HearData, HearTrailer, Invalid
  <2> QED BY <2>1, Zenon DEF Kept
<1> QED BY <1>2, <1>3

LEMMA UndisturbedInit == Init => UndisturbedInv
<1> SUFFICES ASSUME Init
             PROVE  /\ Kept /\ frame # None
                    /\ pos <= LastPos(frame) /\ LastHeard(frame, pos)
                    /\ Underway(frame, (pos + 1) \div 2)
  BY Zenon DEF UndisturbedInv
<1>1. PICK f \in Frames : f = frame
  BY DEF Init
<1>2. /\ pos \in 0..LastPos(f) /\ ptr = 0 /\ got = None /\ Last_Freq = 0
      /\ ssid = None /\ pwd = None
  BY <1>1 DEF Init
<1>3. Len(f) \in 4..255 /\ LastPos(f) = 2 * (Len(f) + 16) /\ f # None
  BY FramesAssumption, NoneAssumption, ToneAtFacts
<1> DEFINE h == (pos + 1) \div 2
<1>4. h \in 0..(Len(f) + 16) /\ pos <= LastPos(f)
  BY <1>2, <1>3
<1>5. LastHeard(f, pos)
  BY <1>2 DEF LastHeard, Tone
<1> HIDE DEF h
<1>6. Underway(f, h)
  <2>1. CASE h = 0
    <3>1. h <= 255 /\ ~(h >= 12) /\ h # Len(f) + 16 /\ ptr = h /\ \A k \in 1..h : FALSE
      BY <1>2, <1>3, <2>1
    <3>2. Following(f, h)
      BY <1>2, <3>1, Zenon DEF Following
    <3> QED BY <3>1, <3>2, Zenon DEF Underway
  <2>2. CASE h # 0
    <3>1. ptr < h /\ ptr < 8 /\ ptr <= 1 /\ \A j \in 1..ptr : FALSE
      BY <1>2, <1>4, <2>2
    <3>2. h # Len(f) + 16 => Lost(f, h)
      BY <1>2, <2>2, <3>1, Zenon DEF Lost
    <3> QED BY <3>1, <3>2, Zenon DEF Underway
  <2> QED BY <2>1, <2>2
<1> QED BY <1>1, <1>2, <1>3, <1>4, <1>5, <1>6, Zenon DEF h, Kept

LEMMA UndisturbedStep ==
    ASSUME \A f \in Frames : ~HeaderInside(f), TypeInv, UndisturbedInv, [Next]_vars
    PROVE  UndisturbedInv'
<1> USE DEF UndisturbedInv
<1>1. ASSUME NEW f \in Frames, Play(f) PROVE UndisturbedInv'
  <2> SUFFICES ASSUME missed' = 0, strays' = 0
               PROVE  /\ Kept' /\ frame' = f
                      /\ pos' <= LastPos(f) /\ LastHeard(f, pos)'
                      /\ Underway(f, (pos + 1) \div 2)'
    BY <1>1, FramesAssumption, NoneAssumption, Zenon DEF Play
  <2>1. /\ frame = None /\ frame' = f /\ pos' = 0 /\ got' = None
        /\ UNCHANGED <<ptr, Last_Freq, ssid, pwd, missed, strays>>
    BY <1>1 DEF Play, decoder
  <2>2. Kept /\ ptr <= 1 /\ Last_Freq \in {0, FREE_FREQ}
    BY <2>1, Zenon
  <2>3. ptr \in 0..255
    BY Zenon DEF TypeInv, TypeOK
  <2>4. Len(f) \in 4..255 /\ LastPos(f) = 2 * (Len(f) + 16)
    BY FramesAssumption, ToneAtFacts
  <2>5. pos' <= LastPos(f) /\ (pos' + 1) \div 2 = 0
    BY <2>1, <2>4
  <2>6. LastHeard(f, pos)'
    <3>1. Last_Freq' # Tone(0)
      BY <2>1, <2>2 DEF FREE_FREQ, Tone
    <3> QED BY <2>1, <3>1, Zenon DEF LastHeard
  <2>7. 0 # Len(f) + 16 /\ 0 # Len(f) + 15 /\ 0 <= 255 /\ ~(0 >= 1) /\ ~(0 >= 12) /\ 1..0 = {}
    BY <2>4
  <2>8. Following(f, 0)' \/ Lost(f, 0)'
    <3>1. CASE ptr = 0
      BY <2>1, <2>7, <3>1, Zenon DEF Following
    <3>2. CASE ptr # 0
      <4>1. ptr' \in 1..3
        BY <2>1, <2>2, <2>3, <3>2
      <4> QED BY <2>1, <2>7, <4>1, Zenon DEF Lost
    <3> QED BY <3>1, <3>2
  <2>9. Underway(f, 0)'
    BY <2>7, <2>8, Zenon DEF Underway
  <2>10. Underway(f, (pos + 1) \div 2)'
    BY <2>5, <2>9, Zenon DEF Underway, Following, Lost
  <2> QED BY <2>1, <2>2, <2>5, <2>6, <2>10, Zenon DEF Kept
<1>2. CASE Hear
  <2> SUFFICES ASSUME missed = 0, strays = 0, frame # None
               PROVE  /\ Kept' /\ pos' <= LastPos(frame) /\ LastHeard(frame, pos)'
                      /\ Underway(frame, (pos + 1) \div 2)'
    BY <1>2, Zenon DEF Hear
  <2>1. Kept /\ pos <= LastPos(frame) /\ LastHeard(frame, pos) /\ Underway(frame, (pos + 1) \div 2)
    OBVIOUS
  <2>2. frame \in Frames /\ frame' = frame /\ pos' <= LastPos(frame) /\ LastHeard(frame, pos)'
    BY <1>2, <2>1, HearFacts, Zenon
  <2>3. PICK h \in Nat :
           /\ (pos' + 1) \div 2 = h + 1
           /\ \/ (pos + 1) \div 2 = h /\ HearsSymbol(frame, h, Symbols(frame)[h + 1])
              \/ (pos + 1) \div 2 = h + 1 /\ UNCHANGED <<Freq_Dat_buffer, ptr, Dat_Len, ssid, pwd, got>>
    BY <1>2, <2>1, HearFacts, Zenon
  <2>4. PICK f \in Frames : f = frame
    BY <2>2
  <2>5. Kept' /\ Underway(f, h + 1)'
    <3>1. CASE (pos + 1) \div 2 = h /\ HearsSymbol(f, h, Symbols(f)[h + 1])
      <4>1. TypeOK /\ Underway(f, h) /\ ~HeaderInside(f) /\ h < Len(f) + 16
        BY <2>1, <2>4, <3>1, Zenon DEF TypeInv, HearsSymbol
      <4>2. Underway(f, h + 1)'
        BY <3>1, <4>1, UnderwayStep, Zenon
      <4>3. Kept'
        BY <2>1, <3>1, <4>1, KeptStep, Zenon
      <4> QED BY <4>2, <4>3
    <3>2. CASE (pos + 1) \div 2 = h + 1 /\ UNCHANGED <<Freq_Dat_buffer, ptr, Dat_Len, ssid, pwd, got>>
      <4>1. Underway(f, h + 1)
        BY <2>1, <2>4, <3>2, Zenon
      <4> QED BY <2>1, <3>2, <4>1, Zenon DEF Kept, Underway, Following, Lost
    <3> QED BY <2>3, <2>4, <3>1, <3>2, Zenon
  <2> QED BY <2>2, <2>3, <2>4, <2>5, Zenon DEF Underway, Following, Lost
<1>3. CASE HearAgain
  <2>1. UNCHANGED <<Freq_Dat_buffer, ptr, Dat_Len, got, ssid, pwd, Last_Freq, phone>>
    BY <1>3, SameAgain, Zenon DEF HearAgain
  <2> QED BY <2>1, Zenon DEF phone, Kept, LastHeard, Underway, Following, Lost
<1>4. CASE Miss
  <2>1. missed' # 0
    <3>1. missed \in Nat /\ missed' = missed + 1
      BY <1>4 DEF Miss, TypeInv, TypeOK
    <3> QED BY <3>1
  <2> QED BY <2>1, Zenon
<1>5. CASE Stray
  <2>1. strays' # 0
    <3>1. strays \in Nat /\ strays' = strays + 1
      BY <1>5 DEF Stray, TypeInv, TypeOK
    <3> QED BY <3>1
  <2> QED BY <2>1, Zenon
<1>6. CASE Finish
  <2> SUFFICES ASSUME missed = 0, strays = 0
               PROVE  Kept' /\ frame' = None /\ ptr' <= 1 /\ Last_Freq' \in {0, FREE_FREQ}
    BY <1>6, Zenon DEF Finish
  <2>1. /\ frame # None /\ pos = LastPos(frame) /\ frame' = None
        /\ UNCHANGED <<ptr, Last_Freq, ssid, pwd>>
    BY <1>6, Zenon DEF Finish, decoder
  <2>2. PICK f \in Frames : f = frame
    BY <2>1, Zenon DEF TypeInv, TypeOK
  <2>3. /\ LastPos(f) = 2 * (Len(f) + 16) /\ ToneAt(f, 2 * (Len(f) + 16)) = FREE_FREQ
        /\ Len(f) \in 4..255
    <3>1. Len(f) + 16 \in Nat
      BY FramesAssumption
    <3> QED BY <3>1, FramesAssumption, ToneAtFacts, Zenon
  <2>4. LastPos(f) # 0 /\ (LastPos(f) + 1) \div 2 = Len(f) + 16
    BY <2>3
  <2>5. Kept /\ LastHeard(f, LastPos(f)) /\ Underway(f, Len(f) + 16)
    BY <2>1, <2>2, <2>4, Zenon
  <2>6. Last_Freq \in {0, FREE_FREQ}
    BY <2>3, <2>4, <2>5, Zenon DEF LastHeard
  <2>7. ptr <= 1
    BY <2>5, Zenon DEF Underway
  <2> QED BY <2>1, <2>5, <2>6, <2>7, Zenon DEF Kept
<1>7. CASE UNCHANGED vars
  BY <1>7, Zenon DEF vars, decoder, phone, Kept, LastHeard, Underway, Following, Lost
<1> QED
  BY <1>1, <1>2, <1>3, <1>4, <1>5, <1>6, <1>7 DEF Next

\* Whatever the texts are, as long as none holds the header inside: what is kept as the
\* name or the password was played as such, when frames are all that is heard and no tone
\* is missed, except those played before the camera began to listen
\* (audio_transfer_fft.c:183-237, wpa2APP.c:138-160).
THEOREM UndisturbedAnswersCorrect ==
    ASSUME \A f \in Frames : ~HeaderInside(f)
    PROVE  Spec => [](missed = 0 => AnswersWerePlayed)
<1>1. TypeInv /\ UndisturbedInv /\ [Next]_vars => (TypeInv /\ UndisturbedInv)'
  BY TypeStep, UndisturbedStep
<1>2. UndisturbedInv => (missed = 0 => AnswersWerePlayed)
  BY Zenon DEF UndisturbedInv, AnswersWerePlayed, Kept
<1> QED
  BY <1>1, <1>2, TypeInit, UndisturbedInit, PTL DEF Spec
=============================================================================
