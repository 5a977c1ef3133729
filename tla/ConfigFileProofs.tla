---------------------------- MODULE ConfigFileProofs ----------------------------
(***************************************************************************)
(* Theorems about ConfigFile, for any texts no one of which begins         *)
(* another, any number of threads and any size of the pieces.              *)
(***************************************************************************)
EXTENDS ConfigFile, TLAPS

\* The sequences the actions build are functions on 1..k.
LEMMA BytesOf ==
    ASSUME NEW S, NEW k \in Nat, NEW f \in [1..k -> S]
    PROVE  f \in Seq(S) /\ Len(f) = k
  OBVIOUS

LEMMA TextFacts ==
    ASSUME NEW c \in Confs
    PROVE  Text[c] \in Seq(Byte) /\ Len(Text[c]) \in Nat /\ Len(Text[c]) < BufferSize
  BY TextAssumption, SizeAssumption

LEMMA CutFacts ==
    ASSUME NEW b \in Seq(Byte), NEW k \in Int
    PROVE  /\ Cut(b, k) \in Seq(Byte)
           /\ Len(Cut(b, k)) = IF k < 0 THEN 0 ELSE k
           /\ \A i \in 1..k : i <= Len(b) => Cut(b, k)[i] = b[i]
<1>1. Cut(b, k) \in [1..k -> Byte]
  BY ZeroAssumption DEF Cut
<1>2. CASE k < 0
  <2>1. 1..k = 1..0
    BY <1>2
  <2> QED
    BY <1>1, <1>2, <2>1, BytesOf DEF Cut
<1>3. CASE k >= 0
  BY <1>1, <1>3, BytesOf DEF Cut
<1> QED
  BY <1>2, <1>3

LEMMA PieceFacts ==
    ASSUME file \in Seq(Byte), NEW n \in Nat
    PROVE  /\ Piece(n) \in Seq(Byte)
           /\ Len(Piece(n)) \in 0..Chunk
           /\ n + Len(Piece(n)) <= Len(file) \/ Len(Piece(n)) = 0
           /\ Len(Piece(n)) < Chunk => n + Len(Piece(n)) >= Len(file)
           /\ \A i \in 1..Len(Piece(n)) : Piece(n)[i] = file[n + i]
<1> DEFINE left == Len(file) - n
<1> DEFINE k == IF left < 0 THEN 0 ELSE IF left < Chunk THEN left ELSE Chunk
<1>1. k \in Nat /\ k <= Chunk /\ (n + k <= Len(file) \/ k = 0) /\ (k < Chunk => n + k >= Len(file))
  BY SizeAssumption
<1>2. Piece(n) = [i \in 1..k |-> file[n + i]]
  BY DEF Piece
<1>3. \A i \in 1..k : n + i \in 1..Len(file)
  BY <1>1
<1>4. [i \in 1..k |-> file[n + i]] \in [1..k -> Byte]
  BY <1>3
<1> HIDE DEF k
<1>5. Piece(n) \in Seq(Byte) /\ Len(Piece(n)) = k
  BY <1>1, <1>2, <1>4, BytesOf
<1> QED
  BY <1>1, <1>2, <1>5

LEMMA OverFacts ==
    ASSUME NEW f \in Seq(Byte), NEW w \in Seq(Byte), NEW k \in 0..Len(w)
    PROVE  /\ Over(f, w, k) \in Seq(Byte)
           /\ Len(Over(f, w, k)) = IF k < Len(f) THEN Len(f) ELSE k
           /\ \A i \in 1..k : Over(f, w, k)[i] = w[i]
<1> DEFINE n == IF k < Len(f) THEN Len(f) ELSE k
<1>1. n \in Nat /\ k <= n
  OBVIOUS
<1>2. \A i \in 1..n : (IF i <= k THEN w[i] ELSE f[i]) \in Byte
  OBVIOUS
<1>3. Over(f, w, k) = [i \in 1..n |-> IF i <= k THEN w[i] ELSE f[i]]
  BY DEF Over
<1> HIDE DEF n
<1>4. Over(f, w, k) \in [1..n -> Byte]
  BY <1>2, <1>3
<1>5. Over(f, w, k) \in Seq(Byte) /\ Len(Over(f, w, k)) = n
  BY <1>1, <1>4, BytesOf
<1>6. \A i \in 1..k : Over(f, w, k)[i] = w[i]
  BY <1>1, <1>3
<1> QED
  BY <1>5, <1>6 DEF n

LEMMA ReplacedFacts ==
    ASSUME NEW c \in Confs, NEW p \in Patches
    PROVE  Replaced(c, p) \in Confs
  BY DEF Replaced, Confs, Patches

LEMMA ParseFacts ==
    ASSUME NEW b
    PROVE  /\ Parse(b) \in Confs \cup {NotJson}
           /\ \A c \in Confs : Begins(b, c) => Parse(b) \in Confs /\ Begins(b, Parse(b))
           /\ Parse(b) # NotJson => Parse(b) \in Confs /\ Begins(b, Parse(b))
  BY NamesAssumption DEF Parse

\* b says what the text of c says, as far as it goes.
Agrees(b, c) == \A i \in 1..Len(Text[c]) : i <= Len(b) => b[i] = Text[c][i]

\* Two texts that begin the same bytes are the same.
LEMMA OneText ==
    ASSUME NEW b \in Seq(Byte), NEW c \in Confs, Agrees(b, c), Parse(b) # NotJson
    PROVE  Parse(b) = c /\ Begins(b, c)
<1> DEFINE d == Parse(b)
<1>1. d \in Confs /\ Begins(b, d)
  BY ParseFacts
<1> HIDE DEF d
<1>2. Text[c] \in Seq(Byte) /\ Text[d] \in Seq(Byte)
  BY <1>1, TextFacts
<1>3. CASE Len(Text[c]) <= Len(Text[d])
  <2>1. Begins(Text[d], c)
    BY <1>1, <1>2, <1>3 DEF Begins, Agrees
  <2>2. d = c
    BY <2>1, <1>1, TextAssumption
  <2> QED
    BY <2>2, <1>1 DEF d
<1>4. CASE Len(Text[d]) <= Len(Text[c])
  <2>1. Begins(Text[c], d)
    BY <1>1, <1>2, <1>4 DEF Begins, Agrees
  <2>2. d = c
    BY <2>1, <1>1, TextAssumption
  <2> QED
    BY <2>2, <1>1 DEF d
<1> QED
  BY <1>2, <1>3, <1>4

LEMMA BeginsAgrees ==
    ASSUME NEW b \in Seq(Byte), NEW c \in Confs, Begins(b, c)
    PROVE  Agrees(b, c) /\ Parse(b) = c
<1>1. Agrees(b, c)
  BY DEF Agrees, Begins
<1>2. Parse(b) # NotJson
  BY ParseFacts, NamesAssumption
<1> QED
  BY <1>1, <1>2, OneText

-----------------------------------------------------------------------------
(* Types *)

\* What a client is going to write is built from a configuration.
BaseKnown == \A u \in Clients : at[u] = "write" => got[u] \in Confs

Types == ConfTypeOK /\ BaseKnown

LEMMA TypesInit == ConfInit => Types
<1> SUFFICES ASSUME ConfInit PROVE Types
  OBVIOUS
<1>1. file \in Seq(Byte) /\ wanted \in Confs
  BY TextFacts DEF ConfInit
<1>2. /\ at \in [Users -> {"idle"}]
      /\ buf = [u \in Users |-> <<>>]
      /\ wrote \in [Clients -> Nat]
      /\ got \in [Users -> {NotJson}]
      /\ clean \in [Users -> BOOLEAN]
      /\ power = "up" /\ spoilt = FALSE
  BY DEF ConfInit
<1>3. <<>> \in Seq(Byte)
  OBVIOUS
<1>4. buf \in [Users -> Seq(Byte)]
  BY <1>2, <1>3
<1> QED
  BY <1>1, <1>2, <1>4 DEF Types, ConfTypeOK, BaseKnown, Users

LEMMA TypesForgotten ==
    ASSUME Types, Forget, power' \in {"up", "off"}
    PROVE  Types'
  BY DEF Types, ConfTypeOK, BaseKnown, Forget, Users

LEMMA WriteFacts ==
    ASSUME Types, NEW u \in Clients, WriteText(u)
    PROVE  \E p \in Patches : \E k \in 0..Len(Text[Replaced(got[u], p)]) :
             /\ Replaced(got[u], p) \in Confs /\ Replaced(wanted, p) \in Confs
             /\ k <= Len(Text[Replaced(got[u], p)])
             /\ k < BufferSize
             /\ k \in Nat
             /\ file' = Over(file, Text[Replaced(got[u], p)], k)
             /\ file' \in Seq(Byte)
             /\ Len(file') = (IF k < Len(file) THEN Len(file) ELSE k)
             /\ \A i \in 1..k : file'[i] = Text[Replaced(got[u], p)][i]
             /\ wrote' = [wrote EXCEPT ![u] = k]
             /\ wanted' = Replaced(wanted, p)
             /\ spoilt' = (spoilt \/ k < Len(Text[Replaced(got[u], p)]) \/ Updating # {u})
<1>1. PICK p \in Patches : \E k \in 0..Len(Text[Replaced(got[u], p)]) :
             /\ file' = Over(file, Text[Replaced(got[u], p)], k)
             /\ wrote' = [wrote EXCEPT ![u] = k]
             /\ wanted' = Replaced(wanted, p)
             /\ spoilt' = (spoilt \/ k < Len(Text[Replaced(got[u], p)]) \/ Updating # {u})
  BY DEF WriteText
<1> DEFINE new == Replaced(got[u], p)
<1>2. PICK k \in 0..Len(Text[new]) :
             /\ file' = Over(file, Text[new], k)
             /\ wrote' = [wrote EXCEPT ![u] = k]
             /\ wanted' = Replaced(wanted, p)
             /\ spoilt' = (spoilt \/ k < Len(Text[new]) \/ Updating # {u})
  BY <1>1
<1>3. new \in Confs /\ Replaced(wanted, p) \in Confs
  BY ReplacedFacts DEF WriteText, Go, Types, BaseKnown, ConfTypeOK
<1> HIDE DEF new
<1>4. Text[new] \in Seq(Byte) /\ Len(Text[new]) \in Nat /\ Len(Text[new]) < BufferSize
  BY <1>3, TextFacts
<1>5. k \in Nat /\ k <= Len(Text[new]) /\ k < BufferSize
  BY <1>4, SizeAssumption
<1>6. /\ file' \in Seq(Byte)
      /\ Len(file') = (IF k < Len(file) THEN Len(file) ELSE k)
      /\ \A i \in 1..k : file'[i] = Text[new][i]
  BY <1>2, <1>4, OverFacts DEF Types, ConfTypeOK
<1> QED
  BY <1>2, <1>3, <1>5, <1>6 DEF new

LEMMA TypesStep ==
    ASSUME Types, [ConfNext]_confVars
    PROVE  Types'
<1> USE DEF Types, ConfTypeOK, BaseKnown, Go, Users
<1>1. ASSUME NEW u \in Users, Open(u)
      PROVE  Types'
  BY <1>1, NamesAssumption DEF Open
<1>2. ASSUME Forget, power' \in {"up", "off"}
      PROVE  Types'
  BY <1>2, TypesForgotten
<1>3. ASSUME NEW u \in Users, ReadPiece(u)
      PROVE  Types'
  <2>0. file \in Seq(Byte) /\ buf[u] \in Seq(Byte) /\ Len(buf[u]) \in Nat
    OBVIOUS
  <2> DEFINE piece == Piece(Len(buf[u]))
  <2>4. piece \in Seq(Byte)
    BY <2>0, PieceFacts
  <2> HIDE DEF piece
  <2>5. buf[u] \o piece \in Seq(Byte)
    BY <2>0, <2>4
  <2>1. buf[u] \o Piece(Len(buf[u])) \in Seq(Byte)
    BY <2>5 DEF piece
  <2>2. CASE at' = [at EXCEPT ![u] = "read"]
    BY <1>3, <2>1, <2>2, NamesAssumption DEF ReadPiece
  <2>3. CASE at' = [at EXCEPT ![u] = "parse"]
    BY <1>3, <2>1, <2>3, NamesAssumption DEF ReadPiece
  <2> QED
    BY <1>3, <2>2, <2>3 DEF ReadPiece
<1>4. ASSUME NEW u \in Users, ReadFails(u)
      PROVE  Types'
  <2>0. buf[u] \in Seq(Byte) /\ Len(buf[u]) - 1 \in Int
    OBVIOUS
  <2>1. Cut(buf[u], Len(buf[u]) - 1) \in Seq(Byte)
    BY <2>0, CutFacts
  <2> QED
    BY <1>4, <2>1 DEF ReadFails
<1>5. ASSUME NEW u \in Users, UseText(u)
      PROVE  Types'
  <2>1. Parse(buf[u]) \in Confs
    BY <1>5, ParseFacts DEF UseText
  <2>2. CASE u \in Clients
    BY <1>5, <2>1, <2>2, NamesAssumption DEF UseText
  <2>3. CASE u \notin Clients
    BY <1>5, <2>1, <2>3 DEF UseText
  <2> QED
    BY <2>2, <2>3
<1>6. ASSUME NEW u \in Users, TextCrashes(u)
      PROVE  Types'
  BY <1>6 DEF TextCrashes
<1>7. ASSUME NEW u \in Clients, WriteText(u)
      PROVE  Types'
  <2>1. file' \in Seq(Byte) /\ wanted' \in Confs /\ spoilt' \in BOOLEAN
    BY <1>7, WriteFacts
  <2>2. \E k \in Nat : wrote' = [wrote EXCEPT ![u] = k]
    BY <1>7, WriteFacts
  <2>4. wrote' \in [Clients -> Nat]
    BY <2>2
  <2>3. /\ clean' \in [Users -> BOOLEAN]
        /\ got' = [got EXCEPT ![u] = NotJson] /\ at' = [at EXCEPT ![u] = "truncate"]
        /\ UNCHANGED <<power, buf>>
    BY <1>7 DEF WriteText
  <2> QED
    BY <2>1, <2>4, <2>3, NamesAssumption
<1>8. ASSUME NEW u \in Clients, WriteFails(u)
      PROVE  Types'
  BY <1>8, NamesAssumption DEF WriteFails
<1>9. ASSUME NEW u \in Clients, Truncate(u)
      PROVE  Types'
  <2>1. Cut(file, wrote[u]) \in Seq(Byte)
    BY CutFacts
  <2> QED
    BY <1>9, <2>1, NamesAssumption DEF Truncate
<1>10. CASE UNCHANGED confVars
  BY <1>10 DEF confVars
<1> QED
  BY <1>1, <1>2, <1>3, <1>4, <1>5, <1>6, <1>7, <1>8, <1>9, <1>10
  DEF ConfNext, Start, Proceed, Rewrite, OpenFails, PowerCut, Boot

\* Every variable keeps its type.
THEOREM TypeCorrect == ConfSpec => []ConfTypeOK
<1>1. Types => ConfTypeOK
  BY DEF Types
<1> QED
  BY <1>1, TypesInit, TypesStep, PTL DEF ConfSpec

-----------------------------------------------------------------------------
(* What the file and the reads hold *)

\* Whoever reads undisturbed, or reads in order to write, has what is wanted.
ReadsAgree == \A u \in Users :
    at[u] \in {"read", "parse"} /\ (clean[u] \/ u \in Clients) => Agrees(buf[u], wanted)

ReadsComplete == \A u \in Users : at[u] = "parse" /\ clean[u] => Begins(buf[u], wanted)

WritersCurrent == \A u \in Clients :
    /\ at[u] = "write" => got[u] = wanted
    /\ at[u] = "truncate" => wrote[u] = Len(Text[wanted])

Held == ~spoilt => Begins(file, wanted) /\ ReadsAgree /\ ReadsComplete /\ WritersCurrent

\* A thread that comes in has not been disturbed yet.
IdleClean == \A u \in Users : at[u] \notin {"read", "parse"} /\ power # "crashed" => clean[u]

\* Only a thread inside has read anything.
NothingRead == \A u \in Users : at[u] \notin {"read", "parse"} /\ power # "crashed" => buf[u] = <<>>

Sizes ==
    /\ Len(file) < BufferSize
    /\ \A u \in Users : Len(buf[u]) < BufferSize
    /\ \A u \in Clients : wrote[u] < BufferSize

Inv == Types /\ Held /\ NothingRead /\ IdleClean /\ Sizes

LEMMA InvInit == ConfInit => Inv
<1> SUFFICES ASSUME ConfInit PROVE Inv
  OBVIOUS
<1>1. Types
  BY TypesInit
<1>2. Text[wanted] \in Seq(Byte) /\ Len(Text[wanted]) \in Nat /\ Len(Text[wanted]) < BufferSize
  BY TextFacts DEF ConfInit
<1>3. Begins(file, wanted)
  BY <1>2 DEF Begins, ConfInit
<1>4. Held
  BY <1>3 DEF Held, ReadsAgree, ReadsComplete, WritersCurrent, ConfInit, Users
<1>5. NothingRead /\ IdleClean /\ Sizes
  BY <1>2, SizeAssumption DEF NothingRead, IdleClean, Sizes, ConfInit
<1> QED
  BY <1>1, <1>4, <1>5 DEF Inv

LEMMA InvForgotten ==
    ASSUME Inv, Forget, power' \in {"up", "off"}
    PROVE  Inv'
<1>1. Types'
  BY TypesForgotten DEF Inv
<1>2. Held'
  BY DEF Inv, Held, Forget, ReadsAgree, ReadsComplete, WritersCurrent, Begins, Users
<1>3. NothingRead' /\ IdleClean' /\ Sizes'
  BY SizeAssumption DEF Inv, NothingRead, IdleClean, Sizes, Forget
<1> QED
  BY <1>1, <1>2, <1>3 DEF Inv

\* What a turn of the reading loop makes of the buffer.
LEMMA ReadFacts ==
    ASSUME Inv, NEW u \in Users, ReadPiece(u)
    PROVE  /\ Len(buf'[u]) < BufferSize
           /\ ~spoilt /\ (clean[u] \/ u \in Clients) => Agrees(buf'[u], wanted)
           /\ ~spoilt /\ clean[u] /\ at'[u] = "parse" => Begins(buf'[u], wanted)
<1> DEFINE b == buf[u]
<1> DEFINE piece == Piece(Len(b))
<1>1. /\ file \in Seq(Byte) /\ b \in Seq(Byte) /\ Len(b) \in Nat /\ wanted \in Confs
      /\ Len(b) < BufferSize /\ Len(file) < BufferSize
  BY DEF Inv, Types, ConfTypeOK, Sizes
<1>2. /\ piece \in Seq(Byte)
      /\ Len(piece) \in 0..Chunk
      /\ Len(b) + Len(piece) <= Len(file) \/ Len(piece) = 0
      /\ Len(piece) < Chunk => Len(b) + Len(piece) >= Len(file)
      /\ \A i \in 1..Len(piece) : piece[i] = file[Len(b) + i]
  BY <1>1, PieceFacts
<1>3. /\ buf'[u] = b \o piece
      /\ at[u] = "read"
      /\ at'[u] = "parse" => Len(piece) # Chunk
  BY DEF ReadPiece, Go, Inv, Types, ConfTypeOK
<1>4. Chunk \in Nat /\ BufferSize \in Nat
  BY SizeAssumption
<1> HIDE DEF b, piece
<1>5. /\ Len(b \o piece) = Len(b) + Len(piece)
      /\ \A i \in 1..Len(b) : (b \o piece)[i] = b[i]
      /\ \A i \in Len(b)+1..Len(b)+Len(piece) : (b \o piece)[i] = piece[i - Len(b)]
  BY <1>1, <1>2
<1>6. Len(b \o piece) < BufferSize
  BY <1>1, <1>2, <1>4, <1>5
<1>7. \A i \in Len(b)+1..Len(b)+Len(piece) : (b \o piece)[i] = file[i] /\ i <= Len(file)
  BY <1>1, <1>2, <1>5
<1>8. ASSUME ~spoilt, clean[u] \/ u \in Clients
      PROVE  Agrees(b \o piece, wanted)
  <2>1. Agrees(b, wanted) /\ Begins(file, wanted)
    BY <1>3, <1>8 DEF Inv, Held, ReadsAgree, b
  <2>2. Text[wanted] \in Seq(Byte) /\ Len(Text[wanted]) \in Nat
    BY <1>1, TextFacts
  <2>3. ASSUME NEW i \in 1..Len(Text[wanted]), i <= Len(b \o piece)
        PROVE  (b \o piece)[i] = Text[wanted][i]
    <3>1. CASE i <= Len(b)
      BY <1>1, <1>5, <2>1, <2>3, <3>1 DEF Agrees
    <3>2. CASE i > Len(b)
      BY <1>1, <1>2, <1>5, <1>7, <2>1, <2>2, <2>3, <3>2 DEF Begins
    <3>3. i <= Len(b) \/ i > Len(b)
      BY <1>1, <2>2
    <3> QED
      BY <3>1, <3>2, <3>3
  <2> QED
    BY <2>3 DEF Agrees
<1>9. ASSUME ~spoilt, clean[u], at'[u] = "parse"
      PROVE  Begins(b \o piece, wanted)
  <2>1. Agrees(b \o piece, wanted)
    BY <1>8, <1>9
  <2>2. Begins(file, wanted)
    BY <1>9 DEF Inv, Held
  <2>3. Len(b) + Len(piece) >= Len(file)
    BY <1>2, <1>3, <1>4, <1>9
  <2>4. Len(Text[wanted]) <= Len(b \o piece) /\ Len(Text[wanted]) \in Nat
    BY <1>1, <1>2, <1>5, <2>2, <2>3, TextFacts DEF Begins
  <2> QED
    BY <2>1, <2>4 DEF Begins, Agrees
<1> QED
  BY <1>3, <1>6, <1>8, <1>9

LEMMA CutAgrees ==
    ASSUME NEW b \in Seq(Byte), NEW c \in Confs, Agrees(b, c)
    PROVE  Agrees(Cut(b, Len(b) - 1), c) /\ Len(Cut(b, Len(b) - 1)) <= Len(b)
<1>1. Len(b) \in Nat /\ Len(b) - 1 \in Int
  OBVIOUS
<1> DEFINE d == Cut(b, Len(b) - 1)
<1>2. /\ Len(d) = IF Len(b) - 1 < 0 THEN 0 ELSE Len(b) - 1
      /\ \A i \in 1..Len(b) - 1 : i <= Len(b) => d[i] = b[i]
  BY <1>1, CutFacts
<1> HIDE DEF d
<1>3. \A i \in 1..Len(Text[c]) : i <= Len(d) => d[i] = Text[c][i]
  BY <1>1, <1>2, TextFacts DEF Agrees
<1> QED
  BY <1>1, <1>2, <1>3 DEF Agrees, d

LEMMA InvStep ==
    ASSUME Inv, [ConfNext]_confVars
    PROVE  Inv'
<1> USE NamesAssumption DEF Go, Users
<1>0. Types'
  BY TypesStep DEF Inv
<1>t. /\ file \in Seq(Byte) /\ buf \in [Users -> Seq(Byte)]
      /\ at \in [Users -> {"idle", "read", "parse", "write", "truncate"}]
      /\ clean \in [Users -> BOOLEAN] /\ spoilt \in BOOLEAN
      /\ got \in [Users -> Confs \cup {NotJson}] /\ wanted \in Confs
      /\ wrote \in [Clients -> Nat]
  BY DEF Inv, Types, ConfTypeOK
<1>1. ASSUME NEW u \in Users, Open(u)
      PROVE  Inv'
  <2>1. at[u] = "idle" /\ power = "up" /\ buf[u] = <<>>
    BY <1>1 DEF Open, Inv, NothingRead
  <2>2. Agrees(buf[u], wanted)
    BY <2>1, TextFacts, <1>t DEF Agrees
  <2>3. Held'
    BY <1>1, <1>t, <2>1, <2>2 DEF Open, Inv, Held, ReadsAgree, ReadsComplete, WritersCurrent
  <2>4. NothingRead' /\ IdleClean' /\ Sizes'
    BY <1>1, <1>t, <2>1 DEF Open, Inv, NothingRead, IdleClean, Sizes
  <2> QED
    BY <1>0, <2>3, <2>4 DEF Inv
<1>2. ASSUME Forget, power' \in {"up", "off"}
      PROVE  Inv'
  BY <1>2, InvForgotten
<1>3. ASSUME NEW u \in Users, ReadPiece(u)
      PROVE  Inv'
  <2>1. /\ at[u] = "read" /\ at'[u] \in {"read", "parse"}
        /\ \A r \in Users : r # u => at'[r] = at[r] /\ buf'[r] = buf[r]
        /\ UNCHANGED <<file, power, wrote, got, wanted, clean, spoilt>>
    BY <1>3, <1>t DEF ReadPiece
  <2>2. Held'
    BY <1>3, <1>t, <2>1, ReadFacts DEF Inv, Held, ReadsAgree, ReadsComplete, WritersCurrent
  <2>3. NothingRead' /\ IdleClean' /\ Sizes'
    BY <1>3, <1>t, <2>1, ReadFacts DEF Inv, NothingRead, IdleClean, Sizes
  <2> QED
    BY <1>0, <2>2, <2>3 DEF Inv
<1>4. ASSUME NEW u \in Users, ReadFails(u)
      PROVE  Inv'
  <2> DEFINE d == Cut(buf[u], Len(buf[u]) - 1)
  <2>1. /\ at[u] = "read" /\ at'[u] = "parse" /\ ~clean'[u] /\ buf'[u] = d
        /\ \A r \in Users : r # u => at'[r] = at[r] /\ buf'[r] = buf[r] /\ clean'[r] = clean[r]
        /\ UNCHANGED <<file, power, wrote, got, wanted, spoilt>>
    BY <1>4, <1>t DEF ReadFails
  <2>2. ~spoilt /\ u \in Clients => Agrees(buf[u], wanted)
    BY <2>1 DEF Inv, Held, ReadsAgree
  <2>3. Len(d) < BufferSize
    <3>1. buf[u] \in Seq(Byte) /\ Len(buf[u]) \in Nat /\ Len(buf[u]) < BufferSize /\ Len(buf[u]) - 1 \in Int
      BY <1>t DEF Inv, Sizes
    <3>2. Len(d) = IF Len(buf[u]) - 1 < 0 THEN 0 ELSE Len(buf[u]) - 1
      BY <3>1, CutFacts
    <3> QED
      BY <3>1, <3>2, SizeAssumption
  <2>4. ~spoilt /\ u \in Clients => Agrees(d, wanted)
    BY <1>t, <2>2, CutAgrees
  <2> HIDE DEF d
  <2>5. Held'
    BY <1>t, <2>1, <2>4 DEF Inv, Held, ReadsAgree, ReadsComplete, WritersCurrent
  <2>6. NothingRead' /\ IdleClean' /\ Sizes'
    BY <1>t, <2>1, <2>3 DEF Inv, NothingRead, IdleClean, Sizes
  <2> QED
    BY <1>0, <2>5, <2>6 DEF Inv
<1>5. ASSUME NEW u \in Users, UseText(u)
      PROVE  Inv'
  <2>1. /\ at[u] = "parse" /\ at'[u] \in {"write", "idle"} /\ buf'[u] = <<>>
        /\ got'[u] = Parse(buf[u]) /\ Parse(buf[u]) # NotJson
        /\ \A r \in Users : r # u => /\ at'[r] = at[r] /\ buf'[r] = buf[r]
                                     /\ clean'[r] = clean[r] /\ got'[r] = got[r]
        /\ UNCHANGED <<file, power, wrote, wanted, spoilt>>
    BY <1>5, <1>t DEF UseText
  <2>7. clean'[u]
    BY <1>5, <1>t DEF UseText
  <2>2. ~spoilt /\ u \in Clients => got'[u] = wanted
    <3>1. ~spoilt /\ u \in Clients => Agrees(buf[u], wanted)
      BY <2>1 DEF Inv, Held, ReadsAgree
    <3> QED
      BY <1>t, <2>1, <3>1, OneText
  <2>3. Held'
    BY <1>t, <2>1, <2>2 DEF Inv, Held, ReadsAgree, ReadsComplete, WritersCurrent
  <2>4. NothingRead' /\ IdleClean'
    BY <1>t, <2>1, <2>7 DEF Inv, NothingRead, IdleClean
  <2>5. Len(buf'[u]) < BufferSize
    <3>1. Len(buf[u]) \in Nat /\ Len(buf[u]) < BufferSize
      BY <1>t DEF Inv, Sizes
    <3> QED
      BY <2>1, <3>1, SizeAssumption
  <2>6. Sizes'
    BY <1>t, <2>1, <2>5 DEF Inv, Sizes
  <2> QED
    BY <1>0, <2>3, <2>4, <2>6 DEF Inv
<1>6. ASSUME NEW u \in Users, TextCrashes(u)
      PROVE  Inv'
  <2>1. /\ at'[u] = "idle" /\ power' = "crashed"
        /\ \A r \in Users : r # u => at'[r] = at[r] /\ got'[r] = got[r]
        /\ UNCHANGED <<file, buf, wrote, wanted, clean, spoilt>>
    BY <1>6, <1>t DEF TextCrashes
  <2>2. Held'
    BY <1>t, <2>1 DEF Inv, Held, ReadsAgree, ReadsComplete, WritersCurrent
  <2>3. NothingRead' /\ IdleClean' /\ Sizes'
    BY <1>t, <2>1 DEF Inv, NothingRead, IdleClean, Sizes
  <2> QED
    BY <1>0, <2>2, <2>3 DEF Inv
<1>7. ASSUME NEW u \in Clients, WriteText(u)
      PROVE  Inv'
  <2>1. /\ at[u] = "write" /\ at'[u] = "truncate"
        /\ \A r \in Users : r # u => at'[r] = at[r]
        /\ \A r \in Users : clean'[r] <=> r \notin Reading
        /\ UNCHANGED <<power, buf>>
    BY <1>7, <1>t DEF WriteText
  <2>2. PICK p \in Patches : \E k \in 0..Len(Text[Replaced(got[u], p)]) :
             /\ Replaced(got[u], p) \in Confs /\ Replaced(wanted, p) \in Confs
             /\ k <= Len(Text[Replaced(got[u], p)])
             /\ k < BufferSize
             /\ k \in Nat
             /\ file' \in Seq(Byte)
             /\ Len(file') = (IF k < Len(file) THEN Len(file) ELSE k)
             /\ \A i \in 1..k : file'[i] = Text[Replaced(got[u], p)][i]
             /\ wrote' = [wrote EXCEPT ![u] = k]
             /\ wanted' = Replaced(wanted, p)
             /\ spoilt' = (spoilt \/ k < Len(Text[Replaced(got[u], p)]) \/ Updating # {u})
    BY <1>7, WriteFacts DEF Inv
  <2> DEFINE new == Replaced(got[u], p)
  <2>3. PICK k \in 0..Len(Text[new]) :
             /\ new \in Confs
             /\ k <= Len(Text[new]) /\ k < BufferSize /\ k \in Nat
             /\ file' \in Seq(Byte)
             /\ Len(file') = (IF k < Len(file) THEN Len(file) ELSE k)
             /\ \A i \in 1..k : file'[i] = Text[new][i]
             /\ wrote' = [wrote EXCEPT ![u] = k]
             /\ wanted' = Replaced(wanted, p)
             /\ spoilt' = (spoilt \/ k < Len(Text[new]) \/ Updating # {u})
    BY <2>2
  <2>4. ASSUME ~spoilt'
        PROVE  new = wanted' /\ k = Len(Text[new]) /\ ~spoilt /\ Updating = {u}
    <3>1. ~spoilt /\ ~(k < Len(Text[new])) /\ Updating = {u}
      BY <2>3, <2>4
    <3>2. got[u] = wanted
      BY <2>1, <3>1 DEF Inv, Held, WritersCurrent
    <3>3. k = Len(Text[new])
      BY <2>3, <3>1, TextFacts
    <3> QED
      BY <2>3, <3>1, <3>2, <3>3
  <2> HIDE DEF new
  <2>5. ~spoilt' => Begins(file', wanted')
    BY <1>t, <2>3, <2>4, TextFacts DEF Begins
  <2>6. ~spoilt' => \A r \in Clients : r # u => at'[r] = "idle"
    BY <1>t, <2>1, <2>4 DEF Updating
  <2>7. ~spoilt' => ReadsAgree' /\ ReadsComplete'
    BY <1>t, <2>1, <2>6 DEF ReadsAgree, ReadsComplete, Reading
  <2>8. ~spoilt' => WritersCurrent'
    BY <1>t, <2>1, <2>3, <2>4, <2>6 DEF WritersCurrent
  <2>9. NothingRead' /\ IdleClean' /\ Sizes'
    BY <1>t, <2>1, <2>3 DEF Inv, NothingRead, IdleClean, Sizes, Reading
  <2> QED
    BY <1>0, <2>5, <2>7, <2>8, <2>9 DEF Inv, Held
<1>8. ASSUME NEW u \in Clients, WriteFails(u)
      PROVE  Inv'
  <2>1. /\ at[u] = "write" /\ at'[u] = "idle"
        /\ \A r \in Users : r # u => at'[r] = at[r] /\ got'[r] = got[r]
        /\ UNCHANGED <<file, power, buf, wrote, wanted, clean, spoilt>>
    BY <1>8, <1>t DEF WriteFails
  <2>2. Held'
    BY <1>t, <2>1 DEF Inv, Held, ReadsAgree, ReadsComplete, WritersCurrent
  <2>3. NothingRead' /\ IdleClean' /\ Sizes'
    BY <1>t, <2>1 DEF Inv, NothingRead, IdleClean, Sizes
  <2> QED
    BY <1>0, <2>2, <2>3 DEF Inv
<1>9. ASSUME NEW u \in Clients, Truncate(u)
      PROVE  Inv'
  <2> DEFINE f == Cut(file, wrote[u])
  <2>1. /\ at[u] = "truncate" /\ at'[u] = "idle"
        /\ file' = f /\ wrote' = [wrote EXCEPT ![u] = 0]
        /\ \A r \in Users : r # u => at'[r] = at[r]
        /\ UNCHANGED <<power, buf, got, wanted, clean, spoilt>>
    BY <1>9, <1>t DEF Truncate
  <2>2. wrote[u] \in Nat /\ wrote[u] < BufferSize
    BY <1>t DEF Inv, Sizes
  <2>3. /\ Len(f) = wrote[u]
        /\ \A i \in 1..wrote[u] : i <= Len(file) => f[i] = file[i]
    <3>1. file \in Seq(Byte) /\ wrote[u] \in Int /\ ~(wrote[u] < 0)
      BY <1>t, <2>2
    <3> QED
      BY <3>1, CutFacts
  <2> HIDE DEF f
  <2>4. ~spoilt => wrote[u] = Len(Text[wanted]) /\ Begins(file, wanted)
    BY <2>1 DEF Inv, Held, WritersCurrent
  <2>5. ~spoilt => Begins(f, wanted)
    BY <1>t, <2>2, <2>3, <2>4, TextFacts DEF Begins
  <2>6. Held'
    BY <1>t, <2>1, <2>5 DEF Inv, Held, ReadsAgree, ReadsComplete, WritersCurrent
  <2>7. NothingRead' /\ IdleClean' /\ Sizes'
    BY <1>t, <2>1, <2>2, <2>3, SizeAssumption DEF Inv, NothingRead, IdleClean, Sizes
  <2> QED
    BY <1>0, <2>6, <2>7 DEF Inv
<1>10. CASE UNCHANGED confVars
  <2>1. Held' /\ NothingRead' /\ IdleClean' /\ Sizes'
    BY <1>10 DEF confVars, Inv, Held, ReadsAgree, ReadsComplete, WritersCurrent, NothingRead, IdleClean, Sizes
  <2> QED
    BY <1>0, <2>1 DEF Inv
<1> QED
  BY <1>1, <1>2, <1>3, <1>4, <1>5, <1>6, <1>7, <1>8, <1>9, <1>10
  DEF ConfNext, Start, Proceed, Rewrite, OpenFails, PowerCut, Boot

\* At any time, also between write and truncate and after a power cut, the file
\* begins with every update, unless a write was short or updates overlapped.
THEOREM UpdatesHeld == ConfSpec => []FileHoldsUpdates
<1>1. Inv => FileHoldsUpdates
  BY DEF Inv, Held, FileHoldsUpdates
<1> QED
  BY <1>1, InvInit, InvStep, PTL DEF ConfSpec

\* What is read fits the buffers as long as each text does.
THEOREM ReadsFit == ConfSpec => []ReadsFitBuffer
<1>1. Inv => ReadsFitBuffer
  BY DEF Inv, Sizes, ReadsFitBuffer
<1> QED
  BY <1>1, InvInit, InvStep, PTL DEF ConfSpec

\* The program dies of a bad text only when its read was disturbed.
THEOREM CrashesOnlyDisturbed == ConfSpec => []OnlyDisturbedReadsCrash
<1>1. ConfInit => OnlyDisturbedReadsCrash
  BY DEF ConfInit, OnlyDisturbedReadsCrash
<1>2. Inv /\ OnlyDisturbedReadsCrash /\ [ConfNext]_confVars => OnlyDisturbedReadsCrash'
  <2> SUFFICES ASSUME Inv, OnlyDisturbedReadsCrash, [ConfNext]_confVars, power' = "crashed", ~spoilt'
               PROVE  \E u \in Users : ~clean'[u]
    BY DEF OnlyDisturbedReadsCrash
  <2>1. CASE UNCHANGED confVars
    BY <2>1 DEF confVars, OnlyDisturbedReadsCrash
  <2>2. ASSUME NEW u \in Users, TextCrashes(u)
        PROVE  ~clean'[u]
    <3>1. at[u] = "parse" /\ Parse(buf[u]) = NotJson /\ UNCHANGED <<clean, spoilt>>
      BY <2>2 DEF TextCrashes
    <3>2. CASE clean[u]
      <4>1. Begins(buf[u], wanted) /\ wanted \in Confs
        BY <3>1, <3>2 DEF Inv, Held, ReadsComplete, Types, ConfTypeOK
      <4> QED
        BY <3>1, <4>1, ParseFacts, NamesAssumption
    <3> QED
      BY <3>1, <3>2
  <2>3. ASSUME NEW u \in Users, ReadPiece(u) \/ UseText(u) \/ ReadFails(u) \/ Open(u)
        PROVE  FALSE
    BY <2>3 DEF ReadPiece, UseText, ReadFails, Open, Go
  <2>4. ASSUME NEW u \in Clients, Rewrite(u)
        PROVE  FALSE
    BY <2>4 DEF Rewrite, WriteText, WriteFails, Truncate, Go
  <2> QED
    BY <2>1, <2>2, <2>3, <2>4 DEF ConfNext, Start, Proceed, OpenFails, PowerCut, Boot
<1>3. Inv /\ [ConfNext]_confVars => Inv'
  BY InvStep
<1> QED
  BY <1>1, <1>2, <1>3, InvInit, PTL DEF ConfSpec

-----------------------------------------------------------------------------
(* The file implements the register *)

LEMMA RegisterInit == ConfInit => Register!Init
<1> SUFFICES ASSUME ConfInit PROVE Register!Init
  OBVIOUS
<1>1. Inv /\ ~spoilt
  BY InvInit DEF ConfInit
<1>2. Parse(file) = wanted /\ wanted \in Confs
  BY <1>1, BeginsAgrees DEF Inv, Held, Types, ConfTypeOK
<1>3. Reading = {}
  BY DEF ConfInit, Reading
<1> QED
  BY <1>2, <1>3 DEF ConfInit, Register!Init

ReadingNow == [u \in Users |-> IF u \in Reading THEN IF clean[u] THEN "clean" ELSE "dirty" ELSE "no"]

LEMMA RegisterStep ==
    ASSUME Inv, Inv', [ConfNext]_confVars
    PROVE  [Register!Next]_Register!vars
<1> USE NamesAssumption DEF Go
<1>t. /\ file \in Seq(Byte) /\ buf \in [Users -> Seq(Byte)]
      /\ at \in [Users -> {"idle", "read", "parse", "write", "truncate"}]
      /\ clean \in [Users -> BOOLEAN] /\ spoilt \in BOOLEAN
      /\ got \in [Users -> Confs \cup {NotJson}] /\ wanted \in Confs
      /\ file' \in Seq(Byte) /\ spoilt' \in BOOLEAN /\ wanted' \in Confs
      /\ \A c \in Clients : c \in Users
  BY DEF Inv, Types, ConfTypeOK, Users
<1> DEFINE stored == Parse(file)
<1>s. (~spoilt => stored = wanted) /\ (~spoilt' => stored' = wanted')
  BY <1>t, BeginsAgrees DEF Inv, Held
<1>p. stored \in Confs \cup {NotJson} /\ stored' \in Confs \cup {NotJson}
  BY ParseFacts
<1> HIDE DEF stored
<1>r. ReadingNow' = [u \in Users |-> IF u \in Reading' THEN IF clean'[u] THEN "clean" ELSE "dirty" ELSE "no"]
  BY DEF ReadingNow
<1>1. ASSUME NEW u \in Users, Open(u)
      PROVE  Register!Begin(u)
  <2>1. at[u] = "idle" /\ at' = [at EXCEPT ![u] = "read"] /\ clean[u] /\ UNCHANGED <<file, clean, spoilt>>
    BY <1>1, <1>t DEF Open, Inv, IdleClean
  <2>2. Reading' = Reading \cup {u} /\ u \notin Reading
    BY <1>t, <2>1 DEF Reading
  <2>3. ReadingNow[u] = "no" /\ ReadingNow' = [ReadingNow EXCEPT ![u] = "clean"]
    BY <1>t, <1>r, <2>1, <2>2 DEF ReadingNow
  <2> QED
    BY <1>1, <2>1, <2>3 DEF Register!Begin, Open, ReadingNow
<1>2. ASSUME NEW u \in Users, ReadPiece(u)
      PROVE  UNCHANGED Register!vars
  <2>1. at[u] = "read" /\ at'[u] \in {"read", "parse"} /\ (\A r \in Users : r # u => at'[r] = at[r])
    BY <1>2, <1>t DEF ReadPiece
  <2>2. Reading' = Reading
    BY <1>t, <2>1 DEF Reading
  <2> QED
    BY <1>2, <2>2 DEF ReadPiece, Register!vars
<1>3. ASSUME NEW u \in Users, ReadFails(u)
      PROVE  Register!Disturb(u) \/ UNCHANGED Register!vars
  <2>1. /\ at[u] = "read" /\ at'[u] = "parse" /\ (\A r \in Users : r # u => at'[r] = at[r])
        /\ clean' = [clean EXCEPT ![u] = FALSE]
        /\ UNCHANGED <<file, got, spoilt>>
    BY <1>3, <1>t DEF ReadFails
  <2>2. Reading' = Reading /\ u \in Reading
    BY <1>t, <2>1 DEF Reading
  <2>3. CASE clean[u]
    <3>1. ReadingNow[u] = "clean" /\ ReadingNow' = [ReadingNow EXCEPT ![u] = "dirty"]
      BY <1>t, <1>r, <2>1, <2>2, <2>3 DEF ReadingNow
    <3> QED
      BY <2>1, <3>1 DEF Register!Disturb, ReadingNow
  <2>4. CASE ~clean[u]
    <3>1. ReadingNow' = ReadingNow
      BY <1>t, <1>r, <2>1, <2>2, <2>4 DEF ReadingNow
    <3> QED
      BY <2>1, <3>1 DEF Register!vars, ReadingNow
  <2> QED
    BY <2>3, <2>4
<1>4. ASSUME NEW u \in Users, UseText(u) \/ TextCrashes(u)
      PROVE  Register!End(u)
  <2>1. /\ at[u] = "parse" /\ at'[u] \notin {"read", "parse"} /\ (\A r \in Users : r # u => at'[r] = at[r])
        /\ \A r \in Users : r # u => clean'[r] = clean[r]
        /\ got' = [got EXCEPT ![u] = Parse(buf[u])]
        /\ UNCHANGED <<file, spoilt>>
    BY <1>4, <1>t DEF UseText, TextCrashes
  <2>2. Reading' = Reading \ {u} /\ u \in Reading
    BY <1>t, <2>1 DEF Reading
  <2>3. ReadingNow[u] # "no" /\ ReadingNow' = [ReadingNow EXCEPT ![u] = "no"]
    BY <1>t, <1>r, <2>1, <2>2 DEF ReadingNow
  <2>4. ASSUME ReadingNow[u] = "clean", ~spoilt
        PROVE  Parse(buf[u]) = Parse(file)
    <3>1. clean[u]
      BY <2>2, <2>4 DEF ReadingNow
    <3>2. Begins(buf[u], wanted)
      BY <2>1, <2>4, <3>1 DEF Inv, Held, ReadsComplete
    <3> QED
      BY <1>t, <1>s, <2>4, <3>2, BeginsAgrees DEF stored
  <2>5. Parse(buf[u]) \in Confs \cup {NotJson}
    BY ParseFacts
  <2> QED
    BY <2>1, <2>3, <2>4, <2>5 DEF Register!End, ReadingNow
<1>5. ASSUME NEW u \in Clients, WriteText(u)
      PROVE  Register!Write(wanted') \/ Register!Spoil
  <2>1. /\ at[u] = "write" /\ at' = [at EXCEPT ![u] = "truncate"]
        /\ \A r \in Users : clean'[r] <=> r \notin Reading
        /\ got' = [got EXCEPT ![u] = NotJson]
    BY <1>5, <1>t DEF WriteText
  <2>2. Reading' = Reading
    BY <1>t, <2>1 DEF Reading
  <2>3. ReadingNow' = [r \in Users |-> IF ReadingNow[r] = "no" THEN "no" ELSE "dirty"]
    BY <1>t, <1>r, <2>1, <2>2 DEF ReadingNow
  <2>4. spoilt => spoilt'
    BY <1>5, WriteFacts DEF Inv
  <2>5. CASE ~spoilt'
    <3>1. Parse(file)' = wanted' /\ ~spoilt
      BY <1>s, <2>4, <2>5 DEF stored
    <3> QED
      BY <1>t, <2>1, <2>3, <2>5, <3>1 DEF Register!Write, Register!Overlapped, Register!Used, ReadingNow
  <2>6. CASE spoilt'
    <3>1. Parse(file)' \in Confs \cup {NotJson}
      BY <1>p DEF stored
    <3> QED
      BY <1>t, <2>1, <2>3, <2>6, <3>1 DEF Register!Spoil, Register!Overlapped, Register!Used, ReadingNow
  <2> QED
    BY <1>t, <2>5, <2>6
<1>6. ASSUME NEW u \in Clients, WriteFails(u)
      PROVE  Register!Drop
  <2>1. /\ at[u] = "write" /\ at' = [at EXCEPT ![u] = "idle"]
        /\ got' = [got EXCEPT ![u] = NotJson]
        /\ UNCHANGED <<file, clean, spoilt>>
    BY <1>6, <1>t DEF WriteFails
  <2>2. Reading' = Reading
    BY <1>t, <2>1 DEF Reading
  <2> QED
    BY <1>t, <2>1, <2>2 DEF Register!Drop, Register!Used
<1>7. ASSUME NEW u \in Clients, Truncate(u)
      PROVE  Register!Spoil \/ UNCHANGED Register!vars
  <2>1. /\ at[u] = "truncate" /\ at' = [at EXCEPT ![u] = "idle"]
        /\ UNCHANGED <<clean, got, wanted, spoilt>>
    BY <1>7, <1>t DEF Truncate
  <2>2. Reading' = Reading
    BY <1>t, <2>1 DEF Reading
  <2>3. CASE ~spoilt
    <3>1. Parse(file)' = Parse(file)
      BY <1>s, <2>1, <2>3 DEF stored
    <3> QED
      BY <2>1, <2>2, <3>1 DEF Register!vars
  <2>4. CASE spoilt
    <3>1. Parse(file)' \in Confs \cup {NotJson}
      BY <1>p DEF stored
    <3> QED
      BY <2>1, <2>2, <2>4, <3>1 DEF Register!Spoil, Register!Used
  <2> QED
    BY <1>t, <2>3, <2>4
<1>8. ASSUME Forget
      PROVE  Register!Stop
  <2>1. Reading' = {}
    BY <1>8 DEF Forget, Reading, Users
  <2> QED
    BY <1>8, <2>1 DEF Forget, Register!Stop
<1>9. CASE UNCHANGED confVars
  <2>1. Reading' = Reading
    BY <1>9 DEF confVars, Reading
  <2> QED
    BY <1>9, <2>1 DEF confVars, Register!vars
<1>10. ASSUME NEW u \in Users, Start(u) \/ Proceed(u) \/ ReadFails(u)
       PROVE  Register!Next \/ UNCHANGED Register!vars
  BY <1>1, <1>2, <1>3, <1>4, <1>8, <1>10 DEF Start, Proceed, OpenFails, Register!Next
<1>11. ASSUME NEW u \in Clients, Rewrite(u)
       PROVE  Register!Next \/ UNCHANGED Register!vars
  <2>1. CASE WriteText(u)
    <3>1. Register!Write(wanted') \/ Register!Spoil
      BY <1>5, <1>11, <2>1
    <3>2. wanted' \in Confs
      BY <1>t
    <3> QED
      BY <3>1, <3>2 DEF Register!Next, Register!Write
  <2>2. CASE WriteFails(u)
    BY <1>6, <1>11, <2>2 DEF Register!Next
  <2>3. CASE Truncate(u)
    BY <1>7, <1>11, <2>3 DEF Register!Next
  <2> QED
    BY <1>11, <2>1, <2>2, <2>3 DEF Rewrite
<1>12. ASSUME PowerCut \/ Boot
       PROVE  Register!Next \/ UNCHANGED Register!vars
  BY <1>8, <1>12 DEF PowerCut, Boot, Register!Next
<1> QED
  BY <1>9, <1>10, <1>11, <1>12 DEF ConfNext

\* Reading in pieces and rewriting in two steps make a safe register.
THEOREM RegisterImplemented == ConfSpec => ImplementsRegister
<1>1. Inv /\ Inv' /\ [ConfNext]_confVars => [Register!Next]_Register!vars
  BY RegisterStep
<1> QED
  BY <1>1, RegisterInit, InvInit, InvStep, PTL DEF ConfSpec, ImplementsRegister, Register!Spec
=============================================================================
