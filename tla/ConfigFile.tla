------------------------------- MODULE ConfigFile -------------------------------
(***************************************************************************)
(* unidoli.conf, byte by byte.  rtmpStart (rtmp.c) reads it, configArrived *)
(* (iot.c) reads it, replaces the fields a message names and rewrites it:  *)
(* one write() over the old text, then truncate().  Nothing locks the      *)
(* file, both read it in pieces of 12 bytes, and the power may be cut      *)
(* between any two calls.                                                  *)
(*                                                                         *)
(* Abstractions.  A configuration is a function from Fields to Values and  *)
(* Text is its printed form.  All that is used of JSON is that no text     *)
(* begins another one (it ends with its closing brace) and that the parser *)
(* looks no further than that.  Which fields a message names is chosen     *)
(* when they are replaced; one that names none returns before the file,    *)
(* and closes a descriptor that was never set: when that is another        *)
(* thread's, its next call is a ReadFails or WriteFails here.  A write()   *)
(* and a read() are single steps and reach the file in the order they are  *)
(* made.  The SIGCHLD raised after an update, and what starting the stream *)
(* does, are in RtmpControl.                                               *)
(***************************************************************************)
EXTENDS Integers, Sequences

CONSTANTS
    Starters,    \* the threads that run rtmpStart
    Clients,     \* the threads that run configArrived
    Fields, Values,
    Text,        \* configuration |-> the bytes it is printed as
    Byte,
    Chunk,       \* tryReadNumOfByte
    BufferSize,  \* BUFFER_SIZE and MSG_LEN_MAX
    NotJson      \* what the parser returns for anything else

Confs == [Fields -> Values]
Patches == UNION {[F -> Values] : F \in SUBSET Fields \ {{}}}

\* c is the configuration whose text b begins with.
Begins(b, c) ==
    /\ Len(Text[c]) <= Len(b)
    /\ \A i \in 1..Len(Text[c]) : b[i] = Text[c][i]

ASSUME TextAssumption ==
    /\ Text \in [Confs -> Seq(Byte) \ {<<>>}]
    /\ \A c, d \in Confs : Begins(Text[c], d) => c = d
ASSUME SizeAssumption ==
    /\ Chunk \in Nat \ {0} /\ BufferSize \in Nat
    /\ \A c \in Confs : Len(Text[c]) < BufferSize
ASSUME NamesAssumption == Starters \cap Clients = {} /\ NotJson \notin Confs
ASSUME ZeroAssumption == 0 \in Byte

Users == Starters \cup Clients

VARIABLES
    file,     \* the bytes of unidoli.conf
    power,    \* "up", "off", or "crashed": the process has died of a bad text
    at,       \* per thread, where it is
    buf,      \* per thread, what it has read
    wrote,    \* per client, what write() returned
    got,      \* per thread, the configuration it read last
    wanted,   \* history: the configuration all updates so far add up to
    clean,    \* history, per thread: nothing has disturbed its read
    spoilt    \* history: a write was short, or two updates overlapped

confVars == <<file, power, at, buf, wrote, got, wanted, clean, spoilt>>

Replaced(c, p) == [f \in Fields |-> IF f \in DOMAIN p THEN p[f] ELSE c[f]]

ConfInit ==
    /\ wanted \in Confs /\ file = Text[wanted]
    /\ power = "up"
    /\ at = [u \in Users |-> "idle"]
    /\ buf = [u \in Users |-> <<>>]
    /\ wrote = [u \in Clients |-> 0]
    /\ got = [u \in Users |-> NotJson]
    /\ clean = [u \in Users |-> TRUE]
    /\ spoilt = FALSE

\* b cut to k bytes, or lengthened with zeros.
Cut(b, k) == [i \in 1..k |-> IF i <= Len(b) THEN b[i] ELSE 0]

Go(u, k, l) == power = "up" /\ at[u] = k /\ at' = [at EXCEPT ![u] = l]

\* What the process holds is gone.
Forget ==
    /\ at' = [u \in Users |-> "idle"]
    /\ buf' = [u \in Users |-> <<>>]
    /\ wrote' = [u \in Clients |-> 0]
    /\ got' = [u \in Users |-> NotJson]
    /\ clean' = [u \in Users |-> TRUE]
    /\ UNCHANGED <<file, wanted, spoilt>>

-----------------------------------------------------------------------------
(* Reading, the same in rtmpStart and configArrived. *)

\* rtmpStart is called, or a message that names at least one field has come.
Open(u) ==
    /\ Go(u, "idle", "read")
    /\ got' = [got EXCEPT ![u] = NotJson]
    /\ UNCHANGED <<file, power, buf, wrote, wanted, clean, spoilt>>

\* open fails: exit(1).
OpenFails(u) ==
    /\ power = "up" /\ at[u] = "idle"
    /\ power' = "off" /\ Forget

\* What read() gives at offset n: at most Chunk bytes, none past the end.
Piece(n) ==
    LET left == Len(file) - n
        k == IF left < 0 THEN 0 ELSE IF left < Chunk THEN left ELSE Chunk
    IN  [i \in 1..k |-> file[n + i]]

\* Mutant: one piece is taken for the whole file.
ReadOnce(u) ==
    /\ Go(u, "read", "parse")
    /\ buf' = [buf EXCEPT ![u] = @ \o Piece(Len(@))]
    /\ UNCHANGED <<file, power, wrote, got, wanted, clean, spoilt>>

\* One turn of the loop: it goes on while a read gives all it asked for.
ReadPiece(u) ==
    LET piece == Piece(Len(buf[u]))
    IN  /\ Go(u, "read", IF Len(piece) = Chunk THEN "read" ELSE "parse")
        /\ buf' = [buf EXCEPT ![u] = @ \o piece]
        /\ UNCHANGED <<file, power, wrote, got, wanted, clean, spoilt>>

\* read returns -1, which is added to the length: the last byte is cut off.
ReadFails(u) ==
    /\ Go(u, "read", "parse")
    /\ buf' = [buf EXCEPT ![u] = Cut(@, Len(@) - 1)]
    /\ clean' = [clean EXCEPT ![u] = FALSE]
    /\ UNCHANGED <<file, power, wrote, got, wanted, spoilt>>

\* cJSON_Parse
Parse(b) ==
    IF \E c \in Confs : Begins(b, c) THEN CHOOSE c \in Confs : Begins(b, c) ELSE NotJson

\* rtmpStart takes the fields, configArrived those its message leaves alone.
UseText(u) ==
    /\ Parse(buf[u]) # NotJson
    /\ Go(u, "parse", IF u \in Clients THEN "write" ELSE "idle")
    /\ got' = [got EXCEPT ![u] = Parse(buf[u])]
    /\ buf' = [buf EXCEPT ![u] = <<>>]
    /\ clean' = [clean EXCEPT ![u] = TRUE]
    /\ UNCHANGED <<file, power, wrote, wanted, spoilt>>

\* The parser returns NULL: rtmpStart follows it, configArrived tests the
\* wrong pointer and prints it.
TextCrashes(u) ==
    /\ power = "up" /\ at[u] = "parse" /\ Parse(buf[u]) = NotJson
    /\ power' = "crashed"
    /\ got' = [got EXCEPT ![u] = NotJson]
    /\ at' = [at EXCEPT ![u] = "idle"]
    /\ UNCHANGED <<file, buf, wrote, wanted, clean, spoilt>>

-----------------------------------------------------------------------------
(* Rewriting. *)

Reading == {u \in Users : at[u] \in {"read", "parse"}}
Updating == {u \in Clients : at[u] # "idle"}

\* The file after k bytes of w have been written over its beginning.
Over(f, w, k) ==
    [i \in 1..(IF k < Len(f) THEN Len(f) ELSE k) |-> IF i <= k THEN w[i] ELSE f[i]]

\* Mutant: lseek is left out, the text goes where the reading ended.
WriteAtEnd(u) ==
    /\ Go(u, "write", "truncate")
    /\ \E p \in Patches :
       LET new == Replaced(got[u], p)
       IN  \E k \in 0..Len(Text[new]) :
              /\ file' = file \o SubSeq(Text[new], 1, k)
              /\ wrote' = [wrote EXCEPT ![u] = k]
              /\ wanted' = Replaced(wanted, p)
              /\ clean' = [r \in Users |-> r \notin Reading]
              /\ spoilt' = (spoilt \/ k < Len(Text[new]) \/ Updating # {u})
    /\ got' = [got EXCEPT ![u] = NotJson]
    /\ UNCHANGED <<power, buf>>

\* The fields of the message are replaced; lseek to the beginning; write, of
\* which fewer bytes may arrive.
WriteText(u) ==
    /\ Go(u, "write", "truncate")
    /\ \E p \in Patches :
       LET new == Replaced(got[u], p)
       IN  \E k \in 0..Len(Text[new]) :
              /\ file' = Over(file, Text[new], k)
              /\ wrote' = [wrote EXCEPT ![u] = k]
              /\ wanted' = Replaced(wanted, p)
              /\ clean' = [r \in Users |-> r \notin Reading]
              /\ spoilt' = (spoilt \/ k < Len(Text[new]) \/ Updating # {u})
    /\ got' = [got EXCEPT ![u] = NotJson]
    /\ UNCHANGED <<power, buf>>

\* write returns -1, truncate refuses it, and the message is lost.
WriteFails(u) ==
    /\ Go(u, "write", "idle")
    /\ got' = [got EXCEPT ![u] = NotJson]
    /\ UNCHANGED <<file, power, buf, wrote, wanted, clean, spoilt>>

\* Mutant: the file is cut to what was read, less one.
TruncateShort(u) ==
    /\ Go(u, "truncate", "idle")
    /\ file' = Cut(file, wrote[u] - 1)
    /\ wrote' = [wrote EXCEPT ![u] = 0]
    /\ UNCHANGED <<power, buf, got, wanted, clean, spoilt>>

\* truncate(writeNumOfFile)
Truncate(u) ==
    /\ Go(u, "truncate", "idle")
    /\ file' = Cut(file, wrote[u])
    /\ wrote' = [wrote EXCEPT ![u] = 0]
    /\ UNCHANGED <<power, buf, got, wanted, clean, spoilt>>

-----------------------------------------------------------------------------
\* The power is cut, or the process is ended, at any point.
PowerCut == power = "up" /\ power' = "off" /\ Forget

\* The program starts again with the file as it is.
Boot == power # "up" /\ power' = "up" /\ Forget

Start(u) == Open(u) \/ OpenFails(u)
Proceed(u) == ReadPiece(u) \/ UseText(u) \/ TextCrashes(u)
Rewrite(u) == WriteText(u) \/ WriteFails(u) \/ Truncate(u)

ConfNext ==
    \/ \E u \in Users : Start(u) \/ Proceed(u) \/ ReadFails(u)
    \/ \E u \in Clients : Rewrite(u)
    \/ PowerCut \/ Boot

ConfSpec == ConfInit /\ [][ConfNext]_confVars

-----------------------------------------------------------------------------
ConfTypeOK ==
    /\ file \in Seq(Byte)
    /\ power \in {"up", "off", "crashed"}
    /\ at \in [Users -> {"idle", "read", "parse", "write", "truncate"}]
    /\ \A s \in Starters : at[s] \notin {"write", "truncate"}
    /\ buf \in [Users -> Seq(Byte)]
    /\ wrote \in [Clients -> Nat]
    /\ got \in [Users -> Confs \cup {NotJson}]
    /\ wanted \in Confs
    /\ clean \in [Users -> BOOLEAN]
    /\ spoilt \in BOOLEAN

\* Between write and truncate, and after a power cut there, the file begins
\* with the newest configuration, every update included; so it does at any
\* time, unless a write was short or two updates overlapped.
FileHoldsUpdates == ~spoilt => Begins(file, wanted)

\* The program dies of a bad text only when its read was disturbed: by a
\* write in the middle of it, or by an error of read itself.
OnlyDisturbedReadsCrash ==
    power = "crashed" => spoilt \/ \E u \in Users : ~clean[u]

\* As long as each text fits the buffers, what is read fits: neither leftovers
\* of a power cut nor a write during the read make it longer.
ReadsFitBuffer == \A u \in Users : Len(buf[u]) < BufferSize

\* The file is a safe register: a read no write overlaps returns what was
\* written last, although reading takes many steps and rewriting two.
Register == INSTANCE SafeRegister WITH
    Readers <- Users, Values <- Confs, Nothing <- NotJson,
    stored <- Parse(file), sound <- ~spoilt, result <- got,
    reading <- [u \in Users |->
        IF u \in Reading
        THEN IF clean[u] THEN "clean" ELSE "dirty" ELSE "no"]

ImplementsRegister == Register!Spec
=============================================================================
