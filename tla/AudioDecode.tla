------------------------------ MODULE AudioDecode ------------------------------
(***************************************************************************)
(* The decoder of the sound a phone plays to configure the WiFi            *)
(* (audio_transfer_analysis, audio_transfer_fft.c) and the loop that feeds *)
(* it and keeps the two answers (unidoli_audio_config_service,             *)
(* wpa2APP.c).  A frame is a header, the number of symbols, the symbols    *)
(* (two bits each) and a trailer; a symbol is a tone of 5400, 6300, 7200   *)
(* or 8100 Hz, followed by the free tone, 9000 Hz.  ptr is the index of    *)
(* the next symbol in the frame and, like Dat_Len, 8 bits wide.            *)
(*                                                                         *)
(* Abstractions.  The spectrum of a window and the vote of the last ten    *)
(* windows are left out: the decoder hears a sequence of frequencies, each *)
(* for one or more windows.  The phone is not part of the repository: it   *)
(* plays what the decoder accepts.  A payload is the sequence of its       *)
(* symbols.  Tones may be missed and others heard, within the bounds.  Of  *)
(* Freq_Dat_buffer only the part below ptr is kept: nothing above it is    *)
(* read before it is written again.                                        *)
(***************************************************************************)
EXTENDS Integers, Sequences, FiniteSets

CONSTANTS
    Frames,     \* the payloads the phone plays
    None,
    MaxNoise,   \* bound: tones that are not heard, or that the phone does not play
    MaxStrays,  \* bound: the latter
    Strays      \* their frequencies

Symbol    == 0..3
FREE_FREQ == 9000
Tone(d)   == (d + 6) * 900
SymbolOf(freq) == (freq \div 900) - 6
IsSymbol(freq) == freq # FREE_FREQ /\ freq < 9900 /\ freq > 4500

Header  == <<0, 1, 1, 3, 0, 1, 1, 3>>
Trailer == <<0, 1, 2, 0>>

ASSUME FramesAssumption ==
    \A f \in Frames : f \in Seq(Symbol) /\ Len(f) \in 4..255 /\ Len(f) % 4 = 0
ASSUME NoneAssumption == None \notin Seq(Symbol)
ASSUME BoundAssumption == MaxNoise \in Nat /\ MaxStrays \in Nat
\* The spectrum of a window of 49 samples at 44100 Hz has a line every 900 Hz.
ASSUME StraysAssumption == \A freq \in Strays : freq \in Nat /\ freq % 900 = 0

VARIABLES
    Freq_Dat_buffer, ptr, Dat_Len, Last_Freq,  \* the decoder's static variables
    ssid, pwd,      \* what unidoli_audio_config_service has received, or None
    \* the phone and the room
    frame,          \* the payload being played, or None
    pos,            \* the tones of it that are over
    missed, strays, \* disturbances so far
    \* history variables, read by no guard
    began,          \* ptr when the frame began
    clean,          \* the frame has been heard from its beginning, with no disturbance
    pure,           \* no stray tone since it began
    got,            \* the payload returned since it began, or None
    before          \* the frame played before, if nothing was returned while it was played

decoder == <<Freq_Dat_buffer, ptr, Dat_Len, Last_Freq>>
phone   == <<frame, pos, missed, strays, began, clean, pure, before>>
vars    == <<decoder, ssid, pwd, phone, got>>

-----------------------------------------------------------------------------
(* The phone. *)

Digits(n)  == <<(n \div 64) % 4, (n \div 16) % 4, (n \div 4) % 4, n % 4>>
Symbols(f) == Header \o Digits(Len(f)) \o f \o Trailer

\* The tones of a frame: each symbol, then the free tone.
LastPos(f) == 2 * Len(Symbols(f))
ToneAt(f, p) == IF p % 2 = 1 THEN Tone(Symbols(f)[(p + 1) \div 2]) ELSE FREE_FREQ

Init ==
    /\ Freq_Dat_buffer = <<>>
    /\ ptr = 0 /\ Dat_Len = 0 /\ Last_Freq = 0
    /\ ssid = None /\ pwd = None
    /\ frame \in Frames
    /\ pos \in 0..LastPos(frame)  \* the camera begins to listen at any time
    /\ missed = 0 /\ strays = 0
    /\ began = 0 /\ clean = (pos = 0) /\ pure = TRUE
    /\ got = None /\ before = None

-----------------------------------------------------------------------------
(* audio_transfer_analysis, from the test against Last_Freq on. *)

\* u8
Wrap(n) == n % 256

\* From index k of the buffer on.
GetByte(buffer, k) ==
    64 * buffer[k + 1] + 16 * buffer[k + 2] + 4 * buffer[k + 3] + buffer[k + 4]

InHeader(d)  == (ptr < 8 /\ d = Header[ptr + 1]) \/ ptr \in 8..11
\* Mutant: the length is taken to include the header.
InDataTooShort == ptr >= 12 /\ ptr < Dat_Len

\* Mutant: the trailer is counted, not compared.
InTrailerCounted(d) == \E k \in 0..3 : ptr = Dat_Len + 12 + k

InData       == ptr >= 12 /\ ptr < Dat_Len + 12
InTrailer(d) == \E k \in 0..3 : ptr = Dat_Len + 12 + k /\ d = Trailer[k + 1]

\* The symbols that make up the bytes returned: whole bytes, from index 12 on.
Payload(buffer) == SubSeq(buffer, 13, 12 + 4 * ((Dat_Len + 3) \div 4))

\* A frequency that means nothing, or the same one again.
HearNothing(freq) ==
    /\ freq = Last_Freq \/ ~IsSymbol(freq)
    /\ Last_Freq' = freq
    /\ UNCHANGED <<Freq_Dat_buffer, ptr, Dat_Len, ssid, pwd, got>>

\* A symbol that is not the same one again.
NewSymbol(freq) ==
    /\ freq # Last_Freq /\ IsSymbol(freq)
    /\ Last_Freq' = freq

\* ptr++.  After the wrap the symbols are written over.
Accept(d) ==
    /\ ptr' = Wrap(ptr + 1)
    /\ Freq_Dat_buffer' = IF ptr' = 0 THEN <<>> ELSE Append(Freq_Dat_buffer, d)

Restart == ptr' = 0 /\ Freq_Dat_buffer' = <<>>

HearHeader(freq) ==
    /\ NewSymbol(freq) /\ InHeader(SymbolOf(freq))
    /\ Accept(SymbolOf(freq))
    /\ Dat_Len' = IF ptr' = 12 THEN GetByte(Freq_Dat_buffer', 8) ELSE Dat_Len
    /\ UNCHANGED <<ssid, pwd, got>>

HearData(freq) ==
    /\ NewSymbol(freq) /\ ~InHeader(SymbolOf(freq)) /\ InData
    /\ Accept(SymbolOf(freq))
    /\ UNCHANGED <<Dat_Len, ssid, pwd, got>>

HearTrailer(freq) ==
    /\ NewSymbol(freq) /\ ~InHeader(SymbolOf(freq)) /\ ~InData /\ InTrailer(SymbolOf(freq))
    /\ Wrap(ptr + 1) # Dat_Len + 16
    /\ Accept(SymbolOf(freq))
    /\ UNCHANGED <<Dat_Len, ssid, pwd, got>>

\* Mutant: ptr is not reset.
InvalidStays(freq) ==
    /\ NewSymbol(freq)
    /\ ~InHeader(SymbolOf(freq)) /\ ~InData /\ ~InTrailer(SymbolOf(freq))
    /\ UNCHANGED <<ptr, Freq_Dat_buffer, Dat_Len, ssid, pwd, got>>

Invalid(freq) ==
    /\ NewSymbol(freq)
    /\ ~InHeader(SymbolOf(freq)) /\ ~InData /\ ~InTrailer(SymbolOf(freq))
    /\ Restart
    /\ UNCHANGED <<Dat_Len, ssid, pwd, got>>

\* strcpy: the bytes before the first that is zero.
TextOf(bytes) ==
    LET kept == {k \in 1..(Len(bytes) \div 4) :
                    \A j \in 1..k : SubSeq(bytes, 4 * j - 3, 4 * j) # <<0, 0, 0, 0>>}
    IN SubSeq(bytes, 1, 4 * Cardinality(kept))

\* The answers are told apart by their first byte, 'S' or 'P'.
TagS == <<1, 1, 0, 3>>
TagP == <<1, 1, 0, 0>>
Tag(payload)    == SubSeq(payload, 1, 4)
Answer(payload) == TextOf(SubSeq(payload, 5, Len(payload)))

Keep(payload) ==
    /\ ssid' = IF Tag(payload) = TagS THEN Answer(payload) ELSE ssid
    /\ pwd'  = IF Tag(payload) = TagP THEN Answer(payload) ELSE pwd

\* The last symbol of the trailer: the payload is returned.
Return(freq) ==
    /\ NewSymbol(freq) /\ ~InHeader(SymbolOf(freq)) /\ ~InData /\ InTrailer(SymbolOf(freq))
    /\ Wrap(ptr + 1) = Dat_Len + 16
    /\ Restart /\ Dat_Len' = 0
    /\ got' = Payload(Append(Freq_Dat_buffer, SymbolOf(freq)))
    /\ IF Dat_Len = 0 THEN UNCHANGED <<ssid, pwd>> ELSE Keep(got')

Analysis(freq) == \/ HearNothing(freq) \/ HearHeader(freq) \/ HearData(freq)
                  \/ HearTrailer(freq) \/ Invalid(freq) \/ Return(freq)

-----------------------------------------------------------------------------
(* The phone and the room, while the service waits for an answer. *)

Listening == ssid = None \/ pwd = None

Play(f) ==
    /\ frame = None
    /\ frame' = f /\ pos' = 0
    /\ began' = ptr /\ clean' = (Last_Freq # Tone(Header[1])) /\ pure' = TRUE /\ got' = None
    /\ UNCHANGED <<decoder, ssid, pwd, missed, strays, before>>

Hear ==
    /\ frame # None /\ pos < LastPos(frame)
    /\ pos' = pos + 1
    /\ Analysis(ToneAt(frame, pos'))
    /\ UNCHANGED <<frame, missed, strays, began, clean, pure, before>>

\* The tone lasts for another window.
HearAgain == Analysis(Last_Freq) /\ UNCHANGED phone

Miss ==
    /\ frame # None /\ pos < LastPos(frame) /\ missed + strays < MaxNoise
    /\ pos' = pos + 1 /\ missed' = missed + 1
    /\ clean' = FALSE
    /\ UNCHANGED <<decoder, ssid, pwd, frame, strays, began, pure, got, before>>

Stray ==
    /\ missed + strays < MaxNoise
    /\ strays < MaxStrays /\ strays' = strays + 1
    /\ \E freq \in Strays : Analysis(freq)
    /\ clean' = FALSE /\ pure' = FALSE
    /\ UNCHANGED <<frame, pos, missed, began, before>>

Finish ==
    /\ frame # None /\ pos = LastPos(frame)
    /\ frame' = None /\ before' = IF got = None THEN frame ELSE None
    /\ UNCHANGED <<decoder, ssid, pwd, pos, missed, strays, began, clean, pure, got>>

Next == Listening /\ ((\E f \in Frames : Play(f)) \/ Hear \/ HearAgain \/ Miss \/ Stray \/ Finish)

Spec == Init /\ [][Next]_vars

-----------------------------------------------------------------------------
(* Properties. *)

TypeOK ==
    /\ Freq_Dat_buffer \in Seq(Symbol) /\ ptr = Len(Freq_Dat_buffer)
    /\ ptr \in 0..255 /\ Dat_Len \in 0..255 /\ Last_Freq \in Nat
    /\ \A answer \in {ssid, pwd, got} : answer = None \/ answer \in Seq(Symbol)
    /\ frame \in Frames \cup {None}
    /\ pos \in Nat /\ missed \in 0..MaxNoise /\ strays \in 0..MaxStrays
    /\ began \in 0..255 /\ clean \in BOOLEAN /\ pure \in BOOLEAN

\* All symbols of a frame are over, and it was heard from the beginning undisturbed.
HeardWhole == frame # None /\ pos >= LastPos(frame) - 1 /\ clean

\* A frame that is heard whole by a decoder that waits for one is returned as played,
\* if its end still fits an 8-bit ptr (audio_transfer_fft.c:183-230): of more than 239
\* symbols, 59 bytes, nothing is returned.
FrameInSyncReturned ==
    HeardWhole /\ began = 0 => got = IF Len(frame) <= 239 THEN frame ELSE None

\* The payload holds the header once more, aligned with its bytes or not.
HeaderInside(f) == \E k \in 1..(Len(f) + 8) : \A j \in 1..8 : Symbols(f)[k + j] = Header[j]

\* A decoder that has lost the thread does not find it again from frames alone, unless
\* one holds the header inside: it takes the last symbol of a trailer for the first of
\* a header, and drops the symbol that shows the mistake (audio_transfer_fft.c:183-237).
\* So nothing is returned until another sound resets it, which the phone's user cannot
\* know.
OutOfSyncStays ==
    HeardWhole /\ began \in 1..3 /\ ~HeaderInside(frame) => ptr = 1 /\ got = None

\* Lost tones alone do not forge an answer, though a frame has no checksum: what is
\* kept is the text of a payload that was played as the name, or as the password
\* (audio_transfer_fft.c:210-230, wpa2APP.c:138-160).
AnswersWerePlayed ==
    strays = 0 =>
        /\ ssid # None => \E f \in Frames : Tag(f) = TagS /\ ssid = Answer(f)
        /\ pwd  # None => \E f \in Frames : Tag(f) = TagP /\ pwd = Answer(f)

\* As a channel of frames the decoder loses frames and does nothing worse, as long as
\* it misses one tone of the phone at most and hears no other.
Channel == INSTANCE FrameChannel
ImplementsChannel ==
    Channel!Init /\ [][missed' <= 1 /\ strays' = 0 => Channel!Next]_<<frame, before, got>>
=============================================================================
