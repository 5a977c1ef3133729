-------------------------------- MODULE PanTilt --------------------------------
(***************************************************************************)
(* The frames between the camera and its pan-tilt head: panMsgDeal         *)
(* (modbus_app.c) turns a message into a frame, getKeyStatus (wpa2APP.c)   *)
(* asks for the key and analyses the answer.  The line may lose a frame,   *)
(* cut it short, change one byte of it, or echo it to the sender.          *)
(*                                                                         *)
(* Abstractions.  A message is the name of its command and the numbers     *)
(* under "vertical", "level" (or "start_level") and "angle".  The port and *)
(* its mutex are in Serial: here one exchange runs at a time.  The head is *)
(* external: it is taken to analyse a frame as modbus.c does, to do what   *)
(* the frame says and to answer a question for the key with tag 9.         *)
(***************************************************************************)
EXTENDS Modbus, Functions

CONSTANTS
    Orders,   \* the messages of the control topic
    Deltas,   \* what may be added to a byte on the line, mod 256
    Nothing

ASSUME DeltaAssumption == Deltas \subseteq 1..255
\* cJSON gives each number as an int.
ASSUME OrdersAssumption ==
    /\ Nothing \notin Orders
    /\ \A o \in Orders : /\ "vertical" \in DOMAIN o => o.vertical \in Int
                         /\ "level" \in DOMAIN o => o.level \in Int
                         /\ "angle" \in DOMAIN o => o.angle \in Int

MODBUS_ADDR == 0
HeadAddr == 1
CMD_READ_KEY == 6
CMD_WRITE_PAN == 12
KeyTag == 9
KeyBufLen == 16

cmd_map == [setRelAngle |-> 4, setAbtAngle |-> 5, setSector |-> 7, resetPosition |-> 8]

VARIABLES
    talk,     \* the exchange: "none", "order" or "key"
    frame,    \* the bytes on their way to the head
    answer,   \* the bytes on their way back
    order,    \* the message being dealt with
    did,      \* what the head did in this exchange: the tag and the numbers
    saidKey   \* history: in this exchange the head answers that the key is pressed

panVars == <<talk, frame, answer, order, did, saidKey>>

PanInit ==
    /\ talk = "none" /\ frame = <<>> /\ answer = <<>>
    /\ order = Nothing /\ did = Nothing
    /\ saidKey = FALSE

-----------------------------------------------------------------------------
(* The line *)

\* What may become of the bytes f: nothing, or one fault.
Carried(f) ==
    {f} \cup {SubSeq(f, 1, n) : n \in 0..(Len(f) - 1)}
        \cup {[f EXCEPT ![i] = (@ + d) % 256] : i \in 1..Len(f), d \in Deltas}

-----------------------------------------------------------------------------
(* panMsgDeal *)

\* (short int)v & 0xff00, shifted, and (short int)v & 0xff
High(v) == (v \div 256) % 256
Low(v) == v % 256
Split(v) == <<High(v), Low(v)>>

\* Mutant: the bytes of a number are swapped.
ValueSwapped(o) ==
    CASE o.cmd \in {"setRelAngle", "setAbtAngle"} ->
            <<Low(o.vertical), High(o.vertical)>> \o Split(o.level)
      [] o.cmd = "setSector" -> Split(o.vertical) \o Split(o.level) \o Split(o.angle)
      [] o.cmd = "resetPosition" -> <<1>>

\* The value of the frame's one member.
Value(o) ==
    CASE o.cmd \in {"setRelAngle", "setAbtAngle"} -> Split(o.vertical) \o Split(o.level)
      [] o.cmd = "setSector" -> Split(o.vertical) \o Split(o.level) \o Split(o.angle)
      [] o.cmd = "resetPosition" -> <<1>>

\* The fields panMsgDeal takes without a test.
Needed(cmd) ==
    CASE cmd \in {"setRelAngle", "setAbtAngle"} -> {"vertical", "level"}
      [] cmd = "setSector" -> {"vertical", "level", "angle"}
      [] OTHER -> {}

Complete(o) == Needed(o.cmd) \subseteq DOMAIN o

\* The command is known and its fields are there: a frame goes out.
SendOrder(o) ==
    /\ talk = "none" /\ talk' = "order"
    /\ o.cmd \in DOMAIN cmd_map /\ Complete(o)
    /\ order' = o
    /\ frame' = YDLModbusPack(MODBUS_ADDR, HeadAddr, CMD_WRITE_PAN, Member(cmd_map[o.cmd], Value(o)))
    /\ UNCHANGED <<answer, did, saidKey>>

\* SerialReadUnblock has something, or nothing in time: ret is 0 or 3, and
\* nobody looks at it.
OrderEnds ==
    /\ talk = "order" /\ frame = <<>> /\ talk' = "none"
    /\ order' = Nothing /\ answer' = <<>> /\ did' = Nothing
    /\ UNCHANGED <<frame, saidKey>>

-----------------------------------------------------------------------------
(* getKeyStatus *)

KeyRequest == YDLModbusPack(MODBUS_ADDR, HeadAddr, CMD_READ_KEY, <<>>)

AskKey ==
    /\ talk = "none" /\ talk' = "key"
    /\ frame' = KeyRequest
    /\ UNCHANGED <<answer, order, did, saidKey>>

\* buf after the answer a has been read over the request in it.
KeyBuf(a) ==
    [i \in 1..KeyBufLen |-> IF i <= Len(a) THEN a[i]
                            ELSE IF i <= Len(KeyRequest) THEN KeyRequest[i] ELSE 0]

\* What getKeyStatus may return.  Without a member memb[0] is whatever was on
\* the stack.
KeyOf(a) ==
    LET memb == Members(KeyBuf(a), Len(a))
    IN  IF Len(a) = 0 \/ ~Accepts(MODBUS_ADDR, KeyBuf(a), Len(a)) THEN {0}
        ELSE IF memb = <<>> THEN 0..1
        ELSE IF memb[1].tag = KeyTag THEN {KeyBuf(a)[memb[1].at]} ELSE {0}

KeyAnswers == UNION {KeyOf(a) : a \in Carried(answer)}

\* Mutant: the read blocks until there is an answer.
KeyEndsAnswered ==
    /\ talk = "key" /\ frame = <<>> /\ talk' = "none"
    /\ answer # <<>>
    /\ answer' = <<>> /\ saidKey' = FALSE
    /\ UNCHANGED <<frame, order, did>>

\* getKeyStatus returns one of KeyAnswers.
KeyEnds ==
    /\ talk = "key" /\ frame = <<>> /\ talk' = "none"
    /\ answer' = <<>> /\ saidKey' = FALSE
    /\ UNCHANGED <<frame, order, did>>

-----------------------------------------------------------------------------
(* The head and the key *)

Signed16(h, l) == ((h * 256 + l + 32768) % 65536) - 32768

\* The numbers in a value, two bytes each; one byte alone is itself.
Numbers(v) ==
    IF Len(v) = 1 THEN v ELSE [i \in 1..(Len(v) \div 2) |-> Signed16(v[2 * i - 1], v[2 * i])]

\* Its answer to f when the key is in state k.
HeadAnswer(f, k) ==
    YDLModbusPack(HeadAddr, MODBUS_ADDR, f[5],
                  IF f[5] = CMD_READ_KEY THEN Member(KeyTag, <<k>>) ELSE Member(0, <<0>>))

\* The head hears f, does what it says, and answers or not.
HeadHears ==
    /\ frame # <<>> /\ frame' = <<>>
    /\ \E f \in Carried(frame), k \in 0..1 :
        IF Len(f) > HeadLen /\ Accepts(HeadAddr, f, Len(f))
        THEN /\ did' = IF f[5] = CMD_WRITE_PAN
                       THEN [tag |-> f[6], numbers |-> Numbers(SubSeq(f, 8, 7 + f[7]))] ELSE did
             /\ answer' \in {<<>>, HeadAnswer(f, k)}
             /\ saidKey' = (f[5] = CMD_READ_KEY /\ k = 1)
        ELSE UNCHANGED <<did, answer, saidKey>>
    /\ UNCHANGED <<talk, order>>

\* The transceiver hands the sender its own frame back.
Echo ==
    /\ frame # <<>> /\ frame' = <<>>
    /\ answer' = frame
    /\ UNCHANGED <<talk, order, did, saidKey>>

PanDown ==
    /\ talk' = "none" /\ frame' = <<>> /\ answer' = <<>>
    /\ order' = Nothing /\ did' = Nothing
    /\ saidKey' = FALSE

-----------------------------------------------------------------------------
Int16 == -32768..32767

\* The numbers an order asks for, as its sender means them.
Meant(o) ==
    CASE o.cmd \in {"setRelAngle", "setAbtAngle"} -> <<o.vertical, o.level>>
      [] o.cmd = "setSector" -> <<o.vertical, o.level, o.angle>>
      [] o.cmd = "resetPosition" -> <<1>>

\* The head moves only while an order is being dealt with, and moves as that
\* one means, provided its numbers fit in 16 bits.
HeadMovesAsMeant ==
    [][did' \notin {did, Nothing} =>
                     /\ order # Nothing
                     /\ did'.tag = cmd_map[order.cmd]
                     /\ Range(Meant(order)) \subseteq Int16 => did'.numbers = Meant(order)]_panVars
=============================================================================
