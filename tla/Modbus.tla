--------------------------------- MODULE Modbus ---------------------------------
(***************************************************************************)
(* The frames of modbus.c: a head of four bytes (start, addresses, length, *)
(* checksum), a command, and members of a tag, a length and that many      *)
(* bytes of value.  A frame is a sequence of bytes.  dev_addr, a variable  *)
(* of the module that is set before each use, is a parameter here.         *)
(***************************************************************************)
EXTENDS Integers, Sequences

Byte == 0..255

YDL_MODBUS_START == 170
HeadLen == 4

\* lrc, added up in 8 bits, then ~lrc+1, over the first len bytes.
CalcLrc(msg, len) ==
    LET lrc[n \in 0..len] == IF n = 0 THEN 0 ELSE lrc[n - 1] + msg[n]
    IN  (256 - (lrc[len] % 256)) % 256

\* A member as it is laid out: tag, length, value.
Member(tag, val) == <<tag, Len(val)>> \o val

\* A frame from dev_addr to addr with the layout of all its members.
YDLModbusPack(dev_addr, addr, cmd, members) ==
    LET len == HeadLen + 1 + Len(members)
        raw == <<YDL_MODBUS_START, (addr % 16) + 16 * (dev_addr % 16), len, 0, cmd>> \o members
    IN  [raw EXCEPT ![4] = CalcLrc(raw, len)]

\* Mutant: the checksum is not looked at.
AcceptsUnchecked(dev_addr, buf, len) ==
    /\ buf[1] = YDL_MODBUS_START
    /\ buf[2] % 16 = dev_addr
    /\ buf[3] = len

\* YDLModbusAnalysis does not return 0.  All it is told of buf is that len
\* bytes were read into it; the rest is what was there before.
Accepts(dev_addr, buf, len) ==
    /\ buf[1] = YDL_MODBUS_START
    /\ buf[2] % 16 = dev_addr
    /\ buf[3] = len
    /\ CalcLrc(buf, len) = 0

\* The members it finds: the tag of each and the place of its value.  The last
\* length may lead past the end, where the loop stops.
Members(buf, len) ==
    LET from[p \in Nat] ==
            IF p > len THEN <<>>
            ELSE <<[tag |-> buf[p], at |-> p + 2]>> \o from[p + 2 + buf[p + 1]]
    IN  from[HeadLen + 2]
=============================================================================
