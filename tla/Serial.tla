--------------------------------- MODULE Serial ---------------------------------
(***************************************************************************)
(* The serial line to the pan-tilt head (serial.c) and its two users:      *)
(* panMsgDeal (modbus_app.c), called by the MQTT threads, and getKeyStatus *)
(* (wpa2APP.c), called by networkStatusPthread.  Each opens the port with  *)
(* serial_mutex held, sends a request, reads what comes until nothing has  *)
(* come for a while, and closes the port.  getKeyStatus gives up at once   *)
(* when the mutex is taken, and flushes the port before its request.       *)
(*                                                                         *)
(* Abstractions.  Bytes are pieces of an answer, named for the request     *)
(* they answer.  Time is left out: a read may time out whenever nothing is *)
(* pending, and an answer may come at any time, also too late.  The driver *)
(* may keep or drop what is pending when the port is closed; a signal may  *)
(* interrupt a read.  The content of requests and answers belongs to the   *)
(* frame format.                                                           *)
(***************************************************************************)
EXTENDS Naturals, Sequences, FiniteSets

CONSTANTS
    Panners,      \* the threads that call panMsgDeal
    Key,          \* the thread that calls getKeyStatus
    PanLen, KeyLen, \* the sizes their buffers are read with, in pieces
    Nobody,       \* the owner of a free mutex
    MaxAnswer,    \* bound: pieces of an answer
    MaxRequests   \* bound: requests

ASSUME ThreadsAssumption == Key \notin Panners /\ Nobody \notin Panners \cup {Key}
ASSUME LengthAssumption == PanLen \in Nat \ {0} /\ KeyLen \in Nat \ {0}
ASSUME BoundAssumption == MaxAnswer \in Nat /\ MaxRequests \in Nat

Threads == Panners \cup {Key}

VARIABLES
    pc,            \* per thread
    serial_mutex,  \* the owner, or Nobody
    buf,           \* the pieces read in this access
    pending,       \* the pieces in the input queue of the port
    line,          \* the pieces the head has still to send
    requests,      \* requests sent so far
    late           \* history: the head was still answering at the last flush

vars == <<pc, serial_mutex, buf, pending, line, requests, late>>
head == <<pending, line, requests, late>>

Inside == {"open", "flush", "send", "read", "close"}

maxlen(t) == IF t = Key THEN KeyLen ELSE PanLen
Lesser(m, n) == IF m < n THEN m ELSE n

Init ==
    /\ pc = [t \in Threads |-> "idle"]
    /\ serial_mutex = Nobody
    /\ buf = <<>> /\ pending = <<>> /\ line = <<>>
    /\ requests = 0 /\ late = FALSE

Step(t, k, l) == pc[t] = k /\ pc' = [pc EXCEPT ![t] = l]

-----------------------------------------------------------------------------
(* SerialInit *)

\* The threads that are going to send a request, or may.
Sending == {t \in Threads : pc[t] \in {"lock", "open", "flush", "send"}}

\* A message has come for the head, or it is time to look at the key.
Call(t) ==
    /\ requests + Cardinality(Sending) < MaxRequests
    /\ Step(t, "idle", "lock")
    /\ UNCHANGED <<serial_mutex, buf, head>>

\* Mutant: the outcome of trylock is tested for < 0.
LockAnyway(t) ==
    /\ Step(t, "lock", "open")
    /\ serial_mutex = Nobody \/ t = Key
    /\ serial_mutex' = t
    /\ UNCHANGED <<buf, head>>

Lock(t) ==
    /\ Step(t, "lock", "open")
    /\ serial_mutex = Nobody /\ serial_mutex' = t
    /\ UNCHANGED <<buf, head>>

\* trylock fails: getKeyStatus returns 0.
Busy ==
    /\ Step(Key, "lock", "idle")
    /\ serial_mutex # Nobody
    /\ UNCHANGED <<serial_mutex, buf, head>>

Open(t) ==
    /\ Step(t, "open", IF t = Key THEN "flush" ELSE "send")
    /\ UNCHANGED <<serial_mutex, buf, head>>

OpenFails(t) ==
    /\ Step(t, "open", "idle")
    /\ serial_mutex' = Nobody
    /\ UNCHANGED <<buf, head>>

-----------------------------------------------------------------------------
(* The exchange. *)

\* Mutant: only the output is flushed.
FlushOutput ==
    /\ Step(Key, "flush", "send")
    /\ late' = (line # <<>>)
    /\ UNCHANGED <<serial_mutex, buf, pending, line, requests>>

\* tcflush(fd, TCIOFLUSH)
Flush ==
    /\ Step(Key, "flush", "send")
    /\ pending' = <<>>
    /\ late' = (line # <<>>)
    /\ UNCHANGED <<serial_mutex, buf, line, requests>>

\* modbusSend.  The head answers, or does not.
Send(t) ==
    /\ Step(t, "send", "read")
    /\ requests' = requests + 1
    /\ \E n \in 0..MaxAnswer : line' = line \o [k \in 1..n |-> requests']
    /\ UNCHANGED <<serial_mutex, buf, pending, late>>

\* select says that something is pending: read takes what fits, which is nothing if
\* the buffer is full.
Read(t) ==
    /\ Step(t, "read", "read")
    /\ pending # <<>>
    /\ LET n == Lesser(Len(pending), maxlen(t) - Len(buf))
       IN /\ buf' = buf \o SubSeq(pending, 1, n)
          /\ pending' = SubSeq(pending, n + 1, Len(pending))
    /\ UNCHANGED <<serial_mutex, line, requests, late>>

\* Mutant: only an empty buffer times out.
TimeOutEmpty(t) ==
    /\ Step(t, "read", "close")
    /\ pending = <<>> /\ buf = <<>>
    /\ UNCHANGED <<serial_mutex, buf, head>>

TimeOut(t) ==
    /\ Step(t, "read", "close")
    /\ pending = <<>>
    /\ UNCHANGED <<serial_mutex, buf, head>>

\* A signal ends the select, whatever is pending.
Interrupted(t) ==
    /\ Step(t, "read", "close")
    /\ UNCHANGED <<serial_mutex, buf, head>>

\* SerialClose; the caller's buffer goes out of use.
Close(t) ==
    /\ Step(t, "close", "idle")
    /\ serial_mutex' = Nobody
    /\ buf' = <<>>
    /\ pending' \in {pending, <<>>}
    /\ UNCHANGED <<line, requests, late>>

\* A piece of an answer comes.
Arrive ==
    /\ line # <<>> /\ line' = Tail(line)
    /\ pending' = Append(pending, Head(line))
    /\ UNCHANGED <<pc, serial_mutex, buf, requests, late>>

Access(t) == Open(t) \/ OpenFails(t) \/ (t = Key /\ Flush) \/ Send(t)
             \/ Read(t) \/ TimeOut(t) \/ Close(t)

Next == Busy \/ Arrive \/ \E t \in Threads : Call(t) \/ Lock(t) \/ Access(t) \/ Interrupted(t)

\* A thread that has the mutex is scheduled; signals need not come.
Fairness == \A t \in Threads : WF_vars(Access(t))

Spec == Init /\ [][Next]_vars /\ Fairness

-----------------------------------------------------------------------------
(* Properties. *)

TypeOK ==
    /\ pc \in [Threads -> {"idle", "lock"} \cup Inside]
    /\ serial_mutex \in Threads \cup {Nobody}
    /\ requests \in Nat /\ late \in BOOLEAN
    /\ \A q \in {buf, pending, line} : q \in Seq(1..requests)
    /\ \A t \in Threads : pc[t] \in {"read", "close"} => Len(buf) <= maxlen(t)

\* The mutex is held by the thread between its lock and its unlock, on every way out
\* (serial.c:53-93 and 158-163), so one thread at a time has the port open; and nothing
\* is read but by that thread.
PortHasOneOwner ==
    /\ \A t \in Threads : pc[t] \in Inside <=> serial_mutex = t
    /\ buf # <<>> => \E t \in Threads : pc[t] \in {"read", "close"}

\* What getKeyStatus reads answers its own request: what an earlier access left behind
\* is flushed, unless the head was still sending it then (wpa2APP.c:532).
KeyReadsOwnAnswer ==
    pc[Key] \in {"read", "close"} /\ ~late
        => \A k \in 1..Len(buf) : buf[k] = requests

\* The buffer is full and more is pending: select returns at once, read takes nothing.
Spinning(t) == pc[t] = "read" /\ Len(buf) = maxlen(t) /\ pending # <<>>

\* An access ends and gives the port back, unless it spins (serial.c:111-126).
AccessEnds ==
    \A t \in Threads : pc[t] \in Inside ~> (pc[t] = "idle" \/ Spinning(t))

\* "Reads without blocking"; mtime is "the blocking time (in milliseconds)"
\* (serial.c:97-98): a read comes to an end.
ReadReturns ==
    \A t \in Threads : pc[t] = "read" ~> pc[t] # "read"
=============================================================================
