-------------------------------- MODULE CurlFetch --------------------------------
(***************************************************************************)
(* The HTTP requests of curlGetDat.c.  getpushurl and getSecret take       *)
(* curl_mutex, perform the request until it succeeds and parse what their  *)
(* write callback has kept.  libcurl calls the callback once per piece of  *)
(* the response; the callback stores each piece in a new buffer, in place  *)
(* of the one before.  getSecret also receives the HTTP header so          *)
(* (CURLOPT_HEADER).                                                       *)
(*                                                                         *)
(* Abstractions.  The body of a response is the list of its pieces: the   *)
(* JSON that is expected in one piece, "whole", or in several, "part",     *)
(* none of which parses; a "page" that is something else (the HTTP status  *)
(* is never tested); or nothing at all.  The mutex is not left by the      *)
(* early return on an encoding error of snprintf, which the constant       *)
(* formats cannot produce.                                                 *)
(***************************************************************************)
EXTENDS Naturals, Sequences

CONSTANTS Callers,   \* threads that make requests
          Secret,    \* those that call getSecret, the others call getpushurl
          Nobody,
          Bodies     \* the ways a body arrives

BodyPieces == {"whole", "part", "page"}

ASSUME CallersAssumption == Nobody \notin Callers /\ Secret \subseteq Callers
ASSUME BodiesAssumption  == Bodies \subseteq Seq(BodyPieces)

VARIABLES
    pc,          \* per caller
    curl_mutex,  \* its owner
    dat,         \* rtmp_dat and secret_dat: the last piece, whose it is, or NULL
    todo,        \* pieces of the transfer that are still to come
    url,         \* per caller, whose answer its output buffer holds
    up,          \* the process runs
    \* history variables, read by no guard
    body,        \* the body of the last response that began to arrive
    stale        \* the buffer in use holds what a failed attempt has left

vars == <<pc, curl_mutex, dat, todo, url, up, body, stale>>
history == <<body, stale>>

Buffers  == {"rtmp_dat", "secret_dat"}
Buf(c)   == IF c \in Secret THEN "secret_dat" ELSE "rtmp_dat"
NULL     == [of |-> Nobody, piece |-> "none"]
Labels   == {"none", "lock", "init", "perform", "transfer", "sleep", "parse", "free",
             "unlock", "returned"}
Critical == {"init", "perform", "transfer", "sleep", "parse", "free", "unlock"}

Init ==
    /\ pc = [c \in Callers |-> "none"]
    /\ curl_mutex = Nobody
    /\ dat = [b \in Buffers |-> NULL]
    /\ todo = <<>>
    /\ url = [c \in Callers |-> Nobody]
    /\ up = TRUE
    /\ body = <<>> /\ stale = FALSE

Step(c, k, l) == pc[c] = k /\ pc' = [pc EXCEPT ![c] = l]

\* The thread is created, or calls again.
Call(c) ==
    /\ Step(c, "none", "lock") \/ Step(c, "returned", "lock")
    /\ url' = [url EXCEPT ![c] = Nobody]
    /\ UNCHANGED <<curl_mutex, dat, todo, up, history>>

\* Mutant: the outcome of a trylock is ignored.
LockAnyway(c) ==
    /\ Step(c, "lock", "init")
    /\ curl_mutex' = c
    /\ UNCHANGED <<dat, todo, url, up, history>>

Lock(c) ==
    /\ Step(c, "lock", "init")
    /\ curl_mutex = Nobody /\ curl_mutex' = c
    /\ UNCHANGED <<dat, todo, url, up, history>>

\* curl_global_init and the setting up of the handle.
GlobalInit(c) ==
    /\ Step(c, "init", "perform")
    /\ UNCHANGED <<curl_mutex, dat, todo, url, up, history>>

\* curl_easy_perform: the response begins to arrive.
Perform(c) ==
    /\ Step(c, "perform", "transfer")
    /\ body' \in Bodies
    /\ todo' = IF c \in Secret THEN <<"header">> \o body' ELSE body'
    /\ UNCHANGED <<curl_mutex, dat, url, up, stale>>

\* write_data_rtmp, write_data_secret.
WriteData(c) ==
    /\ pc[c] = "transfer" /\ todo # <<>>
    /\ dat' = [dat EXCEPT ![Buf(c)] = [of |-> c, piece |-> Head(todo)]]
    /\ todo' = Tail(todo)
    /\ stale' = FALSE
    /\ UNCHANGED <<pc, curl_mutex, url, up, body>>

\* Mutant: the result of curl_easy_perform is not tested.
TransferFailsUntested(c) ==
    /\ Step(c, "transfer", "parse")
    /\ todo' = <<>>
    /\ stale' = (dat[Buf(c)] # NULL)
    /\ UNCHANGED <<curl_mutex, dat, url, up, body>>

TransferFails(c) ==
    /\ Step(c, "transfer", "sleep")
    /\ todo' = <<>>
    /\ stale' = (dat[Buf(c)] # NULL)
    /\ UNCHANGED <<curl_mutex, dat, url, up, body>>

\* Mutant: the failure is returned, with the mutex held.
RetryGivesUp(c) ==
    /\ Step(c, "sleep", "returned")
    /\ UNCHANGED <<curl_mutex, dat, todo, url, up, history>>

Retry(c) ==
    /\ Step(c, "sleep", "perform")
    /\ UNCHANGED <<curl_mutex, dat, todo, url, up, history>>

TransferEnds(c) ==
    /\ Step(c, "transfer", "parse")
    /\ todo = <<>>
    /\ UNCHANGED <<curl_mutex, dat, todo, url, up, history>>

Parses(c) == dat[Buf(c)].piece = "whole"

\* Mutant: the mutex is given back before the buffer is freed.
ParseAnswerUnlocks(c) ==
    /\ Parses(c) /\ Step(c, "parse", "free")
    /\ url' = [url EXCEPT ![c] = dat[Buf(c)].of]
    /\ curl_mutex' = Nobody
    /\ UNCHANGED <<dat, todo, up, history>>

ParseAnswer(c) ==
    /\ Parses(c) /\ Step(c, "parse", "free")
    /\ url' = [url EXCEPT ![c] = dat[Buf(c)].of]
    /\ UNCHANGED <<curl_mutex, dat, todo, up, history>>

\* cJSON_Parse returns NULL, or the member is not there, which nothing tests: its
\* value is read through NULL.
ParseCrashes(c) ==
    /\ pc[c] = "parse" /\ ~Parses(c)
    /\ up' = FALSE
    /\ UNCHANGED <<pc, curl_mutex, dat, todo, url, history>>

FreeData(c) ==
    /\ Step(c, "free", "unlock")
    /\ dat' = [dat EXCEPT ![Buf(c)] = NULL]
    /\ stale' = FALSE
    /\ UNCHANGED <<curl_mutex, todo, url, up, body>>

Unlock(c) ==
    /\ Step(c, "unlock", "returned")
    /\ curl_mutex' = Nobody
    /\ UNCHANGED <<dat, todo, url, up, history>>

Work(c) == GlobalInit(c) \/ Perform(c) \/ Retry(c) \/ ParseAnswer(c) \/ ParseCrashes(c)
              \/ FreeData(c) \/ Unlock(c)

Next == up /\ \E c \in Callers : \/ Call(c) \/ Lock(c) \/ Work(c)
                                 \/ WriteData(c) \/ TransferFails(c) \/ TransferEnds(c)

\* The owner of the mutex runs.  The requests are assumed to get through in the end:
\* of the transfers tried again and again, one gets past each stage, a stage being
\* the number of pieces still to come.
Stages == UNION {0..(Len(b) + 1) : b \in Bodies}
Transfer == \E c \in Callers : WriteData(c) \/ TransferEnds(c)
Fairness ==
    /\ WF_vars(up /\ \E c \in Callers : Work(c))
    /\ \A n \in Stages : SF_vars(up /\ Len(todo) = n /\ Transfer)

Spec == Init /\ [][Next]_vars /\ Fairness

-----------------------------------------------------------------------------
(* Properties. *)

Pieces == BodyPieces \cup {"none", "header"}

TypeOK ==
    /\ pc \in [Callers -> Labels]
    /\ curl_mutex \in Callers \cup {Nobody}
    /\ dat \in [Buffers -> [of : Callers \cup {Nobody}, piece : Pieces]]
    /\ todo \in Seq(BodyPieces \cup {"header"}) /\ body \in Seq(BodyPieces)
    /\ url \in [Callers -> Callers \cup {Nobody}]
    /\ up \in BOOLEAN /\ stale \in BOOLEAN

\* What the buffers hold belongs to the thread in the exchange, also after failed
\* attempts; when the mutex is free they are empty (curlGetDat.c:36-56 and 102-122).
BuffersBelongToOwner ==
    \A b \in Buffers : dat[b] # NULL => dat[b].of = curl_mutex /\ curl_mutex # Nobody

\* The JSON that is expected is never misread if it arrives in one piece, whatever
\* attempts failed before (curlGetDat.c:36-49 and 102-115): it takes an empty body, one
\* in pieces or one that is something else to end the process.  What a failed attempt
\* has left is parsed in place of the answer by getpushurl alone, and only if the body
\* is empty: the header is stored over it otherwise (line 95).
OnlyOddBodiesCrash ==
    /\ ~up => body # <<"whole">>
    /\ \A c \in Callers : pc[c] = "parse" /\ stale => body = <<>> /\ c \notin Secret

\* The requests implement UrlService: served one at a time, each caller gets its own
\* answer, the mutex is given back only then.
Service == INSTANCE UrlService WITH holder <- curl_mutex, answer <- url
ImplementsService == Service!Spec

\* ... and in the end: who is served has its answer, and the service is free for the
\* next one, unless a parse ends the process.
ServedInTheEnd ==
    \A c \in Callers :
       curl_mutex = c ~> (url[c] = c /\ curl_mutex = Nobody) \/ ~up

\* The manual of libcurl on the callback (CURLOPT_WRITEFUNCTION.3:42-43): "you must
\* not make any assumptions. It may be one byte, it may be thousands".  A complete
\* answer that arrives in pieces is read as well.
AnyPiecesAreRead ==
    body # <<>> /\ (\A n \in 1..Len(body) : body[n] \in {"whole", "part"}) => up
=============================================================================
