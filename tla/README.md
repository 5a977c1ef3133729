# TLA+ models of the unidoli camera program

The program runs on a HiSilicon camera: it joins a WiFi network (configured by sound),
keeps an MQTT connection for commands, streams video over RTMP with a vendor library, and
drives a pan-tilt head over a Modbus serial line. It has no tests and no design document;
the models are translated from the C code under `src/src/`. File names below are relative
to that directory.

## 1. Inventory

| Part | Source | State it keeps | Operations | Interacts with |
|---|---|---|---|---|
| Boot, main loop, supervision | `unidoliMainAPP.c` | `netStatus`, `lastNetStatus`, indices into `domain[]` | boot loop, `restart:`, one-minute check, `networkStatusPthread`, `termination` | creates the service threads; raises SIGUSR1 / SIGUSR2; calls `getip`, `getKeyStatus`, `configureWIFI` |
| RTMP control | `rtmp.c` | `rtmp_status`, interval timer | `rtmpStart` (SIGALRM, SIGCHLD, direct call), `rtmpStop` (SIGUSR1), `rtmpPthread` | reads `unidoli.conf`; calls `getpushurl`; starts and stops the streaming library |
| HTTP requests | `curlGetDat.c` | `curl_mutex`, `rtmp_dat`, `secret_dat` | `getpushurl`, `getSecret`, write callbacks | libcurl; callers are the RTMP and MQTT code |
| MQTT client | `iot.c` | `loop_mqtt`, files `unidoli.conf`, `dvcSecret`, `unidoli.ver` | `MqttPthread`, `mqttStop` (SIGUSR2), `configArrived`, `updateArrived`, `controlrrived` | vendor IoT SDK; raises SIGCHLD; runs `system()`; calls `panMsgDeal`, `getSecret` |
| WiFi set-up and key | `wpa2/src/wpa2APP.c` | `wpa_supplicant` configuration, GPIO | `configureWIFI`, `set_wifi_config`, `getWIFIConfigureStasus`, `getKeyStatus`, prompts | audio decoder, `wpa_ctrl`, `reboot` |
| Audio frame decoder | `wpa2/src/audio_transfer_fft.c` | `ptr`, `Dat_Len`, `Freq_Dat_buffer`, `Last_Freq` | `audio_transfer_analysis` | fed with PCM frames by the audio device |
| Audio device | `wpa2/src/unidoli_audio.c` | vendor audio channels, codec, amplifier pin | start, read, play, release | vendor library |
| Time and lookup | `network.c` | sockets | `getip`, `getNtpTime` | boot loop, network thread |
| Serial port | `modbus/serial.c` | `serial_mutex`, the descriptor | `SerialInit`, `SerialReadUnblock`, `SerialClose` | `modbus_app.c` |
| Modbus, pan-tilt | `modbus/modbus.c`, `modbus_app.c` | frame buffers | `YDLModbusPack`, `YDLModbusAnalysis`, `panMsgDeal` | serial port; called from the MQTT thread |
| MAC address | `getaddr/getMacAddr.c` | the client id | `clientID_init`, `getClientID` | everybody reads it |

Not the program's own: `json/cJSON.c`, libcurl, the IoT SDK with mbedtls, libunidoli_rtmp,
the HiSilicon libraries and their sample `sample_comm_sys.c`.

What makes it hard:

* the services are driven by **signals**. `raise` runs a handler in the raising thread, but
  SIGALRM and the SIGCHLD of a child go to any thread, so `rtmpStart` can run on top of
  anything, including another activation of itself that holds `curl_mutex`;
* main and the network thread share `netStatus` **without a lock**, and main reads it twice;
* threads are created on each restart, never joined, and **share global flags**;
* every network operation retries for ever, with a mutex held;
* one `goto` (restart) skips what the end of the loop does.

Correctness, part by part. *RTMP control*: the flag does not lie about the stream; nothing
streams after a stop; the stream follows what main decided and uses the newest
configuration; no thread locks itself out. *Supervision*: services are never started twice;
main's belief matches its commands; a loss is noticed within a bounded number of checks and
never invented; lasting losses and returns are acted upon. *HTTP*: one request at a time,
each caller gets its own answer, buffers do not leak between requests. *MQTT*: a stop ends the
running client and no other. *Decoder*: a frame heard whole is returned as played; lost tones
lose frames but forge no answer. *Serial*: the mutex is held exactly while the port is open, a
read ends, an answer belongs to the request it is read for. *Configuration file*: no update is
lost, a read that nothing overlaps returns the newest version. *WiFi set-up*: the network that
was chosen is stored whole, and found again at the next boot. *Audio device*: what is enabled is
released. *Modbus*: the head moves as the message means, only a pressed key counts as one.
*Boot*: no step holds the device for ever.

`PROJECT.json` lists every part and every hazard with its line and the properties that
cover it.

## 2. Plan

| Order | Module | Content | State |
|---|---|---|---|
| 1 | `RtmpControl` | start and stop as nested signal handlers, with the threads that raise them | done, 8 theorems |
| 2 | `Supervisor` | main loop, network thread, unprotected flags | done, 6 theorems |
| 3 | `UrlService`, `CurlFetch` | abstract request service; requests with libcurl, refinement | done, 4 theorems |
| 4 | `MqttClient` | MQTT threads around `loop_mqtt`, device secret, failing authentication and subscriptions | done, 5 theorems |
| 5 | `FrameChannel`, `AudioDecode` | abstract channel; the frame decoder with its 8-bit pointer and the phone that plays to it | done, 4 theorems |
| 6 | `Serial` | port, mutex, the two users of the line | done, 3 theorems |
| 7 | `SafeRegister`, `ConfigFile` | abstract safe register; write-then-truncate of `configArrived` against the 12-byte reads, power cuts, refinement | done, 5 theorems |
| 8 | `AudioDevice`, `WifiSetup` | the two audio services; `configureWIFI` and the requests to `wpa_supplicant` | done, 3 theorems (in `Device`) |
| 9 | `Modbus`, `PanTilt` | frames byte by byte; `panMsgDeal`, `getKeyStatus` and the line | done, 2 theorems (in `Device`) |
| 10 | `Device` | 8 and 9 composed with the boot loop, NTP and the reboot | done |

Abstract specifications: `UrlService`, `FrameChannel`, `SafeRegister`.

Every safety invariant and action property of the runs is a theorem but `ImplementsChannel`,
which depends on the texts that are played; `AnswersWerePlayed` is one when no tone is missed and
no text holds the header inside (section 5). A further composition, `Supervisor` driving `RtmpControl` and `MqttClient`, would
be too large for one run; the two have the commands of main as actions of their own.

## 3. Modules

### RtmpControl (`rtmp.c`, with `iot.c`, `curlGetDat.c`, `unidoliMainAPP.c`)

An activation of a handler is the pair of its thread and its `signo`: `"IO"` is the direct
call by `rtmpPthread`, `"ALRM"` and `"CHLD"` run `rtmpStart`, `"USR1"` runs `rtmpStop`, and
`"SECRET"` stands for `getSecret` in the MQTT thread. `nest[t]` is the stack of activations of
thread t; `Enter` pushes one (a signal is blocked only while its own handler runs, as
`signal()` does), and only the top one moves. `pc[t][f]` is the line an activation is at:

| Label | Lines of `rtmp.c` | Action |
|---|---|---|
| guard | 54-55 | `StartIgnored`, `StartAccepted` |
| mark | 56 | `StartMark` |
| halt | 58-62 | `StartHalt` (may fail) |
| read | 63-98 | `StartRead`, `StartNoFile` (`exit(1)`) |
| lock, fetch | `curlGetDat.c` 17, 33-62 | `LockCurl`, `FetchUrl` (`FetchSecret` for 99-128) |
| apply, launch | 100-108, 109-114 | `StartApply`, `StartLaunch` (may fail) |
| stop, clear | 22-27, 28 | `StopHalt` (may fail), `StopClear` |

`conf` is the file, `snap` what an activation has read of it, `libconf` the argument of the
last `unidoli_rtmp_set_config`, `stream` the vendor library. `failed`, `raced`, `reordered` and
`missed` record that the last call of the library, to stop or to launch, failed; that a start and
a stop overlapped; that an older configuration was set over a newer one; and that main stopped the
services with `netStatus` 1 by the time it copied it (`unidoliMainAPP.c` 107-109). No guard reads
them. The properties name these cases because in them the code does not keep its promise: without a
lock between handlers, a stop that overlaps a start may leave a running stream with `rtmp_status`
0, a failed stop leaves it too, and after the race on `netStatus` the stream is off though main has
noted the network as up, until the network is lost once more.

Abstractions: the file is read and written in one step (`ConfigFile` has the steps); a
failed HTTP request is a stutter, since it is retried for ever; one MQTT thread is modelled;
threads internal to libraries are left out; the vendor library is a flag that a call changes or,
when it fails, does not.

### Supervisor (`unidoliMainAPP.c`)

One action per step of main between two accesses to shared state, so that the network thread
can run between the test of `netStatus` (line 107) and its copy (line 109). `command` is the
last order the services got, `missed` that line 109 copied a 1, `restarts` counts starts
since the key was pressed, `steady` says that the network has been up, and `i` in the array,
since `netStatus` was cleared, and `checks` counts how often main has looked since the network
went down.
`i` starts at any value of `FirstIndex`, as it is never initialized; an index outside
`domain[]` makes the lookup fail or crash.

Time: during one `sleep(60)` of main the network thread completes at least `ProbesPerSleep`
lookups. It sleeps 3 seconds between lookups, so 2 means lookups of less than 27 seconds.
The properties that need it say so. A lookup fails exactly when the network is down.

### UrlService and CurlFetch (`curlGetDat.c`)

`UrlService` says what callers may rely on: `Serve` one caller at a time, `Answer` it with its
own answer, `Release`. `CurlFetch` is the code: mutex, retry loop, libcurl calling the write
callback once per piece, parsing of what the callback kept, freeing, unlocking. The refinement
maps `holder` to the mutex owner and `answer` to the output buffers. A body is the list of its
pieces, each the `"whole"` JSON that is expected, a `"part"` of it, or a `"page"` of something else,
since the HTTP status is never tested; it may be empty. `getSecret` also gets the header as a piece
(`CURLOPT_HEADER`). For anything but the whole body cJSON returns NULL, or an object without the
members, which the code does not test, so the process ends (`ParseCrashes`). With an empty body the
callback stores nothing: getpushurl then parses NULL or what a failed attempt has left, which is
taken for the answer if it is whole; getSecret parses the header. `body` and `stale` are history
variables for these cases.

The early return on a negative result of `snprintf`, which would keep the mutex, is not
modelled: the format strings are constant and cannot produce an encoding error.

### MqttClient (`iot.c`, with `unidoliMainAPP.c`)

`pc[t]` is where the thread of one start is:

| Label | Lines of `iot.c` | Action |
|---|---|---|
| created | 485-488 | `Begin` installs `mqttStop` |
| alloc, auth, construct, subscribe, version | 262-424 | `Proceed`, `GiveUp` (not at version) |
| secret, fetch | 274-300 | `ReadSecret`, `FetchSecret`, `NoFile` (`exit(1)`, also at version) |
| yield, test | 456-459 | `Yield`, `TestLoop` |
| reset | 460 | `Reset` sets `loop_mqtt` to 1 |
| leave | 462-492 | `Leave` |

A write of the secret may fail or be short, which nobody tests (293-294): the file may be empty
again at the next start. `getSecret` has no timeout, so a client that asks for its secret while the
network is lost may stay there (`Held`).

`NetLost`, `NetBack` and `KeyPressed` are what main and the network thread do to the services
(`Supervisor` has when they do it). Five history variables name the cases in which the one
flag is not enough: `overlapped`, an earlier thread was still alive at the last start; `stale`,
the flag was 0 then; `gaveUp`, a client has failed since; `missed`, a stop found no client that
was going to test the flag. `missed` matters because nobody but a client that leaves sets the
flag to 1: after a stop without a client, the next client ends after one round of its loop and
sets it to 1, and the stop that follows finds no client again.

### FrameChannel and AudioDecode (`wpa2/src/audio_transfer_fft.c`, `wpa2/src/wpa2APP.c`)

`AudioDecode` is `audio_transfer_analysis` from the test against `Last_Freq` on, one action for
each branch of its `if`, and the loop that keeps the answers. The phone is not in the
repository: it plays frames as the decoder accepts them, one tone per symbol and the free tone
after it, a frame at a time, and the camera begins to listen at any tone. Tones may be missed
(`Miss`) and others heard (`Stray`), up to `MaxNoise`, of which `MaxStrays` are heard; a tone may last for any
number of windows (`HearAgain`). The spectrum and the vote over ten windows are left out, so a
disturbance is one frequency that wins the vote. An answer is kept by `strcpy`, up to its first
zero byte (`TextOf`).

`began`, `clean`, `pure`, `got` and `before` are history variables. `FrameChannel` is what the
service may rely on: some of the frames are received, each at most once, as played, in order,
and while it or the next one is played: when the last symbol of the trailer is lost, the first
symbol of the next frame, also a 0, completes the frame. `AudioDecode` implements it with one
missed tone. With two it does not, since there is no checksum: a lost symbol of the length may
make a frame of other symbols; but not one that counts as an answer (`AnswersWerePlayed`).

Two things the decoder does not do are stated as properties, as the code has them. A frame of
240 symbols (60 bytes) or more is never received, since `ptr` has 8 bits and the frame 16
symbols more than its length (`FrameInSyncReturned`). And a decoder that is out of step does
not fall into step by frames alone, since it takes the last symbol of a trailer for the first
of a header (`OutOfSyncStays`), unless the payload holds the header once more, at any place
(`HeaderInside`): then it may take that one for the beginning.

### Serial (`modbus/serial.c`, with `modbus/modbus_app.c` and `wpa2/src/wpa2APP.c`)

`panMsgDeal` locks, opens, sends, reads and closes; `getKeyStatus` does the same but gives up
when the mutex is taken (`Busy`) and flushes the port first (`Flush`). A read takes what fits;
time is left out, so that a read may time out whenever nothing is pending, and an answer may
come at any time, also too late; a signal may interrupt the wait with an answer pending
(`Interrupted`). A byte is a piece of an answer, named for its request. The
driver may keep what is pending when the port is closed (`Close`).

### SafeRegister and ConfigFile (`rtmp.c`, `iot.c`)

`SafeRegister` promises the reader of a file that a read which overlaps no write returns what
was written last; an overlapped one may return anything. `ConfigFile` is the code: `file` is the
sequence of bytes, `buf[u]` what a thread has read, in pieces of `Chunk` bytes.

| Label | `rtmp.c` | `iot.c` | Action |
|---|---|---|---|
| idle | 63-67 | 169-197 | `Open`, `OpenFails` (`exit(1)`) |
| read | 68-78 | 198-208 | `ReadPiece`, `ReadFails` |
| parse | 82-108 | 211-214 | `UseText`, `TextCrashes` |
| write | | 215-239 | `WriteText`, `WriteFails` |
| truncate | | 240 | `Truncate` |

A write may be short, a read may fail, and the power may be cut between any two steps; the file
stays as it is then: what has been written is taken to be on the disk, in order, although the
program never calls `fsync` (239-240). `wanted` is the configuration that all updates make up, `clean[u]` that
nothing has disturbed the read of u, `spoilt` that a write was short or two updates overlapped:
in these cases the code keeps no promise. All that is used of JSON is that no text begins
another one, which is an assumption on `Text`. It is why a longer old text behind a
shorter new one does no harm. `configArrived` tests the wrong pointer after parsing
(line 212), so that a text it cannot parse ends in `TextCrashes` as it does in `rtmpStart`. A
message that names no field closes a descriptor that was never set (line 245); when that is
another thread's, the calls of this one fail, which they may here at any time.

### AudioDevice and WifiSetup (`wpa2/src/wpa2APP.c`, `unidoli_audio.c`, `sample_comm_sys.c`)

`AudioDevice` has the steps of `unidoli_wave_player_service` (58-99) and
`unidoli_audio_config_service` (105-172): `stage` is idle, sys, config, run, stop_ai, stop_ao,
exit, done, `prompt` which of the two it is, `media` what is initialised or enabled. Each call
into the chip's library may fail; `trouble` records which failures leave something behind by
themselves. `WifiSetup` is their caller: `job` is the step of `configureWIFI` (ask, listen, set,
confirm, reboot) or the report at boot. `set_wifi_config` is a list of requests; each is obeyed,
refused with a text that nobody looks at, or not answered, having been obeyed or not. `supplicant`
is the network of the running `wpa_supplicant`, `stored` its file, `chosen` the last answers of the
phone that were saved with nothing refused. A text is a sequence of characters, of which `delspace`
(427-436) drops the blanks, tabs, line ends and quotes before the stored name and password are
compared with a new device's (`LooksNew`): a chosen `uni doli` is taken for it too. Which of two prompts the report plays is left out.

### Modbus, PanTilt (`modbus/modbus.c`, `modbus/modbus_app.c`, `wpa2/src/wpa2APP.c`)

`Modbus` has the frames as functions on bytes: `YDLModbusPack` with its 8-bit checksum,
`YDLModbusAnalysis` as `Accepts` and `Members`. `PanTilt` has the exchanges: `SendOrder` is
`panMsgDeal` up to the sending, `AskKey` and `KeyEnds` are `getKeyStatus`. The head is not in the
repository: it is taken to analyse a frame as `modbus.c` does, and to do and to answer what the
frame says. The line loses a frame, cuts it short, changes one byte, or hands it back (`Echo`), in
both directions. The buffer of `getKeyStatus` still holds the request where the answer is shorter
(`KeyBuf`), and an answer without a member leaves the tag to what is on the stack (`KeyOf`).
The numbers of a message are ints, as cJSON has them (`OrdersAssumption`).
The port, its mutex and late answers are in `Serial`.

### Device (`unidoliMainAPP.c` 27-76, `network.c`)

`Device` extends `WifiSetup` and `PanTilt` and puts main around them: `where` is off, check
(45), report (48), key (57), lookup (61-75), setup (inside `configureWIFI`), running, crashed.
After the boot loop the thread stands for `networkStatusPthread`, which asks for the key too;
orders arrive from then on, since no MQTT thread exists before. A lookup is one step. `leaked` counts
the sockets that `udpSend` never closes, up to `FdLimit`; `i`, which is never initialised, starts at
-1 to 2 or at `Wild`, an index that never comes to be one of the array. Entering the set-up resets
both, as it ends in a reboot. A stored name too long for the 25 characters of `getva`, or such a
password under a new device's name, may crash it at the check (`CheckOverruns`). The power may be cut at any step.

## 4. Runs

Every run checks an exhaustive state space. `CHECK_DEADLOCK FALSE` is set where the program
ends (exit, reboot, crash) or its inputs are used up.

| Run | Instance | Shows |
|---|---|---|
| `rtmp_signals` | 1 rtmpPthread, both asynchronous signals, 1 signal delivered, 1 new configuration | the only way to block is a self-deadlock; the flag is no lie; the stream uses the newest configuration |
| `rtmp_restart` | 2 rtmpPthreads, no asynchronous signal, configurations that fetch the URL, 1 new one | stopped stays stopped; the stream follows main; no self-deadlock; activations end |
| `supervisor` | first index below, in and past the array; 7 threads; counter of checks up to 5 | belief, restarts after the key, no invented loss, loss noticed by the fourth check, no second start; lasting losses and returns are acted upon |
| `curl` | 3 callers, bodies whole, in two pieces, something else, or empty | buffers belong to the owner; a whole body is never misread; implements `UrlService`; each request is served in the end |
| `curl_pieces` (violation) | as `curl` | a body in two pieces ends the process, though libcurl's manual says that pieces have any size |
| `mqtt` | 3 MQTT threads: a start and two restarts | a stop reaches its client and is spent on it; no client leaves unasked; lasting commands are obeyed |
| `sound_long` | frames of 4, 236, 240 and 252 symbols, no disturbance, any first tone | frames in step are returned if they fit |
| `sound_noise` | a name and a password of one letter, 2 disturbances, at most 1 of them a stray | out of step stays out of step; without strays what is kept was played, and with 1 missed tone `FrameChannel` is implemented |
| `serial` | 2 panMsgDeal threads and getKeyStatus, 3 requests, answers of up to 3 pieces, buffers of 2 and 3 | one owner; getKeyStatus reads its own answer; an access ends or spins |
| `serial_read` (violation) | as `serial` | a read with a full buffer and more pending never returns, though its comment says that it does not block |
| `conf` | one thread in rtmpStart, one in configArrived; 2 fields of 2 values, texts of 3 to 5 bytes, pieces of 2, buffer of 6 | updates are kept, also over a power cut; only disturbed reads are garbled; what is read fits; implements `SafeRegister` |
| `device` | the new device's name, the same with a blank in it and one long name, 2 passwords (one of them taken as long) and none, 5 messages (negative, 16-bit limits, too large, incomplete), bytes off by 1 and -1, 2 sockets | what is chosen is stored whole and not asked for again; audio is released; head and key are understood; the device boots |

The type invariants, and what section 5 lists without a run, are theorems and are not checked
again by TLC.

Bounds. One asynchronous signal is enough to interrupt an exchange, a stop or another
activation (a self-deadlock needs one); one new configuration is enough for two activations to
read different files; two rtmpPthreads allow a loss, a return and a second loss.
Three MQTT threads allow a client to be held up over a whole restart and the one after it.
The frame lengths of `sound_long` are the ones next to the wrap of `ptr`; the texts avoid the
patterns of header and trailer but for the password, whose `P` followed by its letter has a
trailer in it. Three pieces overrun a buffer of 2, and three requests let one answer be late for
two of them.
Texts of 3 to 5 bytes with pieces of 2 have the cases that matter for the file: a new text
shorter and longer than the old one, one that fills its last piece, and one that does not.
`FdLimit` 2 lets the boot loop succeed with sockets lost and run out of them. In `device`
the set-up is repeated without bound, with every combination of failures.
The fourth check is tight: TLC refutes three. `MaxChecks` is one above it. `ThreadLimit` 7
allows three rounds of restarts and then the failing `pthread_create`.

Fairness. `RtmpControl`: each thread is scheduled (weak fairness of its next step) and the HTTP
request gets through in the end, without which the retry loop runs for ever. `Supervisor`: weak
fairness of main and of the network thread; nothing obliges the network, the key or an operator
to act. `CurlFetch`: weak fairness for the own steps of the mutex owner (nobody
else has any of them), and strong fairness for each
stage of a transfer, since the transfer is tried again and again and is assumed not to fail at
the same stage for ever. No fairness is assumed for getting the mutex. `MqttClient`: each thread
is scheduled, the SDK returns in the end, and `getSecret` does while the network is up; while it is
lost nothing obliges it to (`Held`). `Serial`: the thread that has the
mutex is scheduled; nothing obliges the head to answer or anybody to call. `AudioDecode`: none,
as a phone may stop at any time. `ConfigFile`: none, its properties are safety. `Device`: weak
fairness of the thread's own steps and of the exchange under way, and, an assumption on the
network, strong fairness of `NtpAnswers`: one of the servers asked time and again answers some
time. Nothing obliges the phone, the key or a message to come.

Each property has a mutant in the module, an operator named in `PROJECT.json` under `mutants`:
the code with one plausible mistake, which the run of the property must refute.

## 5. Proofs

All theorems hold for any threads, configurations and bounds that satisfy the `ASSUME`s of
the module (threads are distinct; bounds are natural numbers).

* `RtmpControlProofs`: `TypeCorrect`; `MutexCorrect`, which needs that an activation in its
  exchange owns the mutex and that the stack and `pc` agree; `BlockingCorrect`, from the same
  invariant: the owner of the mutex is at its exchange, so either it can go on, or a handler on
  top of it can, or that handler wants the mutex; `StatusCorrect` and `StoppedCorrect`, whose
  invariant says for each activation under way what it will still do to the flag.
  `NoSelfDeadlockCorrect` from `AloneInv`: without an asynchronous signal a thread runs one
  activation at a time. `FollowsCorrect` from three invariants: where each activation comes from,
  and that before the first `rtmpPthread` has installed its handlers there are none of rtmpStart
  (`OriginInv`); while main wants the stream, it is up, a call of the library has failed, or a start is under
  way (`WantedInv`); when a stop of main is past the library, nothing is (`UnwantedInv`).
  `LatestConfCorrect` from `ConfInv`: unless an older configuration was set over a newer one, the
  library has the file's or an activation with the file's is on its way to it.
* `SupervisorProofs`: `TypeCorrect`; `StartsAlternate`, `BeliefCorrect` and `KeyCorrect` from
  an invariant that relates main's position to `command` and `lastNetStatus`. `NoFalseLossCorrect`
  from `SteadyInv`: while the network has stayed up each lookup that a sleep of main completes has
  set `netStatus`. `LossCorrect` from `OfflineInv`, which follows main check by check after a loss:
  a lookup under way may still set the flag before the second check, nobody does after it, and
  main needs two more to see that. Both need two lookups per sleep, as the properties say.
* `CurlFetchProofs`: `TypeCorrect`; `BuffersCorrect` and `ServiceImplemented` from `OwnerInv`:
  a caller is between lock and unlock exactly if it owns the mutex, the other buffer is empty,
  and it has its answer from the parsing on. `BodiesCorrect` from `PieceInv`: what is still to
  come of a transfer is an end of its response, so that what is kept at its end is the last piece of
  the body, unless the body is empty.
* `MqttClientProofs`: `TypeCorrect`; `StopReaches`, `StopSpent` and `LeavesWhenAsked` from
  `LoopInv` (`LoopCorrect`): one client at a time unless a start has overlapped; a stop stays in
  the flag until its client takes it; a flag that is 0 has somebody to take it unless a stop was
  missed; the flag is 1 for a client that starts afresh.
* `SerialProofs`: `TypeCorrect` and `OwnerCorrect` together, since the buffer in use is the
  mutex owner's; `KeyReadsOwn` from `KeyInv`: once getKeyStatus has flushed the port with the
  head silent, only pieces of its own answer are about.
* `AudioDecodeProofs`: `TypeCorrect`; `FrameReturned`, for any payloads, from `SyncInv`: when h
  symbols of an undisturbed frame have been heard and h is at most 255, the buffer holds exactly
  these and `Dat_Len` is the frame's length from the twelfth on; after more than 255, `ptr` is
  behind by 256 and fewer symbols are left than a payload and its trailer need. `LostStaysLost`
  from `LostInv`: a decoder that begins a frame 1 to 3 symbols too far holds a beginning of the
  header that ends where the phone is, so it cannot get past 8 symbols without a header inside,
  and after the 2 and the 0 of the trailer it has 1 symbol again. `UndisturbedAnswersCorrect`,
  that the answers kept are answers played when no text holds the header inside and no tone is
  missed but those before the camera listens, from `UndisturbedInv`, which joins the two: a frame
  is followed, or the thread is lost and `LostInv`'s beginning of a header is all there is, also
  for the frame heard from its middle and for the rest of a frame that is too long, after the
  wrap. Between frames the decoder has at most 1 symbol, so each frame begins in one of the two
  ways; only a frame that was followed to its end is returned (`ReturnAtEnd`).
* `ConfigFileProofs`: `TypeCorrect`; `UpdatesHeld`, `ReadsFit`, `CrashesOnlyDisturbed` and
  `RegisterImplemented` from an invariant that holds unless `spoilt`: the file begins with
  `Text[wanted]` at any time; a clean reader holds a beginning of the file, and where it stops
  the whole text is in it; what a client is going to write over is `wanted`; a truncation
  cuts after `Text[wanted]`. It needs that no text begins another one (`TextAssumption`): two
  configurations cannot both be read from the same file. Leftovers behind the text are bounded by
  the longest text, which gives `ReadsFit`.
* `DeviceProofs`: `StoredChosen` and `NoSecondSetUp` from `WifiInv`, which says for each rest of the
  list of requests what the running `wpa_supplicant` has been told already; `Released` from
  `AudioInv`, which says what may be enabled at each stage. `OnlyPressedKey` and `HeadObeys`, for
  any messages and any changes of one byte, from `PanInv`, which says what can be on the line at
  each point of an exchange, and `OnlyIntact`: of all that the line makes of a frame, the analysis
  takes only the frame itself. A shortened one has the wrong length, also with older bytes
  behind it; a changed byte changes the sum by less than 256 (`ChangeDetected`). The sum of
  `CalcLrc` is a recursive function; what it computes for a message of any length is proved by
  induction over the set of lengths for which it holds (`SetInduction`, from `WFMin` of the
  library). `OneMember` says in the same way what `YDLModbusAnalysis` finds in an answer.

Only model-checked: `AnswersWerePlayed` with missed tones and `ImplementsChannel`, which are true
of the texts of the run and not of all texts, since a text that has headers and trailers in its
bits may break them when a tone is missed;
and everything about liveness (`ActivationsEnd`, `LossEndsServices`, `ReturnRestoresServices`,
`ServedInTheEnd`, `StopEndsClients`, `StartIsServed`, `Boots`, `AccessEnds`), which is out of the
prover's reach, as `ENABLED` is.

## 6. Not modelled

* Third-party and vendor code, which is most of the repository: the headers of mbedtls, libcurl
  and the HiSilicon SDK, and cJSON make up nine tenths of its lines, and the vendor's sample code
  most of `sample_comm_sys.c` (of which `SYS_Init` and `SYS_Exit` are used). The program's own C
  code is about 3000 lines, and every part of it that changes state is in a module except those below.
* The spectral analysis of the audio decoder: floating-point arithmetic.
* `updateArrived`, which passes a URL to `wget` and runs the script that comes back; `modbusPolling`,
  `SerialReadBlock` and the tag tables of `modbus_app.c`, which nothing calls.
* `getMacAddr.c`, which sets a string before any thread exists, the fields of the NTP packet, the
  settings of codec and serial line, LEDs, and which prompt is played.
* `curl_global_init`, which `getpushurl` and `getSecret` call on each request while other threads run:
  libcurl's manual forbids it and does not say what happens then.
* Memory that is never released, and descriptors but for those of `network.c`.
* The message texts that fill fixed buffers (`set_network[100]`, `down_cmd[64]`), except for the
  stored name and password (`CheckOverruns`).
