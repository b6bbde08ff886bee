# FPNN: specifications and proofs

FPNN is a C++ RPC framework: servers and clients exchange *quests* and
*answers* over TCP or over a reliable UDP of its own. This directory holds TLA+
modules translated from the code, the TLC configurations that check them, and
TLAPS proofs. `PROJECT.json` lists the components, the runs with their
properties, the lines each definition stands for, the hazards, the findings and
the theorems; this file explains them.

    tlc -workers 2 -config ArqSafety.cfg MCUdpArq       # one run
    tlapm UdpArqConfirm_proofs.tla                      # one proof module

## 1. Inventory

| Component | State it keeps | Operations | Meets others through | What is hard |
|---|---|---|---|---|
| **Reliable UDP engine** `core/UDP.v2` | per connection: data queue, `_UDPSeqBase`, `_unconformedMap`, `_sentQueue`, `ARQPeerSeqManager`, parser (`lastUDPSeq`, `unprocessedReceivedSeqs`, `_disorderedCache`), `ParseResult` | `sendData`, `sendCachedData`, `recvData`, `parseReceivedData`, `returnRecvToken` | one mutex; send and receive tokens; datagrams | loss, duplication, reordering; wrapped sequence numbers; stale feedback; expiry; two threads |
| Segmentation `UDPAssembler`, `ARQParser` | `_sendingSegmentInfo`, `_packageIdNumber`, `_uncompletedPackages` | fill a datagram, cut large data, reassemble, cancel, clear the cache | sections of the ARQ's packages | segments early, repeated, cancelled; limits; ids that wrap |
| Key exchange, encryption | ECDH copy, `_ecdhPackageReference`, encryptors | set up, resend until confirmed, recognise a resent copy | parser and sender | nothing is sent until the ECDH package is confirmed; reference read by the other thread |
| UDP send buffer and token | `_currentSendingBuffer`, package marks | take token, send, partial send, reset | unconfirmed map | who may delete a package that is being sent and confirmed at once |
| UDP congestion control | rates, clocks | update, limit | sender | none but time |
| UDP server | connection maps, thread pools, epoll set | accept, init connection, read, idle timeout, close, stop | epoll, reclaimer, engine | raw datagrams before the socket joins epoll; close against work in progress |
| TCP client, client engine, UDP client | connect status, connection info, callback maps, epoll set | connect, reconnect, `sendQuest` (sync, async), `close`, timeouts | condition variables, I/O and callback threads | answer, timeout and close race for one callback; several threads close one connection; a descriptor used again; a connect finishes after a close |
| TCP server | connection maps, reference counts, one-shot epoll | accept, read, write, send answer, timeout check, stop | epoll, reclaimer, work pools | lost write wake-ups, use after close, stop while accepting |
| TCP buffers | output queue, send token, encryption switch | append and send, continue on writable, start encryption | I/O threads and callers | token hand-over between two threads; EAGAIN between a check and re-arming |
| Quest processing, answers | answer status per quest, `AdvanceAnswer` | answer in the method, early, or asynchronously | work threads | an answer sent twice or never |
| Thread pools, timer | queue, counts of normal, temporary and busy threads | wake up, append threads, time out, release | condition variable | growth condition, lost notifications, release with tasks queued |
| Connection reclaimer | connections awaiting deletion | reclaim, scan | reference counts | delete while referenced |
| Extension proxies | client map, answer counters | consistency and broadcast quests | callbacks of several clients | exactly one report for any order of answers |
| Raw clients, HTTP/WebSocket, protocol messages, configuration, logs, containers, kqueue twins, vendored cryptography | | | | not planned: no protocol of their own, or no concurrency |

What makes each correct:

* **Reliable UDP engine**: reliable data arrives at most once, in order where
  order is promised, is never lost while the connection lives, and is not
  confirmed before it arrived; feedback never goes back; limits hold; resending
  ends.
* Segmentation: what is put together is one whole unit, deciphered in step; no part of
  an unexpired unit is lost.
* Key exchange: both sides start to decrypt at the same package; no deadlock.
* Send token, buffers: bytes leave once and in order; queued bytes are sent or
  the connection closes; no package is used after it was deleted.
* Clients: each quest's callback runs exactly once; a synchronous caller wakes;
  a connection is closed by one thread and deleted when nobody uses it.
* Servers: a connection is closed once and deleted only when nobody refers to it.
* Answers: at most one per quest, and an answer or an error eventually.
* Thread pools: each accepted task runs once and waits for nothing while threads may
  be had; released pools have no threads.

## 2. The reliable UDP engine: `UdpArq`

### Modules

| Module | What it holds |
|---|---|
| `SeqArith` | the unsigned 32-bit arithmetic of sequence numbers: addition, wrapped difference, the "newer than" comparison, the disorder tolerance. `SeqSpace` stands for 2^32 |
| `UdpArq` | the engine: two `UDPIOBuffer`s and the network between them; all safety properties |
| `ReliableDelivery` | the abstract promise of the reliable connection: accept a unit, let a deadline pass, hand units over |
| `UdpArqLive` | fairness and the liveness properties |
| `MCUdpArq`, `MCUdpArqLive` | instances for TLC |
| `UdpArq_proofs` | the wrapped comparison, type invariant, flow control |
| `UdpArqConfirm_proofs` | confirmation safety, the UNA moves forward |
| `UdpArqDelivery_proofs` | each unit once, none lost, in order; the refinement; the limits of the cache |

### State and code

Each peer `p` owns one `UDPIOBuffer`. The sender's state is `pushed`/`taken`
(`_dataQueue`: units are numbered as pushed, the queue holds those between the
two), `nextSeq` (`_UDPSeqBase`), `opened` (the first package went out), `unconf`
(`_unconformedMap`). `feedback` is `ARQPeerSeqManager`: `available`, `updated`,
`repeat`, `force` are its flags, `received` is `receivedSeqs` and `fed` the
numbers already acknowledged, kept back for the re-acknowledge interval. The
parser's state is `started` (the checksum of the first package is known), `last`
(`lastUDPSeq`), `ahead` (`unprocessedReceivedSeqs`), `cache` (`_disorderedCache`).
`parsing`, `rx`, `parsed`, `result` are the datagram in work and the
`ParseResult`; `reading` is the receive token, `raw` says that datagrams still
take the path of `initConnection`. `delivered` is what the application got.

A *package* keeps exactly what the code tells apart: reliable or not, its number,
the first-package flag, its data units, its UNA, ACKS and FORCESYNC sections, and
whether cutting expired data made it shorter than a COMBINED package may be.

One action is what a thread does between two points at which another may run:

* `Push`, `Expire`: `sendData` queues; the clock passes a unit's deadline.
* `SendUrgent`, `SendCommon`, `SendNothing`, `Resend`: one turn of `realSend`:
  an urgent sync package, a common package, a turn that finds nothing (and still
  answers a FORCESYNC and drops expired data), or due packages resent, one or
  assembled. New packages take resendable ones along (`PaddingResend`).
* `Receive`: the token is taken (or a cached raw datagram picked) and `parse()`
  begins. Then one action per package by the case the parser distinguishes:
  discardable, duplicate, next, ahead of a gap (processed at once or cached),
  ignored, first, early. `ProcessEarly`, `AdvanceLast`, `ProcessCached` are the
  loops that follow. `Continue` gives up the rest of the datagram when the code
  returns false.
* `FinishRecvData`, `ReturnRecvToken`, `FinishRawData`: delivery, and
  `SyncARQStatus`, in which the parse result becomes feedback to give and the
  received feedback confirms packages. The two receive paths end differently,
  and that difference is a finding.
* `JoinEpoll`: `initConnection` is over.
* `Transmit`, `Lose`: the network is a set of datagrams per direction. Delivery
  leaves a datagram there (duplication, reordering); `Lose` removes one, and a
  full channel drops another one.

Left out of the data: bytes, sizes, clocks, encryption. Which units fit, which
package is due and whether an interval is over are nondeterministic, so the model
allows more schedules than the clocks do.

### Properties

| Property | Says |
|---|---|
| `TypeOK` | types; numbers stay in the space; never more units taken than pushed |
| `AtMostOnce` | no reliable unit is parsed twice, whatever is duplicated or resent |
| `ConfirmedWasReceived` | each number sent is still kept for resending, or the peer took it in |
| `NoLoss` | each reliable, unexpired unit that left the queue is in a kept package, cached by the peer, or obtained |
| `InOrderWhenOrdered` | an ordered parser obtains units in the order pushed, skipping expired ones only |
| `UnconfirmedBounded` | flow control: never more packages wait than the limit |
| `NoSpuriousClose` | a peer within its own limit never makes the other close |
| `UnaForward` | the reported UNA never goes back, in wrapped order |
| `ImplementsDelivery` | the engine refines `ReliableDelivery` (`delivered`, `pushed`, `expired` map to themselves, `Ordered` to `DataEncrypted`) |
| `EventuallyDelivered` | a pushed reliable unit arrives or expires |
| `EventuallyConfirmed` | resending ends |

### Runs

| Run | Question | Distinct states |
|---|---|---|
| `ArqSafety` | data-enhanced encryption: ordered parsing with caching, three units, two per package, wrap after the second number, assembling, urgent FORCESYNC at once, flow control at 2, early limit at 1; the deadline of one unit passes while it is queued or under way (encrypted packages are never cut) | 463 k |
| `ArqRaw` | no encryption: four reliable packages that wrap after the first and a discardable unit; gaps, with packages processed ahead of them, seen twice, and beyond the tolerance; acknowledgements by ACKS; feedback that arrives late and out of order; the server starts on raw datagrams | 254 k |
| `ArqLive` | liveness under the fairness below, two units in one or two packages, of which the second may expire and be cut out | 11 k |
| `ArqRawLoss` | the finding, a counterexample | |

Bounds and why they are enough. `SeqSpace` is 8 or 10, and the base one or two below the
wrap, so that the numbers wrap inside a session of two to four packages and the session
stays below half the space, as it does with 2^32. Three packages are the fewest that show a
gap with something on both sides of it (`ArqSafety`), four the fewest of which one is
within the disorder tolerance and one beyond it (`ArqRaw`, `Tolerance = 2`). One datagram
per direction at a time still gives duplication (delivery keeps it), loss and
overtaking (it is replaced by a newer one, and older packages come back by
resending), because each resend is a fresh choice of the unconfirmed packages. What it
does not give is feedback that arrives after newer feedback, so `ArqRaw` has room for two
datagrams on the way back. The unconfirmed limit of 2 is reached and left. `EarlyTolerance`
in `ArqSafety` is one less than that limit: exactly what a peer may have under way besides
its first package; by default the code has 500 against 320. `MaxPackages` is the one
artificial bound, a guard in `SendPackage`; `NetCap` bounds the channel, which is
lossy anyway. Deadlock checking is off because a session that has sent and
confirmed everything stops.

What these bounds do not show:

* In the runs only A pushes data. Feedback of a peer that rides on its own data, and comes
  again whenever that package is resent, is in the model and in the theorems only.
* `ArqLive` has two packages at most, so no gap after the first one, no ACKS and no
  FORCESYNC (each costs more than the time a liveness check may take): acknowledgements
  by ACKS and FORCESYNC are checked for safety only (`ArqRaw`, `ArqSafety`). What is cut out
  of a COMBINED package is all or nothing there: `EventuallyDelivered` fails if a unit is cut
  with another that expired.
* A COMBINED package that becomes too short by a cut, with other packages behind it in the
  datagram, is in no run; `UnitsNotLost` proves that no unit is lost by it.
* The cache limit of the ordered parser (`ParseCache` closing) never fires: more than
  `Tolerance` cached packages need more numbers than a session has. `CacheNeverFull` is the
  theorem.

`MCNext` reduces the interleavings: from `Receive` to the end of a datagram the
parser works on state that nobody else reads or writes (`parsing`, `rx`,
`parsed`, `result`, `last`, `ahead`, `cache`, `started`), so its steps commute
with those of other threads; only the last of them touches shared state. The
datagram in work is therefore finished first. A parser that asked for the
connection to be closed takes no more steps; what its peer does then on datagrams
under way it could also have done before. `KeptNext`, in the two safety runs,
lets a datagram leave the channel only when another one takes its place: a lost
datagram is no different from one that is never received, as nothing but `Receive`
looks at the channel. `ArqLive` has `Lose` itself.

Fairness, in `UdpArqLive`, and why the code justifies it: a parse that began
goes on and ends (weak: the I/O worker runs a loop without waiting); the token is
given back again and again (strong on `ReturnRecvToken`: the reading loop ends when
the socket is empty, which happens infinitely often unless datagrams come faster
than they are parsed); feedback that is due is sent (weak: `sendCachedData` is called for
every connection periodically); the queue drains when flow control allows
(strong); each kept package has its turn in `_sentQueue` (weak, per number).
The network is fair in the usual sense only: it neither loses all datagrams nor
all that tell something new. Nothing is assumed of the order of sending and
receiving, nor that an acknowledgement arrives before the resend.

### Finding

`ArqRawLoss` (`NoLoss`, a bug): before a server socket joins epoll, a datagram
with a new package followed by a duplicate is parsed, its number taken in and
later confirmed, but its quests are dropped with the failed parse result
(`UDPIOBuffer.v2.cpp:780-791`). The unit is never resent nor delivered. The
raw path is why `NoLoss` is not an invariant of `ArqRaw`.

An observation without a run: `FPNN.UDP.ARQ.Protocol.v2.md:81-83` says that the body
of a cancelled package may be ignored, while the parser refuses a COMBINED one that
became too short (`UDPParser.v2.cpp:528-536`) and gives up the packages behind it in
the datagram until they are resent. The model has this (`parsed`, `short`);
no run reaches it with packages behind, but `UnitsNotLost` (section 6) proves that no unit is
lost by it.

### Large data: `UdpSegments`

`UdpArq` takes a data unit as one thing. `UdpSegments`, instantiated by
`MCUdpSegments`, is what `UDPAssembler` and `ARQParser` do to units that do not fit a
datagram, from one peer to the other. It takes the engine below at its word: a
reliable package is parsed once, early or, with data-enhanced encryption, in sequence;
once all of its data expired the copy that arrives may be a cut one; a discardable
package comes any number of times or never.

* `Push`, `PassDeadline`: `pushDataToSendingQueue`; the clock.
* `Send`: `prepareCommonPackage` (or the urgent one with data) and the send. A
  datagram is filled as `fillDataSection` does it: first the next segment of the unit
  under way, or its cancellation if it expired; then whole units; then the first
  segment of a unit that needs more than a datagram of its own. Bytes are counted
  with the code's correction for a datagram of one section (`Spare`).
* `Arrives`, `ArrivesCut`, `ArrivesLoose`: `parseCOMBINED` and `parseDATA` on a
  package, a cut one (`expireCheck`), a discardable one: the cache of uncompleted
  packages (`cache`, by `_packageIdNumber`), its limit, conflicting segments, completion.

The stream cipher of data-enhanced encryption is a count of sections on either side
(`ciphered`, `deciphered`); a section is legible if both are the same. The first
number of `_packageIdNumber` comes from a clock; `encrypted` is chosen in `Init`.

| Property | Says |
|---|---|
| `TypeOK` | types; ids stay in 16 bits, the parser is never ahead of the cipher |
| `HandedOverWhole` | what is assembled is one unit, whole, in order and legible, whatever was early, repeated, cancelled or cleared before; a reliable unit is handed over once |
| `Recoverable` | until an unexpired reliable unit is handed over, each of its bytes is queued, under way or cached, and something more is to come that completes it |
| `EventuallyWhole` | it is handed over in the end |

One run, `SegmentSafety` (141 k distinct states). Datagrams of six bytes and units
of 7, 2, 8 and 1: the first (discardable) and the third are segmented, the
second shares a datagram with the first segment of the third, the fourth with its last one,
with and without feedback in between. The second and third may expire. Ids start two
below the wrap; the cache's limit of two is reached. `MaxReports` is the artificial bound.
Deadlock checking is off because a session with everything delivered stops. Fairness:
`realSend` goes on while there is data (weak, `Send(FALSE)`), and some package that
was not parsed is taken, which is what `EventuallyDelivered` of `UdpArq` gives.

What the model excludes, by name, and what it shows:

* `Recoverable` and `EventuallyWhole` except the units in `cleared`. At the limit
  (`_max_cached_uncompleted_segment_package_count`, 100) the parser drops what is
  older than *now plus* a limit (`UDPParser.v2.cpp:745`), that is, everything. Reliable
  packages go with the rest, although their segments were confirmed and are never resent;
  the branches behind it, which would drop discardable packages first or refuse the
  segment, cannot be reached. `fpnn-server-advanced-tutorial.md:853` promises that large
  data is put together again.
* `NoReuseAssumption`: fewer segmented packages than ids. A discardable package of
  which a segment was lost, or one of which a segment came after its cancellation, stays in
  the cache; after
  65536 more a new package gets its id and is mixed with it or refused.
* A cut datagram of which one segment is left is too short for `parseCOMBINED`
  (15 bytes against 16), so that its cancellation is not heard (`MayBeShort`).

Left out: the widths of a segment's index, `_max_recv_package_length`, protocol
version 1, which cannot cancel, and the counter `uncompletedPackageSegmentCount`, which a
cancellation does not lower (line 716) but only a log line reads.

## 3. The TCP server's connection: `TcpConnection`

### Modules

| Module | What it holds |
|---|---|
| `TcpConnection` | one `TCPServerConnection`: `SendBuffer`, the one-shot epoll registration, `TCPServerIOWorker::run` and `read`, sending and closing through the `ConnectionMap`, the reference count, the reclaimer; the safety properties |
| `TcpConnectionLive` | fairness and the liveness properties |
| `MCTcpConnection`, `MCTcpConnectionLive` | instances for TLC |
| `TcpConnection_proofs` | closed by one thread, never used after it was deleted; packages leave in order, all or nothing is encrypted; types |

### State and code

`Senders` are threads that answer quests, push, or close (through
`sendData`, `closeConnection`, `closeConnectionAfterSent` of the server);
`Workers` are the threads of the global I/O pool; `Loop` is the server's epoll
thread. `pc[t]` is the place a thread has reached, `call[t]` its local variables:
`need` and `err` are `needWaitSendEvent` and `fdInvalid`, `actual` is
`actualSent`, `more` is `additionalSend`.

| Variables | In the code |
|---|---|
| `queue`, `curr`, `token`, `sentBytes`, `stopAppend`, `encrypted` | `SendBuffer`: `_outQueue`, `_currBuffer` with `_offset`, `_sendToken`, `_sentBytes`, `_stopAppendData`, `_encryptor` |
| `recvToken`, `received` | `RecvBuffer`: `_token`, `_receivedPackage` |
| `disposable`, `requireClose`, `needSend`, `needRecv`, `refCount`, `joined` | the members of `TCPServerConnection` with these names |
| `lock`, `inMap` | `ConnectionMap::_mutex`; whether the map has the connection |
| `armed`, `event`, `tasks` | what the one-shot registration waits for; the event the epoll thread took; runs queued in the I/O pool |
| `connecting` | the `connected` event has not been processed: the socket is not in epoll |
| `closing`, `closedBy` | where the closed connection is: posted, at the reclaimer, deleted; who closed it |
| `wire`, `unread`, `incoming`, `broken`, `jobs` | the environment: what `write()` took and the peer has not read, quests under way, a reset, quests being answered |

A package is its number in the order of queueing. `write()` takes it in units, so
that a socket buffer with room for `SocketRoom` units splits it. A quest is one
of five kinds: `ping` and `key` (the key exchange) are answered in the I/O thread
by `appendData`, `user` and `http` go to the pool, or, when the pool is full, are
answered with an error in place; `bad` does not parse.

What is one step: everything under one mutex, one system call, or one access to a
flag that is shared without a mutex. `write()` and the bookkeeping after it
(`Write`, `Advance`) are two steps, because only the token keeps a second thread
from writing the same bytes. `WaitFor` and `Modify` are two, because `_disposable`
may change between choosing the events and `EPOLL_CTL_MOD`; `CheckAppend` and
`AppendAnswer` are two, because `_stopAppendData` is read before the mutex is
taken.

### Properties

| Property | Says |
|---|---|
| `TypeOK` | types; the reference count does not go below zero |
| `InQueueOrder` | what was written is package 1, 2, 3, ... each whole, once, without another between its units |
| `EncryptedAsAgreed` | all or nothing a connection writes is encrypted, even what was queued before the key exchange |
| `NoUseAfterRelease` | when the reclaimer deleted the connection, no queued run, I/O thread, sender or event processing has it |
| `ClosedOnce` | one thread closes, whoever else finds a reason at the same time; one closing event |
| `EventuallyRead` | what arrived is read, although overlapping runs clear `_needRecv` and overwrite each other's registration |
| `EventuallyReleased` | a connection that left the map is deleted: no run keeps its reference |
| `ClosedAfterSent`, `EventuallyClosed` | what the documents promise of the two ways to close after sending; both are refuted |

### Runs

| Run | Question | Distinct states |
|---|---|---|
| `TcpSafety` | all kinds of quests, full pool, full socket, reset, three ways to close, one push besides an answer, two I/O threads | 1.76 M |
| `TcpLive` | both liveness properties, two quests, reset, `closeConnection` and the idle timeout | 41 k |
| `TcpCloseEarly`, `TcpHttpClose` | the two findings, each a counterexample | |

Bounds and why they are enough. Two I/O threads: the registration is one-shot, but a
sender re-arms it while a run is in progress, so two runs overlap (that is what the
receive token and the send token are for); a third would need the same again. One
sender: senders hold the `ConnectionMap`'s lock from finding the connection to
re-arming (`PartitionedConnectionMap.h:39-47, 128-148`), so two of them never overlap
on one connection; the theorems hold for any number. Packages of two units against a
socket with room for two: a package is left half sent by one thread and continued by
another. One quest and one push give two packages in the queue, an answer before or
after the key exchange, and an answer that meets the closing. `MaxArrivals` and
`MaxPushes` are the artificial bounds, guards of `PeerSend` and `Send`;
`CloseAfterSent` happens once because it would change nothing more. Deadlock checking
is off because a deleted connection stops.

Fairness, in `TcpConnectionLive`: weak fairness of each thread's steps in a call it
has begun (`Sender`, `Worker`, `EpollThread`: threads that run go on running, and
mutexes are handed on), of the pool taking the connected and the closing events, and of
the reclaimer's scan. Threads need not begin to send or to close. The peer reads
what it is sent (`PeerRead`); without that a full socket would stay full, and the
program has only the idle timeout against it.

### Findings

1. `TcpCloseEarly` (`ClosedAfterSent`): `sendData` in the I/O thread takes "no error
   and no need to wait" for "everything was sent", but that is also what
   `SendBuffer::send` returns when another thread has the token
   (`IOBuffer.cpp:239-243`). While a thread in `closeConnectionAfterSent` writes, an
   I/O thread that comes by closes the connection.
2. `TcpHttpClose` (`EventuallyClosed`): the thread that has sent the answer of a
   connection to be closed sets `_requireClose` and arms the write event, so that an
   I/O thread closes it. The I/O thread that delivered the quest may re-arm
   afterwards, without `EPOLLOUT` and, the connection being disposable, without
   `EPOLLIN`. Nothing closes the connection then but the peer or the idle timeout.

Three more observations have no run of their own:

* `Closes` may contain `"early"`: `closeConnection` or the idle timeout while the
  `connected` event is still being processed. The connection can then be deleted
  under `joinEpoll` (`TCPServerMasterProcessor.cpp:285`), which has no
  reference; `NoUseAfterRelease` fails for such an instance. It takes an idle
  limit shorter than `connected()`, or a `closeConnection` for a connection that
  is not yet connected. The runs and theorems exclude it by name.
* An error answer because the pool is full is appended to the queue without
  `additionalSend` (`ServerIOWorker.cpp:445`): it leaves with the next package, not by
  itself. For that reason there is no property "what was queued is sent".
* What is sent before the socket joins epoll meets a full socket without a write
  event, as the registration does not exist yet; `IQuestProcessor.md:296`
  says that data is sent normally only after `connected()` returned.

## 4. The TCP client: `ClientCall`

### Modules

| Module | What it holds |
|---|---|
| `ClientCall` | one `TCPClient` with the engine around it: user threads, epoll loop, I/O threads, timeout thread, reclaimer; the safety properties |
| `QuestService` | the abstract promise: a quest is refused, or accepted and then settled exactly once, with an answer only if the peer gave one |
| `ClientCallLive` | fairness and the liveness properties |
| `MCClientCall` | instances for TLC |
| `ClientCall_proofs` | the life of the connections, proved (section 6) |
| `ClientService_proofs` | types, no lost callback and the refinement, proved (section 6) |

### State and code

Connections are numbered as their sockets are opened. The code compares
`ConnectionInfo` pointers: `c` stands for the info of connection `c`, `-c` for the
blank one `close()` or `onErrorOrCloseEvent` puts in its place, `0` for the one the
client was made with.

| Variables | In the code |
|---|---|
| `status`, `info` | `Client::_connStatus` with `_connected`, `_connectionInfo` |
| `pc`, `op`, `curr`, `conn`, `back` | where a thread is; the call a user is in; `currConnInfo` of `connect()`; the connection a thread works on; where it goes after closing one |
| `slot` | `ConnectionMap`: connection by descriptor |
| `fd`, `hungup`, `inbox`, `sent`, `served`, `made` | sockets, and what the peer did with them |
| `epoll`, `event` | the one-shot registration of each connection; the event the loop fetched |
| `callbacks`, `refs` | `BasicConnection::_callbackMap`, `_refCount` |
| `jobs`, `reading` | runs queued in the I/O pool; the answer a run decoded |
| `expired` | callbacks `extractTimeoutedCallback` took out |
| `bin` | the close task: none, waiting in the reclaimer, dropped (the connection is deleted, its descriptor closed) |
| `result` | what became of each quest, the `*key` quest of each connection included |

A step is what runs under one lock (`Client::_mutex`, or the `_mutex` of a
`ConnectionMap`), or one system call.

* `CallConnect`, `CallClose`, `CallSend`, `RefuseSend`: the unlocked look at
  `_connected` with which each operation begins. `EnterClose` is the second such look,
  in the `close()` of the `reconnect()` that `sendQuest` calls.
* `CloseNothing`, `CloseSwap`, `TakeByInfo`: `Client::close`.
* `ConnectDone`, `ConnectBegin`, `SocketConnect`, `SocketFails`, `PrepareFails`,
  `JoinMap`, `EpollAdd`, `EpollAddFails`, `KeySend`, `KeyAgreed`, `KeyRefused`,
  `Install`, `Guard`: `TCPClient::connect`, with `joinEpoll` and the guard that runs
  on each early return. `Install` leads to `dupled`, the branch the code logs as
  impossible, when the info is another one.
* `CopyInfo`, `SendQuest`, `TakeAnswer`: `sendQuest` and the blocking wait.
* `Clear`, `Reset`, `Reclaim`: what every thread does that took a connection out of
  the map: `exitEpoll` and `clearConnectionQuestCallbacks`, `onErrorOrCloseEvent`,
  the close task.
* `Fetch`, `ProcessHup`, `ProcessIn`: `loopThread` and `processEvent`. `Run`, `Read`,
  `ReadEnds`, `Fill`, `Rearm`, `RearmFails`, `Drop`: `TCPClientIOWorker`.
* `Expire`, `ExpireFill`, `KeepAliveLost`, `PingPick`, `PingSend`: the timeout thread.
* `PeerAnswers`, `PeerCloses`: the peer.

Left out: the callback pool between `fillResult` and the callback's run (a queue
that runs everything, section 5); sending through a full socket, which
`TcpConnection` has, a ping that fills the socket and re-arms it included; SSL; quests
pushed by the server; the callbacks of pings, which settle nothing. One thing of the latter
is worth knowing: `PartitionedConnectionMap.h:76-91` inserts a ping's callback into the
`_callbackMap` of a connection it holds by reference, under the map's lock, whether or not
the map still has the connection; the thread that took it out may at that moment go through
the same `_callbackMap` without the lock (`ClientEngine.epoll.cpp:336-352`). `KeepAliveLost` and `PingPick` take only connections that `joinEpoll`
has finished with: the timeout is some seconds, joining is two calls. Tokens are
addresses; that a new connection gets the address and the descriptor of an old one
whose info somebody still has is not modelled.

### Properties

| Property | Says |
|---|---|
| `TypeOK` | types; a reference count never goes below zero |
| `NeverDupled` | the branch "is impossible touched" of `connect()` is indeed never reached: no close, connect or lost connection replaces `_connectionInfo` under a thread that connects |
| `NoOrphan` | the callback of an unsettled quest is where somebody will find it: in the map of a known connection, or of one that is about to be cleared, or in the hands of the thread that took it |
| `TakenOnce` | one thread closes a connection, though five kinds of threads may find a reason; unless a `mistaken` event came before |
| `NoUseAfterDelete` | no thread, map entry or queued run names a deleted connection; with the same exception |
| `DescriptorIsOwn` | a joining connection finds its descriptor free in the map, whose insert would otherwise silently keep the old one; an I/O thread closes no other connection by its descriptor |
| `ImplementsService` | the client refines `QuestService`: every accepted quest is settled at most once, with an answer only if there was one |
| `QuestsSettle` | ... and is settled in the end, though the peer may never answer |
| `ConnectingEnds` | `connect()` ends, so nobody waits for ever for it (a wait on the condition variable is a wait for the status to change; that each path also notifies is not modelled) |
| `ClosedConnectionsDeleted` | a connection taken out of the map is deleted and its descriptor closed |

### Runs

| Run | Question | Distinct states |
|---|---|---|
| `ClientSafety` | two users, two connections on one descriptor, a blocking quest and the key quests, auto-reconnect, one I/O thread, timeouts, keep-alive; up to the first mistaken event | 966 k |
| `ClientLive` | the three liveness properties, one user, one connection, two I/O threads, a callback quest | 56 k |

Bounds and why they are enough. Two users: one connects or sends while the other
closes or reconnects. Two connections on one descriptor: the second is opened when the first
is deleted, and everything that still names the first by its number meets the second, an
event that the loop fetched before included.
One I/O thread with a queue of runs suffices for runs that outlive their connection; two
of them, one without the receive token, are in `ClientLive`. `MaxConns` is the one
artificial bound, a guard of `SocketConnect` (`SocketFails` goes on). `Defined`, a constraint of
`ClientSafety`, ends a behaviour at its first mistaken event (below). `LocalFirst`, an
action constraint of `ClientSafety`, takes some steps before all others, as they read and
write nothing that another thread's step reads, but for enabling one: the return of a
call, a blocked caller that learns that its quest is settled, the hand-over of a close
task, and filling in the result of a callback that was taken out of its map.
`Prompt` lets a call of `connect()`, `close()` or `reconnect()` begin only when it gets the
lock and does something: until then it changes nothing, so one that begins earlier and waits
is no different.
`ClientLive`, without these constraints, also checks `TypeOK`; it
has `CHECK_DEADLOCK FALSE`, as users may stop calling.

Fairness, in `ClientCallLive`: a thread that has begun something goes on (weak, per
user, closing thread, loop, worker, reclaimer round); a queued run is taken by some
worker (weak); the timeout thread visits the connections again and again, so if
callbacks are in known maps again and again, those of one connection are all
extracted at some time (strong: each visit lasts a moment, deadlines pass). Nothing is
asked of the peer, and users need call nothing.

### What the model says beyond the properties

* **A descriptor used again while an event for it waits** (`mistaken`). The loop takes
  one event at a time from `epoll_wait`'s array, and `processEvent` looks the
  connection up by descriptor (`ClientEngine.epoll.cpp:362`). A connection closed and
  deleted meanwhile by another thread frees its number, and the event then concerns whatever
  connection has it. The model has this. Once the new connection is in epoll nothing goes
  wrong but that a stale HUP closes a healthy connection, which the user sees as a lost one:
  every property holds there. But the event may also meet a connection between the map's insert
  and its own `EPOLL_CTL_ADD`: it closes one that `connect()` has not finished with; if
  `EPOLL_CTL_ADD` then fails both threads close it, and without a reference for `connect()`
  it may be deleted under it. (Without the condition TLC finds both threads closing it in 21
  steps.) For that one schedule neither
  `TakenOnce` nor `NoUseAfterDelete` is true of the code, so both are stated up to it: `mistaken`
  is a history variable that no action reads; it records that the loop handled an event
  for a connection that was still being added to epoll (`Mistake`). It takes the loop to be held
  up between two events of one array for as long as the reclaimer takes to its next scan
  (10 ms) and another thread to open a socket: unlikely, not impossible.
* **A dead connection installed.** If a connection is lost between its
  `EPOLL_CTL_ADD` and the end of `connect()`, the loop closes it, `onErrorOrCloseEvent`
  finds the older info and changes nothing, and `connect()` then declares it
  connected (`TCPClient.cpp:497-507`). Until somebody calls `close()` or `reconnect()`, each quest is
  refused, also with auto-reconnect, which looks at `_connected` only.
* **A reconnect that closes another's connection.** Two senders find the client not
  connected; one has reconnected before the other enters the `close()` of its
  `reconnect()` (`ClientInterface.cpp:273-291`), which closes the new connection and
  settles the first sender's quest with "connection closed".

## 5. Thread pools: `ThreadPool`

`ThreadPool` is `TaskThreadPool` and `ParamTemplateThreadPool` from `init()` to the
end of `release()`. Everything of them runs under one mutex but a task's own `run()`,
and the threads of a kind are alike; so they are counted by where they are: `waiting`
on `_condition`, `awake` (notified, timed out, new, or back from a task, and about to
look at the queue), `working` on a task, `ending` (the task returned, `_busyThreadCount`
not lowered yet). `normal`, `temp`, `busy` are the three counters of the code, which
are *not* these sums at each moment; the properties are about that difference.

* `WakeUp`, `ForceWakeUp`, `PriorWakeUp`, `Refuse`: a task offered; `Queued` is the
  common part, append if `busy + length > normal + temp`, then `notify_one`.
* `TakeTask`, `EndTask`, `NotBusy`, `Wait`, `TimeOut`, `Exit`: `process` and
  `temporaryProcess`; `TimeOut` is `wait_for` that ends by itself.
* `ReleaseBegin`, `Joined`, `ReleaseEnd`: `_willExit` and `notify_all`, the joins (the
  normal threads have left), the wait for the temporary threads.

| Property | Says |
|---|---|
| `TypeOK` | types; no counter goes below zero |
| `GrowsOnDemand` | when more tasks wait than threads are free, the pool is at its limits: the condition in `wakeUp`, which reads late counters, never skips an append that was due |
| `NoLostWakeup` | while a thread sleeps, at least as many threads as tasks wait are on their way to the queue, although `notify_one` says nothing about who takes the task |
| `MaxRespected` | `maxCount` and the rule that temporary threads come after `perfectCount` resident ones |
| `ReleasedClean` | after `release()`: no thread, no task |
| `TasksRun`, `ReleaseEnds` | each accepted task runs; `release()` returns |

One run, `PoolLive` (42 k distinct states): five tasks, two threads at first, three resident,
four at most, a queue limit of two, a release at any moment. Three threads are busy
with two tasks queued and a temporary one at work, so each branch of `append` and each
limit is reached; the proofs hold for any numbers. `CHECK_DEADLOCK FALSE`: a
released pool, or one nobody gives tasks, stops. Fairness: awake threads go on, tasks
end, `release()` goes on once called; a waiting thread is not expected to wake by
itself, nor a temporary one to time out.

Two things of the code the model leaves to its user: a task given before `init()` or
while nobody may append a thread waits for ever (`ThreadsAssumption`), and `release()`
called from a thread of the pool would join itself.

## 6. What is proved

### `UdpArq`

These theorems hold for every value of the constants that meets the assumptions:
two peers, a sequence space above 4, positive limits, a tolerance below the
space, and `2 * MaxPackages < SeqSpace`: a session uses fewer numbers than half
the space. That last one is what the code relies on too (two numbers half the
space apart cannot be ordered) and at 2^31 packages in one session it is the only
assumption about length.

* **`AheadIsIndexOrder`** (`UdpArq_proofs`). For numbers less than half the space
  from a base, the code's comparison of the two wrapped differences is the
  comparison of the distances from the base. Every later proof speaks of distances
  (`Index`) and never of wrapping again.
* **`TypeCorrect`** (`UdpArq_proofs`). `TypeOK` is inductive by itself; one lemma
  per action, and lemmas for the helpers (`CutType`, `ResendListType`,
  `ReplacedType`, `PaddingResendType`, `ProcessType`).
* **`FlowControl`**. `UnconfirmedBounded` with finiteness is inductive. Two facts
  carry it: a numbered package is only made below the limit (common) or below half
  of it (urgent), and a resend puts back no more packages than it takes
  (`ReplacedCount`, by a surjection from the kept packages to the replaced ones).
* **`ConfirmedInvariant`** (`UdpArqConfirm_proofs`). `ConfirmedWasReceived` is not
  inductive: a sync could confirm anything if the feedback were arbitrary. The
  strengthening `IInv` says that feedback is *genuine* wherever it is: in packages
  kept for resending, on the network, in the datagram being parsed, in the cache, in
  the parse result and in `ARQPeerSeqManager`; that all numbers in the system
  were really sent (so a UNA cannot reach past what exists); and that the session
  is inside its window. Genuineness is monotone, because what a parser took in
  only grows, which is why late and duplicated feedback is harmless
  (`GenuineGrows`). Four lemmas (`ParseStep`, `SyncStep`, `SendStep`, `IdleInv`) do
  the work once, the actions instantiate them.
* **`UnaMovesForward`**. The action property `UnaForward` from the same invariant:
  what was reported is covered by `last`, and both lie in the window. The three
  sending actions are shown to leave the UNA alone.

What becomes of the units is proved in `UdpArqDelivery_proofs`, from `IInv` and the
following about each direction. Like `IInv` before, `HeldInv`, `CacheInv`, `CopyInv` and
`TakenUp` were checked with TLC on ordered, unordered and raw instances before they
were proved.

* **`UnitsOnce`** (`AtMostOnce`). `HeldInv`: the packages of a peer, wherever they are (kept, on the network, in the
  datagram parsed, cached), hold units in the order of their numbers, two with the same
  number differ in expired units only, and the first package has the first number.
  `CacheInv`: what is cached has a number of its own past `lastUDPSeq`, so it was not
  processed. `CopyInv`: the number of a package with a reliable unit that has a copy at the
  peer was processed there, so it will not be taken again. Every
  step of the parser either processes one package that is new to it (`Takes`) or
  none (`Skips`); the later theorems only look at these two.
* **`UnitsNotLost`** (`NoLoss`), for peers that start on `recvData` (`NoneStartsRaw`; a peer on
  `parseReceivedData` loses units, the run `ArqRawLoss`). `TakenUp`: the units of a
  number the peer has processed have copies or expired. `Kept` is `NoLoss` itself. With `ConfirmedWasReceived` a confirmed package is one the
  peer processed or cached.
* **`UnitsInOrder`** (`InOrderWhenOrdered`), under the same hypothesis. With
  data-enhanced encryption the number processed becomes `lastUDPSeq`. What was pushed
  earlier is in packages of lower numbers (`HeldInv`), none of which is cached or still to
  be taken, so `NoLoss` leaves a copy at the peer (`EarlierProcessed`).
* **`EngineImplementsDelivery`**, the refinement of `ReliableDelivery`. A parsed unit is not
  yet delivered, so the step to explain is `Deliver`: what a datagram brought is handed over
  at once, each reliable unit for the first time (`AtMostOnce`), in order where order is
  promised (`InOrderWhenOrdered`, hence the hypothesis `DataEncrypted => NoneStartsRaw`).
  Every other step pushes, expires or is not seen.
* **`CacheNeverFull`** (`NoSpuriousClose`), from `LimitsFit`. Before the first package
  arrives nothing is confirmed, so all numbers that exist are among the unconfirmed ones
  (`FewBeforeFirst`) and what is cached with the package being parsed fits the early limit.
  Later the cache holds different numbers between `lastUDPSeq + 2` and
  `lastUDPSeq + tolerance` (`Near`), fewer than the limit (`CountedNumbers`).
  `LimitsFit` asks for `UnconfirmedLimit <= EarlyTolerance + 1` (320 and 500 in
  `Config.h:26-33`), and in the ordered case for a session of at most
  `Tolerance + 2` numbers, or for numbers that do not wrap, a positive tolerance
  and `UnconfirmedLimit <= Tolerance + 1` (10000 there).
  The condition on wrapping is needed: the check at
  `UDPParser.v2.cpp:394-414` compares plain numbers while `lastUDPSeq + tolerance` does not
  wrap, and takes numbers beyond the wrap, which are small, for tolerated ones. With
  `SeqSpace = 16`, `BaseA = 13`, a tolerance of 2 and 6 packages TLC finds the ordered peer
  closing the connection in 38 steps: the package after the first is lost, and those beyond
  the wrap fill the cache. In the code that takes more than 10000 packages sent behind a lost one
  as the numbers wrap.

### `UdpSegments`

`UdpSegments_proofs` proves the three invariants of `SegmentSafety` for all units, sizes of
data, datagrams and headers, limits and first ids that meet the assumptions: at least one
byte of a segment fits a datagram with feedback (`SizesAssumption`) and a session has fewer
units than ids (`NoReuseAssumption`, see above for what happens otherwise). The number of
discardable datagrams and of reports is not bounded.

Both loops of the code, filling a datagram and parsing one, are recursive functions of the
number of units or sections done (`filled`, `parsed`, `kept`). What holds before the loop and
is kept by one turn holds after it: that is an induction over a *set* of numbers (`Reached`,
from `NatLessThanWellFounded` and the least element outside the set), which the provers can
do because no theorem with an operator parameter is instantiated.

The inductive invariant is `SegInv`, whose part `World` speaks of *any* packages, discardable
datagrams, sender and parser, not of the variables. So it also holds of a datagram that is
half filled (the sections in it count as under way) and of one half parsed (those behind the
current one do), and each turn of a loop is a step from world to world: `SkipStep`,
`SingleStep`, `FirstStep`, `PartStep`, `CancelStep` for the sender, `AbsorbNew`, `AbsorbAdded`,
`AbsorbCompleted`, `AbsorbData`, `AbsorbCancel`, `AbsorbRefused` for the parser. The parts of `World`:

* `SenderInv`, `NetInv`, `CacheInv`: the queue is the tail of what was pushed; an
  uncompleted package is never complete, holds no index twice and only what was deciphered
  in step.
* `IdInv`: an id that a section under way, a cached package or the sender knows is that of
  one unit, and as old (`Age`) as the ids since the first; with `NoReuseAssumption` a new id is
  new across the wrap of 16 bits.
* `ChainInv`: the parts of one unit adjoin (`Adjoin`): the next index starts where the
  one before ends, the last ends with the unit. This makes a package that
  is complete by its *count* whole by its *bytes* (`IsUnit`), the fact the code relies on
  without a check.
* `KeyInv`: a part of a reliable package under way is nowhere else, so parsing it never runs
  into the branch "duplicated segment index".
* `OnceInv`: nothing is left of a reliable unit that was handed over.
* `CipherInv`: what the parser still has to decipher is numbered through, in the order in which it
  will parse it; packages of an encrypted session are never cut, so no number is skipped.
* `LiveInv`: of a unit that is neither handed over, expired nor cleared no part that was made is
  missing (`AllThere`).

* **`SegmentsTyped`** (`TypeOK`).
* **`WholeUnits`** (`HandedOverWhole`), from `OnceInv`, to which `ChainInv` and `CipherInv`
  lead.
* **`NothingStranded`** (`Recoverable`), from `LiveInv`: adjoining parts cover the bytes up
  to the last one (`CoveredUpTo`, by induction over the index), and if all of them were cached the package
  would have been complete (`NotAllCached`, by a bijection of pieces and indices), so something
  is still to come.

### `TcpConnection`

The constants are any: any number of senders, a finite set of I/O threads (they are
counted), any package length and room, any number of quests. The lock is a
variable, so nothing about senders being serialised is assumed.

* **`NeverUsedAfterRelease`**, **`ClosedByOneThread`** (`TcpConnection_proofs`), from
  `"early" \notin Closes`. `NoUseAfterRelease` is not inductive, as it does not say why
  the count is right. `IInv` does: `refCount` is the number of queued runs plus
  that of busy I/O threads (`Counted`); a sender works on the connection only with the
  lock, and then the map has it (`Locking`); at most one thread is closing, and it
  is so before the event was posted (`ClosedByOne`); before joining epoll there is no
  registration, event or run (`NotJoined`). A deleted connection has count zero, so no
  runs; it is not in the map, so no sender has the lock, no new event counts up, and
  `connecting` is over. `BusyMore`, `BusyLess` and `BusySame` count the I/O threads.
* **`SentInOrder`**, **`EncryptedWholly`**. `SInv` adds to both:
  the token has at most one holder (`OneHolder`); the queue holds the last packages
  queued, and the length of what was written is that of the packages before them
  plus the progress of the current one, plus one unit between `write()` and the
  bookkeeping (`Position`); a current package left while the token is free was begun,
  hence `_sentBytes` is not zero and encryption cannot start in the middle of it
  (`Ciphered`). Only a full socket or an
  error refuses a `write()`: a full one has taken something of the connection before,
  and after an error nothing is sent again.
* **`ConnectionTyped`** (`TypeOK`), however the connection is closed, `"early"` included.
  Neither `refCount \in Nat` nor the type of `curr` is inductive: the first follows from
  `Counted`, proved here once more without the rest of `IInv`, the second from `Position`
  and `OneHolder` (a thread between `write()` and its bookkeeping finds the package still
  there).

### `ThreadPool`

The arguments of `init()` are any numbers (with at least one thread to start with or
to append), the tasks any set. The five safety properties are proved from one
invariant, `IInv` (`ThreadPool_proofs`):

* `Counts`: each counter is the sum of the threads in the places it stands for:
  `normal` and `temp` all threads of their kind, `busy` those working or ending. It
  makes the late counters exact: what `wakeUp` reads late is late on the safe side.
* `Staffed`: the limits, and that the pool is not empty while it is open.
  `Leaving`: what is true of the threads in each phase of `release()`.
* `Promises`: `GrowsOnDemand` and `NoLostWakeup`, inductive only together with
  `Counts`. `PromisesKept` is the one lemma about a queue that grows by one task: either
  a thread was appended, or the threads there are suffice.
* `InOrder` and `Carried`: the queue holds exactly the accepted tasks that have not
  begun, each once; there are as many working threads as running tasks. So an empty
  pool has run everything.

Theorems: **`TypeCorrect`**, **`AlwaysGrows`**, **`WakeupsSuffice`**, **`LimitsKept`**,
**`NothingLeft`**.

### `ClientCall`

The constants are any: any number of users, a finite set of I/O threads, any
descriptors but 0 (which `connect()` takes for a failure), any bound `MaxConns`, with or
without keys and auto-reconnect. Nothing is assumed about behaviour: the theorems speak of
every behaviour of `Spec`, those included in which a descriptor is used again while an event
for it waits, and say what holds until the loop takes such an event for a
connection that is still being added to epoll (`mistaken`, section 4). `TakenOnce` and
`NoUseAfterDelete` contain that condition; the other theorems state it, `~mistaken => ...`.
**`ClientNeverDupled`**, **`ClientTakenOnce`**, **`ClientNoUseAfterDelete`** and
**`ClientDescriptorIsOwn`** follow from one invariant, `IInv == Life /\ Control`
(`ClientCall_proofs`): a step that is no `Mistake` preserves it, and `mistaken` is never reset.

* `Life` is about connections. `Counted`: `_refCount` is the number of queued runs plus that
  of the threads between a count up and a count down, so a count of zero means that
  neither is left. `Closers`: a thread that closes has a connection that no other thread
  closes and the map does not name, and after `exitEpoll` one without a registration.
  `Joiners`: until `EPOLL_CTL_ADD` nothing but the map knows a new connection, no thread and
  no run (an event may name its descriptor: what the loop does with it then is the
  `Mistake` that `ProcessStep` excludes); so the `delete` of a failed
  `perpareConnection`, which asks no reference count, is safe. `InMap` and `Sockets`: the
  map names open connections, each under the descriptor that is its own.
* `Control` is about `connect()`. `Connecting`: one user at most is in it, counting the time
  it closes what it could not use; meanwhile the status is Connecting and the info the
  one it began with, which is not that of a connection, so no lost connection's
  `onErrorOrCloseEvent` replaces it. `Backs` and `Shaped`: where threads go after closing.

`TakesOut` covers the four ways a connection leaves the map, `EngineMove` the steps of the
engine's threads (`Moves` says what such a step leaves alone), `UserMove` and `UserGoes`
those of the users; `Released` and `Obtained` count references.

What becomes of quests is proved in `ClientService_proofs`, up to the same event, from
`SInv == Data /\ Books /\ Silent /\ Asking` next to `IInv`. **`ClientNoOrphan`** states one of its
conjuncts; the others are needed to carry it:

* `Kept`: a callback is in the map of one connection; if a thread can still find that
  connection (it is mapped, or about to be cleared) the quest is unsettled. A cleared
  connection keeps its callbacks, settled, until it is deleted. `Reads` and `Expiring`
  say the same of the callbacks an I/O thread or the timeout thread took: they are in no
  map, unsettled, and nobody else's. `Told`: only what was sent is served, only what is
  served is answered.
* `Silent`: nothing was asked of a connection before `connect()` sends its key, so none of its
  callbacks is lost when a failed prepare deletes it. `Asking`: a quest belongs to one
  call, and is not yet sent while that call looks for a connection.

`NoOrphan` is disturbed where a connection leaves the map (`TakesOut` then puts its thread to
`"clear"`, which finds the callbacks) and where a quest is sent: `SendQuest` registers the
callback under the lock of the map, only for a mapped connection.
**`ClientTypeCorrect`** follows from both invariants (a reference count is a sum of
natural numbers). **`ClientImplementsService`** is the refinement, for behaviours without a mistaken event
(`[]~mistaken`): `result` and `served` map to
themselves, and each step is `Refuse`, `Accept`, `Serve` or `Settle` of the service or
leaves both alone (`RefuseRefines`, `AcceptRefines`, `ServeRefines`, `SettleRefines`, `CallRefines`).
`SettleRefines` needs that what is settled was unsettled, which is `Kept`, `Reads` and
`Expiring`, and that an answered quest was served, which is `Told`.

### Only model-checked

The liveness properties (`EventuallyWhole`, `EventuallyDelivered` and the others of the
`Live` runs): liveness under fairness is out of the prover's reach. Every invariant and
action property of a passing run and both refinements are stated by a theorem above; those
of `ArqRaw` and `ArqSafety` that need peers on `recvData` say so in their hypotheses, and those
of `ClientCall` where they end.

## 7. Not modelled

Inside the UDP engine: CLOSE, HEARTBEAT and keep-alive, the ECDH package,
the ARQ checksum and `SessionInvalidChecker`, replacement of a session by a new
one from the same endpoint, and the timing of `UDPResendControl` and congestion
control (nondeterministic here). Inside the TCP server's connection: SSL, WebSocket,
`encryptAfterFirstPackage`, the callbacks of server pushes; around it `accept` and
`stop()`. Inside the client: SSL, quests from the server, the engine's `stop()` (which
may drop a callback an I/O thread has taken and not yet handed over), several clients
on one engine. Inside the pools: the double-queue variant, whose two queues share the
same threads, and `ParamThreadPool`, which differs in the task type.

Components left out, by what they would add, the most important first:

1. The ECDH package of the UDP session: its confirmation and the copy the parser
   keeps, composed with the numbers of `UdpArq`; then session replacement and CLOSE.
2. Answers: synchronous, early and asynchronous ones, and the consistency and broadcast
   callbacks that count answers of several clients.
3. The server around the connection: accept, the map of all connections and `stop()`.
4. Ownership of packages between fetch, partial send and confirmation.

The rest is left out for good: congestion control and statistics (rates and clocks),
message encoding, HTTP and WebSocket parsing, containers, configuration and logs
(sequential, no protocol), the kqueue twins (the same logic), the raw clients (the
client's life cycle without quests), vendored and generated code.

What is left to prove about the modelled parts: the theorems on `UdpSegments` take
`UdpArq` at its word (a reliable package is parsed once, in the order of the numbers with
data-enhanced encryption). `UnitsOnce` and `UnitsInOrder` prove that word of the engine, in
its own terms; a refinement that joins the two modules is not stated.
