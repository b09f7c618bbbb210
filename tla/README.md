# Verification of the pub_watcher client

`pub_watcher` (the sources at the top of `src/`) is an agent that runs on a
virtual machine.  A pool of threads keeps the machine registered with a manager
over short TCP connections, one thread reports to the manager's monitor port on
a connection it keeps, one thread deletes old log files.  The repository also
holds the sources of an HTTP service (`src/inc/http`) and a base library with a
queue (`src/inc/aqueue.h`, `src/test/INNOLIB`).  This directory holds TLA+ modules
of these programs, their TLC configurations and TLAPS proofs.

## The system

| Component | Source | State | Operations |
|---|---|---|---|
| Start-up | `main.cpp` | settings, one `ConnInfo` shared by the pool | read the configuration, close stdin/stdout/stderr, `InitLog`, `CPerfInfo::Init`, fetch metadata over HTTP, start the threads |
| Alive pool | `main_alive.cpp` | per thread: `ret`, `refresh`, `metareport`, a local `sock` per command | heartbeat, alive report, metadata report, each on a connection of its own, once a second |
| Monitor session | `PerfInfo.cpp`, `main_report.cpp` | static `m_hSock` | `Init`, `SendToRestart`, `SendToPerf` once a minute |
| Packet | `Packet.cpp`, `packet_common.h` | buffer, `m_nDataLength`, `m_nDataPointer` | typed reads and writes, `SendPacket`, `ReceivePacket`, `ReceivePacket_Select` |
| Log files | `MiscUtil.cpp`, `main_clean.cpp` | the files of a directory | `InitLog`, `ClearOldLog`, `WriteLog`, `WriteErrorLog` |
| HTTP client | `RestClient.cpp` | one transfer | `get`, `post`, `put`, `del`, libcurl's callbacks |
| JSON document | `JsonParser.cpp` | the tree of a document | `ReadParse`, the `Read...` and the `Write...` calls |
| Array queue | `inc/aqueue.h` | ring buffer, mutex and lock flag | `AddTail`, `Begin`, `End`, `SetLast`, `GetNext`, `GetCur`, `GetHead`, `Empty` (not used by the client) |
| HTTP service | `inc/http/http_service.cpp`, `mainapp.cpp`, `test/INNOLIB/src/svcapp.cpp` | `SConnectInfo` per request; settings, database, threads, `m_bStop` | the callbacks of libmicrohttpd; `main`; `ProcessCommand`, which forks, waits and replaces the process |
| The rest | `test/`, `tests/`, `bak/` | | a library, experiments, old versions |

The client's threads share the process's descriptor table (every socket, log
file, directory stream and library call goes through it), the `ConnInfo` main
filled in before it started them, the log directory, and, at the manager, one
registration.  They take no lock: the log lock is commented out and `m_PerfLock`
guards a counter nobody increments.  `main` uses the HTTP client and the JSON
document to fill `ConnInfo`; every command uses the packet buffer, sends it with
`SendPacket` and waits in `ReceivePacket`.

What is hard here, and hard to test:

- **Descriptor 0.**  `main` closes the standard streams, so 0 is an ordinary
  descriptor, but 0 is also the commands' and `CPerfInfo`'s "no connection".  A
  command that got descriptor 0 would connect again and leak it, and an exhausted
  connect loop executes `close(0)` on whatever 0 is by then.  What saves the
  program is a leak: `InitLog` never closes its directory stream, which sits
  on 0.
- **The stale monitor number.**  After a failed connect in `Init` the static
  `m_hSock` names a closed descriptor, which any thread may have reopened when
  `SendToPerf` writes to it and closes it a minute later.
- **One variable for two purposes.**  `ret` says whether to repeat the heartbeat,
  and the metadata report stores its own result in it; the alive report's result
  is not used at all, and only `ERR_FAILED` counts as a failure.
- **Replies that name no request.**  `SendToRestart` gives up after two seconds
  and keeps the connection; its reply may arrive when the next report waits.
- **Reads that block.**  `ReceivePacket`, and the body read of
  `ReceivePacket_Select`, have no timeout.
- **Files that lose their name.**  A thread names its log file, opens it and
  writes it in three steps; the clean thread deletes by age in between.
- **Members without a value.**  A metadata key that is missing leaves a pointer
  of `ConnInfo` unassigned for as long as the process runs.
- **Texts without a limit.**  Metadata members, the address a metadata report has
  just been given and the list of interfaces are copied into arrays of 32 to 256
  bytes, as long as they are.
- **Two services for one.**  `main` goes on to be the service whatever
  `ProcessCommand` has done, and so does a watchdog that is told to stop at the
  moment it replaces its child, next to that child.
- **A lock flag without an owner.**  `Begin` tells `AddTail` not to lock, and with
  it the `AddTail` of every other thread.
- **One pointer for many requests.**  libmicrohttpd calls the service once with
  the headers, for every piece of a body and at its end; `*con_cls` alone tells
  which call of which request of the connection it is.

## Modules

| Module | What it is |
|---|---|
| `Descriptors` | every open and close of every thread of the client on one descriptor table |
| `AliveLoop` | the loop of `alive_process_thread`, the manager and the network |
| `PerfSession` | `CPerfInfo` and the reply stream of its connection |
| `PacketStream` | `SendPacket` and `ReceivePacket` at the two ends of a TCP connection |
| `PacketChannel` | abstract: whole packets, in order, once; `PacketStream` implements it |
| `PacketBuffer` | the buffer of a packet, its typed reads and writes, its length field |
| `ConfigFile` | how both programs read a configuration file |
| `Boot` | the client's `main` from its settings to the idle loop, and what the threads read of it and copy |
| `ClientStart` | composition: `ConfigFile`, then `Boot` with the pool the file gives |
| `LogFiles` | how long the lines of a log live |
| `AQueue` | the queue, statement by statement |
| `LossyQueue` | abstract: a bounded FIFO that drops its oldest; `AQueue` without batches implements it |
| `RestClient` | one transfer of each method with libcurl's callbacks |
| `JsonDocument` | a document under any sequence of calls |
| `ReplyDocument` | composition: the reply of a `get`, whole or not, becomes a document |
| `HttpService` | the callbacks of the service on one connection |
| `ServiceStart` | the service's `main` after its configuration: its command line, forks and watchdog, then its start |
| `ServiceProgram` | composition: `ConfigFile`, `ServiceStart`, and `HttpService` while the daemon runs |

`DescriptorsProofs`, `SessionProofs`, `PacketStreamProofs`, `AQueueProofs`,
`LogFilesProofs`, `ClientStartProofs`, `ReplyDocumentProofs` and `ServiceProgramProofs`
hold the theorems; a module `MC...` is an instance for TLC.

Definitions named `...Keeps...`, `...Forgets...`, `...OffByOne` and the like, at
the top of a module's actions, are faulty variants of the definition in their name.
No specification uses them; substituting one for its original makes the
property that guards against it fail.

### Descriptors

`table` is the kernel's table; `Open` takes the lowest free slot, `Close` of a
closed number does nothing.  `sock[t]` is the local `sock` of a command or, for
`Perf`, the static `m_hSock`.  `aux[t]` is the descriptor a thread holds for the
length of one log write, directory scan or library call (libcurl, `getifaddrs`);
such a call is an open and a close, between which the other threads run.  The
commands differ only in what they write, so one set of actions serves all:
`Socket`, `Connect`, `CloseFailed` are `ConnectToServer`/`ConnectToMonitor`, `Check`
is the end of the loop body, `Break` the way out of the loop, `Send` and `Recv`
the exchange, `CloseSock` every `CloseToServer(sock); return`.  An operation on a
number acts on whatever the table holds there, not on what the thread thinks it
holds.  `InitLog` and `InitPerf` are `main` before the threads exist.  The
sockets that `RestClient::get` uses in `main` itself, before the threads start,
are closed again and leave nothing behind.  Log
writes that follow one another with nothing between are one.

- `Confined`: except for 0 and the stale number, what a thread holds is what it
  opened.  The two misuses damage the two numbers they are about and no other.
- `NoLeak`: except for 0, the stale number and the directory streams that
  `InitLog` and a `ClearOldLog` hit by an `lstat` failure forget, whatever is
  open is held by the thread that opened it.
- `OwnConnection`: no command sends on 0, and on every number but the stale one
  (and, for the report thread, 0 and -1) request and reply travel on a connected
  socket the thread has opened itself.  The exceptions are what the code does:
  `SendToPerf` does not connect while `m_hSock` is not 0, so after a failed `Init` it
  writes its report on whatever that number is by then, another thread's
  connection to the manager included.
- `LogDirHeld`: `InitLog`'s stream on 0 is closed only by a command that
  failed to connect a hundred times.  (When the manager is unreachable for that
  long this does happen, and descriptor 0 is then open to the first misuse.)
- `IInv`, with `BootQuiet`, `AuxPhase`, `RolePcs`, `ConnKind`, `CommandHasSock`,
  `ZeroGuarded`: the inductive invariant of the proofs.

### AliveLoop

A round is the loop body.  A command in progress is `reply[t] = "waiting"`; the
external actions `Process` and `Disconnect` give it an answer or cut it off, and
a heartbeat answered with `ERR_NONE` registers the machine.  `Forget` is a manager
that loses its registry.  `Settle` is the moment after which nothing fails any
more.  `lost[t]` counts the rounds `t` ends, settled, without a registration.

- `RecoveryBound`: `lost` never exceeds `RefreshInterval + 1`.  The bound is tight.
- `LostIsCounted`: why; the strengthening that makes it inductive.
- `Settles`: once settled, the machine is registered for good and every thread
  has stopped repeating its heartbeat.

### PerfSession

The stream from the monitor is counted in units: a reply is two units of header
and one of body.  A header read takes what is there; less than a header fails the
request with part of it consumed.  A frame read from the middle of a reply fails
the version check: a reply is a ten-byte header and a four-byte code, its
category is 2 and its code below 256, so no byte in the place of the
version is 1.  (The magic number is checked too, but a wrong one is only logged.)

- `InStep`: between reports the monitor owes nothing, except the reply to a restart
  report that gave up, and never more than that.
- `Heals`: once monitor and network behave, every report is answered by the monitor
  from some point on, whether a reply is missing, half of one has been read or the
  connection has died unnoticed.  With one exception, which the formula names: the
  stale number.  `SendStale`, `ReadStaleHeader` and `ReadStaleBody` are the same
  exchange on it.  It may fail, and the number is closed and healed; it may go on
  for ever on replies to another thread, which pass for the monitor's
  (`answered = "other"`), and no report reaches the monitor; or the body read,
  which has no timeout, never returns (`Stuck`).

### PacketStream and PacketChannel

A byte is a packet and a place in it, so a byte that ends up in the wrong packet
is seen.  `SendHeader`, `SendBody` and `SendFails` are `SendPacket` up to its
returns, `ReadHeader`, `ReadBody` and `ReadNothing` are `ReceivePacket`; both ends
are taken to run this code, since the manager's is not in the repository.  A
`write()` of the body and every `read()` may stop short; a header cut short fails
the packet at either end.  Ten bytes that are not a header would be believed
(`Announced`); `InFrame` says it never comes to that.

- `InFrame`: a header is looked for only where one begins, and the bytes collected
  for a packet are its own.
- `ImplementsChannel`: the refinement of `PacketChannel`.
- `Delivers`: while the connection holds and no header arrives split, every
  packet arrives.  A split header does fail the exchange in this code, on a
  working connection.

### PacketBuffer

A packet is filled by any `Write...` calls, sent, and emptied by any `Read...`
calls, of the types that were written or of others; or it comes from another
program that announces any length.  Widths are those of the code, in bytes of
`Byte` values, so that signs, truncation and the 16-bit length of a short string
are what they are in C.  A number of two bytes is a `Pair`, one of four a `Quad`
of two pairs and one of eight two quads, most significant byte first.
`CheckDataBuffer` doubles the capacity and copies up to the write pointer; the rest of
the new buffer is `Junk`.  `Receive` is the header
as `ReceivePacket` and `ReceivePacket_Select` take it.

- `Bounds`: the pointer stays in the buffer and nothing is sent or read that was
  not written.
- `RoundTrip`: a reader that asks for what was written gets it, through every
  growth of the buffer.  The one exception is a short string of 2^16 bytes and
  more, whose length does not fit: what comes after it is misread.
- `AllOfIt`: `IsEOD` is true at the end and not before (`ReadChar` of no bytes aside),
  and such a reader is refused only a text it has no room for.
- `AnnouncedLength`: a length that is accepted is the announced one, and fits an int.

### ConfigFile, Boot and ClientStart

`ConfigFile` is the loop of `fscanf("%[^\n]\n")` and `sscanf`.  A line is empty,
blank, a number or a word: this is all the reader can tell apart.
`Place(i)` is the number of lines with text up to line `i`, and `ByPosition` says
that a setting comes from a line if and only if that line is in its place (and is
a number, for the settings that are): the k-th setting from the k-th line with
text, except that a blank first line counts as a setting and an empty one hides
the file.

`Boot` has one action per step of `main`.  The metadata and address services
answer in full, in part, with something else or not at all, once each.
`ReadValueString` of a member that is no string ends the process (so does a document
that is no object, which counts as such a member), that of one that is missing
leaves `ConnInfo` as it was, and a text that is longer than its array overwrites
what lies behind it: the process crashes or goes on with any of its members lost.
From `CreateAlive` on, every thread already created sends commands while `main`
goes on; a heartbeat and a metadata report copy, on their own stack, texts of
which `Fits` says whether there is room.  `misfit` remembers that something has
not fitted.  In `ClientStart` the fifth setting is the size of the pool, and 0 as
long as nothing has set it.

- `Explained`: as long as everything fits, a member is sent without a value only if
  a service did not have it at start, and the process crashes only if an answer
  was incomplete or no text; however early a thread begins to send.  Without that
  condition nothing of the kind holds: the body of the address service is copied
  into 64 bytes in every metadata report.
- `PoolAsConfigured`: main idles only with the whole pool and the clean thread,
  and there is a pool only if the file has a number in the fifth place.

### LogFiles

One file, of any kind and hour, and one of its lines stand for all: files have
nothing to do with each other but for the scan, which any of them can end.  A
writer takes the time, opens and writes in three steps; a scan examines, then
unlinks; `Tick` is the clock, which may run on between any two of them by up to
`Pause` hours.  `Crash`, `Start` and `Remove` (somebody else deletes the file)
happen at any time.  `slash` says whether the configured path ends in `/`; if not,
the scans look into another directory than the one the files are written to.

- `Kept`: the program deletes no line before it is `Keep` hours old.
- `Cleaned`: while scans complete, no file is older than `Keep`, one period and
  two calls.

### AQueue and LossyQueue

A step is what a thread does between two accesses another thread may see:
the tests of the flag, the calls of the mutex, the three parts of `AddTail`.
The mutex is the default one of `mutext.cpp`, not recursive.

- `Exclusive`: no two threads are in a section the mutex protects.  True for
  producers that do not batch and for a single one that does (`IInv` is the
  discipline and why it works); `queue_shared` shows that a second producer breaks it.
- `ImplementsLossyQueue`: without batches the ring is a FIFO that loses its oldest
  item when full and counts it.
- `CountIsSize`: `GetCount` and `IsEmpty` are right whenever no `AddTail` is half done.
  This is stated without batches: `SetLast` moves the tail and not the count.
- `PointerHolds`: the pointer a read returns names its item until a second
  further item has been added.
- `BatchRead`: after `SetLast`, each item of the batch once and in order, as long as
  the producer has not gone round the ring.

### RestClient, JsonDocument and ReplyDocument

Data are known by the positions of their bytes, so a byte that is sent twice or
skipped is seen.  `code` is `"unset"` when `curl_easy_init` has failed.  The values of
a document are known by their types; the module has every call of
`CJsonParser` with what jsoncpp does when a value is not of the type it is asked
for.  In `ReplyDocument` what `get` returned is parsed, whole or cut short.  The
parser creates a member, null, before it reads its value, so a text that is cut
short leaves some of the members, and of the last one a null, or the part of an
array or object that came before the end (`Begun`).  `IsDocument` is the shape of
every tree the calls can make; `TextsAssumption` says that the parsed documents (a
CONSTANT) have it.

- `UploadExact`: what `put` has sent is the beginning of its data, and all of it
  once `read_callback` has returned 0.
- `WholeReply`: of the four methods only `get` returns part of a reply as an answer.
- `NullOrigin`: a member of a member is null if and only if the reply had it so or
  ended before its value, or a read as bool has created it, and no write has
  replaced it since.  A read of it as string ends the process.
- `LeavesOthers`: no call changes a member it does not name.

### HttpService, ServiceStart and ServiceProgram

`HttpService` has the two callbacks on one connection, which libmicrohttpd gives a
thread of its own, with several requests one after another.  `Incoming` is the
first call of a request, `Collect` one with a piece of a body, `Work` any other,
`Completed` is `callback_request_completed`; the library itself (`Request`, `Sent`,
`Break`) is external.  Objects on the heap are numbered and never reused, so a
pointer left over from another request is seen.  `ServiceStart` has one action per
step of `main`, with every failure; `ServiceProgram` lets a connection begin when
the daemon runs.

`Launch` is what `ProcessCommand` (`svcapp.cpp`) can make of the process before
that.  `ServiceStart` follows one process: of one that forks, either the parent or
the child, and `behind` says what it has put in its place.  In `DoService` the
parent ends by `_exit(0)` without a word and the child is the service.  With a
watchdog the child forks again (`WatchDog`), and its parent waits, replaces a child
that has died and ends with one that has ended normally (`ChildEnds`); `Terminate` is
SIGTERM, which only sets `m_bStop`.  `Upgrading` is every `execl` of a new program.
Whatever else `ProcessCommand` does (it may find a service that is already running,
install, print its help), `main` does not look at its result and goes on to be the
service.  More than one of these commands on one command line is left out.

- `OwnInfo`: `*con_cls` is `NULL` or the live object of this very request, and no
  object outlives its request, except one made for a method that is not known,
  which nothing points to and nobody deletes.
- `WorkOnce`: the work of a request is done once, after its whole body has come.
- `Served`: a complete request is answered or its connection closed without
  help from the client.
- `StartInOrder`: no thread and no callback before the database is open and the
  lock and the semaphore are there; the pool is complete and that of the file;
  a process ends with a message on stderr, or silently when it has put another in
  its place or its child has ended normally; and it is not the service next to a
  child of its own, unless SIGTERM came between two children of a watchdog, which
  forks the second before it looks (`svcapp.cpp:1438`).

## Runs

| Run | Instance | Shows |
|---|---|---|
| `descriptors` | 2 alive threads, report and clean threads, descriptors 0-1, 2 attempts | `IInv`, `Confined`, `NoLeak`, `OwnConnection`, `LogDirHeld` |
| `alive_loop` | 2 alive threads, refresh every 2 rounds, metadata every round | `TypeOK`, `RecoveryBound`, `LostIsCounted`, `Settles` |
| `perf_session` | the whole module; its state space is finite | `InStep`, `IInv`, `Heals` |
| `packet_stream` | 3 packets of 0, 1 or 3 bytes, headers of 2 bytes, 2 bytes a write | `TypeOK`, `InFrame`, `ImplementsChannel`, `Delivers` |
| `packet_buffer` | bytes of 4 values, a buffer of 4 bytes, up to 3 fields, 10 foreign lengths | `Bounds`, `RoundTrip`, `AllOfIt`, `AnnouncedLength` |
| `client_start` | every file of up to 4 lines and 41 of the six settings with one line put in or exchanged, pools of 0 and 3 | `Explained`, `PoolAsConfigured`, `ByPosition` |
| `log_files` | 2 writers, days of 3 hours, limits of 4 and 6, calls of up to 1 hour, 9 hours | `Kept`, `Cleaned` |
| `queue_plain` | 2 producers, 2 consumers, 3 slots, 5 items, no batches | `CountIsSize`, `PointerHolds`, `ImplementsLossyQueue` |
| `queue_batch` | 1 producer that batches, 1 consumer, 4 slots, 6 items | `IInv`, `Exclusive`, `BatchRead` |
| `queue_shared` | 2 producers that batch, 1 consumer, 3 slots | `Exclusive`, violated |
| `reply_document` | data of 0 or 5 bytes, replies of 0 or 3, pieces of 1 or 2, 2 keys with 2 members each, arrays of up to 2 | `UploadExact`, `WholeReply`, `NullOrigin`, `LeavesOthers` |
| `service` | 8 files, 3 attempts at the database, pools of 0 and 2, 3 requests of any method in up to 2 pieces | `StartInOrder`, `OwnInfo`, `WorkOnce`, `Served` |

Bounds.  Damage between threads needs a thread that misuses a number and one that
owns it: `descriptors` has every pair of roles, two alive threads included, on
descriptor 0 and one other, which is often all the process has left.  Two
attempts already have a first and a last one.  Once 1 is the stale number no
number is left that is neither 0 nor stale: what `Confined` says of the others
while the stale one is another thread's rests on the theorem `Confinement`.  The
proofs cover any other number of threads, descriptors and attempts.  The intervals of `alive_loop` are the
smallest at which both counters count, reset and get out of phase; `lost` stops at
`RefreshInterval + 2`, one past its bound.  No run bounds the stream of
`PerfSession`; `InStep` is what keeps it finite.  The bodies of `packet_stream` are
empty, shorter and longer than one `write()`, and three packets leave one before and
one after the packet in transfer.  In `packet_buffer` an int is 8 bits wide and a
short string is too long from 16 bytes on, so that every edge of a type, and
three growths of the buffer, are within reach of three fields; the foreign
lengths lie on both sides of the header's size and of the sign.  Four lines are
enough to have each kind of line before, between and after settings; the variants of
the complete file put each kind in every place.  In `log_files` the limits lie as
close to the day as `PauseAssumption` allows, and nine hours hold a file's life and
that of its successor under the same name.  A ring of three slots is full with two
items, and five go round it; a batch of `queue_batch` can be shorter or longer than
the ring.  Three requests on a connection leave one before and one after the one
in progress; two pieces make a body that is not complete at its first.

Symmetry is used where threads are interchangeable and only safety is checked
(`descriptors`, `log_files`, `queue_plain`).

Deadlock is checked where the program goes on for ever: `descriptors`, `alive_loop`,
`perf_session` and, within their items, `queue_plain` and `queue_batch`.  The others end: the
packets are transferred or the connection has failed, the packet is read, the
program has exited or crashed, the clock or the requests of the bound are used
up, the transfer has ended the process; `queue_shared` looks for its violation only.

Fairness.  The alive and report threads loop for ever around `sleep`, and nothing
but an unanswered read stops them: weak fairness of a thread's steps, except the
report thread's while it waits for a body on the stale number (`~ Stuck`), since
nothing says that one ever comes.  Requests
are answered, and bytes delivered, under weak fairness only while `stable`:
before that an exchange may hang, which the code does not prevent.  The two ends of
`PacketStream` loop until they are done or fail.  The thread libmicrohttpd gives a
connection calls the handler again until the request is over: weak fairness of
`Handler` and `Completed`; the client has none.  `Descriptors`, `PacketBuffer`,
`ClientStart`, `LogFiles`, `AQueue` and `ReplyDocument` have safety properties only and
no fairness.

## What disagrees with its documentation

- `src/inc/aqueue.h:2` calls the queue thread safe.  With two producers of which one
  uses `Begin`, `AddTail` of the other does not lock (`:167`): while the first holds
  the mutex for its batch, the second writes the ring without it (`queue_shared`).
- `src/inc/http/http_service.cpp:223` says the clean-up happens on connection close.
  For an unknown method `callback_request_to_connect` returns before it has stored
  the object (`:141`), which nothing deletes (the exception in `OwnInfo`).

Met while modelling, and modelled as they are: `GetHead` returns nothing when the
head has just wrapped to slot 0; `GetCount` is wrong after `SetLast`;
`ReceivePacket` fails on a working connection when a header arrives in two pieces;
`get` returns the status of a transfer that broke off together with part of its
body; a log path without a final `/` is never cleaned.

## Proofs

TLAPS proves, for every value of the constants:

- `DescriptorsProofs`: `TypeCorrect`, `Invariance`, `Confinement`, `LeakFreedom`,
  `ExchangeOnOwnConnection`, `LogDirLoss`.  Neither `Confined` nor `NoLeak` is
  inductive alone: that `Close(sock[t])` cannot hit another thread's descriptor
  needs `Confined` for both, `Confined` through `Connect` needs to know where
  a socket is not yet connected (`ConnKind`), that a free number is nobody's
  needs both, and `LogDirHeld` needs that nobody is about to use a number 0
  while the log directory is there (`ZeroGuarded`).  The argument shows first
  that no step disturbs what another thread holds, then what a step leaves the
  stepping thread with, then that each sound descriptor is accounted for.
- `SessionProofs`, about what the client keeps up with its two servers.  For the
  alive loop, `TypeCorrect`, `LossCounted` and `BoundedRecovery` (from `TypeOK /\
  LostIsCounted`).  For the monitor session, `SessionTypes`, `SessionInvariance` and
  `StaysInStep`, from `SessionTypeOK /\ InStep /\ Exchange`; here nothing bounds the
  counters of the stream.

  For the packets that both exchange, `InBounds`, `LengthAnnounced`, `ReadsBack` and
  `ReadsAllOfIt`, for any fields, any number of them, any initial capacity
  and bytes of any even number of values.  First comes the arithmetic: what
  `ntohs` and `ntohl` make of the bytes of `htons` and `htonl` is the number modulo
  its width (`Encoded`), which a signed variable keeps as `Canonical` says
  (`SignedEncoded`), and a subtraction that overflows still gives no wrong length
  (`BodyFits`).  `BufferInv` is enough for the first two theorems.  `Trip` is the
  invariant of the other two.  There is a function `at` such that the fields
  lie one behind the other, the i-th from `at[i]` on: first in the buffer as far as
  the pointer and from there in what is still to copy (`Filled`), later in what has
  been received, with the reader at the field it is to ask for next
  (`Placed`).  Each write makes `at` one longer, growing and copying only move the
  border, and each read is shown to find its field at `at[Len(results) + 1]`.
  `ReadsAllOfIt` is for `BufferSpec /\ []Small`: when a packet is sent its length fits
  an int,
  as the int `m_nDataPointer` has it in the code.  Without it the announced
  length could wrap and less arrive; the other three theorems hold even then.
- `PacketStreamProofs`: `StreamIsChannel`, `StaysInFrame` and `TypeCorrect`.  The
  invariant says that the stream is a chain: every byte has its place in its
  packet, a packet goes on after each of its bytes (`GoesOn`), after its last
  comes the first of the packet with the next number (`NextBegins`), and the sender's
  and the receiver's progress are the two ends of the chain.  `WriteStep` and
  `ReadStep` do the work once for all the steps of either end.
- `AQueueProofs`: `LockInvariant` and `MutualExclusion` for any number of threads that
  keep to the discipline, `TypeCorrect` for any that do not.  Without batches
  (`Spec /\ ~ Batches`), for any number of threads: `CountCorrect`, `PointersHold` and
  `QueueImplementsLossyQueue`.  They rest on `PlainInv`: the count is the distance from
  tail to head (`Size` leaves out an item that is not accounted for yet), the item
  an `AddTail` has stored and not accounted for is the last one added (`Stored`),
  and a pointer that has been handed out names its item while at most one has been
  added since, and is not the slot that is written next while none has (`Points`).
  `Following`, `Preceding` and `Distance` are the arithmetic of the ring; the
  lemmas about them stand first.  With batches, `BatchReadInOrder` holds for one
  producer and one reader (`Solo`): each slot holds the last item added there
  (`Ring`), `begin`, `end` and `last` are the slots where a batch starts and stops
  (`Marks`, `Lasts`), and, until the producer has gone round the ring, the tail is the
  slot the read has reached (`Progress`).  That two items in the ring are in
  different slots (`Apart`) is what makes the comparison with `last` stop the read at
  the right item.
- `LogFilesProofs`: `LinesKept`, `TypeCorrect`, `FilesCleaned`.  A thread that can
  still open a file by its name
  took the time less than `Pause` ago, within the hour or day of the name; what is about
  to be unlinked is older than `Keep`; and `Day + Pause <= Keep`.  For `FilesCleaned`, a
  file that a scan has passed was young when the scan began, the scan began at
  most `Pause` before it ended and the thread wakes a period later (`Timely`, `Fresh`).
- `ClientStartProofs`: `JunkExplained`, `ConfiguredPool`, `SettingsByPosition`,
  `Invariance`,
  for every file and pool.  What has been answered is frozen before the first
  thread exists; what no longer holds once a text has not fitted is stated only
  up to then.  `Placed` is the invariant of the reader: the number of settings it
  has read is the place of the last line with text it has passed.  `Places` is the
  one lemma about counting that it needs.
- `ReplyDocumentProofs`: `UploadCorrect` and `RepliesWhole` for data, replies and buffers
  of any size (what has been sent or received is a beginning of its source, and
  the position in it the next), and `NullsHaveOrigin` and `OthersLeft` for
  any keys, values, documents and bound of the arrays.  `NullOrigin` is inductive
  together with the shape of the tree: one lemma for each call says what it does to
  the members it names, and that it does nothing to the others; what a text leaves
  that ends early is again a document (`BegunIsValue`, `PartlyIsDocument`).
- `ServiceProgramProofs`: `ObjectsOwned`, `WorkDoneOnce`, `StartsInOrder` and
  `Invariance`, for any
  number of requests, pieces and attempts and every file.  The pointer is `NULL`
  between requests and at the headers, and set in every later call; the body has
  the pieces that have come, and no work is done while the handler is still called.
  For `StartsInOrder` the place `main` has come to decides what there is, and a
  child beside a process that goes on is there only since it was told to stop
  (`Has`).

Assumptions, each named in the module that declares the constant.
`Descriptors`: the three roles are different threads, there is at least one
descriptor and one attempt, a free slot differs from an open one. `AliveLoop`: the
intervals are natural numbers.  `PacketBuffer`: a byte has an even number of values, a
header
is no longer than an int can say, a number is one integer, any other field is
bytes, and the length of a text fits an int (it is what `strlen` returned).
`PacketStream`: a header and a write have at least
one byte.  `AQueue`: producers and consumers are different threads, the ring has at
least two slots.  `RestClient` and `ReplyDocument`: sizes are natural numbers, buffers have
room for at least one byte, and a parsed document is a tree.  `LogFiles`: a day has
hours, `Keep <= KeepAtStart`, and a call of a log
function that lasts up to `Pause` ends before a file of its day can be old (120
hours against 24 in the code).  `ConfigFile`, `Boot` and the service: files are
sequences of lines,
pools are integers, there is at least one attempt.

Only model-checked: liveness under fairness (`Settles`, `Heals`, `Delivers`,
`Served`), which is
beyond the prover.  Every safety
property of a run that passes is proved.

## Not modelled

- `command_refresh_info` and `CPerfInfo::Destroy`: never called.
- The format of log lines, `MakeWrite` (prints a document), `cerr` in
  `RestClient.cpp` after `fclose(stderr)`, which is undefined in C.
- The bytes of a request's body: `http_service.cpp:158` appends each piece as a C
  string although it is passed with its size, so a piece with a zero byte
  loses its rest, and one without is read beyond its end.  This is about content, which
  no order of calls changes; `HttpService` counts pieces.
- What undefined behaviour does beyond a crash or wrong members when a text
  does not fit; the lengths of configuration values (`WMI_MANAGER_IP[128]`,
  `m_monitor_ip[32]`), of
  paths of log files (256 bytes) and of the line buffer (500 bytes), which come
  from the machine's own configuration.
- A manager that accepts a connection and never answers: `ReceivePacket` then waits
  for ever (`Packet.cpp:314`), so no progress property holds against it.
- The work of the HTTP service: `CCloudMSApi`, `CDatabase` and the push threads have no
  sources here; `ServiceStart` models how `main` uses them.
- jsoncpp, libcurl and libmicrohttpd: external, modelled as the code uses them.  Their
  headers and `DbgHelp.h`, `plibc.h`, `inetsock.h` and the like under `src/inc` are
  declarations of
  others, about 12000 of the 15500 lines of C and C++ in the tree; the programs' own
  code is about 3350 lines.
- INNOLIB but for the mutex under the queue and the process control of its service
  application, the program under `test/`, the
  experiments under `tests/` and the older versions (`bak/`, `main_alive.cpp.bak`): the
  client calls none of it.

What could be added: a composition of `AliveLoop` with `PacketStream` in place of
its atomic answer.
