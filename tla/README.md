# libhbk: TLA+ models, checks and proofs

libhbk is a C++ library for programs that serve many descriptors from one
thread: an event loop, notifiers, timers, non-blocking sockets, TCP and
multicast servers, and helpers for network adapters, addresses, time and
strings. It has a Linux and a Windows implementation behind common headers.
This directory holds specifications of its core, the TLC configurations that
check them on small instances, and TLAPS proofs for all instances.

Paths below are relative to `src/lib`; headers are in `include/hbk`.

## 1. Inventory

| Component | State | Operations | Hard behaviour | What makes it correct |
|---|---|---|---|---|
| EventLoop, Linux (`sys/linux/eventloop.cpp`) | `m_eventInfos` with its mutex, `m_events`, `m_eventCount`, the epoll instance, the stop notifier | `addEvent`, `addOutEvent`, `eraseEvent`, `eraseOutEvent`, `execute`, `stop` | callbacks that erase, add and replace events while a batch is being worked off; other threads doing so; edge-triggered signals that come once | no callback of an erased event is called; no signalled work is forgotten; kernel and map agree; `stop()` ends `execute()` |
| Notifier, Linux (`sys/linux/notifier.cpp`) | eventfd counter, callback | `set`, `notify`, `process` | `notify` from any thread while `process` reads | n notifications, n executions |
| Timer, Linux (`sys/linux/timer.cpp`) | timerfd, callback | `set`, `cancel`, `process` | re-arming and cancelling from callbacks and other threads, against expiries not yet read | a callback runs for its own setting only, once, and not after `cancel()` |
| BufferedReader (`communication/{linux,windows}/bufferedreader.cpp`) | `m_buffer`, `m_fillLevel`, `m_alreadyRead` | `recv` | short reads, rests, data arriving between two system calls | "behaves like standard recv": every byte once and in order |
| SocketNonblocking (`communication/{linux,windows}/socketnonblocking.cpp`) | the descriptor, both data callbacks, a BufferedReader | `connect`, `disconnect`, `setDataCb`, `setOutDataCb`, `receive`, `receiveComplete`, `send`, `sendBlock`, `sendBlocks` | partial writes, broken connections, reconnecting | nothing is skipped or sent twice; success means everything was sent |
| TcpServer (`communication/{linux,windows}/tcpserver.cpp`) | the listening descriptor, the accept callback | `start`, `stop`, `process` | several connections for one signal, stop and start again | every connection is accepted once; no descriptor is closed twice |
| EventLoop, Notifier, Timer, Windows (`sys/windows`) | completion port, map of callbacks | as on Linux | completions that outlive their event | as on Linux |
| MulticastServer | one receiving and one sending socket, the list of adapters | `start`, `stop`, `addInterface`, `dropInterface`, `receiveTelegram`, sending over one or all interfaces | interfaces that come and go, two threads on one sending socket, datagrams that end the reading | success means sent over every interface asked for; datagrams that wait are received |
| Netlink, NetadapterList, Netadapter | netlink socket, map of adapters with a mutex | `start`, `process`, `update`, look-ups | events of the kernel against look-ups of other threads | list and events follow the interfaces |
| Ipv4Address, Ipv6Address, timeconvert, string | none | pure functions | edges of the conversions | inverse of each other, within their widths |
| PidFile, executeCommand, WMI, exceptions, JSON-RPC constants, stack trace, tools | little or none | I/O | | |

How they interact. Sockets, servers, notifiers, timers and Netlink register
a callback for their descriptor with an event loop, which calls it from
`execute()` while it holds `m_eventInfosMtx`, and calls it again as long as it
returns a positive number. Callbacks may call the event loop in turn (the
mutex is recursive). A socket reads through its BufferedReader. The destructors
erase the event first (the Linux `disconnect()` closes the descriptor before).
Only the event loop has a mutex; notifiers, timers and sockets rely on
running in the loop's thread.

## 2. Modules

| Module | Models | Uses |
|---|---|---|
| `EventLoop` | `sys/linux/eventloop.cpp`; epoll is external | |
| `Notification` | the promise of `sys/notifier.h` | |
| `Notifier` | `sys/linux/notifier.cpp`; eventfd and epoll are external | refines `Notification` |
| `Timer` | `sys/linux/timer.cpp`; timerfd and epoll are external | |
| `Stream` | the promise of `communication/bufferedreader.h` | |
| `BufferedReader` | `communication/linux/bufferedreader.cpp`, `receive`, `receiveComplete`, reconnection | compared with `Stream` |
| `BufferedReaderWin` | `communication/windows/bufferedreader.cpp`, `receive`, `receiveComplete`, `setDataCb` | refines `Stream` |
| `Sender` | `sendBlocks`, `sendBlock`, `waitForWritable` of `communication/linux/socketnonblocking.cpp` | |
| `SenderWin` | `sendBlocks`, `sendBlock` of `communication/windows/socketnonblocking.cpp` | extends `Sender` |
| `Sockets` | the rest of `communication/linux/socketnonblocking.cpp`, and `tcpserver.cpp`; descriptor table and epoll are external | |
| `Interfaces` | the interfaces of the kernel and the list of adapters | |
| `Network` | `communication/linux/netlink.cpp` and `netadapterlist.cpp`; rtnetlink is external | extends `Interfaces` |
| `Multicast` | `communication/linux/multicastserver.cpp`, and the sending of the Windows one | extends `Interfaces` |
| `CompletionPort` | `sys/windows/eventloop.cpp`; the port is external | |
| `NotifierWin`, `TimerWin` | `sys/windows/notifier.cpp`, `timer.cpp`; the timer queue is external | extend `CompletionPort` |
| `ServersWin` | `communication/windows/tcpserver.cpp` and the receiving of `multicastserver.cpp` | extends `CompletionPort` |
| `Conversions` | `sys/timeconvert.cpp`, netmask and prefix of `communication/ipv4address.cpp` | |
| `EventLoopProofs`, `TimerProofs`, `BufferedReaderProofs`, `BufferedReaderWinProofs`, `SocketsProofs` | theorems about the module they are named for | extend it and `TLAPS` |
| `SenderProofs` | theorems about `Sender` and `SenderWin` | extends both |
| `NotifierProofs` | theorems about `Notifier`, `NotifierWin`, `TimerWin` and `ServersWin`, the modules of `MCNotifier` | extends them |
| `NetworkProofs` | theorems about `Network`, `Multicast` and `Conversions`, the modules of `MCNetwork` | extends them |
| `MC...` | instances for TLC | extend their modules |

An MC module that joins several modules has a variable (`platform`, `system`,
`part`) that is chosen in the initial state and says which of them is explored;
the others stand still. Each part also has a specification of its own
(`SpecWin`, `NetSpec`, `McSpec`, `NotifierSpec`, `TimerSpec`, `ServerSpec`,
`ConversionsSpec`), made of the same initial states and actions that the MC
module uses; the theorems are about those. (`McNext` joins the actions of the
server's three parts, which `MCNetwork` explores one part at a time, so `McSpec`
allows every behaviour of that run's server and more.)

Each module holds, next to the action it is a variant of, the mutants: the same
action with a plausible mistake, marked "Mutant of". They are used by no
specification; putting one in place of its original must break a property.

### EventLoop

Two threads: `loop` runs `execute()`, `app` stands for the rest of the
program; both add, erase and stop, `loop` from callbacks. `execute()` is cut
where another thread can come in between: `EpollWait` (the system call fills
`m_events`), `StoreEventCount` (its result is assigned to `m_eventCount`,
without the mutex), `Lock`, then per slot and direction `SkipEvent` or
`Dispatch`/`HandlerReturn`, `EndOfPass`, and `ExecuteReturn` at the slot of the
stop notification. The loop holds the mutex from `Lock` to the next
`EpollWait`, so actions of `app` that need it are enabled only outside
(`MayLock`), and the mutex needs no variable. `EraseAt` says where `execute()` may
be when `app` erases.

`m_eventInfos` is `node` (the address of an entry) and `handlers` (which of the
two callbacks are set). Addresses matter because epoll and the batch hold
pointers to entries: an erased address may be allocated again, which is why
`eraseEvent()` turns the slots of the batch off (`TurnOff`). A slot that points
at a freed entry leads to `DispatchDangling`, after which nothing is known
(`pc = "undefined"`). epoll is its ready list, a mask and a pointer per
descriptor; work waiting at a descriptor is a `level` up to `MaxLevel`, and an
arrival puts a watched descriptor into the ready list, once (edge triggered).
A callback takes some of the work and returns a positive number, or takes
everything and does not, or throws. `addEvent()` ends with calls of the callback
"until nothing is left", without the mutex: `DrainCall`, `DrainReturn`.
The mirrored in and out functions are one definition with the direction as a
parameter.

### Notifier and Notification

`Notification` is a counter of pending notifications and one of executions.
`Notifier` is the eventfd counter (with its limit, where `notify()` is
refused), the ready flag of epoll, and `process()` as `Dispatch`, `Read`, and
one `Call` per execution; notifications arrive between any two of them.
Refinement mapping: pending is the eventfd's counter plus the calls that
`process()` has still to make. A callback that throws ends `process()`, and the
calls still to be made are dropped: the abstract action is `Abandon`, so what is
shown is that notifications are lost in no other way.

### Timer

`set()` and `cancel()` take no mutex, so each is cut between its accesses to
`m_eventHandler` and its system calls; the callback that `cancel()` executes may
call `set()` and `cancel()` itself. Calls of `set()` are numbered, and the
callback has the number of its call, so that a callback executed for another
setting's expiry shows. Time is the action `Expire`. The failure returns of
`timerfd_settime` and `timerfd_gettime` (an invalid descriptor) are left out.

### BufferedReader, BufferedReaderWin and Stream

Bytes are numbered in the order they are sent, so that `data`, the bytes of the
last answer, shows each loss, repetition or exchange. `Stream` allows the next n
bytes, -1 only if nothing is there, 0 only after the peer has closed and all
was received, and promises nothing more on a connection that is broken and
exhausted. The Linux `recv()` is one system call and one action. The Windows
one has up to three calls of `WSARecv()`, each a step between which the peer
sends, closes or resets. If the third one fails, the number of bytes is
undefined: any DWORD (`RetryFails`). It may put `m_fillLevel` past `m_buffer`, and the
next `recv()` then hands out what lies behind it in memory (`Buffered`).

### Sender

The bytes of a call are numbered over all of its blocks; `wire` is what the
kernel has taken. The array of blocks is changed in place as in the code. The
kernel takes any number of bytes that fits, or none, the send buffer drains at
any time, and the connection breaks at any time. `sendBlocks()` with `more` sets
`MSG_MORE` *instead of* `MSG_NOSIGNAL`; a broken connection may then end the
process, the state `killed`.

### SenderWin

The state of `Sender` with other steps: one `WSASend()`, then `sendBlock()` for
what is left of each block. `sendBlock()` declares a second `retVal` in the
branch for errors, so its caller never learns of one, and `sendBlocks()` goes on
with the next block; an error that passes (`WSAENOBUFS`) then leaves a hole in the
stream. An error of `WSASend()` is returned as its positive code, which may be any
number, the length of the call included (`ErrorCodes`). The history variable `error`
marks the calls of either kind.

### Sockets

Who owns which number. A client socket, a server, one accepted socket and
the rest of the program open and close descriptors in one table, in which the
kernel gives out the lowest free number. `k` holds who has opened a number,
whose callbacks `m_eventInfos` has for it, and what epoll watches for the open
file. `disconnect()` is three steps: it closes, then it erases the event for input
and the one for output, and another thread may get the number in between. `process()` accepts one connection per
step; the edge-triggered signal comes once per arrival, so what is left behind
by a failure or an exception is visible (`AcceptDue`). The record `past` is
history: who was robbed, and which of the cases has occurred that the code does
not cope with.

### Interfaces, Network and Multicast

An interface is gone, down or up, and has an address or not; the list of
adapters has a copy of that. In `Network` each change is a message in the
bounded buffer of the netlink socket, which overruns. `update()` reads and
exchanges in two steps, in the event loop (for a message) and in a thread of the
application. `lastLink` and `addrs` are what an application makes of the
events it is told. In `Multicast` the list changes at any time (`Environment`).
A call for sending is a record per thread: for each interface in turn it sets
`IP_MULTICAST_IF` on the one sending socket and then calls `sendto()`, which
takes the interface that is set by then, or the one the system takes if that is
the default. On Windows `sendOverInterfaceByIndex()`, which `send()` calls
for each adapter, passes a structure that begins with four zero bytes
(`windows/multicastserver.cpp:656`), which select the default interface;
`sendOverInterface()` with a buffer passes the index itself (`:507`). The Windows
`sendOverInterfaceByAddress()` converts the group where it should convert the address of
the interface (`windows/multicastserver.cpp:590`), which selects none; the call
then fails.

### CompletionPort, NotifierWin, TimerWin and ServersWin

The key of a completion is the number of a handle. Completions wait in the port
while their entry is erased, their object destroyed and the handle's number given
to another object, so each one carries, as history, the object and the life of
it for which it was posted. `execute()` is cut between taking a completion and
each call of the callback, since the mutex is free in between. In `TimerWin` the
thread of the timer queue runs `timerCb()`, which reads the handle of the
Timer when it posts; `set()` is three steps. In `ServersWin` one
overlapped operation is outstanding, completes with an item, and is ordered
again by `process()`; the completion is lost if the socket is not associated with
the port yet.

### Conversions

Words of `W` bits where the code has 32, and 2W where it has 64; TLC's integers
have 32 bits, so the constants of the code are scaled in proportion. `Power2` is 2^n
as a recursive function, since the provers know nothing of the operator `^`.

## 3. Runs

| Run | Result | Distinct states | What it shows |
|---|---|---|---|
| `el_batch` | holds | 2.8 million | With two descriptors and the stop notification competing for two slots: no pending event of an erased entry (`BatchLive`), no wake-up lost (`NoLostWakeup`). Other threads erase at any time but between the return of `epoll_wait()` and the assignment of its result. |
| `el_live` | holds | 108 thousand | With both directions, other threads erasing at any time: kernel and map agree (`KernelAgrees`); `stop()` ends `execute()` and work is handled, once no more work arrives and unless the race of 6. has made the behaviour undefined. |
| `el_erase_race` | violated | | `BatchLive` when other threads erase while the loop runs, see 6. |
| `el_stop_lost` | violated | | `NoWakeupLostByStop`, see 6. |
| `no_exact` | holds | 418 thousand | Linux: `Notifier` implements `Notification` with its liveness, callbacks throwing, counter at its limit; `SignalPending`. Windows: callbacks get their own completions (`OwnCompletion`), n notifications are n executions (`NotifiedExactlyWin`), a timer that was set fires (`TimerDue`), a server has an operation outstanding (`OperationDue`). |
| `tm` | holds | 109 thousand | `CancelSilences` with two threads; `OwnExpiry`, `AtMostOnce`, `FiresUnlessImpaired`, `FiresEventually` as long as all calls are made in the loop's thread. |
| `br_linux` | holds | 247 thousand | `IntactUnlessMixed`, `InOrder`, with one reconnection. |
| `br_win` | holds | 71 thousand | `BufferedReaderWin` implements `Stream`, which promises nothing on a broken connection; `WakeupDue`; `m_fillLevel` leaves `m_buffer` on a broken connection only (`TypeOK`). |
| `br_lost` | violated | | The Linux reader does not implement `Stream`, see 6. |
| `send` | holds | 182 thousand | `NothingSkippedOrRepeated`, `SentEverything` on Linux, `SentInOrderWin` on Windows, `Returns` on both. |
| `sock` | holds | 505 thousand | No object closes or erases what another one owns (`NobodyRobbed`), no descriptor leaks (`Ownership`), what is watched follows the callbacks (`CallbacksWatched`), waiting connections are accepted (`AcceptDue`), each but for the cases it names. |
| `net` | holds | 3.2 million | The list shows the interfaces (`ListCurrent`), the events told add up (`EventsFollowed`), waiting messages and datagrams are processed (`MessagesDue`, `DatagramsDue`), a successful call for sending has sent over every interface it is for, but for the calls on Windows that take the default interface (`SentOverAll`); conversions and their inverses (`RoundTrip`). |

Bounds, and why they are enough.

* EventLoop: `Fds`, `Nodes`, `MAXEVENTS`, `MaxLevel`. Two slots for three
  sources let a descriptor be left over in the ready list; two descriptors let a
  callback erase the entry behind its own in the batch; two addresses let an
  erased one be used again. `MaxLevel = 2` lets a callback leave something
  behind. `el_live` has one descriptor, as directions only interact within one,
  and one unit of work: more arrives while the first is being handled.
  Descriptors and addresses are symmetric; the liveness run uses no symmetry.
* Notifier: `MaxCount = 3`, `MaxNotify = 6`: the limit is reached, twice read.
* Timer: `MaxSets = 2`: one setting replaced, or re-armed in a callback, with a
  second thread running.
* Readers: `BufferSize = 3` with requests of up to 3 (2) bytes makes rests of
  every size, exact fits, and requests beyond the rest; 8 (6) bytes fill the
  buffer more than twice. `MaxConnects = 1`: rests across one reconnection.
  `MaxDword = 7`: an undefined number passes the request and `m_buffer` together.
* Sender: up to three blocks of 0 to 2 bytes, a send buffer of 3: a rest begins
  inside a block, at a border and behind empty blocks. Two calls. Error codes are 1
  to one more than the longest call, so a code equals the length of each call
  and of none.
* Sockets: `MaxFds = 2`: the table is full while somebody holds a number too
  long, and a number that is closed is the next one given out (three also
  hold). `MaxBacklog = 2`: one connection behind the one that fails.
  `UntilRobbed` ends the exploration where an object has lost its descriptor to
  another one: that state is still checked, nothing can be said of what follows.
* Windows: two handles, so that the number of a destroyed object is reused while
  its completions wait; `MaxGen = 2` lives per object (three also hold),
  `MaxQueue = 3`, `MaxPosts = 2`, `MaxInbox = 2`: one item behind the one that is
  processed.
* Network and Multicast: two interfaces, which are symmetric; `MaxChanges = 3`
  lets one vanish, come back and get its address (the parts of the server have
  fewer); `MaxMsgs = 2` and `MaxDatagrams = 2`: one waits behind the one that is
  processed, and the third overruns.
* Conversions: `W = 8`, every word.

Deadlock is checked except in `no_exact` and `send`, where the notifier is
destroyed and the calls are used up. The type predicates of `Timer`, `Sockets`,
`Network` and `Multicast` belong to no run; `TimerProofs` and `SocketsProofs` prove
theirs, and those of the other two are parts of the invariants in `NetworkProofs`.

Fairness.

* EventLoop: threads and callbacks go on (weak fairness of the loop's steps and
  of drain loops; strong for a callback's return, which is disabled while the
  callback drains), and epoll serves its ready list in turn (strong fairness per item, the
  kernel rotates the list). Without "no more work arrives" neither
  liveness property holds: `execute()` looks at the stop notification only after
  a pass in which no callback reported more work (`eventloop.cpp:300`), so a
  source that is always readable keeps it away.
* Notifier: the loop's thread goes on.
* Timer: threads go on, callbacks return, armed timers expire. Nothing makes
  the application call `set()` or `cancel()`.
* Sender: the thread goes on, the peer receives while the connection is open,
  and interruptions (EINTR) do not repeat forever (strong fairness of
  `sendmsg()` taking something or failing). The connection need not break. On
  Windows weak fairness of the thread and of the peer.
* The other modules have safety properties only. That something "is to come"
  (`AcceptDue`, `MessagesDue`, `DatagramsDue`, `TimerDue`, `OperationDue`) is
  stated as an invariant: a signal, a completion or a running call is there for
  it. With the fairness of the loop this is what liveness needs.

## 4. Proofs

Every theorem holds for all values of the constants that satisfy the named
assumption of its module (sizes and bounds are natural numbers, at least 1 where
the code has a fixed positive size; a call of `Sender` may have one block at
least, since `sendBlock()` sends one; the units of a second and the offset of
`Conversions` fit into a word; the null pointer is no address; the sets of
handles, objects, interfaces and threads are any sets). Each proof has the same
shape: an invariant that is a conjunction of named parts, a lemma per action or
per group of actions, and a temporal step that puts them together.

Event loop on Linux (`EventLoopProofs`)

* `TypeCorrect`: types, and `InSlot`: while a callback
  runs, the slot index is within the batch. The second part is needed because
  only with it the index stays within `m_events`.
* `KernelAgreesAlways`: `KernelAgrees` is inductive together
  with `MapOK`: an address belongs to at most one entry, and an
  entry exists exactly if it has a callback. Without the first, erasing one entry
  could take the address of another; without the second, a removed callback could
  leave a watch behind.
* `BatchLiveAlways`, `NeverDangling`: if `"store"` is not in `EraseAt`, the set of
  places of `execute()` at which other threads erase. The inductive invariant
  `BatchInv` says of the batch, from the return of `epoll_wait()` on and not only
  from the assignment of `m_eventCount`, that every set event belongs to an existing entry and that an address occupies one
  slot at most (`TurnOff` stops at the first match). What is left out is exactly
  `eraseEvent()` by another thread between the two, the race of `el_erase_race`:
  erasing while `epoll_wait()` waits, or before the loop takes the mutex, is safe.
* `NoLostWakeupAlways`: `WakeInv`. Work may leave the batch only when its slot
  is worked off, so the invariant says what a pass has left behind: if no
  callback of this pass has reported more, then the events still set in the
  slots behind it have no work that nothing else announces (`PassInv`), and the
  same of the callback that is running (`CallInv`). It holds with other threads
  erasing, up to the undefined state.

Notifier and timer on Linux

* `NotifierProofs!TypeCorrect`, `SignalPendingAlways`, `NotifierImplements`: the
  invariant adds that calls remain exactly while `process()` is in its
  loop, and that accepted notifications are counted somewhere. Each
  step of the notifier maps to a step of `Notification` or to none.
* `TimerProofs!CancelSilencesAlways`, with any second thread: the callback is
  gone from the first step of `cancel()` on, and only `set()` brings one back.
* `TimerProofs!OwnExpiryAlways`, `AtMostOnceAlways`, `FiresUnlessImpairedAlways`,
  for calls from the loop's thread. `OwnInv`: outside of `set()`, a timer that may
  expire was armed for the callback that is set. `OnceInv`: if a callback that may
  still run (the one set, or the one `cancel()` has taken) belongs to a
  single-shot timer that has fired, then that timer cannot expire again.
  `FireInv`: a setting that is neither impaired nor called off is being armed, is
  armed, has expired, is about to run, or has run. `NumberInv` keeps settings
  still to come out of all of it.

Readers

* `BufferedReaderProofs!TypeCorrect`, `IntactAlways`: `IntactUnlessMixed` is
  inductive with `taken <= sent` and with `receiveComplete()` never asking for 0
  bytes.
* `BufferedReaderProofs!InOrderAlways`, an action property, also for the calls
  that lose bytes and over reconnections. `Ordered`: what was handed out last,
  then what is left in `m_buffer`, then what the socket still has, are in the
  order in which they were sent; a rest that is topped up keeps that order,
  although it is not counted.
* `BufferedReaderWinProofs!TypeCorrect`, `ReaderImplements`, `WakeupDueAlways`:
  the invariant has three parts. `Bytes`: what was taken is what was handed
  out plus the rest, and `m_buffer` holds the next bytes (while the
  connection is not broken). `Control`: where `recv()` is implies that the
  buffer is empty, and a request is positive. `Signals`: the overlapped receive is
  pending only while nothing has arrived. `TypeCorrect` does not say that
  `m_fillLevel` stays within `m_buffer` in general: it does while the connection is
  not broken, and `m_alreadyRead` never passes it.

Sockets and TCP server on Linux (`SocketsProofs`), for a descriptor table of any
size

* Lemmas say what opening, closing, adding and erasing do to the table. In
  particular a table in which the kernel watches each open descriptor for exactly
  its entry (`Watched`) stays so, if a number is given out without an entry.
* `OwnershipAlways`: `Ownership` is inductive once it is known that a closing
  socket still has its number (`Known`). It holds also after something was taken
  away.
* `NobodyRobbedAlways`, `AcceptDueAlways`: what they rest on holds only as long
  as nothing was taken away and no number was reused in the middle of
  `disconnect()` (`Regular`). Then `EntriesOwned`: an entry belongs to the owner of
  the descriptor, or to the one socket that is about to erase it (in the directions
  it has still to erase), and closing
  sockets have different numbers, which are free. So a number that is given out,
  and is not such a socket's, has no entry. `Listening`: until `stop()` the number
  of the server is its own; after `stop()` it is not, which is why the second
  one closes what belongs to others. `Soon`: connections that wait have a call, a
  signal, or a failure in front of them.
* `CallbacksWatchedAlways`: of `SpecUntilRobbed`, which ends where an object was
  robbed, like the run `sock` does with its constraint. It adds `Handling`, the
  entry of a socket has the callbacks that are set; the state after a robbing is
  reached by a second `stop()` only, which leaves the sockets that were not robbed
  as they were.

Network and multicast (`NetworkProofs`), for any set of interfaces

* `MessagesDueAlways`, `ListCurrentAlways`: `ListInv` says of three lists at a
  time (the one in use, the one the loop has read, the one another thread has
  read) that it differs from the kernel only while a message waits; the third one
  only if no newer list was exchanged before it.
* `EventsFollowedAlways`: for each interface the last message in the buffer tells
  how it is; if none waits, the message being processed; if that is not about
  it, what was told last.
* `SentOverAllAlways`, for all calls on Linux and those on Windows that do not take
  the default interface: while a call is not crossed by
  another one, what it has sent over and what is still to do is together what it
  is for, and `IP_MULTICAST_IF` is the interface it has chosen (`Booked`); two
  calls at a time are both crossed (`CallInv`).
* `DatagramsDueAlways`.

Windows (`NotifierProofs`), for any handles, objects, lives and lengths of the queue

* `NotifierOwnCompletion`, `TimerOwnCompletion`, `ServerOwnCompletion`: completions
  are of no life still to come (`GenInv`), and while an object exists whose handle
  was not given out again, the completions with its handle are those of its
  present life and no others (`NotifierKeys`, `TimerKeys`, `ServerKeys`); an
  entry of the map belongs to the object with that handle.
* `NotifiedExactlyAlways`: what was processed, what waits in the port and what is
  being executed add up to what was accepted. The number of completions that wait
  is a cardinality, and lemmas say how `Append` and `Tail` change it.
* `TimerDueAlways`, `OperationDueAlways`: both also between the steps of `set()` and
  `start()`. For the server, a completion of the present socket is lost only by
  an error that is recorded as deafness (`ServerErrors`).

Senders (`SenderProofs`), for any number and sizes of blocks, empty ones included,
and any space in the send buffer

* `TypeCorrect`, `NothingSkippedOrRepeatedAlways`, `SentEverythingAlways`. The
  invariant speaks of where the blocks lie and not of what they contain: from
  `pBlockPos` on, they are one behind the other, the first begins behind the
  bytes the kernel has taken, and the last one ends at the length of the call.
  While the array is being advanced, `remainingOffset` is the part of them that
  was taken. That the bytes of blocks that lie so are the numbers from the first
  to the last (`Gathered`) is a lemma of its own, and so is that the blocks
  of a call lie so in the beginning.
* `SentInOrderWinAlways`, on Windows: what was sent is in order and lies before what
  the blocks still to be looked at describe; while nothing was hidden, all of it
  was sent. The theorem says what an answer means only of calls without an error;
  where the code of an error is returned it says that nothing was sent.

Conversions (`NetworkProofs!RoundTripAlways`), for any width of a word, any units
and any offset

* Times: a product fits into the double word, a quotient is named by its two
  inequalities, and the rounding of both directions together stays below one unit.
  For this the code adds 1 to the fraction; without that, `RoundTrip` fails.
* Netmasks: the loop of `getNetmaskFromPrefix()` gives 2^W - 2^(W - prefix); the
  bits of that are ones and then zeros; a word has exactly one first gap; and a
  word with ones in front of it and none behind is that number, as reading its
  bits from the front repeats the loop.

Induction over data. What a recursive function computes (`LengthBefore`,
`FlattenSeq`, `Power2`, the loop over the prefix) needs induction, and the
induction theorems of the library take a predicate as parameter, which the
provers cannot instantiate. `InductionOverSet` is the same principle for a set; it is
proved from the pigeonhole principle of `FiniteSetTheorems`: if some m were outside
of the set, the numbers up to m could be mapped one to one into those below m.

Only model-checked: every liveness property (`StopReturnsWhenCalm`,
`WorkHandledWhenCalm`, `NotifiedEventually`, `FiresEventually`, `Returns`), which is
out of this prover's reach. Every invariant and every action property of a passing
run is a theorem.

## 5. What is deliberately excepted

Some properties name the cases the code does not handle, so that they say
exactly what does hold:

* `NoLostWakeup`, `WorkHandledWhenCalm`: a callback that throws before it has
  taken everything is not called again for the rest (`eventloop.cpp:270`).
* `BatchLive` leaves out erasing by other threads between the return of
  `epoll_wait()` and the assignment of its result, see 6.
* `NotifiedExactly`: a callback that throws takes the other notifications of the
  same read with it (`notifier.cpp:86`).
* `FiresUnlessImpaired`, `FiresEventually`: `set()` called from the callback that
  `cancel()` executes is disarmed again by the rest of `cancel()`
  (`timer.cpp:115`); `set()` after a `set()` with an empty callback installs the
  default one, because the member is tested instead of the argument
  (`timer.cpp:85`).
* `OwnExpiry`, `AtMostOnce`, `FiresUnlessImpaired` and `FiresEventually` are
  checked for calls from the loop's thread only: with a second thread `set()`
  may replace the callback between an expiry and `process()` (`timer.cpp:86`).
  A timer that has expired but was not processed yet is cancelled without its
  callback being executed at all (`timer.cpp:106`).
* `IntactUnlessMixed`: see `br_lost`. Rests also survive a reconnection
  (`linux/socketnonblocking.cpp:506`), and the timeout of `receiveComplete()`
  gives up what it has received so far.
* `Returns`: the end may be that of the process, by SIGPIPE
  (`linux/socketnonblocking.cpp:349`).
* `LikeRecv` and `TypeOK` on Windows: after a reset in the middle of `recv()` the
  byte count is undefined (`windows/bufferedreader.cpp:86`). `Stream` promises
  nothing on a broken connection, and `m_fillLevel` may leave `m_buffer` there, see
  6.
* `SentInOrderWin`: errors of `send()` and `select()` are hidden
  (`windows/socketnonblocking.cpp:355`), see 6. An error of `WSASend()` is
  returned as its positive code (`:301`), which a caller takes for a number of
  bytes, or for success if it is the length of the call.
* `NobodyRobbed`: a second `stop()` of `TcpServer`, by the destructor for example,
  closes the number again (`linux/tcpserver.cpp:141`), and `disconnect()` erases
  the event of whoever got the number since `close()`
  (`linux/socketnonblocking.cpp:509`).
* `Ownership`: `connect()` and `start()` overwrite a descriptor that is open, also
  one that an earlier attempt which failed has left (`linux/tcpserver.cpp:66`).
* `CallbacksWatched`: `clearOutDataCb()` clears the callback for input
  (`linux/socketnonblocking.cpp:148`); an empty callback is registered, see 6.
* `AcceptDue`, `DatagramsDue`, `MessagesDue`: a connection, datagram or message
  that cannot be handled ends the calls of `process()`, and the ones behind it wait for
  the next arrival: no descriptor left or an exception
  (`linux/tcpserver.cpp:154`), an empty datagram or one of an interface not in
  the list yet (`linux/multicastserver.cpp:370`), an overrun (`linux/netlink.cpp:228`).
* `ListCurrent`: changes before the netlink socket is bound, failures to read, an
  overrun, and an `update()` of another thread that was overtaken
  (`linux/netadapterlist.cpp:237`). `checkSubnet()` reads the list without the
  mutex (`linux/netadapterlist.cpp:290`), which is outside the model.
* `SentOverAll`: two threads share `IP_MULTICAST_IF` (`linux/multicastserver.cpp:543`).
  On Windows `send()` and `sendOverInterfaceByIndex()` take the default interface, see
  6.
* `OwnCompletion`, `NotifiedExactlyWin`: a handle whose number was given out
  again with completions left.
* `TimerDue`: an expiry before `addEvent()` (`windows/timer.cpp:84`).
* `OperationDue`: an item that completes before `addEvent()` associates the
  socket, an empty datagram (`windows/multicastserver.cpp:406`), an operation that
  cannot be started, and any error but a reset, which also ends `execute()`.
* The Windows event loop goes round for good if a callback returns a positive
  number and its entry is erased before it is looked up again
  (`windows/eventloop.cpp:161`): `stop()` of `MulticastServer` by another thread
  does that. The model reaches this state (`Spins`); it has no successor
  for the loop.
* `RoundTrip`: the last fraction of a second becomes 0 microseconds, as the
  addition wraps (`timeconvert.cpp:106`), and 1000000000 nanoseconds;
  `nanoseconds2NtpStruct()` overflows from 2^32 ns on (`timeconvert.cpp:55`).

## 6. Disagreements of code and documentation

* `el_erase_race`: `epoll_wait()` and the assignment of `m_eventCount` are outside
  the mutex. If `eraseEvent()` of another thread runs between them it scans the
  old number of events, and the new batch keeps a pointer to the freed entry.
  `eventloop.cpp:176` says that no callback is called from pending events
  afterwards, and `eventloop_test.cpp` destroys notifiers from another thread.
* `el_stop_lost`: `execute()` returns at the stop notification and
  drops the rest of the batch. The loop "might be stopped and started again"
  (`eventloop_test.cpp:158`), but edge-triggered events are not reported again.
* `br_lost`: two bytes arrive while one is asked for; then two are
  asked for. `recv()` copies the rest, `readv()` finds nothing, -1 is returned
  and the byte is gone. The header says "keep the remaining data" and "behaves
  like standard recv".

Four more have no run of their own. A property of a passing run excepts each of
them, and TLC finds the trace when the exception is taken out of the property.

* `TypeOK` of `BufferedReaderWin`: the connection is reset after the second `WSARecv()`
  of a `recv()`. The third one fails, its result is not looked at, and the number of
  bytes, which no call has written, is returned, or its excess becomes
  `m_fillLevel` (`windows/bufferedreader.cpp:86`). The header says "behaves like standard
  recv".
* `SentInOrderWin`: `sendBlock()` fails for one block, which its caller does not
  learn (`windows/socketnonblocking.cpp:355`), and the next block is sent; and
  the code of an error of `WSASend()` that equals the length of the call is
  returned as if everything was sent (`:301`). The header says "send everything or
  until connection closes".
* `CallbacksWatched`: `setDataCb()` with an empty callback registers the `std::bind()`
  of it, which is not empty (`linux/socketnonblocking.cpp:131`). The header says "if
  setting an empty callback function DataCb_t(), the event is taken out of the
  eventloop".
* `SentOverAll`: with two adapters the Windows `send()` sends twice over the default
  interface and reports success (`windows/multicastserver.cpp:656`). The header says
  "Send over all interfaces".

## 7. Plan

Everything that keeps state and is used by more than one thread, callback or
system call is modelled, on Linux completely. What is left:

1. On Windows: `connect()` and `disconnect()` of the socket, the memberships
   of the multicast server (which return `errno` where the error is in
   `WSAGetLastError()`), and Netlink.
2. Proofs: what can be said of `Sockets` after an object was robbed of its
   descriptor (`OwnershipAlways` covers it, the other theorems do not).

## 8. Not modelled

Options without an effect on the properties (`setMulticastLoop()`, the ttl, keep
alive, buffer sizes); several messages in one netlink datagram; exceptions
that leave the Windows `execute()`; times given as `double`; addresses as text
(`Ipv4Address`, `Ipv6Address`), and the string helpers. `PidFile` writes and removes a
file.

Not to be modelled either: WMI (a fixed sequence of COM calls), `executeCommand`,
`readLineFromFile` and the tools (pure I/O), exceptions, JSON-RPC constants and
the stack trace (no behaviour).
