# A formal model of the TRENTOS network stack component

This directory specifies the network stack component of this repository in
TLA+, checks the specification with TLC on small instances, and proves theorems
about it with TLAPS for every number of clients, sockets and quotas.

Run everything from this directory:

    tlc -workers 2 -config accept.cfg MCSocketLayer.tla     # transfer, report, freed, drained,
                                                            # lostfin, reuse, closing
    tlc -workers 2 -config receive.cfg NicProps.tla
    tlc -workers 2 -config send.cfg NicSend.tla
    tlc -workers 2 -config startup.cfg MCLifecycle.tla
    tlc -workers 2 -config errors.cfg MCErrorReport.tla
    tlapm SocketLayerProofs.tla                             # and the other *Proofs.tla

## 1. The system

The component gives up to eight clients BSD-like sockets over one picoTCP
instance and one NIC driver.  picoTCP is not thread safe and not part of this
repository (it is a git submodule).

| Part | Source | State it keeps | Operations |
|---|---|---|---|
| Socket RPC interface | `src/network_stack_core.c` 46-402, macros in `include/network_stack_core.h` | none of its own | `networkStack_rpc_socket_*` |
| Socket table, client table | `src/network_stack_core.c` 404-633, `include/network_stack_config.h` | `instance.sockets[]`, `instance.clients[]` (static arrays) | look-ups, `reserve_handle`, `free_handle`, `set_parent_handle` |
| picoTCP adaptation | `src/network_stack_pico.c` | none; writes table entries | one function per socket call; `handle_pico_socket_event`; error translation |
| Control loop | `src/network_stack_core.c` 651-761 | `needsToBeNotified` of the clients | `NetworkStack_run`, `notify_clients_about_pending_events` |
| NIC adapter | `src/network_stack_pico_nic.c` | legacy/event mode, ring position | `nic_send_frame`, `nic_poll_data`, `pico_nic_initialize` |
| Life cycle | `src/NetworkStack_PicoTcp.c`, `NetworkStack_init` | component state, IP configuration | `run`, `if_config_rpc_configIpAddr`, `initializeNetworkStack` |
| Environment accessors | `src/network_stack_config.c` | none | mutex, notification and NIC wrappers |
| Ticker component | `src/NetworkStack_Ticker.c` | none | emits the loop event once a second |
| Assembly | `camkes/*.camkes` | none | which threads, mutexes and notifications exist |

Threads:

* the **RPC thread** serves the socket interface; there is one for the
  interface, so the calls of all clients are serialised;
* the **control thread** runs `NetworkStack_run()`: it waits for
  `event_tick_or_data`, takes `stackThreadSafeMutex`, lets picoTCP process a
  tick, notifies the clients and releases the mutex. picoTCP calls
  `handle_pico_socket_event()` and the NIC adapter from inside the tick;
* the **configuration RPC thread** serves `configIpAddr` during start-up;
* the Ticker and the NIC driver are components of their own.

How they interact: the RPC thread calls picoTCP under `stackThreadSafeMutex` and
wakes the control thread with `internal_notify_main_loop()`; the control
thread's callbacks write the events of a socket into its table entry and mark
its client; the control thread then emits the client's notification, and the
client fetches its events with `getPendingEvents`.

What is hard: the table is shared by both threads, but the mutex does not cover
all of it. A call tests FIN and copies the pico socket pointer *before* it takes
the mutex; `read`, `recvfrom` and `close` write the table *after* they released
it; `free_handle` holds a different mutex (`socketControlBlockMutex`), which the
control thread never takes. Around this come bounded resources (table, quota,
dataport), handles that are reused, picoTCP sockets that free themselves, and
wake-ups that carry no data.

What makes each part correct:

* *tables*: the quota counter is exact; a handle belongs to at most one client
  and changes hands only through nobody; a reserved entry is clean;
* *socket calls*: each returns, never touches another client's socket, and
  closes every pico socket that it gives up (all of them do, except `close` on a
  listening socket, which leaves the connections waiting there behind); waiting
  connections are announced; what is left for picoTCP to do is taken up;
* *events*: what the callback records reaches the client, once, within the
  space the client offers;
* *NIC adapter*: in both directions frames are handed over whole, in order and
  once; none waits without a wake-up, whatever the loop score;
* *life cycle*: no call is served before everything it needs is there; the
  configuration that a user was told is in use is the one in use; the state only
  moves forward;
* *errors*: a call that fails returns its own error, not one that another call
  or the control thread left behind.

`PROJECT.json` lists every hazard with the line where it bites and the property
that covers it.

## 2. The modules

| Module | Content |
|---|---|
| `PicoTcp` | EXTERNAL: picoTCP as the adaptation layer sees it. A socket is its address, with a state, a parent and a queue length |
| `SocketTable` | the two tables, `reserve_handle`, `free_handle` and the look-ups, as operators |
| `SocketLayer` | the RPC thread and the control thread over the tables and picoTCP: `Init`, the actions, `Next`, `Spec` |
| `HandleService` | abstract specification: handles, owners, quotas, nothing else |
| `AcceptService` | abstract specification: connections that arrive at a handle, are accepted once, and are held until the handle is released |
| `SocketProps` | the properties of `SocketLayer`, the refinement mappings to `HandleService` and `AcceptService`, the fair specification |
| `MCSocketLayer` | constants and symmetry for TLC |
| `SocketLayerProofs` | theorems and proofs: types, ownership, quotas, the refinement |
| `SocketLinkProofs` | the table and picoTCP agree about every socket |
| `SocketAcceptProofs` | the connections that wait at a listening socket; the refinement of `AcceptService` |
| `SocketEventProofs` | event masks, connection flags and counters; what the broken comments need in order to hold |
| `FrameFifo` | abstract specification of one direction of the NIC adapter: a queue of frames |
| `NicPoll`, `NicProps` | receiving: `nic_poll_data()` against a concurrent driver of either kind; its properties and the mapping to `FrameFifo` |
| `NicSend` | sending: `nic_send_frame()` against the results of `nic_dev_write()`, with its properties and the mapping to `FrameFifo` |
| `NicPollProofs`, `NicSendProofs` | their proofs; the instances need no module of their own |
| `Lifecycle`, `LifecycleProps` | start-up: the control thread, the configuration thread and early socket calls |
| `MCLifecycle`, `LifecycleProofs` | its instances and proofs |
| `ErrorReport` | `pico_err`, its translation, `current_error`, and what calls and events report; with its properties |
| `MCErrorReport`, `ErrorReportProofs` | its instances and proofs |

The modules meet where the code's parts call each other. For `SocketLayer` all
of the NIC adapter is the choice of the events a tick brings, and start-up is
over. For `NicPoll` the rest of the stack is `pico_stack_recv()` and a loop event
that anybody may raise. `Lifecycle` ends where `SocketLayer` begins: in
`RUNNING`, with the client table filled in (`ServedOnlyWhenReady` is what
`SocketLayer!Init` takes for granted). `ErrorReport` is the same two threads and
mutex as `SocketLayer`, seen only through the error variables.

### State of the socket layer

| Model | Code |
|---|---|
| `pico[a]` | the pico socket at address `a` (`implementation_socket` points there) |
| `sockets[h]` | `instance.sockets[h]` without `current_error`, `buf_io`, `buf`; `impl` is `implementation_socket`, `pending` is `pendingConnections` |
| `clients[c]` | `instance.clients[]`; the entries with `inUse` false have no counterpart, `socketQuota` is the constant `Quota` |
| `ts` | `stackThreadSafeMutex` |
| `loopEvent` | the notification `event_tick_or_data` (binary, as in seL4) |
| `notified[c]` | the notification `networkStack_<i>_event_notify` of a client |
| `rpc`, `ctl` | the two threads: program counter and locals |

### Steps of the socket layer

What a thread does while it holds `stackThreadSafeMutex` is one action where the
other thread cannot tell. Elsewhere the steps are as small as the code's shared
accesses:

* a call is `CallCreate` / `CallOnSocket` / `CallCloseAfterFin` /
  `CallGetPendingEvents` (argument checks, FIN test, pointer copy, all without
  the mutex), `RpcLock`, one action for the critical section (`Create`,
  `Accept`, `ReadSome`, ...), and what follows the unlock: `ClearLoad` and
  `ClearStore` for `eventMask &= ~READ`, `FreeHandle` and `FreeHandleRest` for
  `free_handle`;
* `getPendingEvents` is one step per visited entry, plus one for the part after
  the mutex was released (`VisitQuiet`, `VisitPending`, `AfterPending`);
* the control thread is `CtlWait`, `CtlLock`, any number of events (`EventBegin`
  or `EventIncoming`, then `EventFinish` or `EventFault`; `EventNoHandle`),
  `TickDone`, per client `SkipClient` or `NotifyClient` and `NotifyClear`, and
  `CtlUnlock`.

Modelling decisions a reader should know:

* A call that fails an argument check changes nothing; it has no action.
* The several `|=` of one callback are one load (`Callback`) and one store
  (`WithEvents`).
* `socketControlBlockMutex` is only ever taken by the RPC thread, so it excludes
  nobody and is not modelled.
* `free_handle`'s stores are taken in program order. `clientId` is not volatile,
  so a compiler could move it; the split before that store is the one the
  control thread can observe.
* The wake-up of the main loop is one step with the unlock next to it, on
  whichever side of it the code has it. The notification is only read by a
  thread that then needs the mutex.
* What picoTCP does is an assumption, read off its use in `network_stack_pico.c`
  (`PicoTcp` lists it). Four points matter to the results. *Closing*:
  `pico_socket_close()` fails only on a freed socket; so the failures that lines
  495 and 703 could see on an open one do not occur, and `AcceptService`'s
  `Release` finds nothing waiting. *Backlog*: closing a listening socket does
  not close the established connections that nobody has accepted (state
  `"orphan"`); nothing in this repository does so either, until their peer
  closes and the callback, finding no handle, closes them. *Incoming
  connections*: PICO_SOCK_EV_CONN on a listening socket (`EventIncoming`) means
  that a handshake is complete and `pico_socket_accept()` will return the
  connection, although the comment at line 287 speaks of a SYN that has
  arrived. *Addresses*: see `ReuseAddresses` below.
* A picoTCP call on a freed socket is undefined behaviour. The model lets it
  fail or act on whatever now lives at the address, and the run `freed` shows
  that it happens.
* `ReuseAddresses` says whether the heap reuses an address that a table entry
  still holds. The passing runs set it to FALSE, because the run `reuse` shows
  that the other choice already breaks the reverse look-up. The theorems of
  `SocketLayerProofs` hold for both, those of `SocketLinkProofs` and
  `SocketAcceptProofs` for FALSE. In `SocketEventProofs` each theorem that needs
  FALSE assumes it.
* A control thread that writes through NULL (`EventFault`) stops, with the
  mutex held.
* Data is counted, not stored (`rx`); addresses, ports, payloads and socket
  options are left out; error codes are in `ErrorReport`.

### NIC adapter

| Model | Code |
|---|---|
| `slots` | the dataport `nic_from_port`, an array of elements with `data` and `len`; `len # NoFrame` stands for `len != 0` |
| `isLegacyInterface`, `isDetectionDone`, `pos` | the static variables of `nic_poll_data()` |
| `ctl.score`, `ctl.len`, `ctl.more` | `loop_score`, `len` and `framesRemaining` |
| `loopEvent` | `event_tick_or_data` |
| `mayFail` | EXTERNAL: may the driver's read (write) fail in unexpected ways? Chosen at the start, never changed |
| `mayCut`, `debugBuild` | EXTERNAL: may the driver's write succeed with another length? Does `Debug_ASSERT()` halt? Chosen at the start, too |
| `legacyDriver`, `nicQueue`, `drv` | EXTERNAL: the driver component, its own frames, its thread and its ring position |
| `handed`, `wire` | the last frame that `pico_stack_recv()`, `nic_dev_write()` got |
| `outQueue`, `port` | EXTERNAL: picoTCP's output queue; the dataport `nic_to_port` |

A legacy driver and the adapter share the ring without a lock, so each access
to `len` or `data` is a step of its own: `NicFill` and `NicPublish` of the
driver, `RingCheck`, `RingTake` and `RingClear` of the adapter. With an event
driver, `nic_dev_read()` is a call into the driver and one step (`ReadFrame`).

* A frame is a model value that stands both for its data and for its length, so
  data that is handed over with another frame's length shows.
* `nic_dev_read()` may return OS_ERROR_NOT_IMPLEMENTED, NOT_INITIALIZED,
  NO_DATA, or, if `mayFail`, anything else. The code does not tell the latter
  from success and passes on what is in `len` (`ReadFails`, any length). With
  OS_ERROR_NOT_IMPLEMENTED after the first frame it exits (`ReadFatal`). The
  comment at `network_stack_pico_nic.c:113` says that NOT_IMPLEMENTED means the
  event-based interface; the code takes it, as its log message says, for the
  legacy one.
* The return value feeds picoTCP's random numbers and is left out. When picoTCP
  polls a second time in a tick, the model sees a second tick.
* When `nic_dev_write()` reports success with another length, a debug build
  stops at an assertion (`WriteHalts`), and a release build goes on to
  `return len`: for picoTCP the frame is sent, whatever part of it the driver
  took (`WriteCut`). `FrameFifo` says so with `cut`. It is true only of a release
  build with such a driver; without one, no frame is cut.
* What picoTCP does with a frame when it gets -1 is not known from here; both
  outcomes are modelled (`KeepOrDrop`).

### Life cycle

| Model | Code |
|---|---|
| `state` | `currentState` |
| `pIpAddrConfig`, `ipAddrConfig` | the pointer (`"null"`, to the hardcoded `"static"` one, or to the `"copied"` one) and the copy |
| `hardcoded` | is NetworkStack_PicoTcp_USE_HARDCODED_IPADDR defined? |
| `badges`, `clientIds` | the badges of the connected clients; the ids in the client table |
| `instance`, `picoContext`, `nic` | the static instance is set; picoTCP's context is not NULL; `os_nic` |
| `applied` | the address, mask and gateway the NIC has been given |
| `run`, `config`, `rpc` | the control, configuration and socket RPC thread |
| `accepted` | history: the configurations for which OS_SUCCESS was returned |

Each step of `initializeNetworkStack()` and `pico_nic_initialize()` is an action,
and each may fail (`ClientsFail`, `NicFails`). `stack_init()` may leave picoTCP
without a context; its result is ignored, and `pico_device_init()` then
dereferences NULL (`DeviceFault`). The `memcpy` of the configuration copies
field by field in any order, and a string that is read while it is written may
be torn. A call to `configIpAddr` that fails a check changes nothing and has no
action. The strings of a hardcoded configuration are not told apart.

The state stays UNINITIALIZED until the initialization is over, so a second call
of `configIpAddr` during it passes the same test and returns OS_SUCCESS, although
`if_NetworkStack_PicoTcp_Config.camkes:33` promises OS_ERROR_INVALID_STATE for a
stack that is not in that state. What it passed is then applied in part, as a
mixture with the first configuration, or not at all. `SuccessMeansApplied`
therefore speaks of a single call (`config.calls <= 1`); TLC refutes it at once
without that condition.

### Error reporting

`pico_err` is a global that picoTCP sets; a failing call has set it to an error,
a succeeding one and the work of a tick leave anything in it. `rpc.own` is a
history variable: the error a call failed with. `Store`, `StoreCreate`,
`StoreAccept` and `NoHandle` are the ways in which `current_error` is written
after a call. They write it whether the call failed or not, and so does the
callback: the error of an ERROR event that was not fetched yet is replaced by the
next call on that socket. The comment at `network_stack_config.h:46` knows only
the control thread as a writer of the field. No document says how long the error of
an event is kept, so this loss has no property.

## 3. The runs

Deadlock is checked in `errors`. The other systems may really stop
(`CHECK_DEADLOCK FALSE`): after a fault of the control thread, an `exit(0)` or a
failed assertion, after a failed initialization with no configuration call left,
or when no client has a call left to make.

| Run | Instance | Checks |
|---|---|---|
| `accept` | 2 clients with quotas 1 and 2, 2 handles, 3 addresses; create, listen, accept, close | `ConnectionsAnnounced`, `AnnouncementCounted`, `LeftOpenByCloseOnly`, `QuotaKept`, `CleanReservation`, `OwnSocketsOnly`, `EventsKept`, `ServiceSpec`, `AcceptSpec` |
| `transfer` | 1 client, 1 handle, 2 addresses, both socket types, every call of a client and every event of a socket that is not listening, one data unit; threads fair, ticker and NIC perhaps silent for ever | `TypeOK`, `ConnectedMeansEstablished`, `EstablishedMeansConnected`, `ClosedIsReleased`, `EventsKept`, `WorkTakenUp` |
| `report` | 1 client, 2 handles, 2 addresses; create, connect, listen, accept, `getPendingEvents`; fair | `EventsFit`, `RoundsEnd`, `EventsReported`, `EventsSignalled`, `CallsReturn` |
| `receive` | either driver, with and without unexpected errors, ring of 3, loop scores up to 2, 2 frames, fair | `TypeOK`, `NoStrandedFrames`, `FifoSpec`, `FramesHandedOver` |
| `send` | 2 frames that fit and one that is too long, queue of 3, retries, with and without failing writes and writes of another length, debug and release builds, fair | `FifoSpec`, `FramesSent` |
| `startup` | both builds, up to two configuration calls, all badge lists of up to 3 clients, room for 2, fair | `TypeOK`, `ServedOnlyWhenReady`, `SuccessMeansApplied`, `StateOrder`, `ConfigurationDecided` |
| `errors` | 2 sockets, 4 values of `pico_err` | `TypeOK`, `OwnError` |

`TypeOK` of the socket layer bounds what the code uses as an index (`head`, `tail`,
the handle of a callback), and that of the receiving side the ring positions.
`EventsKept` is asked twice: `accept` has the announcements
and their withdrawal, `transfer` the events of data and of the end of a connection.
The `FifoSpec` of `receive` allows anything to be handed over beside the frames
when reads may fail unexpectedly, because the code then passes on what `len` holds;
that part of the reading hazard has no property. The other five runs show
where the code does not do what a comment in it says (section 5).

Bounds, and why they are enough. *Handles*: two are needed for a client to find
the table full, for a scan to pass an entry, and for a round robin to have an
order; the interference between calls and callbacks is about one entry at a
time. *Clients*: two are needed for ownership and quotas; the liveness
properties are about one client. In `accept` one client may hold one of the two
handles and the other both, so one meets its own limit and the other a full
table. *Addresses*: one more than handles
lets a connection arrive that has no handle. A read asks for up to
*MaxRx* + 1 data units, so that one queued unit makes a full, a short and an empty
read possible; *MaxPending* 2 lets `pendingConnections` run ahead of the
connections that are left. A connection arrives only below `MaxPending`; the
code's counter has no bound. `Ops` and `NetEvents` choose what happens in a
run, so that each run spends its states on the question it asks; together the
runs use every operation and every event.

*Ring*: 3 elements let the driver be a full round, one element and two
elements ahead of the adapter, and both wrap around; a loop score of 2 ends
inside, at and behind the frames that are there. *Frames*: two tell reordering,
repetition and a mixed-up length apart. *MaxCalls*: 1 is the use the interface
describes, 2 lets another call come at any point of the initialization. *Badges* 100 to 103
for up to 3 clients are below, in and above the range. *Errors*: one value of
`pico_err` for each thing the code does with it: none, the one that ends the
socket, one with a translation, one that maps to the default.

Fairness of the socket layer (`FairSpec`): seL4 schedules both threads and its mutexes let a waiting
thread in (strong fairness on `CtlLock` and `RpcStep`, weak on `CtlStep`); the
Ticker emits once a second (weak fairness on `TickOrData`); picoTCP's tick ends
(strong fairness on `TickDone`: a tick handles a bounded number of frames, the
loop score). A client that was notified calls `getPendingEvents` again, with
any limit. No fairness is assumed of the network or of any other call.

A ticker hides lost wake-ups: whatever is forgotten, the next tick finds it.
`transfer` therefore assumes only that the threads run (`SilentSpec`, no
`TickerFairness`), so that the notification which a call sends, and which the
control thread may be about to wait for, is all that leads to a tick.

Liveness holds up to a fault of the control thread (`Faulted`), which `closing`
shows to be possible: after it nothing more is promised. It takes a `close`, which
`report` leaves out to stay small, so in that run events do get reported.

Fairness of the NIC adapter: the driver's thread finishes what it has begun and
the control thread runs (weak fairness on `NicPublish`, `NicEmit`, `PollStep`), the
Ticker emits, and a read that could succeed does not fail forever (strong
fairness on `ReadFrame`). New frames are never assumed. When sending, the
driver does not answer OS_ERROR_TRY_AGAIN forever (strong fairness on
`WriteAccepted`). Of the life cycle only the control thread and a configuration
call that was begun are scheduled; nobody has to call anything.

## 4. What is proved

Eight modules hold proofs. `SocketLayerProofs` proves, for every value of the
constants that meets the assumptions named in `PicoTcp`, `SocketTable` and
`SocketLayer`:

* `TypeCorrect`, `QuotaHolds`, `EventsFitHolds`: the invariants `TypeOK`,
  `QuotaKept` and `EventsFit`;
* `CleanReservationHolds`, `OwnSocketsOnlyHolds`: two action properties;
* `RoundsEndHolds`: the loop of `getPendingEvents` goes once around the table at
  most (`RoundNearer`: the distance from `head` to `tail`, which wraps, falls by
  one with each round);
* `ImplementsService`: `Spec => ServiceSpec`, that is, the socket layer
  implements `HandleService` under the mapping `Owner`.

All rest on `Invariant == Spec => []IInv`. `IInv` strengthens the invariants by
what the threads rely on and no single invariant says:

* `LockInv`: the mutex is held exactly by the thread that is inside its critical
  section. Without it nothing keeps the control thread out of a reservation.
* `CallInv`: after its checks a call still owns the entry it works on, until it
  has freed it. This is why checking ownership once, without the mutex, is
  enough: only the RPC thread changes owners.
* `RoomInv`: `getPendingEvents` looks for another event only below its limit.
* `CtlInv`: the callback has a handle, and room in `pending`.
* `OwnerInv`: an entry in use has a client; a free one has none unless
  `free_handle` is between its stores.
* `CleanInv`: a free entry has no events, unless it is being freed, or the
  control thread has faulted over it. In that case the mutex stays with the
  dead thread and no reservation can follow, so `CleanReservation` survives a
  race that its own text does not mention.

The induction first classifies each step by its effect on ownership
(`TableStep`: nothing, one reservation, or one half of `free_handle`); quota,
ownership, cleanliness and the refinement are then proved from the four cases
instead of from some forty actions.

`SocketLinkProofs` proves `ConnectedMeansEstablishedHolds` and
`UnacceptedHasNoHandleWithoutReuse`, assuming `~ReuseAddresses`. The assumption is
needed: with `ReuseAddresses = TRUE` in `accept.cfg`, TLC finds both violated, and
`ConnectionsAnnounced` and `LeftOpenByCloseOnly` too, for the reason the run `reuse`
shows. None of them is inductive. `LinkInv` adds what ties
the table to picoTCP: an entry in use has a pico socket of its own (`Linked`,
`Unshared`); an open pico socket that neither waits at another one nor has lost
its listening socket has a handle (`Reached`); a connection that was not accepted has no handle (`Waiting`); the
pointer a call copied before it waited for the mutex is still the one in the
table (`CallLink`); `free_handle` gives up only a socket that picoTCP has closed
(`FreeLink`); and FIN, wherever it is on its way between a thread's load and its
store, means that picoTCP has freed the socket (`FinLink`; `EstLink` for
CONN_EST). `FinLink` is why `close` may skip picoTCP after FIN: a lost FIN (run
`lostfin`) makes `close` call picoTCP once too often, but nothing leaks.
`MovesKeep` reduces a step that neither reserves nor frees a handle to its effect
on picoTCP, on the flags and on the call.

`SocketAcceptProofs` proves `ConnectionsAnnouncedHolds` from the same assumption.
`QueueInv` counts for each entry the connections that wait, against
`pendingConnections` plus the one the callback is about to add, and looks for
CONN_ACPT in the mask the entry has or is about to get. Writing a mask back
without the mutex, as `read` and `recvfrom` do, could drop CONN_ACPT that
arrives in between. It cannot here, because such calls are admitted only
on sockets that will never listen (`ReadLink`, from `DgramLink` and
`ConnectedMeansEstablished`).

The same module proves `ImplementsAcceptService` (`Spec => AcceptSpec`). The mapping
reads the owner and the pico socket of each entry in use, and as its backlog the
connections that picoTCP would hand out there. `Create` is then the abstract `Open`,
`EventIncoming` is `Arrive`, `Accept` is `Accept`, the `Close` of a listening socket is
`Drop`, and `FreeHandle` is `Release`; a waiting connection that the peer ends, or that
`accept` takes and cannot place (`AcceptRefused`), is `Leave`. All other steps
stutter. What makes the map go through is that each arrival finds its one
listening socket (`OneListener`, from `Unshared`), and that nothing waits at a
handle that is released: `FreeLink` says that picoTCP has closed its socket before.

`SocketEventProofs` is about the event masks and what depends on them.

* `EventsKeptHolds` rests on `MasksCovered`: a mask that the callback has loaded,
  together with the bits it adds, still covers what is in the entry when it is
  stored (`LoadCovers`), and the mask that `read` and `recvfrom` store brings back
  no event that was withdrawn meanwhile (`StoreShrinks`). The first needs `LockInv`:
  nobody adds an event while the callback holds the mutex, and the writers that do
  not hold it only take events away. Neither theorem needs an assumption on
  addresses.
* `EstablishedMeansConnectedHolds` and `ClosedIsReleasedHolds` follow from `OpenInv`: for
  each entry in use, a socket past the handshake is marked as connected or the
  callback is about to mark it (`OpenLink`), one that is being shut down belongs to
  the `close` under way (`ClosedLink`), and none has lost its listening socket
  (`OrphanLink`).
* `LeftOpenByCloseOnlyHolds` says which step leaves a pico socket open that no
  handle leads to. Under the invariants such a socket is exactly one that has
  lost its listening socket (`LeftOpenIsOrphan`, by `Reached`; `OrphanIsLeftOpen`,
  by `OrphanLink`), and `StepTurns` goes through the steps to find the only one that makes
  a socket so: the `Close` of the socket at which it waits. Unlike a statement
  about states, this leaves no case out: that `close` is the one path that leaks,
  every other closes what it gives up. `NoSocketLeakWithoutClosingListeners` adds
  that nothing leaks at all when `listen` and `close` are not both in `Ops`.
* `AnnouncementCountedHolds` follows from `CountInv`. The equivalence itself (`Counted`)
  would break if an unlocked write dropped CONN_ACPT; `ServerOk` keeps a
  socket that counts connections out of `read` and `recvfrom` for good (it is
  neither connected nor a datagram socket, and picoTCP never takes it out of its
  listening states but to close it), `ReaderLink` says the same of the call under
  way.

`NicPollProofs` proves `TypeCorrect`, `ImplementsFifo` (`Spec => FifoSpec`, for a
ring of any size) and `NoFrameStranded` (when reads fail only in the documented
ways). The mapping takes the frames from the adapter's position up to the
driver's. The invariant says that exactly these elements have `len # 0`, that
the driver's position is the first free one unless the ring is full, and what
each thread may rely on between its steps: an element that was checked stays
filled until the adapter clears it, one that is being filled stays free until
the driver publishes it. `len` is therefore enough as an ownership flag. That
`RingTake` is the abstract `Deliver`, and `NicPublish` the abstract `Arrive`,
then is arithmetic on positions that wrap.

`NicSendProofs` proves `ImplementsFifo` for sending: while a write is under way
the dataport holds the head of picoTCP's queue, which is what a retry sends again.
The theorem covers both builds: a frame is lost only if it is too long or writes may
fail for good, and it counts as sent with a length that is not its own only in a
release build whose driver reported that length.

`LifecycleProofs` proves `TypeCorrect`, `ServedWhenReady`, `StatesInOrder` and
`OneCallApplied`. `PhaseInv` ties the control thread's place in `run()` to what has been
built so far, and to the state; `ServeInv` keeps it for a call under way. Since
`RUNNING` is final and nothing is taken down after it, the test at the beginning
of a call is enough. `OneCallApplied` is about a single call, by an invariant that holds as long as
there was at most one: before the only call gets through, the control thread has not passed its poll;
while the call copies, it still has not; afterwards the copy does not change.

`ErrorReportProofs` proves `TypeCorrect` and `ReturnsOwnError`: from the failure of a
call until its error is stored, the RPC thread holds the mutex, so `pico_err`
is still the call's own; and no error other than `"NOERR"` translates to success.

The comments that section 5 shows to be broken hold where the one thing that
breaks them does not happen. These theorems say what a correction has to deal with:

| Run | Theorem | Holds where |
|---|---|---|
| `freed` | `NoCallOnFreedSocketWithoutResets` | no peer resets or refuses a connection, and no address is reused. By `GoneLink`, a socket that is gone while it has a handle is then about to lose it |
| `lostfin` | `FinKeptWithoutReads` | clients call neither `read` nor `recvfrom` (`OpsInv`: only these get to the unlocked update) |
| `reuse` | `UnacceptedHasNoHandleWithoutReuse` | no address is reused |
| `closing` | `CallbackFindsClientWithoutClose` | clients do not close sockets; addresses may be reused (`FoundInv`) |

These runs set `Ops`, `NetEvents` or `ReuseAddresses` otherwise, so the theorems and the
counterexamples do not contradict each other. There is none for `drained`: without
`read` and `recvfrom` nothing clears READ, and with them data may always arrive
before the store.

Every safety property of the passing runs is proved. Only model-checked are the
liveness properties `EventsReported`, `EventsSignalled`, `CallsReturn`,
`WorkTakenUp`, `FramesHandedOver`, `FramesSent` and `ConfigurationDecided`, since TLAPS as
used here does not prove liveness under fairness.

## 5. Findings

| Run | The comment says | The code does |
|---|---|---|
| `freed` | a pico socket may not be accessed after FIN (`network_stack_pico.c:330`) | tests FIN before it waits for the mutex, and uses the socket afterwards |
| `drained` | READ is cleared when no data is left (`network_stack_pico.c:869`) | clears it after the unlock, when data may have arrived |
| `lostfin` | one thread writes `eventMask`, the other reads it (`network_stack_config.h:47`) | both write it, and a `read` can overwrite FIN |
| `reuse` | a connection that was not accepted has no handle (`network_stack_pico.c:234`) | an entry keeps the address of a freed socket, and the address can come back |
| `closing` | a socket on which close was called has no handle (`network_stack_pico.c:236`) | `close` frees the handle while a callback may be using it; the callback then dereferences NULL |

Two more departures have no run. Closing a listening socket leaves the connections
that wait there open, without a handle, until their peers close them
(`LeftOpenByCloseOnly`), although the callback closes a connection that can get no
handle "in order to avoid a handle leak" (`network_stack_pico.c:241`). And a second
`configIpAddr` during the initialization returns OS_SUCCESS and changes the
configuration while it is applied (section 2, Life cycle).

## 6. Not modelled

Not modelled:

* `parentHandle` and `status` in the reports of `getPendingEvents`: they are passed
  on, and no document says what a parent handle means after its socket was
  closed;
* the MAC address that `pico_nic_initialize()` reads from the receive dataport: whether
  a frame can be there before depends on the driver, which is not part of this
  repository;
* whether a compiler keeps the loop over the non-volatile `pIpAddrConfig` and the
  order of unlocked stores: the models take both as written;
* the Ticker when its timer cannot be set up, and its proxy calls (they only
  return NOT_IMPLEMENTED);
* logging, debug output, `pico_err2str`, `get_dataport_for_handle` and
  `get_implementation_socket_from_handle` (pure reads, the former unused), socket
  options, payload and addresses;
* the CAmkES files (declarations; the models take threads, mutexes and
  notifications from them), and the inside of picoTCP and of the NIC driver.
