# libracing in TLA+

`libracing` is a small C library (about 2,200 lines without the examples) that
lets a Windows program talk to racing simulators: Assetto Corsa (AC) and
Assetto Corsa Competizione (ACC) over UDP, iRacing through shared memory. The
clients of AC EVO (`src/ace`) and Le Mans Ultimate (`src/lmu`) are empty files.
Each client is one translation unit: the `.c` files include each other, and all
state that is not in an object is a file-level `static`. There are no threads,
locks or timeouts; what runs concurrently with the library is the simulator.

Paths below are relative to the repository root.

## 1. Inventory

| component | code | state | operations |
|---|---|---|---|
| Winsock user counter | `src/utils/wsa_client.c` | `wsa_client_users_counter` (static), Winsock's own start-up count | `wsa_client_add_user`, `wsa_client_remove_user` |
| UDP socket | `src/utils/udp_socket.c` | `udp_socket_t` {`_socket`, `_address`, `_wsa_initialized`}, `udp_socket_last_error` (static) | `udp_socket_create`, `_destroy`, `_send`, `_receive` |
| AC client | `src/ac/client.c`, `types.c` | `ac_client_t` {`_udp_socket`, `_handshake_performed`}, `ac_last_error` (static) | `ac_client_create`, `_destroy`, `_handshake`, `_subscribe_update`, `_subscribe_spot`, `_dismiss`, `_receive` |
| AC string fix-up | `src/ac/client.c` | none | `ac_fix_string` |
| ACC client | `src/acc/client.c`, `types.c` | `acc_client_t` {`socket`}, `acc_last_error` (static), the caller's `acc_server_response_t` | `acc_client_create`, `_destroy`, `_send`, `_receive`, `acc_server_response_free` |
| ACC request writer | `src/acc/writer.c` | none (a buffer and an offset) | `acc_write_*`: a size pass, `malloc`, a writing pass |
| ACC response reader | `src/acc/reader.c` | none (a buffer and an offset) | `acc_read_*` |
| arrays and strings | `src/utils/types.c` | `string_t`, arrays made by `DEFINE_ARRAY_TYPE` | `_init`, `_free`, `strings_free` |
| iRacing reader | `src/iracing/client.c`, `utils.c`, `types.c` | the mapped memory, the caller's `iracing_header_t` | `iracing_read_header`, `_session_info`, `_variable_info`, `_variable_value`, `iracing_get_latest_tick`, `iracing_variable_size` |
| iRacing handles | `src/iracing/client.c` | `iracing_client_t` {`file_handle`, `event_handle`, `memory`}, `iracing_last_error` (static) | `iracing_client_init`, `_free` |
| examples | `examples/*.c` | none | straight-line programs over the clients |

How they interact. `ac_client_*` and `acc_client_*` own one `udp_socket_t` each
and call `udp_socket_*`; these call `wsa_client_*`, whose counter is shared by
every socket of the process. An error is a Boolean result plus a static error
code that the caller copies upward (`udp_socket_last_error` into
`ac_last_error`), so the order of "store the error" and "clean up" matters.
`udp_socket_create` and `ac_client_create` clean up by calling the
corresponding destroy on the half-made object. `udp_socket_receive` passes
`_address` to `recvfrom`, which overwrites the destination of later sends. The
iRacing reader shares memory with the simulator and takes no lock; the header
it has copied is kept by the application and passed to later reads.

What is hard, and what makes each part correct:

- **Winsock counter and sockets**: create and destroy fail half way, at any of
  seven system calls; several objects share one counter and one Winsock.
  Correct when the counter counts exactly the objects that will decrement it,
  Winsock is up while somebody needs it, an object never acts on another
  object's handle, nothing is leaked, and a failing create reports its cause.
- **AC client**: calls block; requests and answers get lost; anybody may send
  to the port; a failing destroy can be repeated. Correct when a client that
  opened a session with the game sends its dismiss before it is freed, each
  client owns its socket, and each call returns.
- **iRacing reader**: the simulator overwrites a buffer while it is copied, and
  ticks advance between the header read and the value read. Correct when there
  is a time for which a header may be kept and a read value is whole.
- **ACC reader and writer**: 16-bit lengths taken from and written to packets,
  a size computed in one pass and bytes written in another, loop bounds from
  the packet. Correct when the passes agree and what is accepted was received.
- **ACC client**: a response owns nested allocations that a failing receive may
  leave half made; a failing create or destroy frees the client or keeps it.
  Correct when every allocation has an owner and is freed once.
- **iRacing handles**: a failing init frees a client whose remaining handles
  have never been assigned, and the clean-up may replace the error code.

`PROJECT.json` lists the hazards one by one, at the line where each bites.

## 2. Modules

| module | models | role |
|---|---|---|
| `SharedWinsock` | what `wsa_client.c` makes of Winsock for its users | abstract specification |
| `UdpSocket` | `udp_socket.c` + `wsa_client.c` over Winsock | component |
| `AcClient` | `ac/client.c`; EXTENDS `UdpSocket` | composition with game and network |
| `AccWriter` | `acc/writer.c` | pure operators |
| `AccReader` | `acc/reader.c`, the end of `acc_client_receive`, the `_free` functions | component |
| `AccClient` | `acc/client.c`; EXTENDS `UdpSocket`, `AccWriter`, `AccReader` | composition with game and network |
| `IRacingReader` | `iracing/client.c` reads + `utils.c`, with the simulator | component |
| `IRacingClient` | `iracing_client_init`, `_free`; EXTENDS `IRacingReader` | composition with Windows |
| `UdpSocketProofs`, `AcClientProofs`, `AccReaderProofs`, `AccResponseProofs`, `AccWriterProofs`, `AccClientProofs`, `IRacingProofs` | | theorems; the client proofs extend those of what they are composed from |
| `MCUdpSocket`, `MCAcClient`, `MCAccReader`, `MCAccClient`, `MCIRacingReader`, `MCIRacingClient` | | symmetry and constant values for TLC |

### UdpSocket

The library is single-threaded, but a create or destroy is a sequence of system
calls that may each fail, so each of them is an action; `pc` names the step and
`this` the object, and while `pc # "idle"` no other call starts. Error codes
are abstracted to the name of the failing call; `MayFail` says which calls may
fail *although* Winsock is up and their arguments are valid. A call that must
fail because Winsock is down does so in every instance.

| code | model |
|---|---|
| `wsa_client_users_counter` | `users` |
| `_wsa_initialized`, `_socket`, `_address` | `sock[s].counted`, `.handle`, `.peer` |
| `udp_socket_create` 29-66 | `UdpSocketCreate`, `AddUser`, `OpenSocket`, `ParseAddress`, each with its `...Fails` |
| `udp_socket_destroy` 68-91 | `UdpSocketDestroy`, `CloseSocket`, `RemoveUser`, `RemoveUserSkipped`, each with its `...Fails` |
| `udp_socket_send`, `_receive` | `UdpSocketSend`, `UdpSocketReceive`, each with its `...Fails` |
| Winsock (external) | `startups`: unmatched `WSAStartup` calls; `owner`: which object each open handle was opened for |

The error paths of create *are* destroy (`pc = "close"`), as in the code; a
destroy that fails returns and leaves the object, to its caller if there is one
(`held`) and otherwise to nobody. `closesocket` does not reset `_socket`, and
the `WSACleanup` that matches the last `WSAStartup` closes every handle. The
application keeps at most `MaxHeld` sockets; what a failing create has left
behind does not count, so it goes on creating next to leaked objects.

`sendto` takes an `int` where `udp_socket_send` is given a `size_t`: `AsInt` is
that cast, for an `int32_t` of `IntRange` values. A size above it may come out as
a small number, of which that many bytes leave, or as a negative one, which
`sendto` refuses.

`SharedWinsock` says what the counter comes to for its users: the first to come
starts Winsock, the first to leave takes it down for all, and those left behind
neither leave nor bring it back. `UdpSocket` refines it with the counted objects
as users, which says that none of the error paths adds, removes or starts
anything besides.

### AcClient

Extends `UdpSocket`: a client's create and destroy drive the socket's steps
(`UdpStep`) and go on when these are back at `"idle"`. `call` is the call in
progress. `malloc` does not initialise `_handshake_performed`, so
`AcClientCreate` starts with an arbitrary `flag`. The game is external: `told`
is what it has heard from each client since the last dismiss that reached it;
datagrams are lost (never queued), reordered (`inbox` is a set), or sent by a
stranger. A request goes to `sock.peer`, which the last received datagram
decided, and reaches the game at once or never: it is lost when a stranger was
the last to be heard and, with `Lossy`, whenever it likes (`Delivered`,
`Undelivered`). The flag follows what was sent, as in the code. `unheard`
remembers for the properties the clients that have sent a dismiss which did not
arrive. What an event contains is abstracted to the kind its size announces; null
arguments from the application only set the error code and are left out.

### AccWriter

One operator for each `acc_write_*` function, which yields what its two passes
make: the `total` of the size pass, and what the writing pass has `written`, the
fields and the offset behind them. Pieces are joined with `++`, which writes the
second from the offset that the first has left, as `acc_write_type` does. A
field has a kind, a width in bytes and a value. A `string_t` is abstracted to its
length, which is written modulo 2^16 while all its characters are written, as
one field that says which member they are of (`WriteString`). `Request` is every
request that `acc_client_send` has a case for.

`Understood` is a reader of the datagram, as the game is one. How it goes on is
told by the datagram alone: of a string it takes the length and then as many
characters, of a focus request what the two flags say is there. What it takes is
compared with the request: the type, the version, every string with its member
and length, the car index, and that nothing is left over. A car index has 16
bits in the protocol, so of a larger one the reader expects the low half; that
65536 asks for car 0 is thus not refuted, but recorded as a hazard.

### AccReader

Each of the seven `acc_read_*` functions is a layout (`RegistrationResult`,
`RealTimeUpdate`, ..., named as the types are): the items it reads, in its
order, with `Element` for the elements of its arrays. `Layout` is the switch of
`acc_client_receive` over them. Seven actions interpret a layout (`ReadScalar`,
`ReadReplayFlag`, `ReadString`, `ReadArray`, `NextElement`, `EndOfArray`,
`FinishLap`). Nothing is known of a datagram but the
counts, lengths and flags the parser branches on, each chosen when it is read.

| code | model |
|---|---|
| `*offset`, `received` | `offset`, `received` |
| the response, its members and their blocks | paths: `members` that have been assigned, `heap` that has been allocated, `sizes` of the arrays |
| the call stack of `acc_read_*` | `todo`, the items still to be read; a loop is an item with its `index`, counted modulo `IndexRange` |
| the checks after the switch, `client.c` 217-228 | `ParseReturns`, `ParseRejects`; a rejected response is nobody's, so the model drops it |
| `acc_server_response_free` | `AccServerResponseFree`, with `Owned` for what it frees, by the response's own sizes |

Nothing in the code bounds the parse. The buffer is on the stack: reads beyond
what was received find left-overs (`beyond` remembers that there was one), and
a read beyond the stack ends the process. No `malloc` of `reader.c` is checked,
so with `NoMemory` a string or array that needs memory ends it as well
(`ParseCrashes`, `receiving = "crashed"`). `FinishLap` is the end of
`acc_read_lap`, which makes three splits of fewer. A struct that `malloc`
returned has no assigned member; `StructMembers` is what `types.c` declares.

### AccClient

Composes the three: creates and destroys drive `UdpStep` as in `AcClient`,
`AccClientSend` fills the buffer with `WriteRequest`, and a receive that has got
its datagram goes on with `ParseStep`. `buffer` is the heap buffer of
`acc_client_send`, and `wire` what of it `sendto` was given and whether it took
the whole: it takes less when `(int32_t)` has cut the size, or by itself, and
`SendReturns` compares its count with `total` as the code does. The application holds at most
one response and passes a response it does not hold, as `examples/acc.c` does.
The game (external) sends to the clients that have registered with it
(`registered`), unless their registration was lost or cut (`Heard`); one datagram waits on each socket and others are dropped, and
strangers may send too. Its contents are those `AccReader` chooses.

### IRacingReader

Every `memcpy` is a set of one-word copies in any order, interleaved with the
simulator's one-word writes. Data is the tick it was written for, so a torn
value shows as two different ticks. Reads use the header the application kept
(`header`) and the variable it has asked for (`info`, from
`iracing_read_variable_info`: which words of a row it occupies, size times
count), and `LatestTick` is `iracing_get_latest_tick` on the header. What the
simulator does is an assumption, the one its memory layout is made for: it
keeps `N` buffers (the code allows up to four, the simulator uses three),
writes each new tick over the oldest and publishes its tick afterwards;
session text is rewritten and then its version incremented; the descriptions of
the variables stay. There is no fence and no atomic access in the code; word
copies are taken to be atomic and in no particular order, which covers the
compiler's freedom, and the simulator's stores to become visible in the order
it makes them, as on x86.

### IRacingClient

Extends `IRacingReader` with the struct the reads go through. Nothing
initialises an `iracing_client_t` before `iracing_client_init`, so the first
init starts with members that are null, junk, or the value of a handle somebody
else in the process has open (`phase = "raw"`). `iracing_client_init` is one
action per system call; when one fails, `InitFails` releases the client as it
is and asks for the error afterwards. Windows is external: `handles` says for
whom each value is open (a closed value is given out again), `mapped` whether
the view is, and the last error is that of the last call that failed, those of
the clean-up included (`ErrorAfter`). The rest of the process opens and closes
handles between the client's calls.

## 3. Runs

| run | bounds | question and answer |
|---|---|---|
| `udp_sockets` | 3 objects, 2 handles, 2 senders, `closesocket` and `WSACleanup` fail only when Winsock is down | The counter is exact, Winsock is started once, handles are not shared, nothing leaks unless Winsock went down under its users, and that state is permanent. |
| `udp_shared` | 4 objects, of which the application keeps up to 3, 2 handles, every call may fail | Through every failing path, leaks included, the users of Winsock come and go one at a time and Winsock with the first of each: `UdpSocket` refines `SharedWinsock`. |
| `ac_clients` | 2 clients, 2 handles, 1 queued datagram, requests may be lost, strangers, `malloc`, `sendto`, `closesocket` fail | A session is left behind only by a dismiss that did not arrive; clients and sockets match one to one and no socket is left over; the only client ever lost is one whose garbage flag made its failing create dismiss. |
| `ac_calls` | 2 clients, requests may be lost, no strangers, `sendto` fails; fairness | Every call returns; a receive returns when the game has heard that updates are wanted or Winsock is down. |
| `ac_destroy` | 2 clients, nothing fails | *Violated*: the second of two clients cannot be destroyed. |
| `ac_handshake` | 1 client, nothing fails | *Violated*: a request goes out before any handshake. |
| `acc_reader` | all 7 types; datagrams of 0, 30, 60, 130 bytes, a buffer of 130 and a stack of 150; strings of 0 or 3, arrays of 0 to 4, loop indexes to 3; `malloc` may fail; fairness | What is accepted was received; the response is freed exactly; the members nobody assigns are six known ones; nothing is read twice but in an array longer than its index, and a call that reads one never returns; every parse ends. |
| `acc_members` | real-time updates only | *Violated*: `remaining_time` of a returned update has never been assigned. |
| `acc_client` | 2 clients, 2 handles, every kind of request with strings of 0 to 65539 and of `IntRange` + 300 characters and car indexes from -1 to 65536, `malloc`, `sendto`, `closesocket` fail, strangers; entry lists of 0 and 7 bytes with 0 or 4 entries | The two passes of the writer agree, what the application is told was sent can be read as what was asked, and no client, socket or buffer is lost unless Winsock went down under its users. |
| `iracing_reader` | 3 buffers, 2 words, 3 variables, 2 handles, ticks up to 5, 1 change of the text; any call that opens or maps fails, `CloseHandle` and `UnmapViewOfFile` on a value that is not open | A value is whole and of the header's tick until the simulator is N ticks ahead; stale or not it is never older than the header says; a header's latest tick is recent; a client leaves nothing open and, after its first init, closes nothing of others and reports the cause of a failure. |
| `iracing_session` | ticks up to 3 | *Violated*: text and version disagree. |
| `iracing_init` | simulator at rest | *Violated*: a first init that fails reports an error of its clean-up. |

Why the bounds are enough. With three objects one can be destroyed while
another is in use and a third is being created; with only two handles for them,
`socket()` also runs out and a closed value is reused at once.
Clients interact only through the counter, Winsock and handle values, so two of
them show what one does to another. One queued datagram per socket is enough
because the code reads one at a time and remembers nothing of a datagram but
its sender; order among several is lost in a set anyway. In `ac_clients` and
`acc_client` the calls that may fail on their own account are those that take
the client down its error paths; the others are left to `udp_sockets` and
`udp_shared`. In the latter the application keeps up to three sockets and has a
fourth address for what a failing create leaves behind, so it goes on counting
users next to an object nobody will destroy.

For the ACC parse, the smallest counts at each of its branches: no element, one,
three (no split has to be made up), and 4 with an index that counts to 3, which
is the code's 256 entries with a `uint8_t` index. 130 bytes hold the longest
response of every type, 30 and 60 cut most off in the middle, and 0 is the
empty datagram; only the loop that starts again runs through the 20 bytes of
stack behind the buffer. In
`acc_client` one type of response is enough, because the parse depends on
nothing outside `AccReader`, where the other run and the proof are about all of
them; its 7 bytes are an entry list without entries, and its stack of 9
lets a list with entries run out of the stack, and a datagram without bytes is
rejected. The lengths of a request's strings are: none, one that needs both bytes of
its length, one that nearly fills a datagram (65507 bytes is the most UDP carries), one
that does not fit 16 bits, and one whose total `(int32_t)` cuts to a few hundred
bytes, so that a datagram of that size leaves. An `int32_t` has 2^20 values
there (2^32 are beyond TLC's integers): enough for the largest datagram and every
length to be a positive one, and for a total to go around. In the socket runs it
has 16, with datagrams of up to 6 bytes and sizes of 2 (sent), 7 (too long), 9
(negative) and 18 (cut to 2).

Ticks from 2 (three buffers filled) up to 5 let the simulator overwrite and
publish the buffer a header names as the latest; two words are the fewest a value can be
torn in. Two handles are what a client needs, so that one which is closed is
the one the next call, or somebody else, gets.

Objects, handles, clients and words are interchangeable (no action or property
names one), so the safety runs use symmetry; the two liveness runs, `ac_calls`
and `acc_reader`, do not.

Deadlock is checked in the socket and iRacing runs. In the AC and ACC runs the
process may really stop: a receive blocks without timeout, and with nothing
subscribed, or with a queue that the bound filled, nothing else happens; and a
parse may end the process. `MaxHeld`, `MaxClients`, `MaxInbox`, `MaxTick` and
`MaxSession` bound the application, the network and the simulator; nothing in
the library is bounded.

**Fairness.** `AcFairSpec`, for `CallsReturn`: `WF(AcStep)`, the library
executes the call in progress; it is a sequential program and the operating
system's calls, `recvfrom` aside, return. `WF(GameUpdates(c))`: a game that was
asked for updates keeps sending them, at every physics step, so that loss of
some does not matter. The reply to a handshake has no fairness: it is one
datagram and may be lost, and a client that waits for it waits forever.
`ReaderFairSpec`, for `ParseEnds`: `WF(ParseStep)`, a parse makes no call that
blocks, so it runs on.

### What the runs found

- **`ac_destroy`**: `wsa_client_remove_user` calls `WSACleanup` for every user
  although only the first called `WSAStartup` (`src/utils/wsa_client.c:35`). Destroying
  one of two clients closes the socket of the other, and the other's destroy
  fails. `examples/ac.c:106-109` destroys two clients in turn and expects both to succeed.
  `WedgeIsForever` adds that no sequence of later calls repairs it: the
  counter stays above zero and Winsock is never started again.
- **`ac_handshake`**: `_handshake_performed` is read uninitialised, so the
  status `AC_STATUS_HANDSHAKE_NOT_PERFORMED` may not be reported.
- **`iracing_session`**: the text `iracing_read_session_info` returns may be
  newer than the version stored next to it, or a mix. (`TextIsNotOlder`: it is
  never older.)
- **`iracing_init`**: a failing first init frees members nothing has
  initialised and asks for the error afterwards (`src/iracing/client.c:37-38`), so
  it may report the failure of that clean-up, and may close somebody else's
  handle. Every later init reports its cause, because a free leaves nulls.
- **`acc_members`**: `acc_read_real_time_update` never assigns `remaining_time`,
  which `examples/acc.c:47` prints. `UnassignedAreKnown` says which members
  share this: `session_remaining_time`, the two `best_lap_*` indexes, and,
  outside a replay, the two replay times.

What holding properties say between the lines. `SessionIsRemembered` needs its
exception, because `ac_client_destroy` frees the client once its dismiss is sent
(`src/ac/client.c:40-57`): if that datagram is lost, or goes to the stranger heard
last, the game keeps a session that nobody can close. `OverlongDoesNotReturn`
and the exception of `NothingIsReadTwice`: the `uint8_t` index of the
entry list's loop never reaches a size above 255, and the loop starts again until
the stack ends (`src/acc/reader.c:163`). `NothingIsLost` and
`ClientsOwnTheirSockets` need `Wedged`: with Winsock down under its users a create
opens no socket, its clean-up cannot remove the user it has added, and the
`udp_socket_t` stays allocated (`src/utils/udp_socket.c:52-55`). A datagram found too
short after its parse leaves the response's memory with nobody
(`src/acc/client.c:217-225`, `ParseRejects`).

Noticed while reading, and not the subject of a run:
`IRACING_STATUS_OUT_OF_INDEX` is never returned; `acc_client_send` has no case
for two types that `src/acc/types.c:189-190` declares, the manual replay
highlights; a focus request for car 65536 goes out as one for car 0
(`src/acc/writer.c:180`).

## 4. Proofs

All theorems hold for every value of the constants that the `ASSUME`s of the
modules allow, and depend on nothing else.

### UdpSocketProofs

For every set of sockets, handles and senders, every `MayFail` and `MaxHeld`,
from `UdpSocketAssumption` (finitely many sockets, the null pointer is no
object, `INVALID_SOCKET` no handle, and so on):

| theorem | statement |
|---|---|
| `Invariance` | `UdpSpec => []UdpInv` |
| `TypeCorrectness` | `[]TypeOK` |
| `CounterIsExact` | `[]UsersCountSockets` |
| `StartedOnce` | `[]StartedAtMostOnce` |
| `NoSharedHandle` | `[]HandlesAreOwn` |
| `LeaksOnlyWhenWedged` | `[]NoLeakUnlessWedged` |
| `NoWayBack` | `WedgeIsForever` |
| `CauseIsKept` | `FailedCreateReportsItsCause` |
| `SharedRefinement` | `UdpSpec => WinsockIsShared` |

The argument. None of the properties is inductive alone. That the counter
equals `Cardinality(Counted)` needs to know at which steps `this` is marked
(`CallInv`) and that a freed object carries no mark (`ObjectInv`). That handles
are not shared needs every open handle to be remembered by its owner
(`OwnerInv`), or a new `socket()` could hand out a value that a second object
still holds; and that the clean-up after `closesocket` succeeds, or an object
would survive with a closed handle, which is why the property is about reliable
`WSACleanup`. `UdpInv` is the conjunction of these; `Invariance` proves it
action by action, over lemmas that say what a one-object update does to
`Counted` and to its cardinality. `LeaksOnlyWhenWedged` adds `LeakInv` (outside a
call every live object has a caller, or Winsock is down under users), inductive
relative to `UdpInv`. `LeakStep` and the steps of `UdpInv` are stated about
`UdpUse`, what any user may do to the sockets, so that the clients' proofs cite
them.

`SharedRefinement` holds for any number of objects, kept or leaked, and any
failing call. Only `AddUser` and `RemoveUser` change who is counted or whether
Winsock is up, and they do so as `SharedWinsock` does; that `users = 0` is the
same as nobody being counted, and that one `WSACleanup` takes Winsock down, come
from `UsersCountSockets` and `StartedAtMostOnce`.

### AcClientProofs

| theorem | statement |
|---|---|
| `AcInvariance` | `AcSpec => []AcInv` |
| `AcTypeCorrectness` | `[]AcTypeOK` |
| `SocketsUnderClients` | `[]UdpInv` |
| `SessionsAreRemembered` | `[]SessionIsRemembered` |
| `SocketsAreOwned` | `[]ClientsOwnTheirSockets` |
| `OnlyGarbageLoses` | `[]LostOnlyByGarbageFlag` |

`AcInv` puts four conjuncts on top of `UdpInv`, which the lemmas of
`UdpSocketProofs` carry through every socket step: who owns which socket
(`AppInv`), what the call in progress may assume about the socket it is making
or destroying (`CallsInv`), that a live client the application does not hold is
in the call in progress or has its flag set (`LostInv`), and `SessionInv`. The
last is `SessionIsRemembered` with what makes it inductive: a client whose socket
is being closed has sent its dismiss, so a session it still has at the game is one
the game did not hear the end of (`unheard`). The theorem holds for either value
of `Lossy` and any senders. `SocketsAreOwned` adds `LeakInv` of
`UdpSocketProofs`, which the clients keep because all they do to the sockets is
in `UdpUse` (`ClientsUseSockets`).

### AccReaderProofs

| theorem | statement |
|---|---|
| `ReaderInvariance` | `ReaderSpec => []ReaderInv` |
| `ReaderTypeCorrectness` | `[]ReaderTypeOK` |
| `AcceptedBytesWereReceived` | `[]AcceptedIsReceived` |

A single comparison at the end of a parse finds out about every read beyond the
datagram because such a read leaves the offset beyond it and the offset never
shrinks (`ParseInv`), whatever items are read; no layout is looked at. `SizesInv`
adds that only allocated arrays have a size.

### AccResponseProofs

For any counts, lengths, index range and sizes of buffer and stack that
`AccReaderAssumption` allows, an overlong entry list included:

| theorem | statement |
|---|---|
| `ResponseInvariance` | `ReaderSpec => []ResponseInv` |
| `FreeReleasesWhatWasAllocated` | `[]FreeIsExact` |
| `OnlyKnownAreUnassigned` | `[]UnassignedAreKnown` |
| `NothingReadTwice` | `NothingIsReadTwice` |
| `OverlongNeverReturns` | `OverlongDoesNotReturn` |

The properties speak of a response that is finished, and nothing about a
finished one is inductive. The invariant, `ResponseInv`, is about a response in
the making: what has been done and what is still in `todo` make up the whole of
it (`Body`). Three parts:

- `Accounts`. The blocks in `heap`, with those that the items of `todo` will
  still allocate, are exactly the blocks a response of this type has for the
  array sizes known so far (`Expected`); likewise the arrays that have a size;
  and every member expected has been assigned or is still to be read. An item
  counts for its own path (`PathsOf`), a loop for the elements it has not
  reached. When the size of an array is read, `Expected` grows by its elements
  and `todo` by the loop over them; a step of the loop moves one element from
  the loop into items of its own; the end of a lap raises a size and assigns
  what that adds.
- `WellFormed`. What an item may be: a loop runs over an array with a size and
  its own size is not above it, and outside an entry list it is below
  `IndexRange`, because it came from one byte. Only an entry list can thus have
  a loop that starts again, and its elements own no memory, so `Accounts` holds
  through it.
- `Unread`, unless the list is overlong (`Exact`). No item of `todo` reads what
  is a member already, and none reads what an earlier one assigns (`Ordered`),
  where an item stands for everything below its path (`Reads`, `Writes`). This
  is what `NothingReadTwice` needs: two items of a layout never meet, even
  through arrays in arrays.

There is one lemma for each way an item is replaced (`SimpleStep`, `ReplayStep`,
`ArrayStep`, `LoopStep`, `LoopEnds`, `LapStep`), about `Body` with the state as
parameters, so that no primes are in the way, and one for each layout that a
parse begins with. At `todo = <<>>` nothing is pending, so `heap` is `Expected`,
and `FreeExact` compares that with `Owned`, type by type: for the entries with
drivers and the track's cameras the arrays are unfolded one level at a time.
`OverlongNeverReturns` needs that the loop over an overlong array never leaves
`todo`, where its index stays below `IndexRange` and thus below its size
(`OverlongInv`). Of the members, the lemma
`DeclaredAreAssigned` compares `Expected` with what `types.c` declares.

The layouts being sequences of records is what makes this long: the provers have
to be told which items each layout has and that their paths differ. The run
`acc_reader` evaluates the properties on the layouts themselves.

### AccWriterProofs

| theorem | statement |
|---|---|
| `PassesAgree` | for every `r \in Request`, `WriteRequest(r).total` is the offset the second pass ends at |
| `WhatFitsIsUnderstood` | if `WriteRequest(r).total < 2^16`, then `Understood(r, ...)` of the fields written |

Strings of any length; of any car index, the low 16 bits. `PassesAgree` adds up
the two passes of each of the seven functions under each of their conditions. For
the second theorem, a string of a request that fits is shorter than 2^16, so its
length is written as it is. Then the reader is followed through what was
written: `FieldRead`, `StringRead` and `FlagRead` say that a reader in front of
one piece takes that piece and stands behind it, whatever follows
(`WrittenJoined` is how pieces lie one behind the other), and `RegistrationRead`,
`FocusRead` and so on put these together for each request, with each of the four
combinations of a focus request's flags.

### AccClientProofs

| theorem | statement |
|---|---|
| `AccInvariance` | `AccSpec => []AccInv` |
| `AccTypeCorrectness` | `[]AccTypeOK` |
| `AccNothingIsLost` | `[]NothingIsLost` |
| `AccSendInvariance` | `[](AccInv /\ SendInv)` |
| `AccBufferIsFilled` | `[]BufferIsFilled` |
| `AccSentIsUnderstood` | `[]SentIsUnderstood` |
| `SocketsAndParseUnderClients` | `[](UdpInv /\ AcceptedIsReceived)` |
| `ResponsesUnderClients` | `[](FreeIsExact /\ UnassignedAreKnown)` |
| `NothingReadTwiceUnderClients` | `NothingIsReadTwice` |
| `OverlongUnderClients` | `OverlongDoesNotReturn` |

`AccInv` is `UdpInv`, `ParseInv`, `AppInv` (the only live client without an
application is the one being created, since this destroy, unlike that of
`ac/client.c`, does not depend on a flag), `CallsInv` as above, and `ErrorsInv`: no
send is ever made on a null socket. `SendInv` says that during a send the buffer
and what is on the wire are those of `WriteRequest` for the request made, and
that `sendto` can have taken the whole of it only when its size is one of a
datagram: a total that `(int32_t)` cuts is never the count that comes back. So
the theorems about the writer apply to what the application is told was sent.
They need three facts about the application, UDP and the cast, which
`AccClientAssumption` and `UdpSocketAssumption` state: a request is one of
`Request` (members of the types `types.c` declares), a datagram has fewer than
2^16 bytes, and an `int32_t` holds more. `AccNothingIsLost` adds `LeakInv` of
`UdpSocketProofs`, over `AccClientsUseSockets`. The last theorems are about the
composition: every step of a client is a step of the parse or leaves it alone
(`DrivesReader`), so `ResponseInv` and `OverlongInv` hold there too.

### IRacingProofs

| theorem | statement |
|---|---|
| `ClientInvariance` | `ClientSpec => []ClientInv` |
| `ClientTypeCorrectness` | `[]ClientTypeOK` |
| `FreshValues` | `[]FreshValueIsWhole` |
| `ValuesAreNotOlder` | `[]ValueIsNotOlder` |
| `HeadersAreRecent` | `[]HeaderIsRecent` |
| `TextsAreNotOlder` | `[]TextIsNotOlder` |
| `NothingLeftOpen` | `[]NothingIsLeftOpen` |
| `OthersKeepTheirs` | `OthersAreNotClosed` |
| `LaterCauseIsKept` | `LaterInitReportsItsCause` |

For every number of buffers and of words and without a bound on ticks other than
`MaxTick`, which is any number. First, that `LatestTick` and `Published` choose
something: a finite interval of naturals has a greatest element, from the
well-foundedness of `<`. Then the argument for how long a header may be kept:
the buffers hold the last `N` ticks, one each, and the simulator writes over the
oldest (`TickInv`), so a buffer's tick advances by exactly `N`; a tick in a
copied header is therefore that of the memory or at least `N` behind
(`HeaderInv`), and while the simulator is less than `N` ahead the row is still
the one the header names (`RowInv`). A header is recent because some buffer's
tick is no older than the read and stays so, copied or not (`RecentBuffer`).
`TextInv` says that a word of the text is of the published version or the next.
`HandlesInv` says at each step of an init which handles are the client's own
and which members still have what they had before.

### Only model-checked

`CallsReturn` and `ParseEnds`: liveness under fairness is out of the prover's
reach. Every other property of a passing run has a theorem.

## 5. Not modelled

- `src/ace`, `src/lmu`: the files are empty.
- The examples: straight-line programs; the models let the application make
  their calls in every order, and findings quote them.
- `ac_fix_string` and the contents of events: character work inside a payload that is
  abstracted to its kind. Likewise what the strings of ACC requests and
  responses say, and printing them.
- The `_init` functions of `utils/types.c`: nothing calls them.
- Null arguments of the AC and iRacing calls, which only store an error code, and
  a null or zero-sized `malloc`.
- Requests that reach a game late or twice: a request arrives when it is sent or
  never. Windows calls that fail to close or unmap what is open.
- A simulator that exits and restarts: the sources say nothing about its ticks
  or its handles then.

## 6. Plan

Done, in this order: `SharedWinsock`, `UdpSocket` and its proofs, because every
network client stands on the sockets; `AcClient`; `IRacingReader`; `AccWriter`,
`AccReader` and `AccClient`, which composes them; `IRacingClient`; and the proofs
of all of these.

Left:

1. A liveness run for the ACC calls like `ac_calls`, with the game's updates as
   the only fair sender.
2. A simulator that restarts, once its behaviour then is documented in the
   sources.
