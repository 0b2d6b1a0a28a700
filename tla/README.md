# A TLA+ development of libreactor

libreactor is an event-driven server library in C: an epoll loop, descriptors,
streams (plain and SSL), timers, threads for blocking calls, a resolver, file
notification, an HTTP server, and the containers they use. This directory holds
TLA+ modules that model its components, TLC configurations that check them on
small instances, and proofs that TLAPS checks for all instances. Source paths
below are relative to the root of the repository.

    tlasany M.tla                            # parse
    tlc -workers 2 -config X.cfg M           # check, X and M as in the table of runs
    tlapm XProofs.tla                        # check the proofs about X

## 1. The system

One thread runs `reactor_loop`. Everything else happens in callbacks of that
loop, except the body of an async call (a worker thread) and the signal handler.
Callbacks may call any operation of any component, on themselves or on others,
and may free what they are called for. That is where the difficulty lies: state
read before a callback is used after it.

| component | state | operations | what makes it correct |
|---|---|---|---|
| reactor core (`core.c`) | epoll instance, `active`, `descriptors`, the current batch `event..event_end` | construct, add, modify, delete, loop, loop_once, abort, signal handler | no stale entry of a batch is dispatched; the loop runs exactly while there is something to wait for |
| descriptor (`descriptor.c`) | fd, mask, callback; registered with the core | open, mask, close, destruct; splits a set of conditions into READ, WRITE, CLOSE | each condition is delivered once, in order, to a descriptor that is open then |
| stream (`stream.c`) | input and output buffer, mask, notify flag, SSL state | open, read, consume, write, flush, notify, close | what is written goes out in order; nothing waits for an event that is not asked for |
| http (`http.c`, `picohttpparser.c`) | none | parse a request or response, write one | however its bytes arrive, a message is read as it was sent, and nothing else is; what is written fills its space |
| server (`server.c`) | list of requests; per request a reference count, parser state, a stream | open, accept, respond, bad_request, close, hold, release, shutdown | references are exact; requests are handed out one at a time, in order; every request is answered |
| timer (`timer.c`) | a timerfd | set, clear | each expiration is counted once |
| event, async (`event.c`, `async.c`) | an eventfd, a thread | call, cancel, destruct | one DONE per call that is not cancelled, none after cancel |
| resolver (`resolver.c`) | an async call, names, an answer | lookup, cancel, clear | the answer delivered is that of the current lookup |
| notify (`notify.c`) | an inotify descriptor, list of watches | watch, clear, destruct | events go to the watch that caused them, none after destruct |
| map, mapi, maps | open-addressing table | insert, at, erase, reserve, clear | behaves as a set keyed by `equal` |
| list | circular doubly linked list | insert, splice, erase, find | behaves as a sequence |
| buffer, vector | memory block, size, capacity | reserve, insert, fill, erase, compact, clear | behaves as a row of objects |
| string | the same behind a pointer, a null object | insert, erase, replace, copy, load, save | each edit changes what it names |
| data, pointer, utility, hash, net | none | | |

How they interact:

- Components register a `reactor_handler` with the core; the core calls it with
  an epoll event; `descriptor_callback` turns that into calls of the owner
  (stream, timer, event, notify, the server's listener), which read or write the
  file and call *their* owner in turn.
- `reactor_delete`, called by any callback, edits the batch that
  `reactor_loop_once` is iterating over.
- `server_respond`, called by the application, may run the parsing loop
  `server_request_update`, which calls the application.
- The worker thread of an async call shares the async object with the loop and
  wakes it through an eventfd.

Hard behaviours: re-entrant callbacks, objects closed, freed and reopened inside
them, batches smaller than the set of ready files, edge-triggered conditions,
partial writes, clients that reset, signals between test and wait, cancellation
of a thread that is just finishing. `PROJECT.json` lists them at their lines
under `hazards`, each with the properties that would catch it.

## 2. The modules

| module | what it is |
|---|---|
| `EventPort` | abstract: what the event loop promises the owners of descriptors |
| `Reactor` | `core.c` and `descriptor.c` over epoll; implements `EventPort` |
| `Pipeline` | abstract: what the HTTP server promises on each connection |
| `Server` | `server.c` with the part of `stream.c` and `http.c` it uses, over `EventPort`; implements `Pipeline` |
| `Stream` | `stream.c`, plain and with SSL, over the edges of a socket |
| `Timer` | `timer.c` over `EventPort` |
| `Notify` | `notify.c` over an inotify instance |
| `Async` | `async.c` and `event.c`: the worker threads against the loop's thread |
| `Resolver` | `resolver.c`, which extends `Async` |
| `Parser` | `picohttpparser.c` as `http.c` calls it |
| `Writer` | the writing half of `http.c`, with `utility.c` and `pointer.c` |
| `Dictionary` | abstract: what a map promises |
| `Map` | `map.c` with `mapi.c` and `maps.c`; implements `Dictionary` |
| `Sequencing` | abstract: what lists promise |
| `List` | `list.c`; implements `Sequencing` |
| `Memory` | blocks of memory and the C functions on them |
| `Row` | abstract: what a vector promises |
| `Vector` | `buffer.c` and `vector.c` over `Memory`; implements `Row` |
| `String` | `string.c` over `Memory` |
| `MCReactor`, `MCServer` | instances for TLC |
| `MCOwners` | an instance of `Timer`, `Notify` and `Stream`, side by side |
| `MCData` | an instance of `List`, `Map`, `Vector`, `String`, `Parser` and `Writer`, side by side |
| `ReactorProofs`, `ServerProofs`, `StreamProofs`, `NotifyProofs`, `AsyncProofs`, `MapProofs`, `ListProofs`, `DataProofs` | the theorems, each module about the one of its name, `AsyncProofs` also about `Resolver`, `StreamProofs` also about `Timer`; `DataProofs` about `Vector`, `String` and `Writer` |

In `MCOwners` and `MCData` the variable `component` says whose behaviour it is;
the variables of the others keep one value. The modules they extend have names
for `Init`, `Next` and `Spec` of their own (`MapInit`, `NotifyNext`,
`VectorSpec`); only `Parser` is an instance, `P`.

`Server` and `Timer` do not contain the reactor again: their events come from an
instance of `EventPort`, which `Reactor` is proved to implement. `Stream` takes
the order of events from it.

### Reactor

| variable | code |
|---|---|
| `alive`, `is_open`, `mask` | the constructed descriptors, those with `fd >= 0`, `descriptor->mask` |
| `events`, `event` | the array that `epoll_wait` filled, up to `event_end`, and the entry being dispatched; an entry that `reactor_delete` cleared has the handler `Default` |
| `tested` | the conditions `descriptor_callback` has tested in that entry |
| `active`, `descriptors` | the fields of `reactor_core` |
| `phase`, `looping` | where the thread is, and whether `reactor_loop` called `reactor_loop_once` |
| `level`, `ready` | kernel: what each file is ready for, and epoll's ready list |
| `opens` | history: how often a descriptor was opened, which tells its registrations apart |

One action per operation: `descriptor_open`, `descriptor_mask`,
`descriptor_close`, `descriptor_destruct`, `reactor_abort`, `reactor_loop`,
`epoll_wait`, `descriptor_callback` (one delivered condition), `NextEvent`,
`EndOfBatch`, `Interrupt`, `reactor_signal`. The application's operations are
enabled while it runs, which is outside the loop and inside callbacks. epoll,
the readiness of files and the owner's reads and writes are external: the
kernel may report any subset of the ready files that fits the batch, level
conditions as long as they hold and edge conditions once.

### Server

A `server_request` is one record of `request`: the fields of the C struct
(`ref`, `state`, `event_triggered`, the buffers of its stream) and the other end
of the connection (`sent`, `peer`, `got`). A record with `ref = 0` is free
memory and may be used by the next accept. Every client message is two tokens,
so it may arrive in two parts; `Script` says which messages are well formed.

`stack` is the C call stack of `server_request_update`: an entry says for which
request, whether `server_respond` is the caller (then its final
`server_release` follows), and whether the application's handler is running
inside it. Application actions are enabled when the stack is empty (a callback of
some other component) or the innermost call is in the handler.

`held` and `owed` are the application's side of the contract of `server.h`: it
owns one reference with each request it is handed and gives it up with its
answer. It answers each request once. `Hold`, `Release` and `Close` are the
exported functions of the same names. `server_shutdown` may be called only while
no request is held, unless `ShutdownInUse`.

Events are edges here too. `stream_flush` is a set of outcomes: on a plain stream the
socket takes some answers and is found full if any are left; with SSL it takes
one record, which ends anywhere in the buffer, and is found full only if it takes none. `edge`
says that epoll has yet to look whether there is room, or will be told of it: when
the mask has changed, when the socket was found full, and always on a Unix domain socket
(`~TcpWithSsl`), which tells of room with every read of its peer. `Reports`
lets room alone be reported only with an edge, and the report uses it up
(`Looked`); input that arrives makes epoll look at room too. So with `Ssl` and
`TcpWithSsl` an answer of more than one record may stay in the output for ever, and
`EveryRequestAnswered` is false: it is checked for Unix domain sockets, and
`stream_stall` shows the same cause in `Stream`, where the units are counted.

A plain stream dispatches STREAM_WRITE when its output has drained after having
blocked, and `server_request_callback` closes the connection on it (the default
case of its switch, server.c:110). `HangsUpForAReason` is therefore checked with
`Ssl`, where STREAM_WRITE follows only `stream_notify`.

### Timer

`armed` and `ticks` are the timerfd: how it is set and how many expirations a
read would return. `due` holds the events of the batch being dispatched. The
application's `timer_set` and `timer_clear` may come from the callback of any of
them; `SetWhileDue` says whether it sets a timer whose own event is still due.
`fired` and `told` are histories of the current setting.

### Stream

Bytes are counted in units. `stream` is the object: `mask` what its owner
asked for, `watch` the mask of its descriptor, `input` and `output` the sizes of
the buffers. `ssl` is the pointer, which `stream_close` leaves as it is after
`SSL_free` (`"freed"`); `shaken` is the handshake, done by the first SSL call
after the peer has sent its part; `record` and `left` are a record of which the
socket has taken a part only, whose units stay in `output` until
`SSL_write` returns them.

`socket` is the kernel's side: `room` in its buffer, `unread` input, `blocked`
for the flag SOCK_NOSPACE that a write or a poll sets when the socket is full,
and `woken` for its place in epoll's list. The peer may close its direction, and may then, or
at once, reset the connection. A TCP socket (`tcp`) tells epoll of new
room only when it is `blocked`; a Unix domain socket with every read of the
peer. `StreamReport` looks at the socket and leaves the list, which is what makes
events edges; `descriptor_mask` looks at it anew, but only if the mask changes.

An object may be opened, closed and opened again without limit, and constructed
anew or not in between. `failed` is a failed assertion or a use of the freed SSL
object; `StreamAborts` admits two reasons, a connection
reset by the peer and an object that had SSL and is used again without
`stream_construct`, which are hazards of the code at stream.c:59 and stream.c:246.

### Notify

The loop of `notify_callback` is in steps: `Read` fills the buffer `buf` from the
queue of the instance, `Dispatch` looks the first event up in `entries` and calls
the application, `Return` is its return, after which the flag `cancel` is tested.
Between `Dispatch` and `Return` the application may do everything. Events are the
ids of their watches; an id is the place in `watches` of the kernel's instance.
A queue of `QueueSize` events takes one more, the overflow.

`notify_watch` opens the descriptor first, which stays open when the kernel refuses the
file (`accepted`). `notify_callback` aborts for two reasons, which `WatcherAborts` names by
the state it is in: the event at hand is the overflow, whose id no entry has (`assert`
at notify.c:48), or it reads from a watcher that was cleared in the callback and is not
watching again (`assert` at notify.c:38). A watcher that is destroyed in the callback, even
if it is constructed and watches again there, is no reason: the flag ends both loops, and
`Unread`, what is left to dispatch, is nothing. One that is only cleared and watches again is
told the rest of the old instance's events; `reopened` says so, and `ToldInOrder` excludes
it. `RightPath` is about the first instance of an object: entries survive
`notify_clear`, so ids of a second one may find paths of the first.

### Async

`event[a]` is the open eventfd of an object, named by the call that opened it,
so that a descriptor number that is used again is told apart; `count` is its
counter; `thread` is `async->thread`. `worker[t]` is what the thread with id `t`
does: the handler (`call`), the test of `event_is_open`, the read of the file
descriptor, the write, the return. These are separate steps, because the loop's
thread closes the eventfd between any two of them. `async_cancel` is two steps,
the close and `pthread_cancel`, for the same reason. A cancelled thread ends at
a cancellation point: the write, or one of the handler's own. Ids of threads
that have ended are used again, as pthread ids are. `aborted` is what ends the process:
`"signal"`, the failed `assert` of `event_signal`, or `"cancel"`, one outcome of
`pthread_cancel` of an id that no thread has any more, which is undefined; the other is that nothing
happens.

### Resolver

`Resolver` adds to the steps of `Async` what the threads do with the object:
`net_resolve` reads the names, `Answered` stores the answer. `resolver` holds both,
by the call they are of; service and host are read and freed together and are one
here. An operation that begins with `async_cancel` is in steps, as the worker runs in
between: `Begin` (the eventfd is closed), `CancelThread`, `resolver_clear` (names
and answer are freed) and the rest, which sets the pointers (`Cleared`), starts the new call
or gives up the object. `todo` says which operation it is and how far it has come.
`pthread_cancel` reaches a thread inside `getaddrinfo` at a cancellation point,
which may be as late as its return, so a cancelled thread may still store: in the object
of the next lookup, between the freeing and the setting of the pointer, or, after
`resolver_destruct`, in memory that is not the resolver's any more.

Each answer is memory, named by the call whose thread got it. `unfreed` are those
not given to `freeaddrinfo` yet. `AnswersFreed` says that objects point to unfreed answers
only, so that none is freed twice, and that what is unfreed is where an object finds it, or is
among `strays`: the answers of cancelled calls, which are stored late in one of these three
ways, and what they are stored over. Those may be lost, and no others.

Two histories name the exceptions of the other properties. `overtaken`: a lookup was
started while the thread of an earlier one could still store; then the answer of
one may be reported for the other. `mistaken`: `async->thread` outlives its thread, and the
id may be that of the worker of another resolver by the time it is cancelled; its
lookup is never answered. Without the exceptions the properties are false of the code;
the hazards at resolver.c:13 and async.c:58 describe it. That host names live as long as
the thread that reads them is not claimed: resolver.c:61 frees them under a cancelled
thread that still runs.

### Parser

The operators are named for the functions and macros of picohttpparser and map a
position in memory to the next one, -2 or -1. Bytes stand for the classes the
parser tells apart: one digit, the letters of `HTTP`, one other letter, blanks,
line ends, the colon, one byte that is not for tokens, one control character.
`sent` arrives in pieces of any length. After each, `http_read` parses the unread
part from its beginning (`checks` tells whether the caller passes the length of
the attempt before, which `http.c` does not).

The loop that skips spaces does not look for the end of the buffer
(picohttpparser.c:358), so memory behind it, any of `Strays`, is part of the
input of the operators. `status` is `"strayed"` for a request of which nothing
but the method and spaces had arrived, and that was refused with a space behind the buffer:
`EachIsTaken` excludes it, and nothing else. The reference definition,
`FirstMessage`, says what a message is by its lines, with no parsing from left to
right.

### Writer

The two functions compute the space from the lengths of the parts, allocate it,
and push the parts. A text is its length; digits are digits. The length field is pushed
as `utility_u32_len` bytes of the storage that `utility_u32_sprint` fills from there, and
`LengthIsExact` says that these are its digits.

### Map

`m` is the C struct: the slots, the count and the capacity. `map_at` is the
search, `Place` the end of `map_insert`, `Unplace` the loop of `map_erase` with
its comparison of positions, `Moves`. `hash` is chosen in `Init` among all
functions from keys to `0..MaxHash` and never changes. `released` is what the
latest operation gave to the release function. `MAP_ELEMENTS_CAPACITY_MIN` and
the hash values are small; the code depends on neither.

### List

`link` holds `next` and `previous` of every node, heads included, `allocated`
the items in memory, `clearing` the list in `list_clear`, between whose steps the
release function may use the lists. `Walk` is `list_foreach`, and maps the links
to the sequences of `Sequencing`.

### Vector and String

Both work on blocks of `Memory`, whose contents are modelled; what was not
written is `Junk`, and what would be written outside of a block is lost. The bytes
of an object are told apart by their place in it, so that half an object, or one
of two halves, is seen (`vector_at` is `Junk`). `Stores` is what every operation of a
vector ends with. Objects put in are not those of the vector itself, whose memory
a reallocation frees before they are copied (a hazard, vector.c:75).

`String` follows one string: an operation that returns another string replaces
it. `EditsAreExact` compares every insertion, removal, reallocation and replacement, in
every state, with what it should do to the text alone: the code searches the string that
it is changing, the reference finds the matches in the text as it was. `string_write` is a step per write, with the offset modulo
`2^SizeWidth`: the code subtracts what was written, so that a short
write ends the loop (`short`, a hazard at string.c:223).

## 3. What is checked

| run | instance | shows |
|---|---|---|
| `reactor_safety` | 2 descriptors, masks {read, write}, batch of 2, each opened up to twice, signals | `NeverWaitsOnNothing`, `RegisteredCount`, `PendingIsCurrent`, refinement of `EventPort` |
| `reactor_liveness` | 2 descriptors, edge and level masks, batch of 1, fair | `QueuedIsServed`, `StopReturns` |
| `reactor_signal` | 1 descriptor, signals, fair | **violated**: `SignalStopsLoop` |
| `server_safety` | 2 plain connections, 2 pipelined requests each, none malformed, up to 2 references each | `RefCount`, `NeverStuck`, refinement of `Pipeline` |
| `server_liveness` | 1 object used by 2 SSL connections over Unix sockets in turn, 2 requests and a malformed one, resets, fair | `EveryRequestAnswered`, `ClosedIsFreed`, `HangsUpForAReason` |
| `server_shutdown` | 1 connection, shutdown while requests are held | **violated**: `UsedIsAllocated` |
| `resolver_lookups` | 2 resolvers, 2 thread ids, 2 lookups, fair | `NoneLeftBehind`, `DoneAfterCall`, `AnswerIsForLookup`, `AnswersFreed`, `LookupsEnd` |
| `async_signal` | 1 object, 1 call | **violated**: `SignalsSucceed` |
| `owners` | 2 timers, each set up to twice, up to 2 expirations of a setting | `TotalPositive`, `EachToldOnce`, `SetTells` |
| | 2 files, which may be refused, 2 entries, 2 instances, a queue of 3 events, reads of 2, 4 events of an instance | `WatcherAborts`, `RightPath`, `ToldInOrder`, `EventsTold` |
| | a socket of 1 unit, records of 2, 3 units written, 2 received per connection, plain, SSL over Unix sockets; all fair | `NothingLost`, `StreamAborts`, `FlushedArrives`, `ArrivedIsSeen`, `NotifyAnswered` |
| `timer_due` | the timers, and due ones may be set | **violated**: `TotalPositive` |
| `stream_stall` | SSL over TCP, a socket of 2 units, records of 2, 5 units written, fair | **violated**: `FlushedArrives` |
| `data` | 2 lists, 4 items | `Linked`, `ImplementsSequencing` (refinement of `Sequencing`) |
| | 4 keys, one of them with 2 elements, all hash functions to {0, 1, 6, 7}, 2 to 16 slots | `Findable`, `RoomLeft`, refinement of `Dictionary` |
| | up to 3 objects of 1 or 3 bytes, capacities reserved up to 3 | `VectorIsRow` (refinement of `Row`) |
| | strings of up to 4 characters of 2 kinds, arguments of up to 2, a `size_t` of 4 bits | `EditsAreExact`, `SavedInOrder` |
| | a request and a response of two lines with every change of one byte, two messages in a row with folded and with too many fields, arriving in all pieces | `MessagesAreSent`, `EachIsTaken` |
| | messages with texts of 0 and 5 bytes, bodies around all powers of 2 and 10 below 2^31 | `WrittenExactly` |

The runs of the reactor and the server check for deadlock too. The others do not:
their bounds on settings, calls, events and units let them come to an end, and so do
a failed assertion, a message that was refused, and one that was written.

**Why the bounds are enough.** Interference in the reactor is between the entry
being dispatched and one other entry of the batch: two descriptors and a batch of
two have an earlier and a later entry; opening twice lets a descriptor be reopened
while an entry of its former life is pending. A batch of one with two ready
descriptors is a batch that is too small. In the server, two connections are enough for
an answer from another request's handler, and two requests on a connection for
one in hand with the next in the buffer; a third repeats the second. Two
references let the application keep one after its answer. Two timers are
the one called back and the one still due. Two resolvers over two thread ids let an
id pass from one object to the other, and two lookups let the thread of one run
beside the other, of the same object or not; one object with three thread ids and
three calls (2.5 million states, not among the runs) shows nothing more. A read of
two events of a queue of three leaves one for the next read, and the fourth comes
after an overflow. A socket of one unit takes neither the output nor a record at
once, and three units are a record sent in two parts and one behind it. Four keys fill
half of an eight-slot table, so that runs of full slots reach around its end and
hold keys of different homes; the table grows twice on the way there; all hash
functions into the two slots at either end of it are tried, which are all the slots of smaller
tables: what matters to a search is which homes are next to each other or the same, and which are
at the end. Four items are
an item, its neighbours and one on the other list. Objects of three bytes are not
a power of two, so that the capacity, which is, ends inside one; four characters
hold two matches of two, or overlapping ones. A changed byte in a message of two
lines is at every place the parser looks at, and every cut at every place it may run out;
a caller that passes the length of its last attempt (`checks`) gets messages with line ends put in,
left out or changed, which is what `is_complete` looks at; the second message in a row shows what was consumed. Symmetry is used in runs
without liveness properties only.

**Fairness.** The loop's thread keeps running (weak fairness of its steps);
the kernel reports ready files again and again (strong fairness, as a report may
concern other files); wakeups and application choices have none, except in `Server`. There the
application answers and releases what it holds, and a client takes, now and
then, part of what is written to it: without these a connection may wait for
ever through no fault of the library. epoll's report is fair only where it is
enabled, which for room alone takes an edge: nothing makes epoll report because the mask still asks. In `Timer` time passes (a set timer
expires) and the loop goes round; in `Async` and `Resolver` threads run, handlers
return, the loop finishes the operation it is in (weak), and serves a readable
eventfd (strong, as other operations of the loop take turns with it). In `Notify` and
`Stream` the loop goes round: it waits again after a batch (`Report`, `StreamReport`) and delivers
what is due; the application's callback returns; and the peer of a stream takes
what is in the socket. The application need not set, clear, call, look up, watch,
write or close anything.

### Violations

- `SignalStopsLoop`: `reactor_loop` tests `active` and then blocks without a
  timeout; a SIGINT in between is unnoticed until another event arrives.
- `UsedIsAllocated`: `server_shutdown` drops the list's reference but does not
  mark the request closed; a later close drops it again and frees a request that
  the application holds.
- `TotalPositive`: a callback that sets a timer whose expiration is in the same
  batch takes the expiration back; `timer_callback` reads nothing and its
  `assert(total)` fails. Without such applications the property holds
  (`owners`, and proved).
- `SignalsSucceed`: `async_cancel` closes the eventfd between the worker's test
  and its write; the assertion of `event_signal` fails. (The properties of
  `resolver_lookups` are about executions until then.)
- `FlushedArrives`: `stream_ssl_flush` writes one record and the mask stays as it
  is. Over TCP no edge follows if the socket had room for the record, and what is
  left is not sent until something else wakes the stream. On Unix domain sockets,
  which the tests use, and on plain streams the property holds (`owners`).

Exceptions written into the properties are behaviours of the code too, each
at a hazard in `PROJECT.json` whose note says what the property leaves out, and so does not
show: STREAM_WRITE taken for a close on plain streams (server.c:110), late answers of
cancelled lookups (resolver.c:13), a lookup that is never answered because its thread was
cancelled for another's (async.c:58), ids of an old inotify instance (notify.c:35) and the
overflow of its queue (notify.c:45), the use of a freed SSL object (stream.c:246), a request
refused for what lies behind the buffer (picohttpparser.c:358), and a file saved in part
after a short write (string.c:223). `WritesOnlyBlock` of
`Server` is false with `Ssl = FALSE` and `Resets = TRUE`, for the first of the
reasons of `Stream`.

## 4. What is proved

For all values of the constants that satisfy the assumption `ConstantsOK` of the
module (`SizesOK` of `Stream` and of `Writer`, `BufferSizeOK` of `Notify`, `MapOK`
of `Map`, `ObjectsOK` of `Vector`, `SizesFit` of `String`), TLAPS proves the theorems below. The assumptions say of what kind the constants
are; TLC evaluates each of them in a run. `AssertionHolds` and the theorems of
`Server` have a further hypothesis. Those of `Server` assume `~ShutdownInUse`,
that an application shuts the server down while it holds no request. The run
`server_shutdown` shows that they are false without it.

| module | theorem | statement |
|---|---|---|
| `ReactorProofs` | `TypeCorrect` | `Spec => []TypeOK` |
| | `CountIsRight` | `Spec => []RegisteredCount` |
| | `NothingStaleIsPending` | `Spec => []PendingIsCurrent` |
| | `LoopNeverWaitsOnNothing` | `Spec => []NeverWaitsOnNothing` |
| | `ReactorImplementsPort` | `Spec => ImplementsPort` |
| `ServerProofs` | `TypeCorrect` | `Spec => []TypeOK` |
| | `RefCountCorrect` | `Spec => []RefCount` |
| | `UsedStaysAllocated` | `Spec => []UsedIsAllocated` |
| | `NobodyIsStuck` | `Spec => []NeverStuck` |
| | `NoHangUpWithoutReason` | `Ssl` implies `Spec => HangsUpForAReason` |
| | `ServerImplementsPipeline` | `Spec => ImplementsPipeline` |
| `AsyncProofs` | `CancelLeavesNone` | `Spec => []NoneLeftBehind` |
| | `DoneFollowsCall` | `Spec => []DoneAfterCall` |
| | `LookupsAreCalls` | `ResolverSpec => Spec` |
| | `AnswerBelongsToLookup` | `ResolverSpec => []AnswerIsForLookup` |
| | `AnswersAreFreed` | `ResolverSpec => []AnswersFreed` |
| `NotifyProofs` | `WatcherAbortsForAReason` | `NotifySpec => []WatcherAborts` |
| | `PathIsRight` | `NotifySpec => []RightPath` |
| | `EventsToldInOrder` | `NotifySpec => []ToldInOrder` |
| `MapProofs` | `MapHasRoom` | `MapSpec => []RoomLeft` |
| | `ElementsAreFound` | `MapSpec => []Findable` |
| | `MapImplementsDictionary` | `MapSpec => ImplementsDictionary` |
| `ListProofs` | `LinksInverse` | `Spec => []Linked` |
| | `ListImplementsSequencing` | `Spec => ImplementsSequencing` |
| `StreamProofs` | `ExpirationsToldOnce` | `Spec => []EachToldOnce` (of `Timer`) |
| | `AssertionHolds` | `~SetWhileDue` implies `Spec => []TotalPositive` |
| | `StreamLosesNothing` | `StreamSpec => []NothingLost` |
| | `StreamAbortsForAReason` | `StreamSpec => []StreamAborts` |
| `DataProofs` | `VectorImplementsRow` | `VectorSpec => VectorIsRow` |
| | `StringEditsAreExact` | `StringSpec => []EditsAreExact` |
| | `StringSavedInOrder` | `StringSpec => []SavedInOrder` |
| | `MessagesWrittenExactly` | `WriterSpec => []WrittenExactly` |

**Reactor.** The inductive invariant `IInv` joins these with what they need: nothing is
pending outside a dispatch (`NothingPendingOutside`), a cleared entry has no
conditions left (`ClearedIsEmpty`), a descriptor is at most once in what is left of
a batch (`PendingOnce`), and the conditions still untested are those
after the last one delivered (`TestedInOrder`). Without them `PendingIsCurrent`
is not preserved: the sweep of `reactor_delete` would have to be right for
entries that cannot exist. `CloseEffectKeeps` shows that closing a descriptor
preserves all of it; `NextIInv` has one step per action.

For the refinement, `dues` computes from the batch what is due to each
descriptor. A report of epoll is `Report`, a delivered condition `Deliver`, a
close `Close`; all other steps leave `dues` alone.

**Server.** `RefCount` and `NeverStuck` speak of a request between calls. For
them to be inductive `IInv` says at every moment of a call what is true of the
request, its share of the stack and the application's side together (`Sound`).
`NoReentry`: `server_request_update` does not run twice for one request, because
`event_triggered` is set for as long as it runs, and `Counted` ties that flag to the
stack and the reference count to the references; without it a second call
would free what the first one still uses. `Emptied` says that nothing is left of a closed
connection, so that the object is as new when it is accepted again. `Progress`
relates the state of the parser to the counts of messages handed out, answered and
written: in "handling" exactly one is without its answer and the application owes it,
in "need_more_data" what is left in the buffer is no message. Last, nothing is
due to a closed connection (`DueIsTrue`), which comes from what
`EventPort` promises about `Close`. The lemmas take the actions in the parts they
consist of: one pass of the parsing loop, the return of a call, a release, a close.

For the refinement, `View` computes what `Pipeline` sees of one request. Every step but
`server_shutdown` changes one request, and it is enough that its view does a step
of `Pipeline` or stays; `server_shutdown` closes all open connections at once. For
`HangsUpForAReason` the same case analysis shows which calls close a connection.

**Async.** `DoneAfterCall` alone is not inductive: that a signal belongs to the
call in progress follows from `NoneLeftBehind` for workers that were not told to
stop, and a worker that was cannot write any more (a write is a cancellation
point). `IInv` adds which calls the workers are for (`WorksForACall`), that a
worker past its handler has recorded its return (`PastItsHandler`), that an open
event belongs to the latest call (`EventOfLatestCall`) and that after a signal
no worker of that call will give another (`SignalIsLast`).

**Resolver.** That a resolver's step is one of `Async` or leaves it alone is shown
first (`LookupsAreCalls`), so `IInv` of `Async` holds for it and the worker's
lookups are known to be calls. `ResolverIInv` adds that between the steps of
an operation the eventfd is closed (`CancelledFirst`), that during a lookup that overtook
none everything in the object, and what its thread asks, is of that lookup (`OwnLookup`), and
that a thread that has ended asks nothing in its next life (`FreeAsksNothing`). For
`AnswersFreed` an answer must be new when it is stored and in one place: each call has one thread and
returns once (`CallsApart`), objects point to answers of their own threads (`OwnThreads`), and the
thread of the lookup in progress finds no answer in the object, or a stray
(`NothingToLose`), so that nothing else is stored over.

**Notify.** `ToldInOrder` equates what has happened with what was told, is in the
buffer and is in the queue; it is preserved together with `Phases` (in which phase the
buffer is empty; a closed watcher has an empty queue) and `Alive` (a loop that was not
cancelled has an object). That the second assertion holds without an overflow is
`EventsHaveEntries`: the id of an event in the buffer, of one in the queue and of a watch
is that of some entry (`Known`), also after `notify_clear` and `notify_watch` were called
in the callback. `RightPath` needs
`EntriesOfWatches` and `Distinct`, from which it follows that the kernel's ids and those in `entries`
agree while there has been one instance. The first entry with an id, where
`Dispatch` stops, exists because the numbers are well founded. A read takes at
least one event, which is where `BufferSize > 0` comes in.

**Map.** The invariant of a table is `Good`: keys are distinct, no empty slot is
between the home of an element and its slot on the ring (`Reached`), and the
count is that of the elements. With at least one empty slot (pigeonhole,
`SomeSlotIsEmpty`) every search ends, at the element or at an empty slot (`HasIs`), so
`Findable` follows. `RoomLeft` is part of the invariant for the sake of that slot.

The loops of `map_rehash` and `map_erase` are recursive functions. That such a
function exists and what it is at each point is proved by induction, which the lemma
`Induction` states for sets of numbers and takes from least elements. The invariant
of the loop of `map_erase` is `Shifted`: with the hole taken for empty, the table
is without the element that was erased, its keys are distinct, what the loop has not reached is as it was,
and an element may be cut off from its home by the hole only if the loop has not reached it. `MovesIs` shows
that the comparison of the code is `Between` on the ring, `ShiftKeeps` that moving or
leaving an element keeps `Shifted`, and at the empty slot in the end nothing is cut off.
`PlaceIs`, `ReserveIs` and `UnplaceIs` then say what the operations do to the
set of elements, which is what `Dictionary` is about. Nothing is assumed of the hash function.

**Timer.** What is due belongs to an open timer (`DueTimerIsOpen`), and has
expirations to read unless due timers may be set (`DueHasTicks`). The argument
uses what `EventPort` promises about `Close`, which `ReactorImplementsPort`
establishes for the reactor.

**List.** `Linked` must be joined with `Separate`: each live node belongs to one
list and links do not leave it. Otherwise `list_clear` could come from one head
to another and free it. `LinkKeeps`, `UnlinkKeeps` and `FreedKeeps` are about
the three operators all operations consist of, and the step proof only puts
them together.

For the refinement, `Laid` says that a sequence of items for each list is what the
links lay out: from the head through the items in turn and back to the head, each item that is in
memory at one place of one list. `WalkIs` shows that `Walk`, which follows
the links for as long as there are any, finds those sequences. `LinkLays` and
`UnlinkLays` show what linking and unlinking a node does to them; a splice is both, and
`list_clear` takes out the front.

**Stream.** `NothingLost` counts; it is preserved only where the state of a record
fits that of the buffer (`Sound`): a record that is under way was taken from what is
still in the output, and is there only while there is a session, so that no plain write
takes units of it. `Balance` is what an operation must keep, and `Same`
says that it does. There is a lemma for each operation on a pair of stream and socket
(`SendRecordKeeps`, `SslFlushKeeps`, `UpdateKeeps`, ...), and the lemmas about
the actions chain them. `IInv` says of closed streams that nothing is due to them and that
the output holds what was written in advance. From that `StreamAborts` follows: an
event still due to a closed stream would write to a descriptor that is gone.

**Vector.** The invariant `VectorInv` is that of the abstract state: the buffer
begins with the bytes of the objects held, one behind the other, each in its order (`Represents`,
`Packs`), and is at least as long. What `vector_insert` does, with its
reallocation, its move of what is behind and its copy, is to put a part into the row
(`InsertedIs`, `RangeIs`, `FillIs`, `AllocatedIs`), and `vector_erase` and the other
operations that shorten take one out (`ErasedIs`); `Spliced` is both. `Row` may release
objects only with an operation that takes them out, and what is released is what was there
(`HeldIs`). Where an object is in memory is a product, its position times
the object's size; `Place` divides a byte's position by the size, once, and nothing else needs it.

**String.** The memory of a string (`Strings`) is longer than its size, ends with a NUL
there, and is one byte if the string is the null object. Each operator returns such a
string whatever it is given (`AllocateIs`, `InsertIs`, `EraseIs`, `ReplaceAllIs`,
`LoadedIs`, ...), which is what `StringEditsAreExact` needs: it holds of every state, also after
replacements. What a replacement yields compares two recursive definitions, the search of the code
and `Matches`. `Searched` says that the search has got past the first p characters of the text as
it was and every match that begins there, has left in their place what `With` makes of them
(`Builds`), and has not touched the rest. Each round goes on by at least one character
(`SearchGoesOn`), so there are enough of them. For `StringSavedInOrder` the invariant `StringInv` adds what the file has: nothing before
the first write, and after it a beginning of the string, with an offset that has wrapped around to
the string's size or beyond. That takes `SizesFit`: no string is longer than half of the sizes there are.

**Writer.** Both functions allocate the sum of the lengths of the parts and then write
the parts. That one fills the other depends on the number of digits: `utility_u32_len`
computes it from the highest bit of the number and a comparison with a power of ten
(`LengthIs`), the digits are written two at a time from the end (`DigitsAreWritten`). The
comparison of the one with the other is a case for each number of bits, as the code's table is.

Recursive functions occur in all of these, and in `Map`. That such a function exists, and is at
each point what the equation says, is `Recursion`, proved once from `Induction`.

Only model-checked: liveness (`QueuedIsServed`, `StopReturns`, `EveryRequestAnswered`,
`ClosedIsFreed`, `LookupsEnd`, `SetTells`, `EventsTold`, `FlushedArrives`,
`ArrivedIsSeen`, `NotifyAnswered`: fairness and ENABLED are beyond the prover),
and `MessagesAreSent` and `EachIsTaken` of `Parser`, whose operators are recursive, as the
functions are, and beyond it too.

## 5. Not modelled

- `hash.c`: arithmetic on 64-bit words, which TLC cannot enumerate; `Map` takes
  every hash function instead.
- `net.c` but for `net_resolve`: straight-line system calls that make sockets and
  SSL contexts.
- Of picohttpparser, chunked bodies and `phr_parse_headers`, which libreactor does
  not call, and `findchar_fast`, which skips bytes the loops behind it would skip.
- `data.c` and `http_field_lookup`, comparisons without state; `utility_u32_toa`
  and `utility_tsc`; the date string of the server; `reactor_now`.
- What an application reads of a request after the input buffer has moved
  (server.c:93), signals on worker threads (core.c:47), the keys 0 and NULL of maps
  (mapi.c:21), an object of a vector inserted into it (vector.c:75): hazards
  without a property, each with its note.
- File descriptors registered directly with one handler (core.c:105), of
  which `reactor_delete` sweeps the events of both; lengths of 4 GB and more, which
  http.c:110 cuts to 32 bits; the memory of a string that was emptied, which
  `string_free` takes for the null object (string.c:38).
- The examples.

## 6. What remains

Every component with state of its own is modelled, and every safety property and refinement that a
run shows is proved, but for those of `Parser`. `Parser` would have to be written with recursive functions over positions to be proved about. What would extend the development is
the rest of `net.c`, and an application of several components at once: a server whose handlers use the
resolver and timers.
