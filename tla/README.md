# gbase in TLA+

TLA+ modules, TLC configurations and TLAPS proofs for gbase, a C library of containers,
allocators, an event reactor, a shared-memory message bus, timers and asynchronous tasks.
Paths below are relative to the repository root (`base/rbuffer.c` is the file the map in
`PROJECT.json` calls `src/base/rbuffer.c`).

## 1. Inventory

| Component | State | Operations | Hard behaviour | What makes it correct |
|---|---|---|---|---|
| `base/rbuffer.c` ring buffer | memory, two free-running `uint32` positions | write, read, peek, attach | one writer and one reader without a lock; wrap of memory and of counters | records stay framed and intact, no unread byte is overwritten, FIFO |
| `logic/bus.c` bus | directory in shared memory (terminals, pipes, two versions), a cache per process, one ring per ordered pair | create, poll, send (one, by type, all), receive (one, all), release | versions read without the lock, processes that die and restart, full directory | one entry per terminal and pipe, coherent caches, ordered messages, no loss |
| `core/lock.c` semaphore | one System V semaphore | create (two system calls), lock, unlock | creation race, death of the holder, calls that fail and nobody looks | mutual exclusion |
| `base/heap.c` heap | array, key table, next free key | insert, pop, erase, update | long sequences of calls, growth, keys reused | order, minimum at the top, a key finds its element |
| `base/timer.c` timers | a heap of nodes ordered by expiry | register, unregister, poll, release | callbacks register timers while the poll holds a node | every due timer fires once, the right node is updated or freed |
| `logic/task.c` tasks | ring of steps, current step, timer id | push, erase, run, resume, timeout, release | notifications and timeouts in any order | one completion per run, an intact ring, progress |
| `base/buffer.c` linear buffer | memory, read and write position | read, write, reset, drift | `memcpy` to an earlier place of the same memory | the unread bytes are the written ones |
| `net/reactor.c`, `net/reactor_epoll.c` reactor | kernel interest list, a batch of events, the expired list | register, modify, unregister, dispatch | callbacks free handlers that later events of the batch point to | no callback to a stale handler |
| `net/connector.c` connection | socket, read and write buffer, handler | set_sock, start, send, stop, release, three callbacks | sends from inside callbacks, partial writes, restarts | no lost wake-up, every byte once and in order |
| `net/acceptor.c` | listening handler, descriptor | create, start, stop, release, two callbacks | a closed descriptor stays in the handler and its number is reused | it closes, and watches, only its own socket |
| `net/wsconn.c` websocket | status, three linear buffers, handler | start, send, stop, release, two callbacks, handshake and frame parser | input cut anywhere, on_read that takes a part, little room for output | payload unmasked, in order, once; whole frames go out |
| `core/fsm.c` state machine | two id tables, a hash of rules, current status | register, start, trigger | triggers from inside handlers, enter and exit callbacks | the exact rule before the wildcard; exit and enter paired |
| `core/coroutine.c` | slots, units, free list, the one that runs | new, resume, yield, status, release | coroutines that create and resume others; recycled units | slots, units and free list agree, each runs its function |
| `mm/buddy.c` | index tree | alloc, realloc, free | long sequences of splits and merges | the tree says what is in use; failing means full |
| `mm/slab.c` | pages, chunks, four page lists | alloc, free | merging with both neighbours, lists by size class | pages tiled by chunks, free list complete |
| `base/rbtree.c` | nodes with colours | insert, delete, find, loop, release | repair after deletion | red-black search tree of what is stored |
| `base/skiplist.c` | links and spans per level | insert, erase, find, by rank | spans after any insertions and erasures | ranks are positions |
| `base/hash.c`, `base/idtable.c` | chains; slots with linear probing | add, find, remove, loop, clean | removal in the middle of a chain or of a probe | what is found is what is there |
| `logic/dirty.c` dirty words | words, index by first character, hash | load, check, replace | words that overlap, contain each other, collide | every word replaced, nothing else |
| `base/slist.c` | | | | as `Reactor` and `Coroutine` use it |
| `net/reactor_select.c`, `reactor_kqueue.c` | handler table, masks | as epoll | stale table entries | not modelled |
| `net/sock.c`, `net/serialize.c`, curl clients, threads, spin lock, atomics, `shm.c` | | | | not modelled: wrappers |
| `base/rqueue.c` | array, two positions | push, pop, head | two threads | not modelled yet (section 8) |
| `list`, `array`, `kv`, `conhash`, `bitset`, `util/*` | | | | not modelled: indexing, formatting, digests, pure functions |

How they interact: the bus calls the lock, `shm.c`, `idtable.c` and one ring buffer per
pipe; the timer sits on the heap and calls the application back; a task registers a
one-shot timer and is resumed by the application; a connector is a handler of the
reactor, owns two linear buffers, and calls `on_read` and `on_close`, from which the
application calls the connector, and through it the reactor, again; the acceptor and
the websocket connection are handlers of the same kind. The state machine sits on the
id table and the hash, coroutines on the singly linked list. Nothing else is
shared between threads or processes: the ring buffer and the bus are the only
concurrent parts, everything else is one thread with callbacks.

The hazards that follow from this are listed, line by line, in `PROJECT.json`.

## 2. Modules

| Module | Models | Notes |
|---|---|---|
| `RBuffer` | `base/rbuffer.c` | one action per step the other side can observe |
| `RBufferFifo` | what `rbuffer.h` promises | abstract queue that `RBuffer` implements |
| `Bus` | `logic/bus.c`, `core/lock.c` | rings are the queues `RBuffer` shows, each operation in two steps, and `rbuffer_attach` too |
| `Heap` | `base/heap.c` | one action per loop turn |
| `Timer` | `base/timer.c` | extends `Heap`: its heap is `Heap`'s variables |
| `Task` | `logic/task.c` | |
| `Buffer` | `base/buffer.c` | |
| `Reactor` | `net/reactor.c`, `net/reactor_epoll.c` | |
| `Connector` | `net/connector.c` | composes `Reactor` and two `Buffer`s |
| `WsConn` | `net/wsconn.c` | bytes are cells: lines of a request, parts of a frame |
| `Acceptor` | `net/acceptor.c` | with the descriptor table of the process |
| `Fsm` | `core/fsm.c` | on instances of `Hash` and `Idtable` |
| `Coroutine` | `core/coroutine.c` | |
| `Buddy` | `mm/buddy.c` | one action per loop turn |
| `Slab` | `mm/slab.c` | |
| `Rbtree` | `base/rbtree.c` | one action per turn of a repair loop |
| `Skiplist` | `base/skiplist.c` | |
| `Hash`, `Idtable` | `base/hash.c`, `base/idtable.c` | |
| `Dirty` | `logic/dirty.c` | one action per step of the scan |
| `MCRBuffer`, `MCBus`, `MCTask`, `MCDirty` | | constants, symmetry and the constraint `Story` for TLC |
| `MCContainers` | | `Buffer`, `Rbtree`, `Skiplist`, `Buddy`, `Slab`, `Hash`, `Idtable` |
| `MCControl` | | `Timer`, `Task`, `Fsm`, `Coroutine`, `Dirty` |
| `MCNet` | | `Reactor`, `WsConn`, `Acceptor` |
| `RBufferProofs`, `BusProofs`, `ConnectorProofs`, `SlabProofs` | | theorems about one module |
| `NetProofs`, `ControlProofs`, `ContainersProofs` | | theorems about the components of an MC module (`ControlProofs`: of `Heap` too) |
| `NatLemmas` | | lemmas: least elements, induction, walks, joined sequences, arithmetic modulo |

Definitions keep the names of the functions they translate. A variable commented
"history" exists only for properties. Definitions introduced by "Fault:" are not part of
any specification: each is a plausible mistake in the definition after it, and
substituting it makes TLC report the property `PROJECT.json` pairs it with.

The last three MC modules check several components in one run. None of the components
put together in one uses another, so a behaviour picks one, the `focus`, and moves only
that; the others keep the state they were created with. The states reached are those of
the separate specifications, and so is what is shown: the components do not interact
here, and nothing about an interaction is claimed. Fairness of a component is asked for
only where it has the focus or follows from its actions being disabled elsewhere. What the
components proved about take as constants is a constant of the MC module too, with its
assumptions there: the `.cfg` gives the values of section 4, the theorems hold for all.

**RBuffer.** `buffer`, `read_pos` and `write_pos` are the shared structure; `wpc`/`wmsg`
and `rpc`/`rop`/`rcap`/`read_len`/`out` are the two threads inside a call. A write is
`WriteBegin` (room check), `WriteLen`, `WriteData` (the copies, each of which may split
at the end of the memory) and `WriteCommit` (`atom_add`); a read is `ReadBegin`,
`ReadLen`, `ReadData`, `ReadCommit`; a peek ends before the commit. Bytes are numbers,
lengths are encoded and decoded as four little-endian bytes, positions are taken modulo
`PosMod` (2^32 in the code). The two loads of a room check are one step: only the other
thread's position can be stale, and a stale one is only more pessimistic.

**Bus.** `head` is the directory, `bt[p]` the cache of terminal `p`, `ring` the content
of each pipe. A critical section is one action that ends at `"unlock"`, so a process can
die while it holds the semaphore; the version checks of `bus_poll` are actions of their
own, outside the lock. `lock_create` is two actions (`semget`, `SETVAL`). A terminal can
be released, or crash at any program point, and start again. A `semget` may fail and leave the
process without a semaphore (`nosem`), and a `semop` that would wait may fail: the process then goes
on inside the critical section, as `bus.c` does, and raises the semaphore at the unlock. `failed` counts
these calls. (A `semget` that fails after `EEXIST` aborts the process where it is, a `SETVAL` that fails is
a crash at `"setval"`; neither needs more.) A ring operation is a step up to its commit (`RingCopy`,
`RingPeek`) and the commit (`RingCommit`, `ReadCommit`), both outside the lock, and `rbuffer_attach` is
`AttachBegin` and `AttachEnd`. When an operation of one end overlaps an attach of the other, stale
positions are committed and old records published: the pipe is `torn`, its sends and reads may do
anything from then on, and nothing they do is recorded. A terminal is one thread; the two threads on one
`bus_t` of `test/test_bus.c` are not modelled. What the calls return is left
out, except that `okd` records the sends that returned `BUS_OK`. A send to several terminals keeps
in `to` the one it is at and in `left` those that come after.

**Heap.** Data is reduced to its rank under `cmp_func`; elements are identified by key.
`fault` records an access outside `array` or `key_table`, after which nothing is known;
`misplaced` an erasure that moved a node below a larger parent.
`Erases` says which keys callers pass to `heap_erase`: none, those of elements in the
heap, or those of elements that were popped before.
`heap_update` is offered only with ranks that are not smaller, as its one caller,
`timer_poll`, uses it; `HeapUse` checks that it does.

**Timer.** `clock` advances at any time; `timer_poll` captures `now`. Callbacks may
register timers before they return. `timer_unregister` is never called from a callback,
as `timer.h` demands.

**Task.** The links are kept as in the code (`next`, `prev`), `pending` is the set of
steps whose notification is still to come, `timers` the registered timeouts, `timed` whether
the task was ever given one. `crash`
records a `NULL` dereference or the use of a released task. The application releases a
task only when `task_is_finished`. Steps are pushed and erased at any moment of its life: between runs,
by the run function of the current step, by the callbacks and while the task waits. What is left to the
caller is not to push a step that is in the ring, and not to erase the head step (`task_erase_step` does not
move `t->head`) or one in use. A run is started by the application's loop, not from a callback.

**Buffer.** Contents and positions, with the drift inside the read action. Lengths that
are too large are cut, as the recursive calls in the code do.

**Reactor.** `batch` is the array `epoll_wait` filled, still to be processed; `expired`
the list; `rpc` the callback that runs. The order in which a batch is processed is
arbitrary. A handler is an address, so freed and reallocated handlers coincide. `SelfStop`
says whether `in_func`/`out_func` may unregister their own handler.

**Connector.** Byte contents are `Buffer`'s business; here both buffers are instances of
`Buffer` over one byte value. The callbacks are split where application code runs, and
the application may call `con_set_sock`, `con_start`, `con_send` and `con_stop` there, in any order: a send between
`con_set_sock` and `con_start` is accepted when the buffer exists already (`made`), and `early` records
that the last one was of this kind. No socket is set on a connection that still has one, and
`reactor_register` fails only for a handler that is registered. `pkg` is the largest
package of the protocol spoken, fixed in a behaviour.

**WsConn.** A client sends one request and then frames; `ReadSome` hands over any number of
cells, `_wsconn_handshake`, `_wsconn_frame` and their failing branches are the parser,
`OnBuildReturns` and `OnReadReturns` the end of the two callbacks, from which the application
may send. The flags a request sets are sets of names, which choose the answer as the three
masks of the code do; `Residue` is what the uninitialised rest of `request_data` may look
like to the parser. Masking is a bit per payload cell that `Unmasked` flips in place. The answer
and the header of a frame are as long as the code's for the limits given.

**Acceptor.** `fds` says who uses which descriptor, and the kernel hands out the lowest free one;
the application, from other threads too, and `accept` take others. `afd` is what stays in the handler after a stop;
`acc_start`, which looks at nothing but `INVALID_SOCK`, listens on whatever socket has that number by then.
`opened` records that a descriptor was opened while the acceptor's own was closed.

**Fsm.** `calls` is the stack of `fsm_trigger` calls in progress with the place each has reached
(handler, exit, enter) and the status it read; callbacks may trigger again. `_fsm_rule_cmp` and the
bucket of a rule are the code's, so rules that share a bucket are confused as they are there.

**Coroutine.** `crt_resume` and the end of a coroutine switch `running`; the stack copying has no
state of its own. `crt_new` doubles the array when it is full and takes the last recycled unit.

**Buddy.** The index tree with its four states; `call` holds the loop variables of the search, the
marking upwards, the descent of `buddy_free` and its merging. `buddy_realloc` is an allocation that
is followed by `buddy_free` of the old block.

**Slab.** A page is a function from shifts to `meta_t`; splitting, linking and merging update it
as the code does, and pages move between the four lists by the size asked for.

**Rbtree.** One node record per address, the side of a node is a parameter where the code has two
symmetric copies. `call` keeps the position of the repair loops, so properties are read between calls.

**Skiplist.** Links, back links and spans per level; the level `_skiplist_rand_level` draws is any.
The walk that insertion, search and the queries by rank share is the operator `Path`.

**Hash**, **Idtable.** Chains and slots; `lost` and `cut` record the removals after which entries are
no longer reachable (section 3), and the properties say what holds besides.

**Dirty.** Loading a file gives `table`; the index and the hash follow from it. The scan keeps the
position, the inner variables `step` and `key` and what it returns.

## 3. Runs

Passing runs. A module's type invariant `TypeOK` is a conjunct of one of its properties,
as named here.

| Run | Checks |
|---|---|
| `rbuffer` | `Whole` (`TypeOK`, `Framing`, `Integrity`, `Delivered`), `NoOverwrite`, the refinement `FifoSpec`, and `EventuallyRead` |
| `bus_safety` | `MutualExclusion`, `CacheCoherent` (`TypeOK`, `DirectoryUnique` and the caches), `InOrder`, `NoLossOnceAttached`, with one release or crash and a restart, and with two semaphore calls that fail |
| `bus_live` | `CallsReturn`, `Received` |
| `heap` | `Keyed` (`TypeOK`, `KeysHold`), `MinAtTop`, with growth, key reuse and erasures by live keys |
| `control`: timer | `RunsItsOwn` (with `TypeOK`), `EachDueOnce` (until an unregistration misplaces a node), `HeapUse` (`Timer` implements the callers `Heap` assumes) and `PollReturns` |
| `control`: task | `OneRing` (with `TypeOK`), `CompletesOnce` (nothing stray reaches a task, no crash), `Finishes` (unless its steps push new ones for ever) |
| `control`: fsm | `Legal`: where a handler's answer leads; `Paired`: exit and enter alternate |
| `control`: coroutine | `Slots`: slots, units and the free list agree |
| `control`: dirty | `Cleaned`: no character of what is left begins a dirty word, and only bytes of dirty words were replaced |
| `containers`: buffer | `Streams` (`TypeOK`, `Stream`, `DriftNoOverlap`) |
| `containers`: rbtree, skiplist | `RedBlack`; `Ranked`: every query agrees with the ordered list |
| `containers`: buddy | `Indexed`: the tree says what is in use; `NullMeansFull`: a failing allocation had no block |
| `containers`: slab | `Tiled`: chunks, free list, `remain` and the page lists |
| `containers`: hash, idtable | `Found`; `FindsAll` |
| `net`: reactor | `NoStaleCallback`, `Forgotten` |
| `net`: wsconn | `Delivered`: payload in order, once; `Framed`: whole frames go out and none waits unwatched |
| `net`: acceptor | `Owned`: it closes and watches only its own socket, as long as nobody opened one after it was closed |
| `connector` | `Kept` (`TypeOK`, every byte once and in order, output events asked for), `NeverFull`, `Flushed` |

Runs in which TLC finds a counterexample; each contradicts a line of the repository and
is a finding in `PROJECT.json`:

| Run | What happens |
|---|---|
| `bus_accepted` | messages accepted with `BUS_OK` before the receiver attached the pipe are lost |
| `heap_grows` | `heap_pop` keeps its key, so keys run out before the heap is full, it does not grow, and the next insert leaves `key_table` |
| `task_loops` | the last step's `TASK_RET_NEXT` ends the task and does not loop to the head |
| `dirty_check` | the `step` declared inside the loop (`logic/dirty.c:180`) hides the one the loop advances by, so `dirty_check` stays at a first character that begins no dirty word and does not return |

Other behaviour the models show, which the properties above exclude by a condition or a
constant so that they say exactly what is left:

* `heap_erase` (`base/heap.c:226`) only rotates down. The node it moves can be smaller than its
  new parent, from six elements on; `misplaced` records it and `HeapOrder` and `MinAtTop`
  stop there. Read as an unconditional promise, `heap.h`'s "it's a minimum heap" fails. With six
  timers or more a `timer_unregister` can so leave a due timer below one that is not due, and
  `timer_poll`, which stops at the first that is not, fires it late: `EachDueOnce` holds until then.
* `heap_erase` with the key of an element that was popped before (`base/heap.c:212`) erases another
  one: `Keyed` fails when `Erases` contains `"stale"`.
* A task with a timer can complete twice (`logic/task.c:202`): by a notification after the timeout, or by
  the timer of a run that completed, which only `task_release` unregisters. `CompletesOnce`
  therefore speaks of tasks that were never given one.
* A handler that unregisters itself in `in_func` still gets `out_func` or `close_func` for the same
  event (`net/reactor_epoll.c:124`): `NoStaleCallback` fails with `SelfStop = TRUE`.
* A failing `on_read` does not close the connection by itself (`net/connector.c:85`): `_con_close` only calls
  `on_close`, if there is one, although `connector.h` says that the reactor will close it. That a failure
  ends the connection would be an assumption about the application, so nothing is checked of it.
* A `con_send` between `con_set_sock` and `con_start` (`net/connector.c:180`) queues its bytes and returns 0, but
  its `reactor_modify` fails, the handler not being registered, and `con_start` asks for `EVENT_IN` only: the
  bytes wait, with output off, for the next `con_send`. `Kept` and `Flushed` except exactly this (`early`).
* `bus_recv` (`logic/bus.c:344`) has its two return values exchanged; return values are not in the model.
* `rbuffer_attach` zeroes both positions in two stores (`base/rbuffer.c:46`) while the other end may be inside
  `rbuffer_write` or `rbuffer_read`, which take no lock. The sender's `atom_add` then publishes an old
  record at offset 0, so a message is handed out again or garbled. `InOrder`, `NoLossOnceAttached` and
  `Received` speak of the pipes that are not `torn` so; that a pipe both ends have attached does not become
  torn any more is part of `NoLossOnceAttached`.
* `bus.c` ignores what `lock_lock` returns (lines 198, 237, 244, 259): after a signal, or a stop and continue, a
  process is inside without the lock and raises the semaphore when it leaves, and without a semaphore every
  lock fails. `MutualExclusion` says that each failed call lets in one more at most; `CacheCoherent`, `InOrder`
  and `NoLossOnceAttached` stand on no call having failed, since what two processes inside at once do to each
  other's half-written directory is not followed.
* `hash_remove` of the first entry of a chain empties the chain (`base/hash.c:133`), and `hash_clean`
  leaves `m_count` as it is; `Found` speaks of the entries that were not cut off so, and of `lost`.
* `idtable_remove` leaves a gap (`base/idtable.c:85`) behind which ids that were put further on are not
  found; `FindsAll` holds until then.
* `_fsm_rule_cmp` takes a rule for equal to any in its bucket that is not larger (`core/fsm.c:65`), and a
  handler that triggers an event changes the status the outer trigger then leaves: `Legal` excludes both.
* A recycled coroutine keeps the function of its unit's former owner (`core/coroutine.c:128`): `Slots`
  excludes the units that came from the free list.
* `acc_stop` leaves the closed descriptor in the handler (`net/acceptor.c:86`). When somebody opened one in
  between, a second `acc_stop`, or the `acc_release` that follows `acc_stop` in `test/unit/test_net_echo.c:116`, closes
  that, and `acc_start` may listen on it. `Owned` speaks of acceptors of which this is not so (`opened`); with
  nothing opened in between, stopping twice, restarting and releasing close nothing else.
* `buddy_realloc` frees the old block also when it could not allocate the new one (`mm/buddy.c:143`);
  `Indexed` counts the block as given back in both cases.
* In `net/wsconn.c`: KEY2 sets KEY1's flag (175), so the MD5 handshake is never chosen; while the request is
  incomplete the bytes just read are dropped (582), so it must arrive in one read; a refused
  `wsconn_send` leaves the first byte of its header behind (747), the stray cells of `Framed`; an `on_read` that
  returns 0 has the same frame unmasked again, and one cut off by a full `rrbuf` is not offered again,
  which `Delivered` excludes as `spoiled`; an empty frame with nothing in `rrbuf` fails an assertion.
* `dirty_replace` returns 0 whether or not it replaced anything, although the comment at
  `logic/dirty.c:220` says otherwise; `dirty_hash_find` takes a prefix of a word for the word when both have
  the same hash, and the prefix may end within a character; a replacement may form a word that has a `*` in
  it. `Cleaned` allows for these.

## 4. Bounds

* Ring: 16 bytes, positions modulo 32, records of 5 and of 8 bytes. Their sums reach every alignment
  of the length and of the payload with the end of the memory, splits of both included, and the
  counters wrap after two rounds.
* Bus: three terminals is what it takes for a third one to change the directory between
  two steps of a pair; two messages, the fewest with an order, fill a pipe of two places, and two pipes fill
  the directory; one release or crash at any point, and two semaphore calls that fail. All of it at once is
  too much, so the constraint `Story` of `MCBus` keeps a behaviour within one of four: at most one
  message is sent, whoever starts, stops, dies and comes back; nobody stops and at most two of the
  three terminals are inside a call at a time; at most two terminals are up, with two messages and a stop;
  or calls fail and nothing is sent. That all of it together is safe too is what `BusProofs` shows.
  `bus_live` has two terminals, pipes of one place, no crash and no failing call; with one incoming pipe
  each, that `bus_recv_all` (`logic/bus.c:376`) passes none over by its rotating start is not shown. `MaxSend`, `MaxStops`
  and `MaxFails` bound the behaviour, nothing else.
* Heap: six inserts of two ranks, capacity 3 growing to 6. Six elements are the fewest with
  which an erasure can misplace a node, four are the fewest for growth, and three for a
  freed key that is used again. TLC stops exploring at `fault`, the overrun of `heap_grows`.
* Timer: three timers, three instants, a capacity above the number of registrations, so
  that the key leak of `heap_grows` does not interfere; with three elements no erasure
  misplaces a node.
* Red-black tree: six keys, with which a deletion can need every rotation on both sides. Skip list:
  five elements, two of them equal, on three levels, so that one element is on a level of its own.
* Buddy: a pool of eight smallest blocks: four sizes, splits and merges over three levels. Slab: two
  pages of 12 units, requests of both classes; three chunks to a page, which is what merging with both
  neighbours takes.
* Hash: five elements in two chains, `m_count` up to 7. Id table: six ids for four slots, some
  colliding, with probes that wrap around.
* State machine: two statuses, two results, up to three rules of which some share a bucket,
  triggers nested twice. Coroutines: three units in an array that grows from 2 to 4.
* Dirty words: all texts of up to four bytes over a double-byte lead, a letter and another byte, and
  of up to three with the upper case of the letter too; four files of words that overlap, contain each other,
  share a first character or a hash, or hold the replacement character. `dirty_check`: texts of three bytes, one file.
* Websocket: buffers of 16 cells, which what a client sends overflows; a request of each kind and one that
  is refused, followed by frames with and without mask in the three forms of the length, empty or not text;
  one `wsconn_send` of 0, 1 or 3 bytes, a frame in each form, where the longest does not fit after the answer of four cells.
* Acceptor: three descriptors, one more than the listener and one accepted connection; stops, starts and releases are not bounded.
* Task: three steps, resumptions by -1, 0, 1 and 2, two runs, each with or without a timer.
* Buffer: 5 bytes (an odd size is the tight case of the overlap), 7 written in all.
* Reactor: two handlers, which is enough for one callback to invalidate the other's event.
* Connector: one connection with buffers of 8 bytes, 9 bytes of input and 2 of output,
  packages of at most 2 bytes (for `NeverFull`) or of 9 (so that the buffer does fill).

`CHECK_DEADLOCK FALSE` is set where the modelled program may stop: when a bound on calls
is exhausted (`control`), a process died with the lock (bus), the heap is at `fault`, an assertion
failed or a connection was released (`net`).

## 5. Fairness

* `RBuffer`: a thread inside a call goes on; the reader keeps calling `rbuffer_read` with a
  buffer that is large enough. The writer owes nothing.
* `Bus`: processes run, `semop` serves waiters fairly (strong fairness of each process'
  next step), and every terminal polls and receives in every tick, which `bus.h` asks
  for. No process dies in the liveness run: the semaphore has no `SEM_UNDO`. And no semaphore call fails there.
* `Timer`: the thread inside a loop goes on and callbacks return.
* `Task`: run functions return and timers are polled; notifications arrive only for a task that no
  timer watches, others may be lost. `Finishes` also assumes that steps do not edit the ring for ever: one that
  pushes another ahead of itself each time keeps its task running.
* `MCDirty`: the loop of `dirty_check` goes on.
* `Reactor` (where it has the focus), `Connector`: the thread keeps dispatching, callbacks return, and a socket
  that is asked about again and again is eventually writable and takes bytes.

## 6. Proofs

Each theorem is for every value of the constants under the assumptions the modules state. Those
about the components of `MCNet`, `MCControl` and `MCContainers` are theorems of `MCSpec`: a lemma
(`WsRefines`, `CoRefines`, ...) says that a step of `MCSpec` is a step of the component or leaves
it alone, and the rest of the proof is about the component. Every invariant named here was an
invariant of a TLC run, on the instances of section 4, before it was proved.

| Module | Theorem | Property |
|---|---|---|
| `RBufferProofs` | `NoOverwriteHolds`, `WholeHolds`, `RingIsFifo` | `NoOverwrite`, `Whole`, `FifoSpec` |
| `BusProofs` | `LockExcludes`, `CachesAgree`, `PipesAreInOrder`, `AttachedLosesNothing` | `MutualExclusion`, `CacheCoherent`, `InOrder`, `NoLossOnceAttached` |
| `ControlProofs` (heap) | `KeyedHolds`, `MinAtTopHolds` | `Keyed`, `MinAtTop` |
| `ControlProofs` (timer) | `TimerUsesHeap`, `PollKeepsItsNode`, `PollFiresEachOnce` | `HeapUse`, `RunsItsOwn`, `EachDueOnce` |
| `ControlProofs` (task) | `StepsFormARing`, `RunCompletesOnce` | `OneRing`, `CompletesOnce` |
| `ControlProofs` (fsm) | `CallbacksPair`, `RulesAreFollowed` | `Paired`, `Legal` |
| `ControlProofs` (coroutine) | `SlotsAgree` | `Slots` |
| `ControlProofs` (dirty) | `TextIsCleaned` | `Cleaned` |
| `ContainersProofs` (buffer, tables) | `StreamsHolds`, `TableFinds`, `TableIsExact` | `Streams`, `Found`, `FindsAll` |
| `ContainersProofs` (buddy) | `TreeIsExact`, `NullOnlyWhenFull` | `Indexed`, `NullMeansFull` |
| `SlabProofs` | `PagesAreTiled` | `Tiled` |
| `NetProofs` (reactor, acceptor) | `NoStaleCallbackHolds`, `AcceptorOwns` | `NoStaleCallback`, `Owned` |
| `NetProofs` (websocket) | `PayloadArrives`, `FramesGoOutWhole` | `Delivered`, `Framed` |
| `ConnectorProofs` | `ConnectionKeeps`, `NeverFullHolds` | `Kept`, `NeverFull` |

**Ring** (any size above 4 that divides 2^w, any payloads). `Integrity` alone is not inductive: that
a copy does not damage a published record needs `Framing`, that the record a commit publishes is
intact needs the contents of the cells copied so far, and that the reader decodes a length needs it
to stand on a record. `IInv` adds these, per program counter. The arithmetic is in lemmas on `Cell`,
`Advance` and `Distance`; the one that needs `PosMod % Size = 0` is `CellOfDistance`.
`RingIsFifo` says that the ring implements the queue of `RBufferFifo`, with what the memory between the two
positions decodes to for its content. `Chain(s, at)`: record n of s starts at the offset `at[n]`, where the
memory has its length and its bytes, and the last ends at `write_pos`. A copy into free cells keeps the
chain, a commit of the writer appends a record to it, one of the reader takes its first away and moves the
offsets, and `ScanYields` of `NatLemmas` says that a chain is what the recursive scan finds.

**Bus** (any terminals, any sizes of the directory and of the pipes, any number of messages and
restarts, any number of failed semaphore calls). `SemInv` counts tokens: the value of the semaphore and the
processes inside are together at most the number of calls that failed, and one more once `SETVAL` was made.
Only one process is between `semget` and `SETVAL`, which is why a lock made in two calls still
excludes; a call that fails lets one process in without a token, and its unlock makes one: `MutualExclusion`
follows with the lemmas on `Cardinality`. `SelfInv` says what a process knows of itself whatever others do: what it is
attaching, reading or sending fits where it is. `DirInv`, `ProcInv` and `CacheInv` hold while no call has
failed. `DirInv`: every
terminal and pipe has one entry, and versions are at least 1, so that an empty cache's is never the
directory's. `ProcInv` says what a process inside a critical section already has of the directory
(it is up to date before it registers or adds a pipe), `CacheInv` that a cache with the directory's
version has its entries, and that its outgoing pipes are the directory's even when its version is
old, since only their sender adds them. `MsgInv`: what was received from a pipe and followed while it
was not torn, with what is in it behind, increases, and the message a send still has to put there is larger; a send to several
terminals does not come back to one (`to`, `left`).
`NoLossOnceAttached` follows from these step by step.

**Heap** (any capacity, ranks and number of inserts), when no stale key is erased. `KeyInv` also
says what the loop variables mean while a rotation runs and that keys in the array are distinct;
`OrderInv` says that, until a node was misplaced, at most the position of the running loop is out
of order, and that its parent is not larger than its children. `MinAtTop` follows from `HeapOrder`
by taking the smallest index whose rank is below the root's.

**Timer** (any intervals and any callbacks), on the same condition. That `Timer` implements `Heap`
(`HeapUse`) is proved first, so that everything proved about the heap holds for the timers' heap:
`KeyInv` gives that the node a poll holds is the one of its key, and `MinAtTop` that no timer is due
when the one on top is not. `DueOnTop` says that while a callback runs its node stays on top,
whatever the callback registers: an interval is not negative, so that what it registers is not due
before `now` and does not rise above it. `Fired` says that what a poll has fired is not due in it
again, or is gone with its key not used again.

**Task** (any steps). `Links`: `next` and `prev` are inverse on the linked steps; `Closed`: a set
that contains the head and with each step its successor is all of them, which is how "one ring" can
be inductive, and a push or an erasure at any point of a run keeps it; that `next` reaches every step by
walking from the head then follows from `NatLemmas`.
`Untimed`: while no timer watches, at most the current step waits for a notification, and a task is
complete exactly when it ran and has no current step.

**State machine** (any rules, any nesting). `RulesInv`: a chain holds the rules of its bucket, no two
for one input; `CallsInv`: unless a handler triggered again, only the innermost call is in a handler,
and so for the callbacks of an exit; `StatusInv`: then a handler still has the status it read, outside
an exit the status last entered is the current one, and inside one none is. `Legal` is the action property that follows for an answer.

**Coroutine** (any units, any growth). `Apart`: a unit is in one slot or once on the free list;
`Counted`: `count` is the number of taken slots; `Owns`: the units that are not fresh are in a slot or
on the free list, one is running exactly if it is `running`, and one that is not recycled has its function.

**Dirty words** (any files, texts and hash function, `tolower` a map of single bytes). `Scrubbed(s, d)`: a
character of s begins at d, from d on s is the text that was given, no character before d begins a word without a
replacement character, and what was replaced belongs to a word. It holds of the position of the loop and is
kept in both ways it goes on: behind a character where all lengths of the index failed (`Skipped`, with
`Matching` for those tried so far: a word there would be in the index and in the hash table), and behind a
replacement (`Starred`: no word without a replacement character can begin in it or reach into it). That a
character's place depends only on the bytes before it is `BeginsSame`.

**Linear buffer** (any size). `TypeCorrect` (the two assertions of `buffer.c`), `StreamHolds` and
`DriftNoOverlapHolds` are joined in `StreamsHolds`. The invariant adds that the read position is
at most half the size between calls.

**Id table** (any ids and slots). `Exact`: the slots hold the ids that were added and not removed,
each once, and between an id's own slot and the one it is in no slot is empty, which is what makes a
probe stop only after it; it holds until a removal opens such a gap (`cut`). **Hash** (any data, keys,
chains): `Chained`: a chain holds elements of its bucket, each once, and all chains together what was
entered and not removed or cut off.

**Buddy** (any order of the pool). Between two steps of a call `Indexed` does not hold; `BuInv` says, for each
loop, where it does not. The search splits on its way down: only the parent of the index it looks at may not yet
agree with its children (`AgreeBut`). While parents are marked full, merged or split again, the parent of the
index in hand is the one not yet told; that the ancestors of a split block are split (`ParentSplit`) is why
each of these loops may stop at the first that needs no change. The descent of `buddy_free` ends at the block
to free because that is below the index it has come to, and nothing below a used block is in use
(`NothingBelow`). `Below` is the least set closed under children, so that a set proves something of all of it.
`NullMeansFull` needs that the search has passed, at every index, only blocks of the size that overlap one in use
(`Passed`): a full block is in use everywhere (`AllUsed`), a split one somewhere (`SomeUsed`), and the next index
begins where the last ended (`NextServes`). The geometry, that the children of an index are the halves of its
block and no two indices have the same, rests on lemmas on the recursive function `Pow2`.

**Slab** (pages of any size and number, any limits of the classes that fit a page: `SlabAssumption`). `PageInv`
is `Covered` and `FreeListed` in a form that the steps keep: where a chunk begins (`Begun`), that the chunks
neither overlap nor leave a gap (`Chopped`), that a link goes to the nearest free chunk on its side (`Strung`),
and that no other meta has a link (`Quiet`), which a merge would take over. The operations pass through pages
that are not yet in order, so each of the three list operations has a lemma for any set F of free chunks that is
strung: `StrungUnlinked`, `StrungReplaced` and `StrungInserted` give the set that is strung afterwards. A chunk that was just
freed is on no list (`Almost`); when it does not touch the next one it is linked behind `LastBefore`, which the
walk from `page->free` finds because links only go up. `Merged` looks at the free chunk before m on the
list only: that is m's neighbour in the page if a free chunk is (`MergedIs`). `FirstFit` finds
a chunk that is free and fits; that the page is given back exactly when nothing in it is in use is a count: the free
chunks take up the whole page (`EmptyIs`). `SlInv` adds the lists and the memory handed out.

**Reactor** (any handlers), when callbacks do not unregister their own handler. `StaleInv`: every
handler in the rest of the batch is on the expired list or still allocated, registered and not gone
since the fetch, and so is the handler whose `in_func` or `out_func` runs. **Acceptor** (any
descriptors, any stops and starts). `AcInv`: as long as nobody opened a descriptor while the acceptor's own was
closed, the number in its handler is free or the listener's, an acceptor that is watched holds the listener, and
in any case no other descriptor is the listener.

**Websocket** (any requests, any frames of RFC 6455's form, any buffer size, any answer length and
limits). `OutInv`: what is owed is what is on the wire followed by `wbuf`, and output events are asked
for while more than stray bytes wait. `ReadInv` says where in the client's stream the connection is.
Until the handshake is answered (`Asking`), what is in `rbuf` and what comes are the end of the
request and the frames, of which a beginning may have been dropped. Afterwards (`Serving`) there is
a k such that what `on_read` took and is offered next is the payload of the first k frames, and the
bytes of these, followed by what lies behind the place `rbuf` is parsed up to and what comes
(`Behind`), are the whole stream. `FrameAt` is the lemma on the parser: if d, followed by anything, begins with
the bytes of a frame and `Complete` says it is there, then `Unmasked` turns exactly its payload into plain
cells and changes nothing behind it, however the stream was cut; `BehindBlank` says that whatever
was dropped, the first blank line is the end of the request. `Sent` and `Encoded` are
recursive functions: that they are the pieces joined, and that fewer are a beginning of more, is
`JoinGrows` in `NatLemmas`.

**Connector** (any buffer size, packages and application). `SentInv`: what was accepted is on the
wire or in `wbuf`, and output events are asked for while some is left, unless the last `con_send` was
before `con_start`; `ReadInv`: between events less than a package is
unread, unless `on_read` is still to drain it; `EventInv`: the event in hand is for a connection that
is up. `NeverFull` needs `CloseStops`: if `on_close` does not stop the connection after a failing
`on_read`, the undrained bytes stay in `rbuf` and the next read finds it full.

## 7. What is only model-checked

For the instances of section 4:

* all liveness, since fairness is outside the prover's reach: `EventuallyRead`, `CallsReturn`, `Received`,
  `PollReturns`, `Finishes`, `Forgotten`, `Flushed`;
* `RedBlack` and `Ranked`. `RedBlack` speaks of the tree between calls: a repair loop that never ended would not be seen by it.

What a recursive function computes is within reach where it walks or joins sequences: `NatLemmas` has induction over the
naturals as a statement about a set (`NatInductionSet`, from the least element of its complement), and
the lemmas on walks and on joined pieces rest on it. What is missing for the trees and the lists of
`Rbtree` and `Skiplist` is the inductive invariant, not a principle.

## 8. Plan

1. Proofs: `Ranked` of `Skiplist`, whose walks `NatLemmas` can treat; `RedBlack` of `Rbtree`.
2. Operations left out of components listed as partly modelled: `lock_try_lock` and `lock_release`,
   the rest of `slist.c`, `bus_dump`, the setters of `con` and `wsconn` after the start.
3. `ReactorSelect`: the table after `con_stop` reset `fd`, masks that are never cleared; `kv` and
   `conhash`; `serialize` and `util_time` as functions.
4. `Rqueue`, which has no caller in the repository: `rqueue_is_empty` and `rqueue_is_full` answer 0 for
   yes, and `rqueue_push_back` and `rqueue_pop_front` (`base/rqueue.c:40` and `:57`) read them as if 0
   were no. A new queue of two places or more so refuses every push until something was popped from it
   while it was empty.

Not modelled: digests (`md5`, `sha1`, `crc`, `base64`), `cjson`, `cmd`, `log`, string and random utilities,
which hold no state that outlives a call or only format, or forward to the file system; the curl clients, sockets, shared memory, threads,
spin lock and atomics, which forward to the system or a library; `kqueue`, which Linux does not have;
`array`, `bitset` and `list`, whose operations are single assignments to an index or a link.
