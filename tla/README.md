# A TLA+ verification of hgsl

`hgsl` is the guest-side driver of a virtualized Qualcomm GPU. A guest process
opens the device and creates *contexts*; it submits *draw objects* (commands,
markers, sync objects, timeline objects) to a context, and the driver orders
them, waits for what they depend on, and passes commands to the GPU firmware
through a doorbell queue in shared memory, or to the host through remote
procedure calls over hypervisor sockets (HAB). The GPU reports progress by writing the
retired timestamp of a context to shared memory. Almost everything that makes
the driver hard is concurrency: ioctls of several threads, interrupt work,
a dispatch thread per context, fence callbacks, timers, the GPU and the host all
act at once, and a context can be destroyed under all of them.

Two more parts carry the rest: the pool of HAB channels over which the
calls to the host go, and the bookkeeping of GPU memory, which must survive lost
answers and the death of the process. The modules here model all of this, TLC checks them on small instances, and TLAPS
proves the central invariants of the event groups, of the draw queue, of sync objects, of the context table, of both kinds of
timelines, of memory, of the doorbell rings and of the in-order specification that the draw queue implements, for every number of events, threads, slots,
contexts, fences, nodes and messages and every width of the timestamp.

## 1. Inventory

| part | source | state | operations | what is hard |
|---|---|---|---|---|
| timestamps | `hgsl.h`, `hgsl.c` | 32-bit counters that wrap, `queued_ts`, retired (`eop`) | compare, pick the next | wrap-around, reserved values |
| event groups | `hgsl_events.c`, `hgsl.c` | list of events, `processed`, `kref` of the context | add, retire, cancel, deliver, destroy | lost wake-ups, a busy wait for the last reference |
| context table | `hgsl.c` | `contexts[]`, `kref`, `active_wait_list`, the retire work | create, look up, wait for a timestamp, retire, destroy, release walk | ids reused by the host, waiters of a dying context |
| draw queue and dispatcher | `hgsl_dispatch.c`, `hgsl.c` | ring of draw objects, `queued`, kick counter, sent list | submit, wait for room, dispatch, push back, retire, detach, reclaim | one lock, one mutex, one kthread, failed sends, destruction |
| sync objects | `hgsl_drawobj.c` | refcount, bitmap of pending points, canary timer | add points, callbacks, expire, destroy | three kinds of callbacks race destruction |
| timeline objects | `hgsl_drawobj.c` | two reference counts, array of timelines | create, queue, signal, fail, destroy | error paths, two halves in any order |
| software timelines (isync) | `hgsl_sync.c` | list of fences, `last_ts`, kref | create fence, forward, signal one, query, destroy | check-then-link, dying fences on the list |
| hardware timelines (hsync) | `hgsl_sync.c` | list of fences, `last_ts`, kref | create fence, signal, close, fini | a fence linked behind the timeline, events that fail or are cancelled, wrap |
| doorbell queue | `hgsl.c` | ring of dwords shared with the firmware, hard-reset words | wait for space, copy, advance, ring | ring wrap, reset handshake |
| doorbell context queue | `hgsl.c` | per-context ring, an indirect buffer | open, send, close | buffer reuse |
| shared ib descriptors | `hgsl.c` | one buffer per doorbell queue with an owner | wait for it, own it | owner changes while waiting |
| HAB channels and RPC | `hgsl_hyp.c`, `hgsl_hyp_socket.c` | free and busy lists of channels, `busy`, `wait_retry`, parcels, `conn_id` | get, fill, transact, park and retry after a signal, put, close | reuse of channels with a reply under way, handshake failures, leaks on error paths |
| memory | `hgsl_memory.c`, `hgsl.c` | two trees of nodes per process, `dma_buf` references | allocate, map, export, get a descriptor, cache operations, free | concurrent free and use, lost answers of the host, put-back after a failed unmap |
| IOMMU and addresses | `hgsl_iommu.c`, `hgsl_mmu.c` | page tables, rb-tree of address ranges | reserve, map, unmap | overlap, partial failure |
| gmugos doorbells, TCSR | `hgsl_gmugos.c`, `hgsl_tcsr.c` | interrupt registers, masks | signal, clear, enable | interrupt and enable races |
| files | `hgsl.c` | per-process private data with `open_count`, `release_list`, the release work | open, release, clean up | reopening during release, cleanup that times out |
| debugfs, sysfs, trace | `hgsl_debugfs.c`, `hgsl_sysfs.c`, `hgsl_trace.h` | read-only views | show | none: they print |

How the parts interact. A submission ioctl (`hgsl.c`) builds draw objects
(`hgsl_drawobj.c`) and hands them to the draw queue (`hgsl_dispatch.c`), which
numbers them. Sync objects register callbacks on event groups
(`hgsl_events.c`) and fences (`hgsl_sync.c`); their expiry kicks the dispatcher.
The dispatcher sends commands (`hgsl_issue_drawobj`) and retires what needs no
GPU. Timeline objects signal isync timelines when the commands before them
retire. Retirement interrupts run `_signal_contexts`, which processes the event
group of every context. Every holder keeps a reference on the context, and
`hgsl_ctxt_destroy` detaches, waits for the references and frees. Contexts,
memory mappings and shared timestamps are set up by calls to the host (`hgsl_hyp.c`)
over channels of the process's pool. The last close of the device puts the process's
structure on `release_list`; a worker destroys its contexts, waits for the GPU, unmaps and
frees its memory, and closes its channels.

What makes each part correct. *Timestamps*: comparison agrees with the order of issue within
half a word. *Events*: each registered event gets exactly one callback with a true
result. *Context table*: references exact, no pointer outlives the structure,
destruction ends. *Draw queue*: objects leave in the order of their timestamps, none
lost, no kick lost. *Sync objects and timelines*: freed once, after the
last callback; no waiter forgotten. *Calls*: one user per channel, one execution per
call, each reply to its own call. *Memory*: a node is freed once and only when nobody maps it.
*Doorbell*: the firmware finds every message whole, nobody writes during a reset, descriptors stay until
their batch retires. *Hardware timelines*: a fence signals when its timestamp retires, not before, and in any case
when its context goes. *Addresses*: ranges never overlap.

## 2. Modules

| module | models |
|---|---|
| `HgslTimestamp` | wrap-around arithmetic and the choice of the next timestamp, with the word scaled to `2 * Half` values |
| `HgslEvents` | one context with its event group: registration, retirement, cancellation, delivery, detach and destruction |
| `HgslEventsProof` | the theorems about `HgslEvents` |
| `HgslDrawQueue` | one context's draw queue: submitting threads, the dispatch kthread, the GPU, destruction |
| `HgslDrawQueueProof` | the theorems about `HgslDrawQueue`, among them that it implements `HgslInOrder` |
| `HgslInOrder` | abstract specification: timestamps are given out, pend and retire in one order; `HgslDrawQueue` implements it |
| `HgslDoorbell` | the shared doorbell ring, the rings of contexts, their descriptor buffers, and the hard-reset handshake |
| `HgslDoorbellProof` | the theorems about `HgslDoorbell` |
| `HgslSyncObj` | one sync object with a point of every type from its creation to its release |
| `HgslSyncObjProof` | the theorems about `HgslSyncObj` |
| `HgslTimelineObj` | one timeline object among commands of another thread |
| `HgslIsync` | one isync timeline with its fences and concurrent calls |
| `HgslIsyncProof` | the theorems about `HgslIsync` |
| `HgslHsync` | one context's hardware timeline with its fences, composed with their events and the destruction of the context |
| `HgslHsyncProof` | the theorems about `HgslHsync` |
| `HgslHyp` | the channel pool of one process: all 35 calls, signals and retries, handshakes, broken sockets, close |
| `HgslContext` | the context table: creation, use, waits, the retire worker, destruction, release |
| `HgslContextProof` | the theorems about `HgslContext` |
| `HgslMem` | the structures of a process, its memory nodes, and their release |
| `HgslMemProof` | the theorems about `HgslMem` |
| `MCHgsl*` | instances for TLC |

Common conventions. A step of a thread between two points where another actor
can interfere (a lock taken or dropped, an atomic operation, a sleep) is one
action; what happens under a lock that all accesses take is one action.
Definitions that translate a function have its name; the steps of a longer one
have descriptive names, and `PROJECT.json` ("map") gives the lines of each.
`Mut_*` operators are deliberately wrong variants used to check that each
property can fail.

**HgslTimestamp.** `hgsl_ts32_ge(a, b)` is `(a - b) mod 2^32 < 2^31`. The word has
`2 * Half` values instead of 2^32 (`Half >= 2`), all arithmetic wraps, and runs start near the
wrap. `TsMode` is how `hgsl_db_next_timestamp` gets a timestamp: `driver` (counts
itself), `client` (user generated, must be ahead) and `verbatim` (taken as
given).

**HgslEvents.** Variables: `queued_ts`, `eop` (the retired timestamp in shared
memory), `processed`, the events with their state and the reference their
client holds, `kref`, `in_table`, `retire_work`/`irq` (the interrupt's work), `dpc` (where
`hgsl_ctxt_destroy` is). `hgsl_add_event` is three steps: the check of the queued timestamp,
allocation, and linking under `group->lock`, where the retired timestamp
is read again. `_process_event_group` runs under the same lock and is one step.
Callbacks run on their own worker (`_hgsl_event_worker`). Destruction is
`hgsl_remove_context` (out of the table), detach's flush, the final work and the
busy wait.

**HgslDrawQueue.** The ring (`drawq`, head, tail, `queued`), `drawq_lock` (held
across a batch, since the code drops it to sleep and takes it again), `gpu` (commands
given to the doorbell in order), `sent` (the sent list), the kick counter `count`,
the kthread's works, its program counter `wk`, the threads `th` and `dpc`. An object
has a kind, a timestamp, the timestamp a marker waits for, the skip flag and
whether its sync points are pending. A submission is a batch of objects
built before the lock is taken; `QueueEnter` takes the lock, checks the
client's timestamp and the room; the objects are queued one at a time; then the dispatcher is kicked
(two steps, the counter and the work). The dispatcher's step order is that of
`hgsl_dispatch_context_sendcmds`: scan the head, retire or pop, send without the
lock, push back when the send fails. Sync points are a bit that expires and
the doorbell is a send that may fail: `HgslSyncObj` and `HgslDoorbell` are
the detail behind them. A wait for room returns as `wait_event_interruptible_timeout` does
(`WaitReturns`: 0 when the time is up, positive with room, negative for a signal), and
`RoomWaited` reads the result as the code does.

**HgslInOrder.** Three variables: the last timestamp given out, the retired one and the
sequence of those pending. A timestamp is queued behind the last one and inside half a word; the oldest
pending one retires; a timestamp may retire as it is given out only when nothing is pending; a destroyed context drops the newest.
`HgslDrawQueue` instantiates it with `pend <- Pipeline` (the timestamps at the GPU, the one the
dispatcher holds, and those in the ring, in this order), and `RefinesInOrder` says that every step of
the draw queue is a step of it or a stutter: a push-back must not change places, a marker retired from the CPU must
not overtake, detach must drop only from the back.

**HgslDoorbell.** Either the back end has context queues (`dbcq_supported`) or all contexts share
one ring. A ring has its two indices and a function from dword positions to (message, dword), so that a
wrong copy is visible. A sender goes through open (context queues), claim of the descriptor
buffer for a batch, lock, request, busy, room, copy, publish; each is a step because the firmware,
the host or another sender can act in between. The destroyer releases the descriptor buffer and closes the
queue. The firmware (reads messages, retires timestamps) and the host (asks for a reset, resets
once the guest is not busy) are external. The layout of the shared words (`hgsl_dbq_get_state_info`) is
abstracted to one variable per word, memory is sequentially consistent, and `is_killed` contexts do not
occur because nothing in the driver sets the flag. A failed send may be tried again with the same timestamp.

**HgslSyncObj.** Points of the three types are added one by one while the callbacks
of earlier ones may already run. A callback is split where the code is: claiming the
pending bit, deciding whether it was the last and kicking, putting references.
Destruction claims the bits that are left, cancels each point and puts. The canary
timer starts with the first look of the dispatcher and takes its reference after it has
fired.

**HgslTimelineObj.** Creation with every failure (allocation, unknown timeline, event
refused), queueing among another thread's commands, the event callback and the
dispatcher each putting `sig_refcount`, detach. A walk of the array that an error path has freed is the state
`fault` of the call that makes it, which goes no further.

**HgslIsync.** `kref`, `last_ts`, the list of fences, fences with their references
and enabled/signalled bits, and calls in progress. The lock of the list separates
steps; `dma_fence_is_signaled` at creation is outside it, as in the code. A fence is made in one of two ways:
`hgsl_timelines_to_fence_array` shows it to its waiter only when it is complete (`FencePrivate`, `FenceCheck`,
`FenceLink`); `hgsl_isync_fence_create` installs the descriptor first (`FenceInstall`), sets the timeline (`FenceAttach`), checks, links, and puts its
own reference last (`CreatorPut`). Users of a descriptor (`Usable`) wait, poll, signal and close in all of these states.

**HgslHsync.** `last_ts`, `kref`, and for each fence its ioctl's progress, its references, the list it is on, its
`sync_file` and its event. A fence is created and placed under `timeline->lock`, its event added, its
descriptor installed; the event's callback signals the timeline, which moves every reached fence to a local list
and puts them outside the lock (`CallbackPuts`). Destruction flushes the events, waits for the
context's references and ends the timeline (`hgsl_hsync_timeline_fini`). Registration and
delivery of events are the steps `HgslEvents` shows in detail.

**HgslHyp.** Variables: the two lists of the pool, the channels (`sock`, `busy`,
`wait_retry`, the send parcel, and requests and replies under way), `conn_id`, the client
threads, and the closing thread. Each remote call is a row of a table that records
what tells it apart: whether the caller holds the channel over several calls,
whether it waits interruptibly, whether it resets the parcels itself, what it does with the
host's status, and whether its error path keeps the channel. A call is `PoolGet*`, `Fill`,
`Send`, `Receive*`, `PoolPut`; `priv->lock` covers only the first and the last. An interrupted call
parks its channel and is retried by id (`Retry`, `PoolGetById`) or abandoned (`Begin` on
the same thread). The id of a retry comes from user space: `BeginById` starts a call with any id, also that of a channel
on which another call is parked or which another thread has got by the same id. A row of the table is the transaction only: what a call does with the contents of its reply
(imports, memory nodes, its clean-up) is not in it, and "map" gives the lines from the get of the channel to the status. A parcel is the list of the calls whose arguments it holds, which
is enough to tell a clean request from one with stale arguments. The back end is external: it executes what
arrives in order and replies with any status; a socket may break and lose what is under way.

**HgslContext.** Variables: `contexts`, the structures with `kref`, `in_destroy`
and `destroyed`, the ids the back end has, where each thread is,
`active_wait_list`, the pending retire work and the state of each process's file. A wait is
`WaitEnlist`, `WaitCheck`, sleep, `WaitDelist`. The retire worker collects the contexts with
retired timestamps under the lock, then signals and puts them one by one. A timestamp is retired by the GPU, which
interrupts (`Interrupt`), or by the CPU for a marker (`CpuRetire`), which neither queues the work nor wakes anybody. Destruction is
one step per point where it can be seen: the wait for the ib descriptor, out of the table,
`in_destroy` set, waiters woken, the reference dropped, the spin, the host told, the free. The
release worker walks the table and destroys what the process owns. Events and draw
objects are one asynchronous reference here; `HgslEvents` and `HgslDrawQueue` are the detail behind it. `HgslContext`
has several contexts and threads and no event detail, `HgslEvents` one context with all of it.

**HgslMem.** Variables: the `hgsl_priv` structures with `open_count`, `release_list`,
the release work and worker, the nodes with their `dma_buf` references, descriptors and scatter list,
the two trees, what the host maps where, and where each thread is. Allocation is create,
map at the host, copy the descriptor to user space (which may fail), add to the tree (which fails when the address is taken), and undo on
failure; freeing takes the node out of the tree, unmaps it, and puts it back when that fails. A
failed unmap is one the host did not do, or one whose answer was lost. `ignored` collects nodes
freed although a call failed, `leaked` nodes the driver lost track of, `lost` a
structure that cleanup gave up. Mappings by the driver's own MMU code
(`use_fv`) and cache operations on imported buffers are left out.

## 3. Runs

All bounds are constants of the cfg; every action's guard that caps a counter
names its bound (`MaxSubmits`, `MaxSendFails`, `MaxCmds`, `MaxCalls`, `MaxFaults`,
`MaxOpens`, `MaxFds`, `MaxIssues`, `MaxResets`, and the numbers of structures `NumChannels`, `NumObjs`, `NumIds`, `NumPrivs`,
`NumNodes`, `NumAddrs`). `InWindow` keeps timestamps in play within half a word, as 2^31 does in the code.

| run | checks | instance |
|---|---|---|
| `events` | `NoLostEvent`, `KrefExact`, `NoUseAfterFree`, `ResultTruthful`, `RetiredEventDelivered`, `DestroyTerminates` | two events, 4 timestamps: one event can be registered, retired and reused while the other is in any state, and timestamps wrap |
| `drawqueue` | `RingConsistent`, `KrefExact`, `NoLostKick` | two threads, ring of 4, 3 submissions of markers and of commands behind sync points, one failed send, start two before the wrap |
| `drawqueue_live` | `NoPartialQueue`, `RefinesInOrder`, `QueueDrains`, `DestroyTerminates` | client timestamps, a word of 6 values, one thread, two submissions of several kinds, one failed send |
| `drawqueue_timeout` | violates `RoomToPushBack` | one thread, two submissions, waits for room that time out |
| `syncobj` | `NoUseAfterFree`, `LastExpiryKicks`, `DestroyedIsFreed` | four points, all three types |
| `isync` | `KrefExact`, `NoLostSignal`, `DestroySignals` | one fence, created either way, three calls at a time, 4 timestamps |
| `hsync` | `KrefExact`, `NoFenceLeft`, `SignalTruthful`, `FenceSignals` | two fences, 6 timestamps, starts at 0 and two before the wrap, client timestamps |
| `timelineobj` | `LastForwardsAndFrees`, `QueuedForwards` | four commands around one object |
| `doorbell` | `RingHoldsMessages`, `ResetQuiet`, `BatchKept`, `ResetGranted` | two contexts, two commands of one and one of the other (more after failed sends), rings of 8 dwords aligned to 2, messages that fit with a remainder and messages that become batches because they exceed the limit of 4 dwords (255 in the code), two resets, timestamps that wrap |
| `hyp` | `PoolExclusive`, `AtMostOnce`, `CloseTerminates` | two threads, three channels, two calls of any kind, two failures |
| `context` | `NoUseAfterFree`, `TableClean`, `WaiterIsWoken`, `DestroyEnds` | two threads of one process and one of another, one id, two contexts |
| `mem` | `NodePlaced`, `PagesLive`, `ReleaseClean`, `ReleaseEnds` | two threads, two structures, two nodes, two addresses, two opens, one descriptor, one failure |

Why the bounds are enough. Events interact only through the group's lock, `processed` and
`kref`: two show every pair. The ring of four slots holds three objects, so that room runs
out with two submissions, the head wraps, and the pushed-back object meets a full ring.
Two submitters and the dispatcher give every order of three parties at the lock.
Points of a sync object share the bitmap and the refcount: one of each type and
two of one type show the last and not-last cases. A fence meets at most one forward, one
destroy and one single-fence signal at a time in any way that matters; fences
meet each other only through the reference count. Two calls show each
pair: one interrupted and one that reuses, retries or abandons its channel, on the same
or on another thread; the third channel is there for a call that finds the others parked or
leaked. With one context id and two contexts the second one always reuses the id of
the first, the case in which a stale table entry would be seen; three threads let one destroy,
one wait and one create. A ring of 8 dwords, of which
7 can be used, holds one aligned message of 4 and not two, wraps inside a message when the short message of a batch comes before it, and lets a batch follow a plain message; two
resets are needed for a sender that gave way to the first to meet the second. Two fences show every
order of one signal reaching both, one passing the other, and two failed ones straddling the wrap.
The two draw queue runs share their actions: `drawqueue` has the concurrency (two threads, no
liveness), `drawqueue_live` the kinds of objects, the client's timestamps and the refinement. Two nodes meet at one address when an answer is
lost and the host hands the address out again; two structures are a process that reopens
the device while its first structure is being released.

Deadlock checking is off everywhere: a context that is freed, a client that
submits no more and an object that is gone are proper ends.

Each module's type invariant is a conjunct of its main invariant (`RingConsistent`, `NoUseAfterFree`,
`KrefExact`, `LastForwardsAndFrees`, `PoolExclusive`, `NodePlaced`, `RingHoldsMessages`); that of `HgslEvents`
is proved (`TypeCorrect`).

### Fairness

`HgslEvents`: weak fairness of the workers and of threads inside an ioctl; the kernel
schedules both. Nothing forces the GPU to retire or a client to act.
`HgslDrawQueue`: strong fairness of threads and of the kthread, since they
compete for a queued spinlock and an rt_mutex that hand over to waiters; weak fairness of the GPU,
which executes what it was given; a destroy that began goes on. The expiry of sync
points is not assumed but is a premise of `QueueDrains`; `DestroyTerminates`
does without it. `HgslSyncObj`, `HgslTimelineObj`, `HgslIsync`: calls, callbacks and works that
have begun go on; a kicked dispatcher looks at its queue. `HgslHyp`: threads inside a call and the closing
thread run, and the back end answers what it received (the driver slices long waits for
timestamps so that it can). Clients need not retry. `HgslContext`: threads inside an ioctl and the
two workers run. Nothing forces timestamps to retire or an event or a draw object to put its reference: `HgslEvents` (`Stranded`) and
`HgslDrawQueue` (`Sleeping`) show that the code does not guarantee it, so `DestroyEnds` excepts contexts that have one.
`HgslHsync`: ioctls, the retire worker, the events kthread and a destroy that began run
on; every queued callback gets its turn (strong fairness, since callbacks of several fences compete for the kthread). Nothing forces a
retirement, so `FenceSignals` starts from a retired timestamp or a destroyed context.
`HgslDoorbell`: senders run on and a mutex is handed to its waiters (strong fairness); every loop of the code is
bounded by a count of sleeps, so a sender that gets neither room nor the end of a reset gives up. The host goes on with
a reset the guest allows. The firmware need not read anything: `ResetGranted` holds without it.
`HgslMem`: the release worker runs, and the cleanup it tries again and again does not time out for ever (strong
fairness of `CleanupGo`): the GPU finishes the work of a dead process.

### What the run that fails shows

`drawqueue_timeout`: the result of `wait_event_interruptible_timeout` is read the wrong way
round (`hgsl_dispatch.c:643`). After a time-out the batch is queued without room, against two comments of the
file (`hgsl_dispatch.c:366`, `hgsl_dispatch.c:624`), and the object the dispatcher has popped may find no slot to go back to; after a
proper wake-up the submission fails. With `Timeouts = TRUE` the ring overflows and
`RingConsistent`, `RefinesInOrder`, `QueueDrains` and `DestroyTerminates` fail too; the passing runs therefore have `Timeouts = FALSE`.

The models also show, without a run of their own (where a property excepts the case, it is named):

* *Events.* An event can be linked behind the only flush of its group (`hgsl_drawobj.c:258`); its reference is never
  put and the busy wait of `hgsl_ctxt_destroy` (`hgsl.c:2243`) does not end (`Stranded` in `DestroyTerminates` and in
  `FenceSignals`), although the comment at `hgsl.c:2237` says that all pending events are processed or cancelled. An event for the
  last queued timestamp itself is refused although the comment of `hgsl_add_event` allows it.
* *Draw queue.* `in_destroy` is not read again after the sleep, so objects may enter the ring after detach
  has emptied it. A marker without the marker flag never expires by itself. The dispatch work may run when the
  context has no references any more (before it is freed).
* *Sync objects and timelines.* `syncobj_destroy` never schedules the context although its comment
  says so. A forward can meet a fence without references on the list. A fence is checked outside the lock of the list and linked under it
  (`hgsl_sync.c:748`), and the timeline is not looked at again: a forward in between passes the fence without finding it, which the comment above the check
  (`hgsl_sync.c:742`) excludes. For the fences of `hgsl_timelines_to_fence_array` this is harmless: nobody has them yet, and whoever waits later finds the timeline past
  them. A fence of `hgsl_isync_fence_create` has an open descriptor by then (`hgsl_sync.c:468`), and a user who waits for it already is not woken by the forward
  it waits for (`missed` in `NoLostSignal`), only by a later one or by the destruction of the timeline.
* *Timeline objects.* When `hgsl_add_event` refuses the event, `hgsl_drawobj_add_timeline` frees the array and sets it to NULL (`hgsl_drawobj.c:599`) but leaves `count`, set at
  `hgsl_drawobj.c:566`; `hgsl_drawobj_destroy` then puts the last `sig_refcount`, and `_drawobj_timelineobj_retire` walks `count` entries of a NULL array, although the comment
  (`hgsl_drawobj.c:585`) says that nothing is signalled any more (`fault` in `LastForwardsAndFrees`). The timestamp an object waits for is read before the object is queued
  (`hgsl_drawobj.c:518`); a command queued in between by another thread is ahead of the object and not waited for, against the comment at `hgsl_drawobj.c:487`.
* *Hardware timelines.* A fence whose timestamp has been passed when it is created signals at once and is not
  linked, so its first reference is never put. When the event cannot be added, the fence stays on the list until the
  context goes and its `sync_file` has no owner. `hgsl_hsync_timeline_fini` compares timestamps as plain numbers and leaves fences that straddle the
  wrap unsignalled (`WrapLeft` in `NoFenceLeft`). `last_ts` moves only with fences: a context that runs for 2^31 timestamps without one
  gets a fence that signals at once (excluded by `InWindow`).
* *Doorbell.* After a command that is no batch, the context queue forgets the timestamp of its indirect buffer whether it has retired or not
  (`hgsl.c:1420`; the comment above it says otherwise), and so does a wait that ends because the context is destroyed (`forgotten` in `BatchKept`). `dbq_wait_free_ibdesc`
  compares the timestamp of the present owner with the context of the owner it found first (`hgsl.c:2073`), and a destroyer that gives up frees a
  buffer in use (`misfreed`). A sender that has given way to one reset sets busy only after it has read the request, and can write during a second one (`gave` in `ResetQuiet`).
  A context that dies owning the descriptor buffer makes every later batch fail. A batch whose send failed has left its own timestamp in the buffer; when it is sent again
  it waits for that timestamp, which cannot retire, and fails until a later command moves past it. The owner of the buffer is looked up on the first device
  (`GSL_HANDLE_DEV0`) whatever device the queue belongs to.
* *Calls.* `hgsl_hyp_deinit_ipcq` keeps its channel when it fails. The lookup of a parked
  channel tests `wait_retry` and not `busy`, so a client that retries one call from two threads
  shares a channel (`shared` in `PoolExclusive` and `AtMostOnce`), whose request may then be sent twice; and a call that is given the id of another one reads that one's
  reply (`strays` in `AtMostOnce`). A channel whose socket broke goes back to the free list, and every later call that
  draws it fails.
* *Contexts.* A marker that is retired from the CPU (`hgsl_dispatch.c:132`) processes events but wakes nobody in `hgsl_wait_timestamp`: the sleeper stays until the next interrupt, the
  destruction or its time-out (the exception of `WaiterIsWoken`). An event or a draw object that keeps its reference keeps the destroyer spinning (the exception of `DestroyEnds`). The branches for `is_killed`
  contexts (`hgsl.c:1395`, `hgsl.c:1542`) cannot run, since nothing sets the flag. When no channel can be had, `hgsl_ctxt_destroy` frees the context without
  telling the host. The `-EBUSY` of a creation whose id is in the table cannot happen
  (`TableClean`).
* *Memory.* A node whose unmap fails is put back, and lost if its address was taken meanwhile; the
  ioctl reports success either way. Undoing an allocation ignores a failed unmap. A cleanup that fails with
  anything but a time-out is not tried again, and its structure is lost.

## 4. Proofs

`HgslEventsProof` proves, for every finite set of events, every
`Half >= 2` and every timestamp mode:

| theorem | statement |
|---|---|
| `Inductive` | `Spec => []IInv` |
| `TypeCorrect` | `Spec => []TypeOK` |
| `NoWakeupLost` | `Spec => []NoLostEvent` |
| `RefcountExact` | `Spec => []KrefExact` |
| `FreeIsSafe` | `Spec => []NoUseAfterFree` |
| `CallbackTruthful` | `Spec => ResultTruthful` |

The assumptions are those of the modules (`Half >= 2`, a known `TsMode`, `Events` finite, since the
reference count counts them). `KrefExact` is a cardinality equation; the proof
turns each action into adding or removing one element of the two finite sets it
counts. `NoLostEvent` alone is not inductive: `IInv` adds that `processed` never
runs ahead of the retired timestamp in the sense of the wrap-around order, and what each
stage of destruction implies for the table, the interrupt work and the events. `NoUseAfterFree`
then follows from `KrefExact` with `kref = 0`.

`HgslIsyncProof` proves, for every finite set of fences and of calls in progress and every `Half >= 2`:

| theorem | statement |
|---|---|
| `TimelineCounted` | `Spec => []KrefExact` |
| `SignalKept` | `Spec => []NoLostSignal` |

`KrefExact` counts the timeline's references only by who is where; that a call which takes a fence off the list
finds it alive, and that a fence's last put happens once, needs the exact count of every fence too (`RefsI`) and
what each call holds where it is (`CallsI`, `PlaceI`). `NoLostSignal` speaks of fences that somebody waits for;
it is inductive only with the same claim for fences nobody waits for yet (`Pending`), since enabling a waiter does
not look at the list. Users come in while a fence of `hgsl_isync_fence_create` is still being made, so `RefsI` counts the reference of the call that creates it, and the statement is
not that every linked fence is ahead of the timeline, which the code does not guarantee: `FenceLink` records whether a waiter was there and the timeline had passed (`missed`),
and the theorem says that no other fence is ever behind the timeline with a waiter.

`HgslContextProof` proves, for every finite set of client threads, every set of processes and any number of ids
and context structures:

| theorem | statement |
|---|---|
| `ContextSafe` | `Spec => []NoUseAfterFree` |
| `ContextTableClean` | `Spec => []TableClean` |

The assumptions are that the set of clients is finite (references count them) and that `"none"`, the owner of a structure that was
never created, is not a process. The argument is one of ownership: `IInv` says who owns a context structure at each moment (the table,
the thread that creates it, the one that destroys it) and that there is exactly one owner (`OwnI`); that the id of a context in the table, or of one being
created or destroyed, is the back end's and has one claimant (`IdsI`); and what the release worker has behind it in its walk (`ReleaseI`), which is why a context
created during the walk by a thread of a dying process cannot be missed: no thread of that process is inside an ioctl any more.

`HgslHsyncProof` proves, for every finite set of fences, every `Half >= 2`, every set of start timestamps and every
timestamp mode:

| theorem | statement |
|---|---|
| `HsyncCounted` | `Spec => []KrefExact` |
| `HsyncListDrained` | `Spec => []NoFenceLeft` |
| `HsyncSignalTruthful` | `Spec => SignalTruthful` |

`"no callback"` must not be a fence, and the bound `InWindow` is part of the specification. What a fence has at each step of
its ioctl is `Sound`, a predicate on one record; each step is shown to preserve it once for the record and then for all
fences (`Moves`, `Quiet`). Signals are truthful because the timestamps in play lie in one window (`WindowI`), inside which `hgsl_ts32_ge` is transitive
(`WindowOrder`), and because `last_ts` and the timestamps of queued callbacks are behind the retired one while the context is in the table. That `hgsl_hsync_timeline_fini` leaves
nothing on the list but fences that straddle the wrap rests on no two fences in flight being half a word apart.

`HgslDrawQueueProof` proves, for every ring of three slots or more, every set of threads and of batches, every timestamp
mode and every `Half >= 2`, under the hypothesis `~Timeouts`:

| theorem | statement |
|---|---|
| `DrawQueueRing` | `~Timeouts => (Spec => []RingConsistent)` |
| `DrawQueueKicked` | `~Timeouts => (Spec => []NoLostKick)` |
| `DrawQueueWhole` | `~Timeouts => (Spec => []NoPartialQueue)` |

The hypothesis is what the code needs: with timeouts `drawqueue_timeout` refutes the room to push back. `DrawQueueAssumption`
says that only the last object of a batch has a timestamp (`hgsl_ioctl_gpu_command` and `hgsl_ioctl_gpu_aux_command` put
the sync and timeline objects first) and that the names of the lock's other holders are not threads. `IInv` ties what a thread found under
`drawq_lock` to what is still true at each object of its batch: room for the rest of the batch beside the object the
dispatcher has popped (`RingI`), and a client timestamp that is still fresh (`Fresh` in `ThreadI`), so that
`hgsl_db_next_timestamp` cannot fail in the middle. `RingI` needs `Used <= queued` after detach, which empties the ring and
leaves the count. `NoLostKick` is not inductive: it counts a dispatcher that is about to go idle as serving. `KickI` says in addition
that a dispatcher that has stopped scanning comes back (`again`) or has seen the ring empty, and that it counts only until then. The ring's
arithmetic is done once, on distances without the modulus (`Dist`): pushing, popping and pushing back add or remove exactly one
slot of `Occupied` (`RingPush`, `RingPop`, `RingRequeue`). `KrefExact` of the draw queue stays with TLC: `sent` is a set of timestamps, and
a caller that chooses its timestamps itself may send one twice, which only the instances of the run exclude.

The same module proves the refinement, for the same parameters and every set of start timestamps, when `Half >= 3` and the driver assigns or checks the
timestamps (`TsMode # "verbatim"`), with `InOrder` the instance of `HgslInOrder` in which `Pipeline` stands for the pending timestamps:

| theorem | statement under `~Timeouts`, `TsMode # "verbatim"`, `Half >= 3` |
|---|---|
| `DrawQueueInOrder` | `Spec => RefinesInOrder` |
| `LinearTime` | `Spec => []InOrder!TimeLinear` |
| `ComparisonRight` | `Spec => []InOrder!PendingNotRetired` |

Nothing orders the timestamps of a context without `USER_GENERATED_TS`, so the mode `"verbatim"` is excluded. `Half >= 3` came out of the proof: from `~0 - 1` the driver goes over
`~0` and 0 to 1 (`hgsl_db_next_timestamp`), three steps at once, and a window of two values does not hold them; the code's window is 2^31.

The argument has four parts. First, what the recursive function behind `Pipeline` computes (`TimedUpTo`), by the least counterexample (`NoLeast`): the timestamps of a sequence with one
object more behind (`TimedAppend`) or in front (`TimedCons`), and that attributes other than kind and timestamps do not matter (`Alike`, `TimedSame`). Second, the ring as
a sequence: a push appends, a pop takes the first, a push-back puts it in front again (`SeqPush`, `SeqPop`, `SeqRequeue`). With these, popping, sending and pushing back leave `Pipeline` as it is, a retirement by the
GPU takes its head (`FrontOf`), and detach cuts off its end. Third, markers: that a marker retired by the dispatcher is the oldest timestamp pending needs the invariant `MarkI`,
"when something older than the marker is pending, its `marker_timestamp` is no older than that and still ahead of the retired timestamp". So a retired timestamp that has passed
`marker_timestamp` leaves nothing at the GPU before the marker (`ExpiredFirst`); `MarkI` survives a retirement because all distances shrink by the same amount (`MarkRetire`). On the
fast path, `hgsl_ts32_ge(eop, queued_ts)` together with the window means that nothing is pending anywhere (`IdleEmpty`). Fourth, the order itself: the
inductive invariant is `OrderI`, `TypeOK /\ TimeLinear` of `HgslInOrder`: pending timestamps are measured by their distance from the retired
one (`Ahead`), ascend, and end at the last one given out. The step that is not obvious is a
retirement, which moves the origin of that measure: a lemma shows that timestamps at or after the new origin keep their order and all
distances shrink by the same amount, wrap or not. `ComparisonRight` then follows by arithmetic:
a distance below `Half` is exactly what `hgsl_ts32_ge` tests. The invariant needs the refinement and the refinement the invariant, so one induction over
`Spec` carries `IInv`, `MarkI` and `OrderI` (`NextGood`, `OrderStep`).

`HgslSyncObjProof` proves, for every number and every mix of types of the sync points:

| theorem | statement |
|---|---|
| `SyncObjSafe` | `Spec => []NoUseAfterFree` |
| `SyncObjKicks` | `Spec => []LastExpiryKicks` |

The exact count alone is not inductive: whether the end of a callback puts the object and its source depends on who
cleared the pending bit. `IInv` therefore says for each point who owns it (`BitI`: nobody, the submitter, the bit, the callback
that won it, the destroyer that did) and what it then holds on its context or fence (`SrcI`), and that the canary timer is over once the
destroyer is past `del_timer_sync` (`OwnI`). A callback that lost the bit of a fence can only be running while the destroyer stands at
that point, because `dma_fence_remove_callback` waits for it; this is where a freed object would be touched. Each action is then one point that
changes (`OnePoint`) and one reference that is added or dropped (`CountMore`, `CountLess`). `LastExpiryKicks` is inductive as it stands.

`HgslMemProof` proves, for every finite set of threads and any number of process structures, nodes, addresses, open files,
descriptors and failures:

| theorem | statement |
|---|---|
| `NodePlacedAlways` | `Spec => []NodePlaced` |
| `PagesLiveAlways` | `Spec => []PagesLive` |
| `ReleaseCleanAlways` | `Spec => []ReleaseClean` |

`MemAssumption` asks for a finite set of threads (references count them) and that a file can be opened at all (`MaxOpens # 0`).
Each of the three properties needs the other two, so there is one `IInv`. `PlaceI` says where a node is whatever happened to it: in the
tree of its process and kind, in one pair of hands, or given up. `ThreadI` ties the node in a thread's hands to the structure whose file the thread
uses, which is what keeps the release worker away from it: `hgsl_release` lists a structure only when no ioctl runs on it
(`PrivI`). `RefI` is the exact count, and with it the facts a later put relies on: a scatter list only exists while the node owns its
buffer, and a leaked node still owns it. `HostI` is stronger than the second half of `PagesLive`: a mapping the host has and the driver did not
ignore is at the address its node has, so a successful unmap removes the only one. An action changes one node (`NodeStep`, `CountStep`), moves one thread
(`CallStep`), or changes the structures only (`PrivStep`); each of these three lemmas is proved once.

`HgslDoorbellProof` proves, for every set of contexts, every ring size, alignment, limit on the size of a message and set of message sizes, any number of resets and every `Half >= 2`:

| theorem | statement |
|---|---|
| `RingHoldsAlways` | `Spec => []RingHoldsMessages` |
| `ResetQuietAlways` | `Spec => []ResetQuiet` |
| `BatchKeptAlways` | `Spec => []BatchKept` |

`DoorbellAssumption` asks that the ring is a multiple of the alignment, that a message without descriptors fits, that contexts do not start at the timestamp
that the driver never gives out (`~0`), and that the timestamps of a context advance by less than half a word in all (`MaxIssues`), so that distances from the
start order them. The offsets of messages in a ring are a recursive function; what it computes is proved by the least counterexample (`NoLeast`): a set of
naturals without 0 that has the predecessor of each of its elements is empty. From that follow what one more message behind and one less in front do to the offsets
(`OffsetsAppend`, `OffsetsTail`) and, with places measured by their distance from an index (`Slot`), the three steps of a ring: `RingCopy`, `RingPublish`, `RingRead`.
`RingHoldsMessages` is inductive only together with what a sender knows when it writes: it holds `dbq->lock` or owns the ring, the room it found is still there since only it
moves the write index (`Fits`), and its copy is still whole since the firmware clears only what it reads (`Written`). `ResetQuiet` needs that a sender with room that never gave way is busy.
`BatchKept` rests on order: the commands of a context are retired, running, pending and about to be sent in the order of their distance from the start (`OrderI`), so
`hgsl_ts32_ge` does not take a command in flight for a retired one (`NotRetired`), and a buffer is claimed or given up either after a true answer
about its owner or in one of the ways that `misfreed` and `forgotten` record. `Kept` says that buffer and owner are known together from the claim on, before the message is sent.
A step that moves one thread keeps what the others know (`OtherThread`, `ThreadStep`).

Every inductive invariant was first checked by TLC as an invariant (two fences and two calls; three clients, two ids and
two structures; two fences and six timestamps; two threads, a ring of five and every kind of batch;
a sync point of each type; two threads, two structures, two nodes and two addresses; the instance of the `doorbell` run).

Only model-checked: all liveness (`RetiredEventDelivered`, `DestroyTerminates`, `QueueDrains`, `DestroyedIsFreed`, `DestroySignals`,
`FenceSignals`, `QueuedForwards`, `ResetGranted`, `CloseTerminates`, `WaiterIsWoken`, `DestroyEnds`, `ReleaseEnds`: fairness and ENABLED are out of the prover's reach), and the safety
invariants `KrefExact` of the draw queue and those of timeline objects and the calls (`HgslHyp` takes channels out of its lists with `SelectSeq`, which takes an
operator that the provers cannot instantiate).

## 5. What is not modelled, and the plan

Left to do:

1. Proofs: `PoolExclusive` of the calls.
2. The driver's own mappings (`use_fv`, `hgsl_mmu.c`, `hgsl_iommu.c`): the address allocator is an rb-tree of ranges under one lock; the
   parts that interleave (a page table shared by the contexts of a process) are compiled out by default.

Left out for good: interrupt registers (`hgsl_gmugos.c`, `hgsl_tcsr.c`: reads and writes whose order is the
hardware's; what an interrupt leads to is in `HgslEvents` and `HgslContext`), printing (debugfs, sysfs, trace), the layout of ioctl
structures and of shared memory, weak memory ordering (the code's barriers are taken to be sufficient), page-table programming
(hardware), and copying user lists into kernel lists (sequential, one owner).
