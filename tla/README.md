# Verification of agxopen-dev

TLA+ models of the parts of this repository that run concurrently with the GPU
coprocessor, the TLC configurations that check them on small instances, and
TLAPS proofs of their safety properties for every value of the constants.
Paths below are relative to `src/agxopendev/` unless they start with `README`.

## The system

The module boots the coprocessor of the AGX GPU and talks RTKit to it over a
hardware mailbox. The kernel side is called AP, the coprocessor IOP or firmware.

| Part | State | Operations |
| --- | --- | --- |
| **RTKit core** `src/rtkit.c` | announced endpoints, granted buffers, acknowledged power states, version, "done" flags, the first error | one handler per received message; requests for power states and endpoints |
| **Coprocessor driver** `src/rtbuddy.c` | run bit, interrupt, buffer slots and their DMA memory, `firmware_up`, `doorbell_up`, the power last reported | boot, threaded interrupt, waits of 500 ms, GPU message senders, shutdown, removal |
| **Platform driver** `src/probe.c` | the power domain (runtime PM) | probe and teardown |
| **Mailbox** `src/mailbox.c` | two hardware queues, a mutex around sends | send with a limit of 100 ms, receive, outbox enable |
| **Handoff lock** `src/gfxhandoff.c` | a page shared with the firmware: two flag bytes and a turn word; `locked` | lock with a spin limit, unlock |
| **Handoff requests** `src/gfxhandoff.c` | magic numbers, one flush slot per context | wait for the firmware, cache flush and unmap requests |
| **UAT page tables** `src/uat.c` | a three-level table tree per context and half of the address space | map, look up, unmap, free a context |
| **Display broker** `src/display.c` | a list of listeners | register, unregister, notify |
| Power states, GPU messages, SPTM/TXM headers | none | constants and bit fields |
| debugfs, trace tools, monitor | none that matters | printing |

How they meet: `agx_probe` turns the power domain on and boots. The probing
thread sends requests through the mailbox and sleeps in `agx_rtbuddy_wait`; the
interrupt thread takes messages out of the mailbox, runs the RTKit handlers,
which send replies through the same mailbox and ask the driver for DMA buffers,
and wakes the sleeper. Callers of the GPU senders use the mailbox too. The
coprocessor is a processor of its own: it can be slow, silent, talkative or
crashed, and it writes into the buffers it was given until its CPU is stopped.
The handoff page is reached by both processors without any lock but its own.

What is hard here:

* three kernel threads and a coprocessor interleave; the flags a wait looks at
  are written by another thread while the sleeper falls asleep;
* the coprocessor speaks as soon as its CPU runs, before the AP has said INIT;
* boot fails at any of nine stages and is undone by the code that also removes a
  driver that is up, with a message still queued or a handler still running;
* every wait and every send has a time limit, and the first error sticks;
* DMA memory must outlive the coprocessor, and every allocation must be found
  again;
* the GPU walks the page tables while they are built, and each of the nine
  allocations of a walk may fail;
* the handoff lock relies on barriers between weakly ordered stores, and an
  attempt that times out must not leave traces;
* a request slot of the handoff page is filled store by store under the eyes of
  the firmware, whose answer may come after the caller has given up;
* a mailbox message is two register writes, from any of three threads;
* display listeners come and go while they are being told.

`PROJECT.json` lists these hazards line by line with the properties for them.

## Modules

| Module | Models | Used by |
| --- | --- | --- |
| `HandoffLock` | the two halves of the lock | `HandoffFlush`, `MCHandoffLock`, `HandoffLockProofs` |
| `HandoffFlush` | `HandoffLock` with `agx_handoff_wait_firmware` and the requests | `MCHandoffFlush`, `HandoffFlushProofs` |
| `MailboxQueues` | what `src/mailbox.c` promises: two bounded queues | `Mailbox` |
| `Mailbox` | `src/mailbox.c`, one step per register access | `MCMailbox`, `MailboxProofs` |
| `RTKit` | `src/rtkit.c`: messages, state, one action per handler | `RTBuddy` |
| `RTBuddy` | `src/rtbuddy.c`, `agx_probe`/`agx_teardown`, the mailbox, an unconstrained coprocessor | `MCRTBuddy`, `RTBuddyFirmware`, `RTBuddyDisplay`, `RTBuddyTypes` |
| `RTBuddyFirmware` | `RTBuddy` with the coprocessor of `tests/fakefw.hpp` | `MCRTBuddyFirmware`, `RTBuddyFirmwareProofs` |
| `RTBuddyDisplay` | `RTBuddy` with `src/display.c` and its listeners | `MCRTBuddyDisplay`, `RTBuddyDisplayProofs` |
| `UatMap` | what `src/uat.c` promises: a map from pages to pages per context | `Uat` |
| `Uat` | `src/uat.c`, one step per store the GPU can see and per allocation | `MCUat`, `UatProofs` |
| `RTBuddyTypes`, `RTBuddyProofs` | typing lemmas; the invariant and the theorems | |
| `HandoffLockProofs`, `HandoffFlushProofs`, `MailboxProofs`, `UatProofs`, `RTBuddyDisplayProofs`, `RTBuddyFirmwareProofs` | their invariants and theorems | |

Operators whose comment starts with "Variant for the checks" are deliberately
wrong forms of the definition below them, used to make sure that a property
notices the mistake. No specification uses them.

### HandoffLock

One step per access to the page and per barrier, so that every interleaving of
the two sides is there. The AP's stores wait in `wbuf`, one pending store per
location, and reach the page at any moment and in any order; `ApBarrier` waits
until the buffer is empty, which is what `agx_handoff_barrier` is for. Loads see
the AP's own pending stores. `data` stands for what the caller writes under the
lock. The firmware's half is `MirroredFirmwareLock` of `tests/handoff_test.cpp`,
whose accesses are sequentially consistent, as they are there. `spins` counts as
the code does, in both loops, and only if `max_spins` is not 0. The wrap of the
32-bit counter at `max_spins = 0xffffffff` is not modelled.

### HandoffFlush

`agx_handoff_wait_firmware` (`wf`) takes and releases the lock through the steps of
`HandoffLock`: it writes the AP's magic, asks for the lock, waits with the lock
held for the firmware's magic, releases the lock either way, and then clears the
slots, three stores each (`clr`), before it sets `initialized`. The page may hold
anything at first (`Leftovers`) except a request, because nobody has made one: a
page on which an earlier kernel left a busy slot is not covered, and a firmware
would serve that slot until the loop gets there.

A slot has a state, an address and a size. `rq` is where its caller is: `Prepare`
tests the state, `PrepareStore` makes one of the three stores, `WaitCacheflush`
polls, `Complete` makes a done slot idle. Refused calls (a slot in the wrong state,
a context without a slot) change nothing and are not steps. The firmware is the one
of the threads in `tests/handoff_test.cpp`: it finds a slot busy, takes what the slot
says and reports it done. `asked` and `served` are history variables.

The AP's stores to a slot, those of the clearing loop included, are pending
(`pend`, `stored`) until `SlotDrain` brings them to the page, one field at a time, and
the AP's own loads see them (`SlotLoad`). The code calls no barrier for them, so
what order they arrive in is up to the `write64` hook. Both kinds are modelled, and
`Init` chooses (`ordered`): a hook that waits until the slot's earlier stores are
visible, like the sequentially consistent one of `tests/handoff_test.cpp`, and a
plain store, after which they arrive in any order. The properties say what holds
with any hook, and what only with an ordered one.

What is assumed:

* one caller per slot, since a slot belongs to a context: the test and the stores
  of a request take no lock, so two callers of one slot would mix their requests;
* the firmware answers the magic number when it is not in the middle of a lock
  call. The store of the AP's magic number is visible at once: a delay could only
  make this answer later, and it may come at any time anyway;
* a wait that counts its polls may end after any number of them, because the
  firmware's pace is arbitrary. The counting itself is checked in the lock.

`AnyOrder` says whether the functions may be called in any order: requests before
`initialized` is set, and `agx_handoff_wait_firmware` once more after it has succeeded.
Nothing in the code prevents either (see Findings). Without it the call is repeated
until it succeeds, and requests come afterwards. `LocksFirst` says whether the
firmware may use the lock before it has written its magic number.

### Mailbox and MailboxQueues

A send is the mutex, the poll of the full bit, the writes of SEND0 and SEND1 and
the release; a receive the poll of the empty bit and the reads of RECV0 and RECV1.
The registers behave as in `tests/driver_harness.cpp`: the second write queues the
message, or loses it if there is no room, and the second read removes it. A poll
ends when it finds room or with a last look at a full queue. Packing keeps the low
byte of the endpoint. `MailboxQueues` is the mailbox of `RTBuddy`: a send appends a
whole message at one moment or fails because the queue is full, a receive takes the
oldest. `ImplementsQueues` is the reason why a send may be one step in `RTBuddy`.

### RTKit and RTBuddy

`pc` is the thread that probes and later removes the driver, `ipc` the interrupt
thread, `gpc` a caller of a GPU sender. A step of a thread is a stretch of code
with at most one access that another thread or the coprocessor can notice:

* `agx_rtkit_set_iop_power` and `agx_rtkit_set_ap_power` clear the flag in one
  step and send in the next, because the acknowledgement of an earlier request
  may come between them. In `BootRun` the run bit and the flag go together: no
  interrupt is registered yet, so nobody can tell.
* A handler changes the state when its message is taken (`IrqRecv`,
  `IrqGetBuffer`), sends its messages one by one in the code's order (`IrqSend`,
  `IsNext`) and stores its flag last (`IrqDone`). A send that fails ends it.
* A send is one step: the mutex of `agx_mailbox_send` keeps the senders apart, as
  `Mailbox` shows. It appends, or fails if the inbox is full and the coprocessor is late.
* `agx_rtbuddy_wait` tests, sleeps, is woken or expires, and reads the error
  once more on the way out (`WaitTest`, `WaitExpire`, `WaitReturn`). An expired
  wait tests its condition a last time, as `wait_event_timeout` does.
* `devm_free_irq` is two steps: no new handler, then the running one is over.
* The two loads of `agx_rtkit_running` are one step.

Data are cut down to what decides something. A message is a record of endpoint,
type and the fields that are tested; a buffer's address is not modelled, its slot
and its allocation are. The counters shown in debugfs are left out. `sent` is a
history variable: everything ever put on the wire.

In `RTBuddy` the coprocessor is unconstrained: while its CPU runs it sends any
message of `FwMsgs` at any time, as often as it likes, and reads its inbox or
not. So what holds there does not depend on the firmware. `RTBuddyFirmware`
replaces it by the one the repository's own tests use, for the properties that
need a partner. That one queues a buffer request right after it was told to start
the endpoint; here each endpoint asks at a moment of its own (`FwAsk`), so the
request may come before, during or after the rest of boot.

### RTBuddyDisplay

The driver's steps as they are; when one of them changes `power`, which is
`agx_rtbuddy_set_power`, the thread goes on only after `agx_display_notify` has taken
the broker's lock, called every listener in the list and released the lock. All
other threads run meanwhile. Register and unregister are one step each: they hold
the lock throughout, and so wait while a notification does. `heard` is what a
listener knows: the announced power when it registered, then the last call's
argument. A listener that calls the broker from its callback would deadlock on the
spinlock and is not allowed, and listeners leave before the driver is unbound: the
broker is freed with it.

### Uat and UatMap

`Uat` keeps the hardware's tables (`l0`, `table`) and the driver's tree of nodes
(`l1`, `children`) apart, as the code does; a node goes by the name of its table.
`agx_uat_map_page` goes down level by level (`WalkDown`); where a node is missing
it makes one with three allocations, each of which may fail and then gives back
the ones before it (`NewNode`, `NewTable`, `NewChildren`), and links it (`Link`).
`alloc_table` returns any free page, zeroed, and `alloc_bookkeeping` zeroed
memory: the code relies on both. Table pages are taken to be aligned to the page
size and not at address 0, since an entry drops the offset and a root of 0 is not
valid. Lookup and unmap only read the tree before their one store, so they are
one step. Addresses are taken apart by the code's shifts and masks, written as
division and remainder, over a smaller geometry.

`UatMap` is the reference: one map per context, and per call a moment at which
it changes the map and a return value that tells the truth about it. The
refinement mapping `GpuMap` is the GPU's walk (`Translate`) from `l0`, so `ImplementsMap`
says of every state what the GPU would find at every page. In particular mapping
one page, building tables and failing halfway leave all other pages as they are,
and the driver's lookup, which walks its own tree, agrees with the GPU. Freeing a
context is the exception in one respect: the tables are freed before the root is
cleared, so for that moment the GPU could walk freed tables. `WalkLive` therefore
speaks of the contexts that are not being freed, and a caller has to take the
context off the GPU first.

## Runs

| Run | Module, configuration | Properties |
| --- | --- | --- |
| `handoff_bounded` | `MCHandoffFlush`, `HandoffBounded.cfg` | `TypeOK`, `MutualExclusion`, `FirmwareSeesApStores`, `IdleLeavesNoFlag`, `SlotsCleared`, `TakesRequest`, `FirmwareUndisturbed`, `WaitMeansFlushed` |
| `handoff_live` | `MCHandoffFlush`, `HandoffLive.cfg` | `ApLockSucceeds`, `FwLockSucceeds`, `WaitFirmwareSucceeds` |
| `handoff_early` | `MCHandoffFlush`, `HandoffEarly.cfg` | `WaitMeansFlushed`, violated |
| `mailbox` | `MCMailbox`, `Mailbox.cfg` | `NoOverrun`, `ImplementsQueues`, `SendReturns` |
| `uat` | `MCUat`, `Uat.cfg` | `TypeOK`, `WalkLive`, `NothingLost`, `ImplementsMap` |
| `handoff_timeout` | `MCHandoffLock`, `HandoffLockTimeout.cfg` | `FwLockSucceedsAlone`, violated |
| `rtbuddy_power` | `MCRTBuddyDisplay`, `RTBuddyPower.cfg` | `InitFirst`, `AppStartOrder`, `GpuAfterStart`, `TornDownClean`, `PowerReports`, `UnregisteredQuiet`, `ListenersFollow`, `OnWhilePowered` |
| `rtbuddy_buffers` | `MCRTBuddy`, `RTBuddyBuffers.cfg` | `TypeOK`, `GrantedBuffersLive`, `NoDmaLeak` |
| `rtbuddy_hello` | `MCRTBuddy`, `RTBuddyHello.cfg` | `CrashAfterGrant`, `VersionAgreed` |
| `rtbuddy_flood` | `MCRTBuddy`, `RTBuddyFlood.cfg` | `BootEnds`, `RemoveEnds` |
| `rtbuddy_coop` | `MCRTBuddyFirmware`, `RTBuddyCoop.cfg` | `EpmapStartsAll`, `QuiescedBeforeSleep`, `AsleepBeforeStop`, `BootSucceeds`, `BuffersGranted` |
| `rtbuddy_sticky_error` | `MCRTBuddyFirmware`, `RTBuddyStickyError.cfg` | `QuiescedBeforeSleep`, violated |

* **handoff_bounded**: the lock, the exchange of magic numbers and the requests,
  with limits that run out everywhere. The kernel and the firmware never meet inside;
  the firmware sees what the AP stored under the lock; no finished call, timed out or
  not, leaves the flag up. After initialization an unused slot is empty; the firmware
  works on accepted flushes only; a request it works on is left alone after its caller
  has given up waiting; a wait that returns 0 means that it has served the flush. All
  this with stores that arrive in any order. With an ordered hook the firmware also
  works on the whole request and has flushed exactly its range.
* **handoff_live**: without a limit (`max_spins = 0`) neither side starves, and
  `agx_handoff_wait_firmware` succeeds, provided the firmware answers the magic
  number before it uses the lock. One that locks first would wait for the AP, which
  holds the lock and waits for it.
* **mailbox**: three senders and a receiver against a coprocessor of any pace. The
  registers implement the two queues, no send overruns the inbox, and every send
  returns even if nobody reads the inbox.
* **uat**: the tables implement the map, whatever allocation fails; between calls
  everything allocated is in the tree; the GPU reaches no table that is not
  allocated and none of another context.
* **rtbuddy_power**: acknowledgements of every state at every moment, late
  waits, full queues, a failing `request_irq`, a GPU caller. INIT is first on the
  wire; the application endpoints are started in order and only if announced; no
  GPU message goes out before both are; removal leaves nothing behind; listeners
  hear ON and OFF only when it is true. Two listeners that register and unregister
  at every moment: none is called after it has left, each follows every change,
  and none believes the GPU on when its power domain is released.
* **rtbuddy_buffers**: buffer requests at every moment, twice, empty, with an
  address of the firmware's choice, with failing allocations. No allocation is
  lost, and none is freed while the coprocessor that knows its address runs.
* **rtbuddy_hello**: version ranges at both ends of what the AP speaks and
  beyond, and the message on the crashlog endpoint that is a request first and a
  crash afterwards.
* **rtbuddy_flood**: boot and removal end, whatever the coprocessor does, with a
  GPU caller that keeps sending.
* **rtbuddy_coop**: with the test firmware and no faults boot succeeds, every
  buffer is granted, and removal waits for each acknowledgement.

### Bounds

* `MaxSpins = 2`, or 3 in the runs of the lock's findings: enough to run out in the
  inner loop, in the outer one, and in one after having counted in the other.
  `MaxSpins = 0` is the unlimited case.
* `FLUSH_SLOTS = 1`: slots share nothing but the loop that clears them, which is
  proved for any number. The three requests are two flushes that differ in base and
  size, so that a mixture is neither, and an unmap whose base does not fit its address
  field (`ADDR_SPAN = 4`). `handoff_live` makes none: requests share nothing with
  the lock but the thread that clears the slots, and that runs.
* `Mailbox.cfg`: three senders, so that two can wait while one is inside; two
  messages that differ in both words, so a mixed one is neither; room for two, so
  that the queue is empty, partly full and full.
* Two listeners, which are symmetric: one can be told while the other registers or
  leaves, before or after it in the list.
* `A2ICap = I2ACap = 1` in `MCRTBuddy`: a queue of one is full after every send,
  so each send meets a full inbox and each handler can block. The messages in
  flight at the same time are one queued, one being handled and those of
  `tosend`, and the order of messages is arbitrary anyway since the coprocessor
  is. In `MCRTBuddyFirmware` the inbox holds 2 and the outbox never fills up
  (8 is more than the firmware has outstanding), for its handler does not wait
  for room, as in `tests/fakefw.hpp`.
* `DrainMax = 2` instead of 64: the interrupt thread returns because of its
  limit and because the outbox is empty, and in the middle of a sequence of
  messages too.
* Each configuration of `MCRTBuddy` has the four to six messages its
  properties are about; together they fire every action. The proofs cover all
  messages, all capacities and all limits.

* `Uat.cfg`: pages of two bytes, tables of two entries, two contexts, and six
  table pages, whose names are symmetric. Besides address 0 four addresses are
  mapped that differ from it in exactly one of the four fields each, so an error
  in any field shows; six tables are enough for two complete walks that share nothing,
  in two contexts or in the two halves of one, and few enough to run out.

The check for deadlock is on everywhere. The only state in which nothing happens
is a driver that is gone (`Unbound`).

### Fairness

* Handoff: each processor keeps executing a call it has begun and leaves its
  critical section (weak fairness of `ApProceed` and `FwProceed`); a store
  becomes visible in the end (weak fairness of every `Drain`). Nobody has to ask
  for the lock.
* Handoff requests (`ReqFairness`): the same, and the firmware answers the magic
  number and serves its slots, a caller goes on with a call it has begun, and a store
  to a slot becomes visible in the end (`SlotDrain`). `ApRuns`
  and the steps of `agx_handoff_wait_firmware` are one thread and share a condition.
* `Mailbox!FairSpec`: a thread with the mutex runs on (weak fairness of
  `SendProceed`), and a kernel mutex reaches every thread that keeps waiting for it
  (strong fairness of `SendLock`). The coprocessor owes nothing.
* `RTBuddy!FairSpec`: the scheduler runs both kernel threads (weak fairness of
  `ProbeStep` and `IrqStep`). `WaitExpire` is strongly fair: `wait_event_timeout`
  goes back to sleep with the time that is left, so a wait woken again and again
  without its condition still expires. The coprocessor owes nothing, and
  `Teardown` and the GPU callers are choices of their users.
* `RTBuddyFirmware!FwFairSpec`: the kernel threads and the coprocessor run. There
  `MayBeSlow` is false: a running coprocessor answers within the limits.

## Findings

* **A timed-out lock attempt can block the firmware** (`src/gfxhandoff.c:44`,
  run `handoff_timeout`). A firmware that finds the AP's flag up and the turn with
  the AP lowers its own flag and waits for the turn. If the AP's attempt then
  times out, the AP lowers its flag but leaves the turn as it is; only
  `agx_handoff_unlock` hands it over. Unless the AP takes the lock once more, the
  firmware waits for ever for a lock that nobody wants. The test promises that
  the firmware side completes every iteration; its limit of 20000000 spins keeps
  it from getting here.
* **A flush requested early is reported done without being done**
  (`src/gfxhandoff.c:90`, run `handoff_early`). `agx_handoff_wait_firmware` clears the
  slots after it has released the lock, and no request function looks at
  `initialized`. A flush prepared before the loop reaches its slot is erased, and
  `agx_handoff_wait_cacheflush`, which returns 0 for any slot that is not busy, reports
  it complete. The test makes its request without the exchange of magic numbers and
  says that the wait completes once the firmware finishes. A second call of
  `agx_handoff_wait_firmware` does the same to requests under way. With requests that
  wait for `initialized` and no second call the property holds (`handoff_bounded`, and
  proved).
* **No barrier between the stores of a request** (`src/gfxhandoff.c:108`, an
  observation, not a run). The repository's README names the hooks for memory
  barriers, and the lock calls them, but `agx_handoff_prepare_cacheflush` does not. With
  a `write64` hook that is a plain store the busy state can arrive before the range,
  and the firmware then flushes an old range or a mixture (`served` is "torn") and
  reports the flush done. This is why `TakesRequest` and `WaitMeansFlushed` speak of the
  whole range only if the hook is ordered: without that condition TLC finds them
  violated. Nothing in the repository says what a hook has to provide, and the only
  ones there are, those of the test, are sequentially consistent.
* **After an error shutdown does not wait** (`src/rtbuddy.c:370`, run
  `rtbuddy_sticky_error`). The first error is kept for ever and makes every later
  wait return at once. If a buffer request is refused for lack of memory when boot
  has passed its last wait, boot succeeds, and the later removal sends SLEEP
  without waiting for the quiesced state, and stops the CPU without waiting
  for SLEEP, unlike the sequence the README describes. The safety properties
  of `RTBuddy` hold nevertheless: the CPU is stopped before its buffers are freed.

## Proofs

All theorems hold for every value of the constants under the named assumptions
of the modules: `MaxSpins` is a natural number; `FwMsgs` is a set of well-formed
messages, possibly infinite; the capacities and `DrainMax` are positive;
`GpuEndpoints` is a set of application endpoints; a mailbox message has an endpoint
that fits its byte; requests are a kind and two natural numbers, and no slot holds
one at first. The theorems on requests also assume `~AnyOrder` in their statement, two theorems on `RTBuddyFirmware`
assume `Reliable`. For `Uat` the counts of the levels and the page size are any
positive numbers, the frames any finite set and the calls any set of calls,
misaligned and out-of-range ones included. There is no other assumption.

**HandoffLockProofs**: `TypeOKHolds`, `MutualExclusionHolds`,
`FirmwareSeesApStoresHolds`, `IdleLeavesNoFlagHolds`. Mutual exclusion is not
inductive: a state with both sides at their test and a flag down satisfies it and
leads out of it. `LockInv` adds that each flag, as its owner sees it, is up
exactly between the owner's raising and lowering it (`FlagsAgree`), and that a
store is pending only between the store and the next barrier (`PendingAgrees`).
Then whoever is inside has its flag up in the page, and the other side's test
cannot succeed. This is where the barriers are needed: without the one after
raising the flag `PendingAgrees` fails, and with it the property (the mutant of
that run). The turn word plays no part in safety.

**HandoffFlushProofs**: `LockRefined` shows that every step is a step of the lock
or leaves its variables alone, so `ReqSpec` implies the lock's specification and
its theorems carry over (`LockKept`). `SlotsClearedHolds`,
`TakesRequestHolds`, `FirmwareUndisturbedHolds` and `WaitMeansFlushedHolds` come
from `ReqInv`, for an ordered hook and for a plain one. Before `initialized` nobody has
used a slot (`Unused`) and, as the AP sees it, the loop has cleared the fields before
`clr` (`ClearedTo`). After it every slot follows its protocol (`SlotOK`): while a
request is being stored the slot is idle for the AP and the fields stored so far are
those of the request; a slot is busy for an accepted flush only; while the page says busy no
store of the state is pending, so neither the AP's calls nor a late store can make
it anything else before the firmware reports; and a flush that
is neither being stored nor busy was served. With an ordered hook at most one store
of a slot is pending (`OneAtATime`), so that the range is on the page before the state
is. The lemmas on memory say what a store and its arrival do: the AP's view of a slot
changes with the store only (`StoreKnown`, `DrainKnown`). Each step touches one slot
(`OthersKept`), so the number of slots does not matter.

**MailboxProofs**: `NoOverrunHolds` and the refinement `ImplementsQueuesHolds`.
`MailboxInv` says that the sender past the lock owns it, that SEND0 holds its data
between the two writes, that the room it found is still there (only the owner
appends), and that the message a receiver has begun to read is still the oldest.
Then the write of SEND1 is `Put` of the whole message, the read of RECV1 is `Receive`,
and all other steps leave the queues and the abstract calls alone.

**RTBuddyProofs**: `InitFirstHolds`, `GrantedBuffersLiveHolds`,
`NoDmaLeakHolds`, `AppStartOrderHolds`, `GpuAfterStartHolds`,
`TornDownCleanHolds`, `CrashAfterGrantHolds`, `VersionAgreedHolds`,
`PowerReportsHolds` and `TypeOKHolds`, all from `DriverInvHolds`. `DriverInv` has
one part per idea:

* `HandlerRest`: only a running handler has messages left, it starts system
  endpoints only, and a buffer whose address is about to go out is in its slot;
* `QuietBeforeInit`: while INIT is not out, nothing is, and neither the
  interrupt thread nor a GPU caller can be active; this is what the late
  registration of the interrupt buys;
* `Stopping`: what removal has taken down stays down;
* `GrantsRecorded`: what was handed out stays in its slot until it is freed,
  which `Stopping` puts after the CPU's stop;
* `BootOrder`, `BootProgress`, `UpMeansStarted`: how far boot has got says what
  has been received, sent and started;
* `CrashlogGranted`: the crashlog buffer was handed out, is on its way, or its
  reply failed.

`RTBuddyTypes` proves that every step keeps the types, one lemma per handler or
group of steps; the finiteness of `shmem` and the arithmetic on `dma` come from
the theorems about finite sets. `RTBuddyProofs` then has a lemma for what a step
may send (`WhatIsSent`), for what no step takes back (`Monotone`) and for what
each thread leaves alone, and one lemma per part of the invariant.

**UatProofs**: `UatTypeOK`, `UatWalkLive`, `UatNothingLost` and the refinement
`UatImplementsMap`, from `InvHolds`. None of the properties is inductive: that the
GPU's walk meets live tables after a table was linked needs that the table hangs
nowhere else, that the hardware's entry and the driver's pointer were stored in the
same slot, and that no frame is at once a table of pages and a table of tables. `Inv`
says so for every moment of a call:

* `Tree`: some assignment of a level and a context to the frames fits. Roots are
  of level 1, children one level below their parent and in its context
  (`Levelled`), every frame of the tree hangs somewhere (`Rooted`), the hardware's
  tables of the upper levels equal the driver's (`Mirrored`), and the allocated frames
  are those of the tree, with the one being built and without the root just freed
  (`Allocated`). The code keeps no levels, hence the existential quantifier;
  without levels a cycle could not be excluded;
* `Injective`: no frame hangs in two slots. With `Tree` this keeps the subtrees
  of two contexts apart, which freeing a context relies on;
* `Counted`: two bookkeeping allocations per table, one more or less while a node is
  being made;
* `Walked`, `CallUnderWay`: how far a call has got says what it has found.

For the refinement two addresses must not share an entry unless they are the same
page: half and indices are the digits of the page number (`DivMod` and the lemmas after
it). Then the store into the last level is the map's one change, linking an empty table
changes no translation, and freeing a half unmaps exactly its pages. The proof
attempt found a mistake in `UatMap`: it let a free with an out-of-range address do
nothing, while `agx_uat_free_context` looks at the context only.

**RTBuddyDisplayProofs**: `DisplayIsDriver` shows that every step is a step of
`RTBuddy` or leaves it alone, so `DriverInv` and all theorems of the driver hold with
listeners. `DisplayInvHolds` adds `DisplayInv`: the list has no duplicates and
a listener outside it has heard nothing (`ListOK`), a running callback is the one
of the current entry, and between notifications `old` is the announced power
(`NotifyOK`), and the listeners before the current entry know the new power, the
others the old (`Followed`). `UnregisteredQuietHolds` and `ListenersFollowHolds`
follow, for any number of listeners; `OnWhilePoweredHolds` needs both
invariants: the driver announces OFF before it releases the power domain, and by
then everyone has been told.

**RTBuddyFirmwareProofs**: `EpmapStartsAllHolds`, `QuiescedBeforeSleepHolds`,
`AsleepBeforeStopHolds`. The argument counts messages. A request on its way out, one
the coprocessor holds back, the answer on its way in and the flag the handler has
still to store are places for one token, and at most one of them holds it; so
an acknowledgement that arrives is never the one of an earlier request.

* `ShakeInv`, with no hypothesis: the queues hold messages of the protocol only,
  HELLO, the endpoint maps and their replies are one token, and after the reply to the
  last map there is none. So no later map can announce an endpoint that is not
  started, which is what `EpmapStartsAll` alone does not say.
* `PowerInv`, under `Reliable` (nothing is slow and nothing fails, the setting of the
  run `rtbuddy_coop`): the same for the IOP's power, the AP's and each buffer
  request, where the code at which the probing thread is says which state is
  recorded. It also implies that the driver records no error and never takes its
  fail path (`Threads`); without that no wait would mean anything, because the
  first error ends every later one. The hypothesis is needed: run
  `rtbuddy_sticky_error` violates `QuiescedBeforeSleep` without it.

**Only model-checked**: everything under fairness (`ApLockSucceeds`,
`FwLockSucceeds`, `WaitFirmwareSucceeds`, `SendReturns`, `BootEnds`, `RemoveEnds`,
`BootSucceeds`, `BuffersGranted`), which is out of the prover's reach. Every invariant,
the action properties and the refinements that the passing runs check are proved.

## Not modelled

* Two callers of one flush slot: nothing in the code keeps them apart, and nothing
  says whether they should be.
* A busy slot left on the page before the first call, which a firmware would serve.
* A GPU message sent after the driver is gone: `agx_rtbuddy_send_gpu` tests and then
  sends, and a caller between the two could still send when the power domain has been
  released. `GpuSend` requires a driver that is not gone, as if callers were stopped
  before removal; no caller is in the repository.
* The single steps of `agx_uat_free_context`: the tables of a half are freed in one step
  of `Uat`, in the code one after the other. Calls are serialised by their caller, and
  only the context being freed can show the difference, which the caller has to take
  off the GPU first (see Uat).
* A test firmware that waits for room in its outbox: the one of `RTBuddyFirmware` never
  fills it. The coprocessor of `RTBuddy` may stop reading or sending at any time,
  so `BootEnds` and `RemoveEnds` cover two sides that block each other.
* Attribute bits and the ASID of the page tables; physical addresses beyond the 48
  bits an entry has room for. The wrap of the spin counters at 2^32.
* Binding the driver again after removal: `agx_probe` starts from freshly zeroed
  memory, so the second life of a driver is a first one, with a coprocessor that is
  unconstrained anyway.
* A display callback that calls the broker again, and a listener that stays
  registered when the driver is unbound.
* Resource lookup in `agx_probe`, which fails before there is any state.
* `agx_power_state_from_wire` and the names of power states, which nothing in the
  driver but a printout uses; the bit layout of GPU messages, which is arithmetic
  that `tests/regs_test.cpp` covers; headers that only define constants, fields and
  layouts (SPTM, TXM); debugfs, the trace tools and the monitor, which only print.

## Plan

All components with state of their own are modelled, and every safety property that a
run checks is proved. What is left:

1. The driver's invariant against the coprocessor of `RTBuddyFirmware`. Its
   `FwHandle` reads a message and queues the answer in one step, so `FwSpec` does not
   imply `RTBuddy!Spec` directly; the token counts bound the queue and would give it.
2. Facts a liveness proof would start from: which step is possible in
   which state (`BootEnds`, `SendReturns`), as invariants.
