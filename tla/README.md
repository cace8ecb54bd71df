# A TLA+ model of the s4sim SSD firmware

s4sim simulates a computational SSD: firmware written in C runs on a gem5 ARM
machine with four CPUs, beside gem5 models of a NAND controller and of a host
interface; a QEMU guest, with a patched NVMe device, is the host. This project
models the firmware's control logic in TLA+, checks it with TLC on small
instances and proves part of it with TLAPS for every size.

Paths below are relative to `src/`.

## 1. Inventory

### How the firmware runs

Each CPU runs one thread in the endless loop `run_thread`
(`firmware/issd_kernel.c`): take one callback from the thread's callback queue,
then one object from each message queue whose handler belongs to the thread, and
call the handler. Handlers run to completion; one that must wait polls and calls
`sys_yield_cpu`. CPU 0 runs the NVMe driver, CPU 1 the host DMA driver, CPU 2
the FTL with the NAND driver, CPU 3 in-storage processing. There are no locks
and no barriers: threads share memory through single-producer, single-consumer
rings and through flags. The firmware is compiled without optimisation, so that
each C assignment is a store.

### Components

| component | state | operations | talks to | correct when |
|---|---|---|---|---|
| FTL (`ftl_page_mapping/ftl.c`, `equal.pages.c`) | `lpa_table`, `ppa_table`, `blk_table`, per-plane cursors, `ftl_config` | program, read, store tables, restore tables | NVMe driver and ISP (requests), NAND driver | a read returns the last write; tables inverse; pages programmed once; survives a clean shutdown |
| NVMe driver, I/O (`nvme_driver.c`) | queue heads, tails, phase, pending completions, queues of commands waiting for the buffer | poll doorbells, read, write, flush, unknown, complete, shutdown | host memory, host DMA, FTL | each command completed once; drive never stops polling; ordering of reads, writes and flushes |
| NVMe driver, admin | the same for queue 0, queue table | create and delete queues, identify, features | host | queues exist when used; no completion overwritten |
| page buffer (`buffer_mgt_1wbc-r.c`) | one buffer, its `inuse` flag, `valid` and `lpn` per page | take for read, take for write, free | NVMe driver, FTL | never used by two commands at once; no stale page programmed |
| kernel queues (`issd_kernel.c`) | rings of (pointer, type) | push, pop | every thread | FIFO, nothing torn or lost |
| circular queue (`util.containers.c`) | ring of pointers | `enQueue`, `deQueue` | ISP and NVMe threads, object pools | FIFO |
| host DMA (`host_dma.c`) | one synchronous DMA record, PRP lists | read DMA, write DMA, list decoding | host interface | data moved before completion |
| NAND driver (`low_level_nand_io.c`) | pools of operation objects | begin, add page, end | NAND controller | objects not shared |
| request pools (`issd_kernel_mem_alloc.c`) | free rings of request objects | allocate, free, find | driver, ISP | no object used twice |
| ISP (`isp.c`) | applets, DMA requests, control command | load, start, stop, DMA, NAND requests | NVMe driver, FTL | requests answered once |
| NAND controller model (gem5) | chips, channels, DMA engine, waiting queue | command, DMA, completion | NAND driver | each command completes |
| host interface model (gem5), shared memory | message, page, doorbell rings | enqueue, dequeue | QEMU, NVMe driver | messages seen complete and in order |

### What is hard here

* **Interleavings.** Two CPUs work on one ring store by store
  (`CircularQueue`, `KernelQueue`). The kernel's ring advances an index with two
  stores and reads an entry after giving its place back.
* **A token instead of a loop.** `check_door_bell` is a callback that is queued
  again by whatever ends its work: by itself, by a handler, or, for reads and
  writes, only when the FTL's answer arrives. It must exist exactly once.
* **Early acknowledgement.** Writes complete before they are programmed and
  flush does nothing; that both are sound depends on the token.
* **Two simulators.** gem5 and QEMU share memory without a lock: messages become
  visible field by field, one page register serves every transfer, and each side
  spins on a flag of the other.
* **Many hands on one command.** A control command of in-storage processing may
  be answered by the command handler, a recycling callback or one of three
  messages, while the function runs on another CPU.
* **Events in any order.** Chips and the shared DMA engine finish when they
  finish; the driver knows only a count.
* **Restart.** Tables live in RAM and reach flash at shutdown only.
* **Limits.** A full ring, a full completion queue, a flash without free pages
  and no garbage collector, 16-bit counters, and wraps of block index and phase.

`PROJECT.json` lists these hazards line by line, with the properties that
address them, and a note where none does yet.

## 2. Modules

| module | models | kind |
|---|---|---|
| `BoundedFifo` | what a message queue promises | abstract specification |
| `CircularQueue` | `enQueue` and `deQueue`, one step per store | refines `BoundedFifo` |
| `KernelQueue` | `__push_obj_to_queue`, `__pop_obj_from_queue`, the use of the result in `run_thread` | refines `BoundedFifo` under an assumption |
| `Ftl` | `ftl.c` with `equal.pages.c` | state machine |
| `NvmeIo` | I/O path of `nvme_driver.c` composed with the page buffer, the FTL thread and the host | state machine |
| `NandOps` | what the NAND I/O layer promises its callers | abstract specification |
| `NandCtrl` | `low_level_nand_io.c` composed with the gem5 NAND controller | refines `NandOps` |
| `HostDma` | what a command of the host interface promises the firmware | abstract specification |
| `HostInterface` | start-up, doorbells, command fetch and PRP decoding of `nvme_driver.c`, composed with `host_dma.c`, the gem5 host interface, the shared memory, QEMU's message thread and the guest | refines `HostDma` |
| `Isp` | `isp.c` with the object pool of `issd_kernel_mem_alloc.c`, composed with the FTL's answers and the host | state machine |
| `NvmeAdmin` | admin commands, several queue pairs and their completions in `nvme_driver.c` | state machine |
| `MC*` | instances for TLC | |
| `CircularQueueProofs`, `KernelQueueProofs`, `FtlProofs`, `NvmeIoProofs`, `NvmeCqProofs`, `NvmeAdminProofs`, `IspProofs`, `NandCtrlProofs` | theorems | proofs |

Definitions named `X_something` directly before a definition `X`, and marked
"Mutant" in a comment, are wrong versions of `X`. They are not used by any
specification: substituting one for `X` must break the property the
mutant is listed with in `PROJECT.json`, which shows that the property depends
on that piece of code.

### Ftl

The tables are functions over addresses. A plane is `[chn, die, plane]`, as in
`ppa_t`; contents of a page are tagged records (`Erased`, `User`, `Piece` of the
tables, `Config`). A user's data is a version number.

| action | code |
|---|---|
| `ProgramRequest` | `process_req_cbk` picks up a write-back-cache flush or an in-storage program |
| `MapPage` | `make_new_mapping` with a successful `find_free_page`, and `add_program_op_page` |
| `Spin` | a turn of `get_free_ppa`'s loop in which `find_free_page` fails |
| `ProgramPages` | `sync_end_program_op` and the completion |
| `StoreBegin`, `TakeTablePage`, `StoreTables` | `store_mapping_tables` |
| `Restart` | `initialize_ftl` and `restore_mapping_tables` after a completed store |
| `ReadPage` (operator) | `ftl_process_read_io`, `__sync_read_pages` |

The comparison `block > BLOCKS_PER_PLANE` in `find_free_page` lets the block
index run one past the plane, where C reads the first block of the next plane of
the array. `Loc` names the entry that is really read, `PastTheTable` the case in
which it lies after the array. That word is never `FREE_PPA` (0x40000000):
depending on the link order it belongs to `blk_table`, where it would take 16384
valid pages in a block, or to the MMU table at the start of `.data`, whose entries
have attribute bits set; so the model counts it as not free. `SearchExact` shows that such an
address is never *chosen*. The counters are `uint16_t` and wrap modulo 65536.

Two simplifications: the data of a request is versioned when the FTL takes the
request (its buffer cannot change before the answer, see `NvmeIo`), and
`RPP_MAP_TABLES` table pages all hold data (the code reserves one spare page if
the tables end on a page boundary). An operation object is private to its user;
see the hazard at `low_level_nand_io.c:304`. When a restart finds a table page
that was overwritten, the firmware continues with whatever the page holds; the
model stops in the stage `corrupt`.

### NvmeIo

The driver thread's handlers run to completion, so each is one step on the
record `d`; operators from record to record (`PostCcmds`, `EnqueueCcmd`,
`ReadStep2`, `WriteStep2`, ...) have the names of the functions they model and
are composed as the functions call each other. `door` counts queued
`check_door_bell` callbacks. The FTL thread takes a request and answers it in two
separate steps, so that the driver may act in between. The host (marked external)
keeps fewer than `SQ_SIZE` commands outstanding, rings once per command, tells
new completions by their phase and asks for a shutdown when it has seen its
commands completed. The ten thousand idle polls between two looks at `CC.SHN` are
abstracted to a choice. Data of page `i` of write `c` is `<<c, i>>`, so reads
can be compared with the last write sent before them.

### KernelQueue and CircularQueue

One step per store. `CircularQueue` advances an index in a single store and is
correct as it is. `KernelQueue` increments an index, then wraps it, and reads the
popped entry afterwards; `HandlersOutlast` is the timing assumption under which
it is a FIFO: neither CPU gets through a whole handler, or from one pop to the
next push, while the other is between two adjacent stores. The firmware's
handlers take thousands of instructions, so this is what happens in practice; but
nothing enforces it, and the run `kernel_queue_race` drops it.

### NandCtrl

An action is a store to a register by the firmware (`IssueRegister`, in the order
of `Script`), a read of `ACTIVE_OPERATION_COUNT` (`PollChannel`), or an event of
the simulator: `DmaComplete`, `OperationComplete`. What a store sets off inside
the controller runs to its end in the same step, as in gem5: `PushCommand` puts a
command in the channel's waiting room and `ProcessRoom` executes commands until
the channel waits for its DMA or the chip in front is busy; `RunDma` chooses
between the channels. `process_waiting_room_cmd` calls itself until it finds a
command it cannot execute; each call removes one, so `ProcessRoom` applies
`ProcessFront` as often as there are commands. Latencies (`get_read_ltcy`,
`get_program_ltcy`) are not modelled: an event comes at any time. `toggle` is not initialised in the
code, so both values are initial. The image is either the mapped file or, when
shared memory could be had, a copy that `shutdown` writes back; the SSD may be
shut down and started again between operations.

The operation pools are modelled as they are. `init_op_obj` stores every program
operation in `objs[0]`, so `malloc_op_obj` hands out address 0 for the others,
and `free_op_obj` does not put that back. With one operation at a time, on one
CPU, nothing is overwritten; the model assumes this. `ERASE_NAND`, which no
firmware code issues, is left out. `Simple_FiFo`'s test for a full ring misses a
tail at the last entry; `TypeOK` bounds what is in the room, so it cannot matter.
`active_nand_ops` is a `uint8_t`: `CountAssumption` (an operation has fewer than 255
pages; the code has 128) is what keeps it from wrapping. The byte offset of a page
in the image is a 32-bit product, so `ImgPage` is taken modulo `IMG_WRAP`, the pages
in 4 GB; `ImageAssumption` says that the image is not larger. The code does not
check that; the configurations of `Makefile.storage.config` are far below.

The module is one controller, that is, channels 0 and 1. A machine with more
channels has more controllers, each with channel numbers and pages of the image of
its own; an operation that spans several is not modelled.

### HostInterface

The shared memory is a record whose fields are written in the order the code
writes them; each process reads them whenever it likes. Contents of memory are
cells of the size of a PRP entry, a page is `PAGE` of them. `DevSlot`, `DevTail`,
`DevFill`, `DevReady` are the four visible stages of a message
(`enQueueSSDMsg`, then the fields, then `msg_ready`); `QemuDequeue` advances the
head before the entry is read. What protects an entry from being reused while
QEMU still reads it is that the ring keeps one slot empty and the firmware waits
for each command but MSI-X. The page register is always the first of the ring
(`enQueuePageRegister` returns early).

`Cmds` is the set of commands the guest may send, with the pages it means, so
that `TransferExact` can compare what `decode_prp` made of the PRPs with them. A
command with a broken PRP list is included; the code ignores the error and moves
what it has decoded, with a successful completion. `decode_prp` expects a PRP
list to start at a page boundary, and so do the commands.

The guest enables the controller when it has read the capabilities. A guest that
set `CC.EN` between attaching and `nvme_driver.c:137` would have it cleared. A
shared memory left by a crashed run, with status 100, may be attached before
`INIT` clears it; the driver then waits for a status it has itself overwritten.
Neither start is an initial state of the model.

### Isp

Three CPUs: the function's, the driver's, whose handlers run to completion, and
the FTL's. A data transfer takes two steps on the driver's CPU, between which
the function goes on. A function is a sequence of calls of the applet interface
(`Applets`). Each object of the pool has its fields and, as history, whether the
bytes asked for were moved.

A DMA request is put in `pending_dma` *and* announced by a message, and the
message does not take it out of `pending_dma`: a request that the message handler
answered is served once more later, when its object was put back or is in use
for another piece. `DoneBeforeReturn` says when a call may
return; the extra service breaks it once an object has come round through the pool
while its old entry is still in `pending_dma` (run `isp_recycled`). The late transfer
sets the stage of whatever request the object is by then, so it may also undo the
mark a call waits for, and that call waits for ever. `Fresh` names the functions
before that can happen.

`function_exited` is set before `ISP_EXECUTION_EXIT` is sent, and the message
answers whatever control command it finds. `HostSlow` is the hypothesis that the
host's way from one function's end to its next execute command (interrupt, library,
doorbell, DMA of the command) is longer than the way of that message. It is what
happens in practice, but nothing enforces it. With `HostSlow = FALSE` in `MCIsp.cfg`
TLC finds `EndIsReal` violated, the host takes the second function for ended, and
from there `ObjectsConserved`: a third function is started on the busy thread, and the
object the second one holds finds `cmplt_dma` full (`PutBack`) and is lost.

`execute_command` is one step. On a thread that is busy, which `HostSlow` excludes,
the function could also take from `cmplt_dma` in the middle of it.

### NvmeAdmin

Handlers are operators from driver state to driver state. The rings of pending
completions are sequences; `EnqueueAdmin` empties the ring where the code's
unchecked tail would meet the head, `EnqueueIo` drops what finds it full. A
command is the identifier the host gave it plus what its handler looks at.
Assumptions on the host, each of which the code needs:

* completion queues are at least as large as submission queues. Otherwise
  completions are dropped when the host has taken entries without ringing;
* it creates at most `MAX_IO_SQCQ_PAIRS` pairs, whatever it is granted. It may ask
  for any number; `nvme_set_feature` caps a zero-based number at that value and
  grants one pair more than its arrays hold (`granted` in `TypeOK`). What a write past
  the arrays does is not modelled;
* queues are deleted in the reverse order of their creation. The polling loops
  visit queues `1 .. iocqCount`, so deleting queue 1 first strands the pending
  completions of queue 2;
* each submission queue has its own completion queue: `sqid` of an entry is
  never filled in.

An identify command with an unknown CNS gets no completion (`Answered`). A
pending *admin* completion is posted with the next admin command only, because
the loops start at queue 1: a host that waits for it waits for ever.
`IoComplete` is therefore about I/O queues, and the fairness does not oblige the
host to send admin commands.

## 3. Runs

| run | instance | result |
|---|---|---|
| `ftl` | 2 channels, 1 die, 2 planes, 2 blocks of 3 pages; 2 logical pages, requests of up to 2; 2 table pages; 1 store; 272,756 states | passes |
| `ftl_shutdown` | the same | **violation** of `DataSurvivesShutdown` |
| `circular_queue` | 3 entries, 2 objects, 7 sent; 3,793 states | passes |
| `kernel_queue` | 3 entries, 2 objects, 6 sent, `HandlersOutlast`; 7,537 states | passes |
| `kernel_queue_race` | the same without `HandlersOutlast` | **violation** of `HandledInOrder` |
| `nvme_io` | queues of 3, namespace of 2 pages, 4 commands in range; 87,658 states | passes |
| `nvme_doorbells` | 2 commands, some out of range | **violation** of `DoorbellsChecked` |
| `nand_ctrl` | 2 channels of 2 chips, 2 blocks of 1 page; operations of up to 3 pages; 2 operation objects; 3 operations; 223,086 states | passes |
| `isp` | DMA queues of 3, 8 objects, transfers of 2 pages, 3 functions, `HostSlow`; 958,620 states | passes |
| `isp_recycled` | 9 objects, 3 functions, `HostSlow` | **violation** of `DoneBeforeReturn` |
| `host_interface` | pages of 2 cells, message ring of 3, doorbell ring of 5, queues of 3; 3 commands; 150,180 states | passes |
| `nvme_admin` | 2 I/O queue pairs, queues of 2; 6 queue commands, 2 other admin commands, 3 I/O commands; 659,639 states | passes |

**ftl.** `MappingConsistent`: `lpa_table` and `ppa_table` are inverse.
`SearchExact`: the search fails only on a full flash and returns a page of the
flash. `AccountingExact`: counters equal what they count, up to the first store,
which decrements `valid_pgs` for pages that were free (`ftl.c:445`).
`ProgramOnce`: no page is programmed twice, configuration pages excepted.
`DataIntact`: an idle FTL reads the last write, across stores and restarts,
except where the configuration was written over it. `AllocatorInv` is the
inductive strengthening of section 5. The instance has 24 pages and no erase, so
every behaviour fills the flash: all carries of the round-robin, the move to
the next block, the full flash, and a store at every fill level are reached. A
full flash spins for ever, which is not a deadlock for TLC.

**ftl_shutdown.** The store writes the configuration to pages 0, 1 and 2 of the
first block; only page 0 was reserved. A page written early to page 1 is lost at
shutdown. If nothing was written, the table pages themselves land there and the
restart loads garbage.

**circular_queue, kernel_queue.** Two usable entries and more than two wraps of
each index, so that the ring is full and empty at every offset. `ImplementsFifo`
is the refinement of `BoundedFifo`; `RingInv` states why it holds; `AllDelivered`
and `AllHandled` are liveness; `NotTorn`: no handler gets the pointer of one
request with the type of another. Both stop when the bound `MaxSent` is reached,
so deadlock is not checked.

**nvme_io.** `TokenConserved`: the queued callback and the requests on their way
number exactly one, and the buffer is held exactly while there is a request.
`ReadsSeeWrites`, `FlushDurable` and `ShutdownStoresAll` compare what was read,
is on flash when a flush completes, and is described by the tables stored at
shutdown with the sequence of commands. `CompletionsExact`: each completed
command the host has not seen is in exactly one place, with the right phase.
`AllComplete`: each command of a known kind completes. Four commands through
queues of three entries wrap both queues, flip the phase and let completions wait
for room. The idle poll keeps running, so deadlock is checked.

**nvme_doorbells.** A rejected read or write posts its completion
(with status 0) and returns without queueing `check_door_bell`: polling ends.
(The range check compares a zero-based length with `>`, so page `nsze` is accepted,
in the model as in the code.)

**nand_ctrl.** `ActiveExact`: the count the driver polls equals the completions
still scheduled, so polling ends neither early nor never. `NobodySleeps`: a
command in a waiting room has an event that will wake it. `ReadPoolExact`: the
read pool never hands out an object twice. `ImplementsOps`: the register protocol
moves each page of an operation once, to and from its own place, before the call
returns, and what was programmed survives shutdown and restart. `OpsEnd`: every
call returns. The batches use one chip twice, two chips of a channel, both
channels, more pages than an operation holds and none; three operations of a kind
wrap its pool.

**isp.** For a slow host (`HostSlow`) and three functions. `ObjectsConserved`: each
request object is in one place. `CommandHeldOnce`: the command the host waits for is
in one place, whoever competes to answer it. `EndIsReal`: the host takes a function
for ended only when it has returned, although a flag and a message tell of the end.
`FunctionEnds`: a function before the third, whose pool has not come round (`Fresh`),
is served and returns, and the host is free only after that. One function makes a transfer of two pieces, the
second one short; the other overruns the page buffer and uses the flash. The host
stops after `MaxExec` functions, so deadlock is not checked in the `isp` runs.

**isp_recycled.** `DoneBeforeReturn`: a call returns when its own data, not that of an
earlier request, was moved. It does not hold: a pool of nine objects comes round in
three functions; 128 objects need more. Two functions keep it (`MaxExec = 2`).

**host_interface.** `TransferExact`: when a command completes, its data was moved
cell by cell between the page buffer and the pages the guest listed, for an
unaligned first page and a chained PRP list. `ImplementsDma`: a command of the
host interface is an atomic copy of the cells it names. `CommandsEnd`: every
command rung for completes and the guest learns of it. The message ring of three
is the smallest that the firmware can use; three commands with their pieces wrap
all rings many times. The driver polls for ever, so deadlock is checked.

**nvme_admin.** `EveryCommandOnce`: each command the host waits for, on each
queue, is in one place (rung for, at the in-storage thread, pending, or posted
with the phase that makes it new), and nothing else is. `IoComplete`: every I/O
command completes. Six queue commands are enough to create both pairs and delete
one, or to create a pair, delete it and create it again; queues for one command
make each completion find a queue the host has not rung for. The host asks for one
pair or for more than there are.

### Fairness

Weak fairness per thread: a CPU runs its one thread in a loop that never blocks,
handlers return, and each queue is served once per round, so a step that stays
possible is taken. `NvmeIo` also assumes that the host's interrupt handler takes
completions and rings the doorbell; nothing is assumed about whether it submits
commands or shuts down. `NandCtrl` assumes that the simulator delivers every
event it has scheduled; `HostInterface` that the host's threads run and that an
interrupt is taken in the end (strong fairness: the guest is disturbed by its own
doorbells); `Isp` that the driver's loop, which serves each queue once per round,
does not pass over a message for ever (strong fairness of `MsgCbk`);
`NvmeAdmin` that the host takes completions and rings. `Ftl` states safety only.

## 4. Bounds

`MaxSent`, `MaxCmds`, `MaxStores`, `MaxOps`, `MaxExec`, `MaxQueueCmds`, `MaxMisc`
and `MaxIo` bound how long a behaviour is; the other
constants are sizes the code defines. History variables (`sent`, `received`,
`written`, `ver`, `done`) are not bounded beyond these. The theorems need no
bound on sizes, and all of these bounds are arbitrary there.

## 5. Proofs

`CircularQueueProofs` proves, for every `size >= 2`, `TypeOK`, `RingInv` and
`ImplementsFifo`. The inductive invariant is `TypeOK /\ RingInv`: `RingInv` says
which entries hold which objects and what each thread knows in the middle of its
operation (an adder that saw room still has room, a taker that saw an object
still has it). Each step of the queue is then a `Send`, a `Receive` or a stutter.

`FtlProofs` proves, for every geometry with at least three pages per block,
`TypeOK`, `MappingConsistent`, `SearchExact` and `AllocatorInv`. The inductive
invariant is `TypeOK /\ MappingConsistent /\ AllocatorInv`. Type correctness alone
is not inductive: that a chosen address lies inside the flash needs to know that
the search never runs past the last block while a page is free. This follows from

* `FreeBeyondCursor`: in each plane exactly the pages at or after the cursor are
  free, so the search succeeds at its cursor or at the start of the next block;
* `RoundBalanced`: the planes visited in the current round are exactly one page
  ahead of the others, so one plane is full only if all are, or only the last
  page of the round is missing; with it one failing plane means a full flash;
* `Full`: once full, the cursors no longer move;
* `StoreProgress`, `StoredImage`: the image on flash equals RAM until the next
  write, which is why a restart keeps all of it.

Lemmas: what one search finds (`EarliestFree`, `SearchOutcome`, `FullSearch`),
how the round-robin order follows `NextPlane` (`AfterLast`, `AfterOther`), what
advancing a cursor preserves (`AdvanceKeeps`), and one lemma per action.

Its second half goes on to `DataIntact`, `ProgramOnce` and `AccountingExact`.
No code looks at the flash before it programs a page, so that a page is
programmed once is a fact about the tables: `FreeErased` (a free entry names an
erased page), `OpErased` and `StoreErased` (a page that was taken stays erased
until the operation that took it programs it, and no other has it), and, for the
data, that a logical page is either waiting in the request or settled in the
operation or on flash. `AccountingExact` holds up to the first store; the
counters are the sizes of sets of pages, which differ by one element per step,
and `WidthAssumption` (`PAGES_PER_BLOCK` fits a `uint16_t`) keeps them from
wrapping.

`KernelQueueProofs` proves, for every `MSG_Q_SIZE`, `TypeOK`, and under
`HandlersOutlast` `NotTorn` and `ImplementsFifo`. The hypothesis is the constant
of `KernelQueue` that says a handler takes longer than the other CPU's next
stores; the run `kernel_queue_race` shows what happens without it, so it cannot be
dropped. In the invariant an index in the middle of its two stores counts as
wrapped (`At`), and an entry that was given back and is still being read belongs to
the popper (`Taken`): the ring is full one place before the pusher reaches it.

`NvmeIoProofs` proves `TypeOK`, `TokenConserved`, `ReadsSeeWrites`,
`ShutdownStoresAll` and `FlushDurable` for all sizes of queues, namespace and
transfers. None is inductive by itself; they follow from one invariant about a
number that no variable holds, the commands fetched so far (`IInv` says it exists):

* `Rung`, `Submitted`: each submission doorbell not read stands for one command
  not fetched, and the submission queue holds exactly those, in order;
* `OneAtATime`: the driver is at rest with a callback queued and the flash holds
  the writes of all commands fetched (`Resting`), or one read is under way
  (`Reading`), or one write is, whose pages are in the cache and will reach the
  flash before the driver looks at a doorbell again (`Writing`);
* `Stored`: what a shutdown stored describes all commands sent.

`TokenConserved` has the hypothesis `InRange`: the host's reads and writes pass
`verify_rw_param`. One that does not is answered by an early return that does not
queue `check_door_bell` again, and the drive stops (run `nvme_doorbells`). The other
theorems of the module hold for every command a host may send.

`NvmeCqProofs` proves `CompletionsExact` if the completion queue is not smaller
than the submission queue (`SQ_SIZE <= CQ_SIZE`; hosts create them so, and
`enqueue_io_ccmd` drops completions otherwise). The driver knows the host's head
only from doorbells it has read: `HeadsOrdered` puts all such heads, the one in
use, those in `db`, the last one rung and the true one, in order of their distance
to the tail. `Phases` says which entries look new, `EachOnce` that the entries posted
followed by the pending ring are the completions not seen, once each, in order.

`IspProofs` proves `TypeOK`, `ObjectsConserved`, `CommandHeldOnce` and `EndIsReal` for
every applet and any number of functions, under `HostSlow`, which cannot be dropped
(section 2). `CommandAt` (where the host's command is), `Ready` (what a handler
uses without looking at it), `Pool` and `Ended` need each other: a command that
found its slot taken would overwrite an object, a pool that is empty would leave a
command without one, and a function started on a busy thread would meet a full
`cmplt_dma` and lose an object. `Ended` says that an exit message is under way, and
the host told of an end, only after the function has returned, and that an execute
command finds the thread at rest. That the pool is never
empty uses `QueueAssumption` (128 objects for queues of 8).

`NandCtrlProofs` proves `TypeOK`, `ActiveExact`, `NobodySleeps`, `ReadPoolExact` and
`ImplementsOps` for one controller (two channels) with any number of chips, blocks and
pages, any batch and any order of events. The driver never looks at a single command, it polls one
count per channel, so the proof has to say where each command is:

* `Regs`: what the channel's registers hold after each of the six stores of a page;
* `Cell`: a command in a waiting room is the first or second of a page, in the order
  sent; a second one is behind its first, or in front with the first one executed
  (`Primed`: the data is in the chip's register, or the chip waits for it);
* `DmaPart`, `CountPart`, `Awake`: what a channel waits for, what its count counts,
  and that the command in front has a reason to wait; `Engine`: the DMA engine works
  for a waiting channel, and for some channel if any waits;
* `PollPart`: the status loop, which reads the channels one after the other, may add
  them up because nothing starts while it polls.

None of these is preserved by `ProcessFront` alone: between two turns of the loop
`Awake` is false. `RunExists` and `RoomFits` describe the loop's end; they use the
least turn at which a statement fails, where an induction theorem would be natural.
For `ImplementsOps` the pages not moved yet are those of commands not sent, in a
room, or at the DMA (`Left`), and two pages of a batch at different addresses have
different places in the image (`ImgPageOnce`: an address is a number in mixed radix,
and by `ImageAssumption` below the 32-bit wrap).

`NvmeAdminProofs` proves `TypeOK` and `EveryCommandOnce` for any number of queue
pairs, all sizes and any set of other admin commands. `NvmeCqProofs` needs one pair
of queues that always exists; here queues come and go, and what one queue may do
depends on a command in another. The inductive invariant is `TypeOK` with

* for each queue, the completions on their way to the host as one sequence (`Way`: the
  entries it has not seen, then the pending ring) and the commands not fetched (`Unf`).
  Posting leaves `Way` as it is. `Once` says that a command the host waits for is in one
  of the two or at in-storage processing, once; `Known` what its completion may say;
* `Heads`, `Phases`, `SqDoors`: the host's places in a queue, known to the driver, in
  doorbells, and true, in the order of their distance to the tail; which entries look
  new; and that each submission doorbell stands for a command of its own;
* `AdminPart`: a command that creates or deletes a queue is carried out if and only if
  it is fetched, no two such commands are under way for one queue, and (`Before`) the
  completion doorbells of a queue precede the doorbell of the command that deletes it.
  Without the last part a late doorbell would be applied to a queue that no longer
  exists or was created anew;
* `Quiet`: nothing of a queue that is not live is under way, so that it can be
  created again with all entries zeroed; `Counts`: `iosqCount` and `iocqCount` are
  the numbers of queues that exist.

`SizeAssumption` (completion queues not smaller than submission queues) is the
assumption of section 2, and the host creates no pair the arrays have no entry for;
the code needs both. The host may ask for any number of pairs. The invariant says nothing of the order in which
queues are deleted: a stranded completion is still pending, not lost.
That it is delivered is `IoComplete`, which is model-checked.

The other assumptions are the named `ASSUME`s of the modules; TLC evaluates them in
each run.

Model-checked only: all liveness properties, which are outside the prover's
reach; and `TypeOK`, `TransferExact` and `ImplementsDma` of
`HostInterface`. These depend on how the guest lays out its memory: PRP lists chained
through it, that no data page or queue overlaps. The instance gives such a layout
(`HostMem`, `Cmds`); a theorem needs the layout of every chain as an assumption first.

## 6. Plan

1. **Done:** all modules of section 2, the theorems of section 5, which cover every
   safety property of `CircularQueue`, `KernelQueue`, `Ftl`, `NvmeIo`, `NandCtrl` and `NvmeAdmin`.
2. **Next theorems:** `TypeOK`, `TransferExact` and `ImplementsDma` of
   `HostInterface`.
3. **Further modules:** the buffer manager with N caches and `unequal.pages.c`,
   as variants of `NvmeIo` and `Ftl`.

## 7. Not modelled

* Boot and MMU code, UART printing, memory copies, statistics, terminal and gem5
  scripts have no state the properties speak about.
* The debug NAND driver, the gem5 buffer device, the buffer manager with N caches
  and the FTL for unequal pages are not used by the default firmware.
* `add_applet` (parsing an applet's header and registering its functions) and the
  downloaded binary's contents; `ERASE_NAND`; latencies.
* Power loss without a shutdown: the firmware makes no attempt to recover from
  it. A QEMU or gem5 process that dies while the other waits hangs the other;
  the code has no timeout.
* A shutdown while an in-storage function runs, and more than one in-storage
  thread (the code creates one).
* The kernel's callback queue is used by one CPU on both sides and appears as
  `door` in `NvmeIo` and `recycles` in `Isp`.

`PROJECT.json` gives the status of each component.
