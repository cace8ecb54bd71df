------------------------------ MODULE NandCtrl ------------------------------
(***************************************************************************)
(* The path of a flash operation: the low-level NAND I/O layer of the      *)
(* firmware (low_level_nand_io.c), which writes the registers of the NAND  *)
(* controller and polls it, and the controller itself (gem5 object         *)
(* iSSDNandCtrl): two channels, each with a FIFO of commands (the waiting  *)
(* room), their chips with one page register each, and one DMA engine that *)
(* both channels share.                                                    *)
(*                                                                         *)
(* A register access of the firmware is a step, and so is an event of the  *)
(* simulator (end of a DMA, end of a chip's operation); events come at any *)
(* time after they were scheduled. The operations are those of one CPU,    *)
(* the FTL's. ERASE_NAND, which no firmware code issues, is left out, and  *)
(* so is ADDRESS_CYCLE_REG_2, which is written with 0 and never decoded.   *)
(***************************************************************************)
EXTENDS Integers, Sequences, FiniteSets, FiniteSetsExt, Functions

CONSTANTS
  CHIPS, BLOCKS, PAGES, \* chips of a channel, blocks of a chip, pages of a block
  MAX_PAGES,            \* pages an operation can hold (128)
  MAX_OPS,              \* operation objects of a pool (128)
  ROOM_SIZE,            \* Simple_FiFo: en_size (1024)
  IMG_WRAP,             \* pages in 2^32 bytes of the image: page_size divides 2^32
  Batches,              \* sequences of physical pages the FTL asks for
  MaxOps                \* bound: operations in a behaviour

Channel == {0, 1}
Chip == 0 .. CHIPS - 1
Ppa == [chn: Channel, chip: Chip, block: 0 .. BLOCKS - 1, page: 0 .. PAGES - 1]

ASSUME GeometryAssumption ==
  /\ CHIPS \in Nat \ {0}
  /\ BLOCKS \in Nat \ {0} /\ BLOCKS <= 65536 /\ PAGES \in Nat \ {0} /\ PAGES <= 65536
ASSUME LimitAssumption ==
  /\ MAX_PAGES \in Nat \ {0} /\ MAX_OPS \in Nat \ {0} /\ MaxOps \in Nat
  /\ ROOM_SIZE \in Nat /\ ROOM_SIZE > 2 * MAX_PAGES
\* Offsets into the image are 32 bits: no more than 4 GB can be told apart.
\* Nothing checks it; the configurations of Makefile.storage.config are below.
ASSUME ImageAssumption ==
  IMG_WRAP \in Nat \ {0} /\ 2 * CHIPS * BLOCKS * PAGES <= IMG_WRAP
\* active_nand_ops is a uint8_t and counts the chips of an operation and a DMA.
ASSUME CountAssumption == MAX_PAGES < 255
ASSUME BatchAssumption == \A b \in Batches : b \in Seq(Ppa)

None == -1        \* a null pointer
NoOp == "none"
Kinds == {"READ", "PROGRAM"}
\* Contents: <<n, i>> is the i-th page of the n-th operation.
Blank == <<0, 0>>
Data == {Blank} \cup ((1 .. MaxOps) \X (1 .. MAX_PAGES))
\* Page buffers in the SSD's RAM, numbered like the pages of the operation.
Buf == 1 .. MAX_PAGES

----------------------------------------------------------------------------
(* Addresses. The driver packs block and page into the two shorts of       *)
(* ADDRESS_CYCLE_REG_1; the chip takes the bytes apart again and computes  *)
(* a page of the image file, which holds all chips of all channels.        *)
SHORT == 65536
AddressCycle(p) == p.page + SHORT * p.block
row_page(a) == a % SHORT
row_block(a) == a \div SHORT
ImgPages == 0 .. 2 * CHIPS * BLOCKS * PAGES - 1

\* Mutant: channels are placed one plane apart.
ImgPage_overlap(c, k, a) ==
  (c * BLOCKS * PAGES + k * BLOCKS * PAGES + row_block(a) * PAGES + row_page(a)) % IMG_WRAP

\* The product page * page_size is taken in 32 bits.
ImgPage(c, k, a) ==
  (c * CHIPS * BLOCKS * PAGES + k * BLOCKS * PAGES + row_block(a) * PAGES + row_page(a))
    % IMG_WRAP

----------------------------------------------------------------------------
VARIABLES
  fw,         \* the CPU that runs an operation
  free_rops, free_pops,  \* pools of operation objects
  nc,         \* the controller: channels, chips and DMA engine
  image,      \* what imgPtr points to
  file,       \* the image file
  shm,        \* usingShmMem: image is a copy of file, not the mapped file
  ram,        \* page buffers
  n           \* operations started

vars == <<fw, free_rops, free_pops, nc, image, file, shm, ram, n>>

Command == [op: {"READ_NAND", "PROGRAM_NAND", "READ_DMA", "WRITE_DMA", NoOp},
            chip: Chip \cup {None}, addr: Nat, ram_ptr: Buf \cup {None}]
NewCommand == [op |-> NoOp, chip |-> None, addr |-> 0, ram_ptr |-> None]

U8 == 0 .. 255                \* uint8_t
NC_Channel == [
  new_cmd: Command,           \* registers written since the last command
  room: Seq(Command),         \* cmd_waiting_room
  active: U8,                 \* active_nand_ops
  wait_dma: BOOLEAN,          \* wait_dma_completion
  read_dma: BOOLEAN, write_dma: BOOLEAN,
  ram_ptr: Buf \cup {None}, dma_chip: Chip \cup {None}]

NC_Chip == [
  busy: BOOLEAN, addr: Nat,
  reg: Data,                  \* nand_page_reg
  pending: BOOLEAN,           \* pending_write_cmd is set
  events: Nat]                \* scheduled EventCompletionScheduler_2

Pool == [head: 0 .. MAX_OPS - 1, tail: 0 .. MAX_OPS - 1,
         objs: [0 .. MAX_OPS - 1 -> 0 .. MAX_OPS]]

Firmware == [pc: {"off", "idle", "issue", "poll"}, kind: Kinds \cup {NoOp},
             obj: 0 .. MAX_OPS,      \* operation object, 0 the address 0
             pages: Seq(Ppa),        \* its pages
             k: Nat,                 \* registers written
             ichn: {0, 1}, cmdStatus: Nat]

Idle == [pc |-> "idle", kind |-> NoOp, obj |-> 0, pages |-> <<>>, k |-> 0,
         ichn |-> 0, cmdStatus |-> 0]

----------------------------------------------------------------------------
(* Pools of operation objects.                                             *)

Pool0(objs) == [head |-> 0, tail |-> 0, objs |-> objs]

InitRops == Pool0([i \in 0 .. MAX_OPS - 1 |-> i + 1])
\* Every program object is stored in objs[0]: the last one stays there and
\* the other entries keep the zeros of the bss.
InitPops == Pool0([i \in 0 .. MAX_OPS - 1 |-> IF i = 0 THEN MAX_OPS ELSE 0])

\* Mutant: the head of the pool does not wrap.
MallocOp_no_wrap(q) == [q EXCEPT !.head = @ + 1]

\* malloc_op_obj, which does not look whether the pool is empty.
MallocOp(q) == [q EXCEPT !.head = (@ + 1) % MAX_OPS]
MallocObj(q) == q.objs[q.head]

\* Mutant: the tail is not advanced.
FreeOp_keeps_tail(q, obj) == IF obj = 0 THEN q ELSE [q EXCEPT !.objs[q.tail] = obj]

\* free_op_obj: the word at address 0 is no operation type, so that object
\* is not put back.
FreeOp(q, obj) ==
  IF obj = 0 THEN q
  ELSE [q EXCEPT !.objs[q.tail] = obj, !.tail = (@ + 1) % MAX_OPS]

----------------------------------------------------------------------------
(* The controller. The operators take and return its state s.              *)

\* Mutant: channel 1 is not looked at when channel 0 comes first.
RunDma_forgets_other(s) ==
  LET first == IF s.toggle THEN 0 ELSE 1 IN
  [s EXCEPT !.toggle = ~@,
            !.current_chn = IF s.chn[first].wait_dma THEN first ELSE @]

\* run_dma picks a channel that waits, the one of toggle's choice first.
RunDma(s) ==
  LET first == IF s.toggle THEN 0 ELSE 1 IN
  [s EXCEPT !.toggle = ~@,
            !.current_chn = IF s.chn[first].wait_dma THEN first
                            ELSE IF s.chn[1 - first].wait_dma THEN 1 - first ELSE @]

ProcessDma(s) == IF s.current_chn # None THEN s ELSE RunDma(s)

\* READ_NAND: start command, address and end command; the chip is busy.
DoRead(s, c, cmd) ==
  LET chip == s.chip[c][cmd.chip] IN
  [s EXCEPT !.chip[c][cmd.chip] =
              [chip EXCEPT !.busy = TRUE, !.addr = cmd.addr, !.events = chip.events + 1,
                           !.reg = image[ImgPage(c, cmd.chip, cmd.addr)]],
            !.chn[c].active = (@ + 1) % 256]

\* PROGRAM_NAND: the end command waits for the data.
StartProgram(s, c, cmd) ==
  [s EXCEPT !.chip[c][cmd.chip] = [@ EXCEPT !.addr = cmd.addr, !.pending = TRUE]]

StartDma(s, c, cmd) ==
  LET chn == s.chn[c] IN
  ProcessDma([s EXCEPT !.chn[c] =
    [chn EXCEPT !.active = (chn.active + 1) % 256, !.wait_dma = TRUE,
                !.read_dma = chn.read_dma \/ cmd.op = "READ_DMA",
                !.write_dma = chn.write_dma \/ cmd.op = "WRITE_DMA",
                !.ram_ptr = cmd.ram_ptr, !.dma_chip = cmd.chip]])

\* The front command and its removal, as process_waiting_room_cmd does.
ExecFront(s, c) ==
  LET cmd == Head(s.chn[c].room)
      t == CASE cmd.op = "READ_NAND" -> DoRead(s, c, cmd)
             [] cmd.op = "PROGRAM_NAND" -> StartProgram(s, c, cmd)
             [] OTHER -> StartDma(s, c, cmd)
  IN [t EXCEPT !.chn[c].room = Tail(@)]

Blocked(s, c) ==
  \/ s.chn[c].wait_dma
  \/ s.chn[c].room = <<>>
  \/ s.chip[c][Head(s.chn[c].room).chip].busy

ProcessFront(s, c) == IF Blocked(s, c) THEN s ELSE ExecFront(s, c)

\* process_waiting_room_cmd calls itself until it is blocked, which it is
\* when the room is empty.
ProcessRoom(s, c) ==
  LET run[i \in 0 .. Len(s.chn[c].room)] == IF i = 0 THEN s ELSE ProcessFront(run[i - 1], c)
  IN run[Len(s.chn[c].room)]

\* add_cmd_phase, add_data_phase; Simple_FiFo drops a push when it is full.
\* (Its test head == tail + 1 misses a tail at the last entry; TypeOK shows
\* that the room never holds enough for that to matter.)
PushCommand(s, c, op) ==
  LET room == s.chn[c].room
      cmd == [s.chn[c].new_cmd EXCEPT !.op = op]
      t == [s EXCEPT !.chn[c].new_cmd = NewCommand,
                     !.chn[c].room = IF Len(@) = ROOM_SIZE - 1 THEN @ ELSE Append(@, cmd)]
  IN IF room = <<>> THEN ProcessRoom(t, c) ELSE t

\* read: ACTIVE_OPERATION_COUNT.
ActiveOperationCount(c) == nc.chn[c].active + Len(nc.chn[c].room)

----------------------------------------------------------------------------
(* The firmware.                                                           *)

\* Registers __do_sync_flash_read and __do_sync_flash_program write per page.
Script == <<"CHIP_SELECT_REG", "ADDRESS_CYCLE_REG_1", "CMD_PHASE_CMD_REG",
            "CHIP_SELECT_REG", "DMA_RAM_PTR", "DMA_PHASE_CMD_REG">>

CmdPhaseOp(kind) == IF kind = "READ" THEN "READ_NAND" ELSE "PROGRAM_NAND"

\* The DMA writes, or reads, the RAM.
DmaPhaseOp(kind) == IF kind = "READ" THEN "WRITE_DMA" ELSE "READ_DMA"

\* write: what storing to register r of channel p.chn does.
WriteReg(r, p, i) ==
  LET c == p.chn IN
  nc' = CASE r = "CHIP_SELECT_REG" -> [nc EXCEPT !.chn[c].new_cmd.chip = p.chip]
          [] r = "ADDRESS_CYCLE_REG_1" -> [nc EXCEPT !.chn[c].new_cmd.addr = AddressCycle(p)]
          [] r = "DMA_RAM_PTR" -> [nc EXCEPT !.chn[c].new_cmd.ram_ptr = i]
          [] r = "CMD_PHASE_CMD_REG" -> PushCommand(nc, c, CmdPhaseOp(fw.kind))
          [] r = "DMA_PHASE_CMD_REG" -> PushCommand(nc, c, DmaPhaseOp(fw.kind))

\* initialize_nand_ctrl: INIT_NAND_CTRL and loadImgProcess, which copies the
\* file to shared memory, or maps it when there is none.
InitializeNandCtrl ==
  /\ fw.pc = "off"
  /\ shm' \in BOOLEAN
  /\ image' = file
  /\ fw' = Idle
  /\ UNCHANGED <<free_rops, free_pops, nc, file, ram, n>>

\* begin_*_op and add_*_op_page for the pages of b, as far as they fit. The
\* caller has put the data to program into the buffers.
BeginOp(kind, b) ==
  LET pool == IF kind = "READ" THEN free_rops ELSE free_pops IN
  /\ fw.pc = "idle"
  /\ n < MaxOps
  /\ n' = n + 1
  /\ fw' = [Idle EXCEPT !.pc = "issue", !.kind = kind, !.obj = MallocObj(pool),
                        !.pages = SubSeq(b, 1, Min({MAX_PAGES, Len(b)}))]
  /\ IF kind = "READ"
     THEN free_rops' = MallocOp(pool) /\ UNCHANGED <<free_pops, ram>>
     ELSE /\ free_pops' = MallocOp(pool)
          /\ ram' = [i \in Buf |-> <<n + 1, i>>]
          /\ UNCHANGED free_rops
  /\ UNCHANGED <<nc, image, file, shm>>

\* sync_end_*_op after the operation: free_op_obj and return.
EndOp ==
  /\ fw' = Idle
  /\ IF fw.kind = "READ"
     THEN free_rops' = FreeOp(free_rops, fw.obj) /\ UNCHANGED free_pops
     ELSE free_pops' = FreeOp(free_pops, fw.obj) /\ UNCHANGED free_rops

\* An operation without pages returns at once.
EmptyOp ==
  /\ fw.pc = "issue" /\ fw.pages = <<>>
  /\ EndOp
  /\ UNCHANGED <<nc, image, file, shm, ram, n>>

LastWrite(k) == k = Len(Script) * Len(fw.pages)

\* One store of the loop over the pages.
IssueRegister ==
  LET i == (fw.k \div Len(Script)) + 1
      r == Script[(fw.k % Len(Script)) + 1]
  IN /\ fw.pc = "issue" /\ fw.pages # <<>>
     /\ WriteReg(r, fw.pages[i], i)
     /\ fw' = [fw EXCEPT !.k = @ + 1, !.pc = IF LastWrite(fw.k + 1) THEN "poll" ELSE @]
     /\ UNCHANGED <<free_rops, free_pops, image, file, shm, ram, n>>

\* The status loop reads one channel's count; after the last channel it
\* ends if the sum is zero and starts again, yielding the CPU, if not.
PollChannel ==
  LET sum == fw.cmdStatus + ActiveOperationCount(fw.ichn) IN
  /\ fw.pc = "poll"
  /\ \/ /\ fw.ichn = 0
        /\ fw' = [fw EXCEPT !.ichn = 1, !.cmdStatus = sum]
        /\ UNCHANGED <<free_rops, free_pops>>
     \/ /\ fw.ichn = 1 /\ sum # 0
        /\ fw' = [fw EXCEPT !.ichn = 0, !.cmdStatus = 0]
        /\ UNCHANGED <<free_rops, free_pops>>
     \/ fw.ichn = 1 /\ sum = 0 /\ EndOp
  /\ UNCHANGED <<nc, image, file, shm, ram, n>>

\* shutdown copies the shared memory to the file.
FileAfterShutdown == IF shm THEN image ELSE file

\* shutdown_nand_io_driver, after which the SSD is started anew.
ShutdownNand ==
  /\ fw.pc = "idle"
  /\ file' = FileAfterShutdown
  /\ fw' = [Idle EXCEPT !.pc = "off"]
  /\ free_rops' = InitRops /\ free_pops' = InitPops
  /\ UNCHANGED <<nc, image, shm, ram, n>>

----------------------------------------------------------------------------
(* The events.                                                             *)

\* A DMA was started when a channel was picked that reads or writes.
DmaRunning ==
  /\ nc.current_chn # None
  /\ nc.chn[nc.current_chn].read_dma \/ nc.chn[nc.current_chn].write_dma

\* Mutant: the channel is not counted active while its chip programs.
DoProgram_uncounted(s, c, k) ==
  LET chip == s.chip[c][k] IN
  [s EXCEPT !.chip[c][k] = [chip EXCEPT !.pending = FALSE, !.busy = TRUE,
                                        !.events = chip.events + 1],
            !.chn[c].read_dma = FALSE]

\* The end command of a program: the chip is busy, the page is written.
DoProgram(s, c, k) ==
  LET chip == s.chip[c][k]
      chn == s.chn[c]
  IN [s EXCEPT !.chip[c][k] = [chip EXCEPT !.pending = FALSE, !.busy = TRUE,
                                           !.events = chip.events + 1],
               !.chn[c] = [chn EXCEPT !.read_dma = FALSE, !.active = (chn.active + 1) % 256]]

\* dma_complete_call_back, and the data the DMA has moved.
DmaComplete ==
  LET c == nc.current_chn
      k == nc.chn[c].dma_chip
      p == nc.chn[c].ram_ptr
      reading == nc.chn[c].read_dma
      programs == reading /\ nc.chip[c][k].pending
      s1 == [nc EXCEPT !.chn[c].active = (@ - 1) % 256,
                       !.chip[c][k].reg = IF reading THEN ram[p] ELSE @]
      s2 == IF programs THEN DoProgram(s1, c, k)
            ELSE [s1 EXCEPT !.chn[c].write_dma = IF reading THEN @ ELSE FALSE]
      s3 == [s2 EXCEPT !.current_chn = None,
                       !.chn[c] = [@ EXCEPT !.dma_chip = None, !.ram_ptr = None,
                                            !.wait_dma = FALSE]]
  IN /\ DmaRunning
     /\ ram' = IF reading THEN ram ELSE [ram EXCEPT ![p] = nc.chip[c][k].reg]
     /\ image' = IF programs
                 THEN [image EXCEPT ![ImgPage(c, k, nc.chip[c][k].addr)] = ram[p]]
                 ELSE image
     /\ file' = IF shm THEN file ELSE image'
     /\ nc' = ProcessRoom(RunDma(s3), c)
     /\ UNCHANGED <<fw, free_rops, free_pops, shm, n>>

\* The event scheduled for the chip comes; its delay is not modelled.
DelayOver(c, k) == nc.chip[c][k].events > 0

\* Mutant: the commands that waited for the chip are not looked at.
AfterOperation_sleeps(s, c) == s

AfterOperation(s, c) == ProcessRoom(s, c)

\* operation_complete_call_back.
OperationComplete(c, k) ==
  LET chip == nc.chip[c][k] IN
  /\ DelayOver(c, k)
  /\ nc' = AfterOperation(
       [nc EXCEPT !.chn[c].active = (@ - 1) % 256,
                  !.chip[c][k] = [chip EXCEPT !.events = chip.events - 1, !.busy = FALSE]], c)
  /\ UNCHANGED <<fw, free_rops, free_pops, image, file, shm, ram, n>>

----------------------------------------------------------------------------
Init ==
  /\ fw = [Idle EXCEPT !.pc = "off"]
  /\ free_rops = InitRops /\ free_pops = InitPops
  /\ nc \in [chn: {[c \in Channel |->
                     [new_cmd |-> NewCommand, room |-> <<>>, active |-> 0,
                      wait_dma |-> FALSE, read_dma |-> FALSE, write_dma |-> FALSE,
                      ram_ptr |-> None, dma_chip |-> None]]},
             chip: {[c \in Channel |-> [k \in Chip |->
                     [busy |-> FALSE, addr |-> 0, reg |-> Blank, pending |-> FALSE,
                      events |-> 0]]]},
             toggle: BOOLEAN,         \* never initialised
             current_chn: {None}]
  /\ file = [p \in ImgPages |-> Blank] /\ image = file
  /\ shm = FALSE
  /\ ram = [i \in Buf |-> Blank]
  /\ n = 0

Next ==
  \/ InitializeNandCtrl
  \/ \E kind \in Kinds, b \in Batches : BeginOp(kind, b)
  \/ EmptyOp
  \/ IssueRegister
  \/ PollChannel
  \/ ShutdownNand
  \/ DmaComplete
  \/ \E c \in Channel, k \in Chip : OperationComplete(c, k)

\* The CPU keeps running and the simulator delivers every event it has.
Fairness ==
  /\ WF_vars(EmptyOp) /\ WF_vars(IssueRegister) /\ WF_vars(PollChannel)
  /\ WF_vars(DmaComplete)
  /\ \A c \in Channel, k \in Chip : WF_vars(OperationComplete(c, k))

Spec == Init /\ [][Next]_vars /\ Fairness
----------------------------------------------------------------------------
(* Properties.                                                             *)

\* Registers, rings and counters keep their ranges: no index leaves its
\* pool, and a waiting room never holds more than the commands of one
\* operation, so that its 1024 entries cannot run out.
TypeOK ==
  /\ fw \in Firmware
  /\ free_rops \in Pool /\ free_pops \in Pool
  /\ nc \in [chn: [Channel -> NC_Channel], chip: [Channel -> [Chip -> NC_Chip]],
             toggle: BOOLEAN, current_chn: Channel \cup {None}]
  /\ \A c \in Channel : Len(nc.chn[c].room) <= 2 * MAX_PAGES
  /\ image \in [ImgPages -> Data] /\ file \in [ImgPages -> Data]
  /\ shm \in BOOLEAN
  /\ ram \in [Buf -> Data]
  /\ n \in 0 .. MaxOps

\* The chips of channel c a completion is scheduled for.
Scheduled(c) == {k \in Chip : nc.chip[c][k].events > 0}

\* The count the driver polls is exact: active_nand_ops of a channel is the
\* number of its scheduled completions, the DMA it waits for included, and a
\* chip is busy for as long as its one completion is scheduled. (If the
\* count were too small the status loop would end before the data is there;
\* too large and it would never end.)
ActiveExact ==
  \A c \in Channel :
    /\ nc.chn[c].active = Cardinality(Scheduled(c)) + (IF nc.chn[c].wait_dma THEN 1 ELSE 0)
    /\ \A k \in Chip : nc.chip[c][k].events = (IF nc.chip[c][k].busy THEN 1 ELSE 0)

\* A command never lies in the waiting room with nobody to wake it: write
\* processes the room only if it was empty, so whenever a command stays the
\* channel must be waiting for its DMA, or the chip in front for its event,
\* and a channel that waits for its DMA has it running or behind the other's.
NobodySleeps ==
  \A c \in Channel :
    /\ nc.chn[c].room # <<>> => Blocked(nc, c)
    /\ nc.chn[c].wait_dma => DmaRunning

\* The pool of read operations never hands out one object twice: between
\* head and tail it holds each object that is not in use once, and no
\* address 0. (Compare InitPops.)
ReadPoolExact ==
  LET used == IF fw.kind = "READ" THEN 1 ELSE 0
      free == [i \in 0 .. MAX_OPS - 1 - used |-> free_rops.objs[(free_rops.head + i) % MAX_OPS]]
  IN /\ Range(free) = (1 .. MAX_OPS) \ (IF used = 1 THEN {fw.obj} ELSE {})
     /\ used = 1 => fw.obj # 0

\* Pages of the operation whose DMA is not over.
Todo ==
  {i \in DOMAIN fw.pages :
     \/ fw.k < Len(Script) * i
     \/ \E c \in Channel :
          \/ nc.chn[c].ram_ptr = i
          \/ \E j \in DOMAIN nc.chn[c].room : nc.chn[c].room[j].ram_ptr = i}

Ops == INSTANCE NandOps WITH
         flash <- [p \in Ppa |-> (IF fw.pc = "off" THEN file ELSE image)
                                    [ImgPage(p.chn, p.chip, AddressCycle(p))]],
         buf <- ram, kind <- fw.kind, pages <- fw.pages, todo <- Todo

\* A call of the NAND I/O layer moves exactly the pages it was given, each
\* once, and returns after all of them were moved, whatever the order in
\* which chips and DMA engine finish, and what was programmed is still there
\* after a shutdown and a new start.
ImplementsOps == Ops!OpSpec

\* Every operation returns.
OpsEnd == fw.kind # NoOp ~> fw.kind = NoOp
=============================================================================
