--------------------------- MODULE HostInterface ---------------------------
(***************************************************************************)
(* The road between the firmware and the host. Five processes:             *)
(*   - the guest: writes commands, rings doorbells, takes interrupts;      *)
(*   - QEMU's thread ssd_msg_check_thread (s4sim-qemu-host.patch), which   *)
(*     serves the messages of the SSD;                                     *)
(*   - the gem5 device (iSSDHostInterface.cc), which puts messages into    *)
(*     the shared memory of host_ssd_interface.h and moves data;           *)
(*   - the firmware's host DMA thread (host_dma.c), which gives the device *)
(*     one piece at a time and waits;                                      *)
(*   - the NVMe driver's thread (nvme_driver.c): start-up, doorbells,      *)
(*     fetching a command, decoding its PRPs, moving data, completing it.  *)
(*                                                                         *)
(* A memory cell is the size of a PRP entry; a submission or completion    *)
(* entry takes one cell.                                                   *)
(***************************************************************************)
EXTENDS Integers, Sequences, FiniteSets

CONSTANTS
  PAGE,        \* hostMemPageSize in cells, which is maxPrpEntries too
  MSG_SIZE,    \* SSDMsgQueueSize (1024)
  DB_SIZE,     \* dbUpdateQueueSize (2^22)
  SQ_SIZE,     \* entries of the submission queue, and of the completion queue
  SQ_BASE, CQ_BASE,  \* their place in host memory
  HostMem,     \* what the guest's memory holds at first, PRP lists included
  BUF_SIZE,    \* cells of the page buffer
  Cmds,        \* commands: [op, prp1, prp2, size, pages]; pages: see AddrOf
  MaxCmds      \* bound: commands the guest sends

ASSUME SizeAssumption ==
  /\ PAGE \in Nat /\ PAGE >= 2 /\ BUF_SIZE \in Nat /\ MaxCmds \in Nat
  /\ SQ_SIZE \in Nat /\ SQ_SIZE >= 2
  /\ SQ_BASE \in Nat \ {0} /\ CQ_BASE \in Nat \ {0}
\* decode_prp returns at once, with the entries of an earlier command, when
\* prp1 is 0; a guest's driver does not send that.
ASSUME CommandAssumption ==
  \A i \in DOMAIN Cmds : Cmds[i].op \in {"READ", "WRITE"} => Cmds[i].prp1 # 0
\* Room for a doorbell of every command and one of every completion; an MSI-X
\* message is not waited for, so that one more message may lie behind it.
ASSUME QueueAssumption ==
  /\ DB_SIZE \in Nat /\ DB_SIZE - 1 >= 2 * (SQ_SIZE - 1)
  /\ MSG_SIZE \in Nat /\ MSG_SIZE >= 3

\* SSD memory: the fetched command, the completion, prp_list, page buffer.
SCMD == 1
CCMD == 2
PRP_LIST == 3
BUFFER == 3 + PAGE
SAddr == 1 .. BUFFER + BUF_SIZE - 1

VARIABLES
  guest,    \* the guest's driver
  hmem,     \* its memory
  irq,      \* interrupt raised and not taken
  vectors,  \* MSI-X vectors in use
  qemu,     \* QEMU's thread
  shm,      \* the shared memory
  dev,      \* the gem5 device
  dma,      \* the host DMA thread and its queue
  nvme,     \* the NVMe driver's thread
  smem      \* SSD memory

vars == <<guest, hmem, irq, vectors, qemu, shm, dev, dma, nvme, smem>>

Min2(a, b) == IF a < b THEN a ELSE b
Copied(dst, d, src, s, len) ==
  [a \in DOMAIN dst |-> IF a \in d .. d + len - 1 THEN src[s + a - d] ELSE dst[a]]

ToSsd == {"DMA_READ", "SQ_READ"}
ToHost == {"DMA_WRITE", "CQ_WRITE"}
NoMsg == [cmd |-> "none", ready |-> FALSE, h |-> 0, s |-> 0, len |-> 0]

----------------------------------------------------------------------------
(* Doorbells: the ring db_queue, written by the guest's MMIO writes.       *)

DbFull == shm.db_head = (shm.db_tail + 1) % DB_SIZE

\* Guest: a command is put in the submission queue, its doorbell rung:
\* enQueueDBUpdate fills the entry ...
GuestSubmit ==
  /\ guest.pc = "run" /\ guest.sent < MaxCmds /\ guest.sent - guest.seen < SQ_SIZE - 1
  /\ \E c \in DOMAIN Cmds :
       /\ hmem' = [hmem EXCEPT ![SQ_BASE + (guest.sent % SQ_SIZE)] = c]
       /\ guest' = [guest EXCEPT !.pc = "ring", !.sent = @ + 1, !.next = "SQ"]
  /\ UNCHANGED <<irq, vectors, qemu, shm, dev, dma, nvme, smem>>

GuestRing ==
  /\ guest.pc = "ring"
  /\ IF DbFull
     THEN guest' = [guest EXCEPT !.pc = "run"] /\ UNCHANGED shm    \* lost
     ELSE /\ shm' = [shm EXCEPT !.db[shm.db_tail] = guest.next]
          /\ guest' = [guest EXCEPT !.pc = "tail"]
  /\ UNCHANGED <<hmem, irq, vectors, qemu, dev, dma, nvme, smem>>

\* ... and then advances the tail.
GuestTail ==
  /\ guest.pc = "tail"
  /\ shm' = [shm EXCEPT !.db_tail = (@ + 1) % DB_SIZE]
  /\ guest' = [guest EXCEPT !.pc = "run"]
  /\ UNCHANGED <<hmem, irq, vectors, qemu, dev, dma, nvme, smem>>

\* The interrupt handler takes the completions there are and rings the
\* completion doorbell.
GuestIrq ==
  LET new(k) == \A i \in guest.seen + 1 .. k : hmem[CQ_BASE + ((i - 1) % SQ_SIZE)] = i
      upto == CHOOSE k \in guest.seen .. guest.sent :
                new(k) /\ \A j \in k + 1 .. guest.sent : ~new(j)
  IN /\ guest.pc = "run" /\ irq
     /\ irq' = FALSE
     /\ guest' = IF upto = guest.seen THEN guest
                 ELSE [guest EXCEPT !.seen = upto, !.pc = "ring", !.next = "CQ"]
     /\ UNCHANGED <<hmem, vectors, qemu, shm, dev, dma, nvme, smem>>

\* The guest's driver starts: it enables the controller it can read the
\* capabilities of, and waits until it is ready.
GuestEnable ==
  /\ guest.pc = "boot" /\ shm.status = 200 /\ shm.cap
  /\ shm' = [shm EXCEPT !.en = TRUE]
  /\ guest' = [guest EXCEPT !.pc = "enabled"]
  /\ UNCHANGED <<hmem, irq, vectors, qemu, dev, dma, nvme, smem>>

GuestReady ==
  /\ guest.pc = "enabled" /\ shm.rdy
  /\ guest' = [guest EXCEPT !.pc = "run"]
  /\ UNCHANGED <<hmem, irq, vectors, qemu, shm, dev, dma, nvme, smem>>

----------------------------------------------------------------------------
(* QEMU.                                                                   *)

Msg == shm.msg[qemu.slot]

\* setup_shared_memory: a host attaches to memory the SSD has prepared.
QemuAttach ==
  /\ qemu.pc = "off" /\ shm.status = 100
  /\ shm' = [shm EXCEPT !.status = 200]
  /\ qemu' = [qemu EXCEPT !.pc = "idle"]
  /\ UNCHANGED <<guest, hmem, irq, vectors, dev, dma, nvme, smem>>

\* deQueueSSDMsg: the head moves on, the entry is read later.
QemuDequeue ==
  /\ qemu.pc = "idle" /\ shm.msg_head # shm.msg_tail
  /\ qemu' = [pc |-> "got", slot |-> shm.msg_head]
  /\ shm' = [shm EXCEPT !.msg_head = (@ + 1) % MSG_SIZE]
  /\ UNCHANGED <<guest, hmem, irq, vectors, dev, dma, nvme, smem>>

\* Host memory is read into the page register ...
QemuRead ==
  /\ qemu.pc = "got" /\ Msg.ready /\ Msg.cmd \in ToSsd
  /\ shm' = [shm EXCEPT !.data = [i \in 1 .. Msg.len |-> hmem[Msg.h + i - 1]]]
  /\ qemu' = [qemu EXCEPT !.pc = "read"]
  /\ UNCHANGED <<guest, hmem, irq, vectors, dev, dma, nvme, smem>>

\* ... and the register marked ready.
QemuReadDone ==
  /\ qemu.pc = "read"
  /\ shm' = [shm EXCEPT !.data_status = "ready"]
  /\ qemu' = [qemu EXCEPT !.pc = "idle"]
  /\ UNCHANGED <<guest, hmem, irq, vectors, dev, dma, nvme, smem>>

\* Mutant: the host does not wait for data_status_ready.
MayWrite_early == TRUE

\* The host waits for the data of a write.
MayWrite == shm.data_status = "ready"

QemuWrite ==
  /\ qemu.pc = "got" /\ Msg.ready /\ Msg.cmd \in ToHost /\ MayWrite
  /\ hmem' = [a \in DOMAIN hmem |->
                IF a \in Msg.h .. Msg.h + Msg.len - 1 /\ a - Msg.h + 1 \in DOMAIN shm.data
                THEN shm.data[a - Msg.h + 1] ELSE hmem[a]]
  /\ qemu' = [qemu EXCEPT !.pc = "written"]
  /\ UNCHANGED <<guest, irq, vectors, shm, dev, dma, nvme, smem>>

QemuUsed ==
  /\ qemu.pc = "written"
  /\ shm' = [shm EXCEPT !.data_status = "used"]
  /\ qemu' = [qemu EXCEPT !.pc = IF Msg.cmd = "CQ_WRITE" THEN "notify" ELSE "idle"]
  /\ UNCHANGED <<guest, hmem, irq, vectors, dev, dma, nvme, smem>>

\* msix_notify, after the SSD was told that the page is used; vector 0.
QemuNotify ==
  /\ qemu.pc = "notify"
  /\ irq' = (irq \/ 0 \in vectors)
  /\ qemu' = [qemu EXCEPT !.pc = "idle"]
  /\ UNCHANGED <<guest, hmem, vectors, shm, dev, dma, nvme, smem>>

\* msix_vector_use
QemuMsix ==
  /\ qemu.pc = "got" /\ Msg.ready /\ Msg.cmd = "MSIX"
  /\ vectors' = vectors \cup {Msg.h}
  /\ qemu' = [qemu EXCEPT !.pc = "idle"]
  /\ UNCHANGED <<guest, hmem, irq, shm, dev, dma, nvme, smem>>

----------------------------------------------------------------------------
(* The gem5 device. A register write of the firmware runs to its end; the  *)
(* host sees its writes to shared memory one by one.                       *)

\* The firmware wrote the command registers r.
Issue(r) == dev' = [dev EXCEPT !.pc = "slot", !.reg = r]

\* Mutant: one more slot is kept free.
MsgFull_early == shm.msg_head = (shm.msg_tail + 2) % MSG_SIZE

MsgFull == shm.msg_head = (shm.msg_tail + 1) % MSG_SIZE

\* enQueuePageRegister gives the first page always; enQueueSSDMsg takes a
\* slot. A full queue is a panic.
DevSlot ==
  /\ dev.pc = "slot"
  /\ IF MsgFull
     THEN dev' = [dev EXCEPT !.pc = "panic"] /\ UNCHANGED shm
     ELSE /\ shm' = [shm EXCEPT
               !.data_status = IF dev.reg.cmd = "MSIX" THEN @ ELSE "free",
               !.msg[shm.msg_tail] = [@ EXCEPT !.cmd = dev.reg.cmd, !.ready = FALSE]]
          /\ dev' = [dev EXCEPT !.pc = "tail", !.slot = shm.msg_tail]
  /\ UNCHANGED <<guest, hmem, irq, vectors, qemu, dma, nvme, smem>>

DevTail ==
  /\ dev.pc = "tail"
  /\ shm' = [shm EXCEPT !.msg_tail = (@ + 1) % MSG_SIZE]
  /\ dev' = [dev EXCEPT !.pc = "fill"]
  /\ UNCHANGED <<guest, hmem, irq, vectors, qemu, dma, nvme, smem>>

DevFill ==
  /\ dev.pc = "fill"
  /\ shm' = [shm EXCEPT !.msg[dev.slot] = [@ EXCEPT !.h = dev.reg.h, !.s = dev.reg.s, !.len = dev.reg.len]]
  /\ dev' = [dev EXCEPT !.pc = "ready"]
  /\ UNCHANGED <<guest, hmem, irq, vectors, qemu, dma, nvme, smem>>

\* The message is marked ready, the next event scheduled. dmaRead of a write
\* starts now.
DevReady ==
  /\ dev.pc = "ready"
  /\ shm' = [shm EXCEPT !.msg[dev.slot].ready = TRUE]
  /\ dev' = [dev EXCEPT !.pc = "free",
       !.status = IF dev.reg.cmd = "MSIX" THEN "COMPLETE" ELSE "PROCESSING",
       !.event = CASE dev.reg.cmd = "MSIX" -> "none"
                   [] dev.reg.cmd \in ToSsd -> "read_host_complete"
                   [] dev.reg.cmd \in ToHost -> "dmaRead"]
  /\ UNCHANGED <<guest, hmem, irq, vectors, qemu, dma, nvme, smem>>

\* read_host_complete spins until the page is ready, dmaWrite moves it to
\* SSD memory.
ReadHostComplete ==
  LET m == shm.msg[dev.slot] IN
  /\ dev.event = "read_host_complete" /\ shm.data_status = "ready"
  /\ smem' = Copied(smem, m.s, shm.data, 1, m.len)
  /\ dev' = [dev EXCEPT !.event = "write_ssd_complete"]
  /\ UNCHANGED <<guest, hmem, irq, vectors, qemu, shm, dma, nvme>>

WriteSsdComplete ==
  /\ dev.event = "write_ssd_complete"
  /\ shm' = [shm EXCEPT !.data_status = "used"]
  /\ dev' = [dev EXCEPT !.event = "none", !.status = "COMPLETE"]
  /\ UNCHANGED <<guest, hmem, irq, vectors, qemu, dma, nvme, smem>>

\* dmaRead fills the page register ...
DmaRead ==
  LET m == shm.msg[dev.slot] IN
  /\ dev.event = "dmaRead"
  /\ shm' = [shm EXCEPT !.data = [i \in 1 .. m.len |-> smem[m.s + i - 1]]]
  /\ dev' = [dev EXCEPT !.event = "read_ssd_complete"]
  /\ UNCHANGED <<guest, hmem, irq, vectors, qemu, dma, nvme, smem>>

\* ... and read_ssd_complete marks it ready.
ReadSsdComplete ==
  /\ dev.event = "read_ssd_complete"
  /\ shm' = [shm EXCEPT !.data_status = "ready"]
  /\ dev' = [dev EXCEPT !.event = "write_host_complete"]
  /\ UNCHANGED <<guest, hmem, irq, vectors, qemu, dma, nvme, smem>>

\* write_host_complete spins until the host has used the page.
WriteHostComplete ==
  /\ dev.event = "write_host_complete" /\ shm.data_status = "used"
  /\ dev' = [dev EXCEPT !.event = "none", !.status = "COMPLETE"]
  /\ UNCHANGED <<guest, hmem, irq, vectors, qemu, shm, dma, nvme, smem>>

----------------------------------------------------------------------------
(* The host DMA thread.                                                    *)

\* sync_read_scmd, sync_post_ccmd, sync_host_dma: post to SYNC_DMA_Q and
\* wait for the flag.
SyncDma(cmd, list, s) ==
  dma' = [dma EXCEPT !.q = Append(@, [cmd |-> cmd, list |-> list, s |-> s]), !.complete = FALSE]

\* sync_dma_cbk
DmaTake ==
  /\ dma.pc = "idle" /\ dma.q # <<>>
  /\ dma' = [dma EXCEPT !.pc = "piece", !.q = Tail(@), !.op = Head(dma.q)]
  /\ UNCHANGED <<guest, hmem, irq, vectors, qemu, shm, dev, nvme, smem>>

\* One piece: the registers are set, the command is issued.
DmaPiece ==
  /\ dma.pc = "piece" /\ dma.op.list # <<>> /\ dev.pc = "free"
  /\ Issue([cmd |-> dma.op.cmd, h |-> Head(dma.op.list).h, s |-> dma.op.s,
            len |-> Head(dma.op.list).len])
  /\ dma' = [dma EXCEPT !.pc = "wait"]
  /\ UNCHANGED <<guest, hmem, irq, vectors, qemu, shm, nvme, smem>>

\* cmdStatus is COMPLETE: on to the next piece.
DmaWaited ==
  /\ dma.pc = "wait" /\ dev.pc = "free" /\ dev.status = "COMPLETE"
  /\ dma' = [dma EXCEPT !.pc = "piece", !.op = [@ EXCEPT !.list = Tail(@), !.s = @ + Head(dma.op.list).len]]
  /\ UNCHANGED <<guest, hmem, irq, vectors, qemu, shm, dev, nvme, smem>>

DmaComplete ==
  /\ dma.pc = "piece" /\ dma.op.list = <<>>
  /\ dma' = [dma EXCEPT !.pc = "idle", !.complete = TRUE]
  /\ UNCHANGED <<guest, hmem, irq, vectors, qemu, shm, dev, nvme, smem>>

----------------------------------------------------------------------------
(* The NVMe driver's thread.                                               *)

At(l) == nvme.pc = l /\ dev.pc = "free"
Goto(l) == nvme' = [nvme EXCEPT !.pc = l]

\* initialize_nvme: INIT clears the shared memory (connect_shared_memory) ...
InitShm ==
  /\ At("init")
  /\ shm' = [shm EXCEPT !.status = 100, !.cap = FALSE, !.en = FALSE, !.rdy = FALSE,
                        !.db_head = 0, !.db_tail = 0, !.msg_head = 0, !.msg_tail = 0]
  /\ dev' = [dev EXCEPT !.status = "INITCOMPLETE"]
  /\ Goto("connect")
  /\ UNCHANGED <<guest, hmem, irq, vectors, qemu, dma, smem>>

\* ... the host attaches, CC is zeroed ...
Connect ==
  /\ At("connect") /\ shm.status = 200
  /\ dev' = [dev EXCEPT !.status = "HOST_ATTACHED"]
  /\ shm' = [shm EXCEPT !.en = FALSE, !.rdy = FALSE]
  /\ Goto("caps")
  /\ UNCHANGED <<guest, hmem, irq, vectors, qemu, dma, smem>>

\* ... CAP is set ...
SetCaps ==
  /\ At("caps")
  /\ shm' = [shm EXCEPT !.cap = TRUE]
  /\ Goto("enable")
  /\ UNCHANGED <<guest, hmem, irq, vectors, qemu, dev, dma, smem>>

\* ... the driver enables the controller; vector 0 is registered ...
Enabled ==
  /\ At("enable") /\ shm.en
  /\ Issue([cmd |-> "MSIX", h |-> 0, s |-> 0, len |-> 0])
  /\ Goto("ready")
  /\ UNCHANGED <<guest, hmem, irq, vectors, qemu, shm, dma, smem>>

\* ... and CSTS.RDY set.
SetReady ==
  /\ At("ready")
  /\ shm' = [shm EXCEPT !.rdy = TRUE]
  /\ Goto("poll")
  /\ UNCHANGED <<guest, hmem, irq, vectors, qemu, dev, dma, smem>>

\* Mutant: the entry at the new head is read.
DbEntry_next(h) == (h + 1) % DB_SIZE

\* The entry deQueueDBUpdate returns.
DbEntry(h) == h

\* check_door_bell reads the dbUpdate register: deQueueDBUpdate ...
PollDoorbell ==
  /\ At("poll")
  /\ IF shm.db_head = shm.db_tail
     THEN UNCHANGED <<shm, nvme>>
     ELSE /\ shm' = [shm EXCEPT !.db_head = (@ + 1) % DB_SIZE]
          /\ nvme' = [nvme EXCEPT !.pc = "doorbell", !.slot = DbEntry(shm.db_head)]
  /\ UNCHANGED <<guest, hmem, irq, vectors, qemu, dev, dma, smem>>

\* ... and then the entry it returned. A submission doorbell: the command is
\* fetched. (What a completion doorbell does is in NvmeIo and NvmeAdmin.)
Doorbell ==
  /\ At("doorbell")
  /\ IF shm.db[nvme.slot] = "SQ"
     THEN /\ SyncDma("SQ_READ", <<[h |-> SQ_BASE + nvme.head, len |-> 1]>>, SCMD)
          /\ Goto("fetch")
     ELSE Goto("poll") /\ UNCHANGED dma
  /\ UNCHANGED <<guest, hmem, irq, vectors, qemu, shm, dev, smem>>

\* The command is there, the head moves on.
Fetched ==
  /\ At("fetch") /\ dma.complete
  /\ nvme' = [nvme EXCEPT !.c = smem[SCMD], !.head = (@ + 1) % SQ_SIZE, !.n = @ + 1,
                          !.pc = IF Cmds[smem[SCMD]].op = "CREATE_CQ" THEN "create_cq" ELSE "prp1"]
  /\ UNCHANGED <<guest, hmem, irq, vectors, qemu, shm, dev, dma, smem>>

\* nvme_create_cq registers the queue's vector.
CreateCq ==
  /\ At("create_cq")
  /\ Issue([cmd |-> "MSIX", h |-> 1, s |-> 0, len |-> 0])
  /\ Goto("post")
  /\ UNCHANGED <<guest, hmem, irq, vectors, qemu, shm, dma, smem>>

Cmd == Cmds[nvme.c]
BadPrp(e) == e = 0 \/ e % PAGE # 0
Entries(len) == Min2(PAGE, ((len + PAGE - 1) \div PAGE))

\* Mutant: the first piece is a page long, whatever its offset.
FirstLen_page(c) == Min2(c.size, PAGE)

FirstLen(c) == Min2(c.size, PAGE - (c.prp1 % PAGE))

\* decode_prp: the first page, and prp2 as the second page or as the first
\* PRP list, which is fetched by get_prp_page.
DecodePrp ==
  LET rest == Cmd.size - FirstLen(Cmd)
      first == <<[h |-> Cmd.prp1, len |-> FirstLen(Cmd)]>>
  IN /\ At("prp1")
     /\ \/ /\ rest > PAGE /\ Cmd.prp2 # 0
           /\ nvme' = [nvme EXCEPT !.pc = "get_prp", !.list = first, !.len = rest, !.i = 0]
           /\ SyncDma("DMA_READ", <<[h |-> Cmd.prp2, len |-> Entries(rest)]>>, PRP_LIST)
        \/ /\ rest <= PAGE \/ Cmd.prp2 = 0
           /\ nvme' = [nvme EXCEPT !.pc = "data",
                !.list = IF rest = 0 \/ BadPrp(Cmd.prp2) THEN first
                         ELSE Append(first, [h |-> Cmd.prp2, len |-> rest])]
           /\ UNCHANGED dma
     /\ UNCHANGED <<guest, hmem, irq, vectors, qemu, shm, dev, smem>>

\* The last entry of a list page points to the next one if more pages follow.
Chained == nvme.i = PAGE - 1 /\ nvme.len > PAGE

\* One turn of the loop over the entries.
DecodeEntry ==
  LET e == smem[PRP_LIST + nvme.i]
      t == Min2(nvme.len, PAGE)
  IN /\ At("get_prp") /\ dma.complete
     /\ \/ /\ BadPrp(e)
           /\ Goto("data") /\ UNCHANGED dma
        \/ /\ ~BadPrp(e) /\ Chained
           /\ nvme' = [nvme EXCEPT !.i = 0]
           /\ SyncDma("DMA_READ", <<[h |-> e, len |-> Entries(nvme.len)]>>, PRP_LIST)
        \/ /\ ~BadPrp(e) /\ ~Chained
           /\ nvme' = [nvme EXCEPT !.i = @ + 1, !.len = @ - t,
                                   !.list = Append(@, [h |-> e, len |-> t]),
                                   !.pc = IF nvme.len = t THEN "data" ELSE "get_prp"]
           /\ UNCHANGED dma
     /\ UNCHANGED <<guest, hmem, irq, vectors, qemu, shm, dev, smem>>

\* Content of cell i of the pages command n reads.
Token(n, i) == 1000 * n + i

\* The data: a write command reads host memory; for a read command the pages
\* were read from flash.
StartData ==
  /\ At("data")
  /\ IF Cmd.op = "WRITE"
     THEN SyncDma("DMA_READ", nvme.list, BUFFER) /\ UNCHANGED smem
     ELSE /\ smem' = [a \in SAddr |-> IF a >= BUFFER THEN Token(nvme.n, a - BUFFER) ELSE smem[a]]
          /\ SyncDma("DMA_WRITE", nvme.list, BUFFER)
  /\ Goto("moving")
  /\ UNCHANGED <<guest, hmem, irq, vectors, qemu, shm, dev>>

DataMoved ==
  /\ At("moving") /\ dma.complete
  /\ Goto("post")
  /\ UNCHANGED <<guest, hmem, irq, vectors, qemu, shm, dev, dma, smem>>

\* The completion entry is written to the queue in host memory.
PostCcmd ==
  /\ At("post")
  /\ smem' = [smem EXCEPT ![CCMD] = nvme.n]
  /\ SyncDma("CQ_WRITE", <<[h |-> CQ_BASE + ((nvme.n - 1) % SQ_SIZE), len |-> 1]>>, CCMD)
  /\ Goto("posting")
  /\ UNCHANGED <<guest, hmem, irq, vectors, qemu, shm, dev>>

Posted ==
  /\ At("posting") /\ dma.complete
  /\ nvme' = [nvme EXCEPT !.pc = "poll", !.list = <<>>, !.len = 0, !.i = 0, !.c = 0]
  /\ UNCHANGED <<guest, hmem, irq, vectors, qemu, shm, dev, dma, smem>>

----------------------------------------------------------------------------
Init ==
  /\ guest = [pc |-> "boot", sent |-> 0, seen |-> 0, next |-> "SQ"]
  /\ hmem = HostMem
  /\ irq = FALSE /\ vectors = {}
  /\ qemu = [pc |-> "off", slot |-> 0]
  /\ shm = [status |-> 0, cap |-> FALSE, en |-> FALSE, rdy |-> FALSE,
            db |-> [i \in 0 .. DB_SIZE - 1 |-> "none"], db_head |-> 0, db_tail |-> 0,
            msg |-> [i \in 0 .. MSG_SIZE - 1 |-> NoMsg], msg_head |-> 0, msg_tail |-> 0,
            data_status |-> "free", data |-> <<>>]
  /\ dev = [pc |-> "free", event |-> "none", status |-> "none", slot |-> 0,
            reg |-> [cmd |-> "none", h |-> 0, s |-> 0, len |-> 0]]
  /\ dma = [pc |-> "idle", q |-> <<>>, op |-> [cmd |-> "none", list |-> <<>>, s |-> 0],
            complete |-> FALSE]
  /\ nvme = [pc |-> "init", slot |-> 0, head |-> 0, n |-> 0, c |-> 0, list |-> <<>>, len |-> 0, i |-> 0]
  /\ smem = [a \in SAddr |-> 0]

GuestStep == GuestSubmit \/ GuestRing \/ GuestTail \/ GuestIrq \/ GuestEnable \/ GuestReady
QemuStep ==
  \/ QemuAttach \/ QemuDequeue \/ QemuRead \/ QemuReadDone \/ QemuWrite \/ QemuUsed
  \/ QemuNotify \/ QemuMsix
DevStep ==
  \/ DevSlot \/ DevTail \/ DevFill \/ DevReady
  \/ ReadHostComplete \/ WriteSsdComplete \/ DmaRead \/ ReadSsdComplete \/ WriteHostComplete
DmaStep == DmaTake \/ DmaPiece \/ DmaWaited \/ DmaComplete
NvmeStep ==
  \/ InitShm \/ Connect \/ SetCaps \/ Enabled \/ SetReady \/ PollDoorbell \/ Doorbell
  \/ Fetched \/ CreateCq \/ DecodePrp \/ DecodeEntry \/ StartData \/ DataMoved
  \/ PostCcmd \/ Posted
Next == GuestStep \/ QemuStep \/ DevStep \/ DmaStep \/ NvmeStep

\* Threads of the host, the simulator's event loop and the CPUs it simulates
\* go on; a guest that has rung nothing need not send another command.
Fairness ==
  /\ WF_vars(GuestRing \/ GuestTail \/ GuestEnable \/ GuestReady)
  /\ SF_vars(GuestIrq)
  /\ WF_vars(QemuStep) /\ WF_vars(DevStep) /\ WF_vars(DmaStep) /\ WF_vars(NvmeStep)

Spec == Init /\ [][Next]_vars /\ Fairness

----------------------------------------------------------------------------
(* Properties.                                                             *)

Piece == [h: DOMAIN HostMem, len: 1 .. PAGE]
DmaCmd == ToSsd \cup ToHost

\* Every variable has its type; the device has not panicked on a full queue.
TypeOK ==
  /\ guest \in [pc: {"boot", "enabled", "run", "ring", "tail"},
                sent: 0 .. MaxCmds, seen: 0 .. MaxCmds, next: {"SQ", "CQ"}]
  /\ DOMAIN hmem = DOMAIN HostMem /\ \A a \in DOMAIN hmem : hmem[a] \in Nat
  /\ irq \in BOOLEAN /\ vectors \subseteq {0, 1}
  /\ qemu \in [pc: {"off", "idle", "got", "read", "written", "notify"}, slot: 0 .. MSG_SIZE - 1]
  /\ shm.status \in {0, 100, 200}
  /\ {shm.db_head, shm.db_tail} \subseteq 0 .. DB_SIZE - 1
  /\ {shm.msg_head, shm.msg_tail} \subseteq 0 .. MSG_SIZE - 1
  /\ shm.data \in Seq(Nat) /\ shm.data_status \in {"free", "ready", "used"}
  /\ dev.pc \in {"free", "slot", "tail", "fill", "ready"}
  /\ dma.pc \in {"idle", "piece", "wait"} /\ Len(dma.q) <= 1
  /\ dma.op.list \in Seq(Piece) /\ nvme.list \in Seq(Piece)
  /\ smem \in [SAddr -> Nat]

\* Where the guest has cell i of the buffer of command c.
AddrOf(c, i) ==
  LET pos == (c.prp1 % PAGE) + i IN c.pages[(pos \div PAGE) + 1] + (pos % PAGE)

\* When a command is completed its data has been moved: cell by cell between
\* the page buffer and the pages the guest listed, whatever the offset of
\* the first page and however the PRP lists are chained. (Commands with
\* broken PRPs have no pages: they move what was decoded.)
TransferExact ==
  nvme.pc = "post" /\ Cmd.op \in {"READ", "WRITE"} /\ Cmd.pages # <<>> =>
    \A i \in 0 .. Cmd.size - 1 :
      /\ hmem[AddrOf(Cmd, i)] = smem[BUFFER + i]
      /\ Cmd.op = "READ" => smem[BUFFER + i] = Token(nvme.n, i)

Busy == dev.reg.cmd \in DmaCmd /\ (dev.pc # "free" \/ dev.event # "none")
Moved ==
  \/ dev.event = "write_ssd_complete"
  \/ /\ dev.event = "write_host_complete"
     /\ qemu.pc = "written" \/ shm.data_status = "used"
Dma == INSTANCE HostDma WITH
         op <- IF Busy THEN [cmd |-> dev.reg.cmd, h |-> dev.reg.h, s |-> dev.reg.s,
                             len |-> dev.reg.len, moved |-> Moved]
               ELSE [cmd |-> "none"]

\* Seen from the firmware a command of the host interface is an atomic copy
\* of exactly the cells named: the messages, made visible field by field and
\* reused slot by slot, and the one page register both sides share, never
\* show the host a command half written or a page of the last one.
ImplementsDma == Dma!DmaSpec

\* Every command the guest rings for is completed and the guest learns of
\* it: no doorbell, message or interrupt is lost, and the two sides never
\* wait for each other.
CommandsEnd == \A n \in 1 .. MaxCmds : guest.sent >= n ~> guest.seen >= n
=============================================================================
