-------------------------------- MODULE Isp --------------------------------
(***************************************************************************)
(* In-storage processing (isp.c): the host starts a function of an applet  *)
(* with an execute command, then keeps a control command at the SSD; the   *)
(* answer to it tells the host to move data (a data transfer command       *)
(* follows), to send the next control command, or that the function has    *)
(* ended. The function runs on a CPU of its own; the commands, the         *)
(* callbacks recycle_control_command and msg_cbk run on the NVMe driver's  *)
(* CPU, one at a time, and the FTL on a third.                             *)
(*                                                                         *)
(* Request objects come from the pool of issd_kernel_mem_alloc.c that the  *)
(* I/O, DMA and flash requests of this module share.                       *)
(***************************************************************************)
EXTENDS Integers, Sequences, FiniteSets

CONSTANTS
  QUEUE_SIZE,     \* PENDING_DMA_QUEUE_SIZE (8)
  O_SIZE,         \* entries of free_req_objs (128)
  MAX_TX_SIZE,    \* bytes of one transfer
  PAGE_SIZE,      \* hostMemPageSize
  BUFFER_SIZE,    \* bytes of nand_op_buffer
  Applets,        \* functions: sequences of calls [fn, page, size]
  HostSlow,       \* timing hypothesis: see HostExecute
  MaxExec         \* bound: execute commands in a behaviour

\* execute_command does not take the objects it has just freed: 128 objects
\* against 8.
ASSUME QueueAssumption ==
  /\ QUEUE_SIZE \in Nat /\ QUEUE_SIZE >= 2
  /\ O_SIZE \in Nat /\ O_SIZE >= 2 * QUEUE_SIZE + 3
ASSUME SizeAssumption ==
  /\ PAGE_SIZE \in Nat \ {0} /\ MAX_TX_SIZE \in Nat \ {0} /\ MAX_TX_SIZE % PAGE_SIZE = 0
  /\ BUFFER_SIZE \in Nat /\ MaxExec \in Nat /\ HostSlow \in BOOLEAN
Fns == {"READ_HOST", "WRITE_HOST", "FLASH", "ALLOC"}
ASSUME AppletAssumption ==
  \A a \in Applets : a \in Seq([fn: Fns, page: Nat, size: Nat])

\* Objects of the pool; the ring of O_SIZE entries holds one less. 0 is NULL.
Object == 1 .. O_SIZE - 1
NULL == 0

VARIABLES
  host,       \* [pc, code]: what the host process does, and its last answer
  sqe,        \* the command at the SSD's door: "none", "EXEC", "CTRL", "TX"
  nvme,       \* what the handlers on the NVMe CPU keep in threads[0]
  isp,        \* the ISP thread: function it runs, and where
  obj,        \* the request objects
  free,       \* free_req_objs
  pending, cmplt,    \* pending_dma, cmplt_dma of threads[0]
  msg_in, msg_out,   \* message queues to and from the ISP thread
  ftl_q,      \* flash requests at the FTL
  exited,     \* function_exited
  ofs,        \* current_ofs
  execs       \* execute commands sent

ispVars == <<isp, pending, ofs>>
vars == <<host, sqe, nvme, ispVars, obj, free, cmplt, msg_in, msg_out, ftl_q, exited, execs>>

Stage == {"FREE", "INUSE", "INIT", "TX_ON", "CMPT", "NAND_INIT", "NAND_CMPT"}
ObjRecord == [
  stage: Stage,
  tx: {"READ_HOST", "WRITE_HOST", "none"}, page: Nat, addr: Nat, size: Nat,
  transfered: Nat,      \* transfered_size
  moved: BOOLEAN]       \* history: the bytes asked for have been moved
Unused == [stage |-> "FREE", tx |-> "none", page |-> 0, addr |-> 0,
           size |-> 0, transfered |-> 0, moved |-> FALSE]

\* Codes of an answer, and what the host reads in them.
DtxCode(o) == [msg |-> obj[o].tx, page |-> obj[o].page, size |-> obj[o].size]
Plain(m) == [msg |-> m, page |-> 0, size |-> 0]
Code == [msg: {"READ_HOST", "WRITE_HOST", "RECYCLE", "EXIT", "STARTED", "DONE", "none"},
         page: Nat, size: Nat]

Nvme == [pc: {"free", "transfer"},
         ctrl: Object \cup {NULL},      \* ctrl_cmd_req
         active: Object \cup {NULL},    \* active_dma_req[0]
         nand: Object \cup {NULL},      \* sync_nand_op_req
         recycles: Nat,                 \* recycle_control_command callbacks queued
         req: Object \cup {NULL},       \* transfer: its command, and what it moves
         page: Nat, addr: Nat, size: Nat]

IspThread == [pc: {"idle", "run", "posted", "wait", "nand", "exit"},
        fn: Seq([fn: Fns, page: Nat, size: Nat]),  \* calls still to be made
        done: Nat,                      \* bytes of the current call moved
        dma: Object \cup {NULL}]

----------------------------------------------------------------------------
(* Request objects.                                                        *)


\* setup_io_req: an object of the pool for a command, which is copied over
\* what the object last held, the code of a DMA request included.
SetupIoReq(o, objs) == [objs EXCEPT ![o] = [Unused EXCEPT !.stage = "INUSE"]]
SetFree(os, objs) ==
  [o \in Object |-> IF o \in os THEN [objs[o] EXCEPT !.stage = "FREE"] ELSE objs[o]]

\* Mutant: the object that does not fit the queue is not freed.
Refill_leaks(objs) ==
  [cmplt |-> SubSeq(objs, 1, QUEUE_SIZE - 1),
   free |-> SubSeq(objs, QUEUE_SIZE + 1, Len(objs))]

\* execute_command fills cmplt_dma: one object more is taken than fits, and
\* freed again.
Refill(objs) ==
  [cmplt |-> SubSeq(objs, 1, QUEUE_SIZE - 1),
   free |-> Append(SubSeq(objs, QUEUE_SIZE + 1, Len(objs)), objs[QUEUE_SIZE])]

----------------------------------------------------------------------------
(* The host. Its library is not part of the repository: it waits for the   *)
(* answer to each command, does what the answer says and asks again.       *)

\* A function has ended and its ISP_EXECUTION_EXIT is not yet handled.
Ending == isp.pc = "exit" \/ \E i \in DOMAIN msg_out : msg_out[i].type = "EXIT"

\* HostSlow is a hypothesis on time, which nothing in the code enforces: the
\* host's way from one function's end to the next execute command (its
\* interrupt, its library, the doorbell) is longer than the ISP thread's from
\* function_exited = true to the handling of the message it sends next.
HostExecute ==
  /\ host.pc = "idle" /\ execs < MaxExec
  /\ HostSlow => ~Ending
  /\ host' = [host EXCEPT !.pc = "sent"]
  /\ sqe' = "EXEC" /\ execs' = execs + 1
  /\ UNCHANGED <<nvme, ispVars, obj, free, cmplt, msg_in, msg_out, ftl_q, exited>>

HostAnswered ==
  /\ host.pc = "answered"
  /\ \/ host.code.msg = "EXIT" /\ host' = [host EXCEPT !.pc = "idle"] /\ UNCHANGED sqe
     \/ /\ host.code.msg \in {"READ_HOST", "WRITE_HOST"}
        /\ host' = [host EXCEPT !.pc = "sent"] /\ sqe' = "TX"
     \/ /\ host.code.msg \in {"STARTED", "DONE", "RECYCLE"}
        /\ host' = [host EXCEPT !.pc = "sent"] /\ sqe' = "CTRL"
  /\ UNCHANGED <<nvme, ispVars, obj, free, cmplt, msg_in, msg_out, ftl_q, exited, execs>>

\* enqueue_io_ccmd of request r: the host has its answer, the object is free.
Answer(r, code, os, fr) ==
  /\ host' = [pc |-> "answered", code |-> code]
  /\ obj' = SetFree({r}, os)
  /\ free' = Append(fr, r)

----------------------------------------------------------------------------
(* The NVMe driver's CPU.                                                  *)

NvmeFree == nvme.pc = "free"

\* A command of type c arrives; setup_io_req takes an object for it.
Arrives(c) == NvmeFree /\ sqe = c /\ sqe' = "none"

\* execute_command: objects of the last function go back to the pool, new
\* ones are taken, and the function is handed to the ISP thread, whether that
\* is free or not. (One step: a thread that is not could also take from and
\* add to cmplt_dma in the middle of it.)
ExecuteCommand ==
  LET r == Head(free)
      old == IF nvme.ctrl # NULL THEN <<nvme.ctrl>> ELSE <<>>
      refill == Refill(Tail(free) \o old \o cmplt)
      f == refill.free \o (IF nvme.nand # NULL THEN <<nvme.nand>> ELSE <<>>)
      gone == {old[i] : i \in DOMAIN old} \cup {cmplt[i] : i \in DOMAIN cmplt} \cup {nvme.nand}
      dma == {refill.cmplt[i] : i \in DOMAIN refill.cmplt}
      os == [o \in Object |->
               CASE o \in dma \cup {Head(f)} -> [obj[o] EXCEPT !.stage = "INUSE"]
                 [] o \in gone \ (dma \cup {Head(f)}) -> [obj[o] EXCEPT !.stage = "FREE"]
                 [] OTHER -> obj[o]]
  IN /\ Arrives("EXEC")
     /\ cmplt' = refill.cmplt
     /\ nvme' = [nvme EXCEPT !.ctrl = NULL, !.nand = Head(f)]
     /\ exited' = FALSE
     /\ msg_in' = Append(msg_in, "EXECUTE_FTN")
     /\ Answer(r, Plain("STARTED"), SetupIoReq(r, os), Tail(f))
     /\ UNCHANGED <<ispVars, msg_out, ftl_q, execs>>

\* post_dma_msg: request o becomes the active one, its code the answer to r.
PostDmaMsg(o, r, os, fr) == Answer(r, DtxCode(o), os, fr)

\* control_command: answered at once when the function has exited or data is
\* to be moved; else it stays, and a recycle_control_command is queued.
ControlCommand ==
  LET r == Head(free)
      os == SetupIoReq(r, obj)
  IN /\ Arrives("CTRL")
     /\ \/ /\ exited
           /\ Answer(r, Plain("EXIT"), os, Tail(free))
           /\ UNCHANGED <<nvme, pending>>
        \/ /\ ~exited /\ pending # <<>>
           /\ pending' = Tail(pending)
           /\ nvme' = [nvme EXCEPT !.active = Head(pending)]
           /\ PostDmaMsg(Head(pending), r, os, Tail(free))
        \/ /\ ~exited /\ pending = <<>>
           /\ nvme' = [nvme EXCEPT !.ctrl = r, !.recycles = @ + 1]
           /\ obj' = os /\ free' = Tail(free)
           /\ UNCHANGED <<host, pending>>
     /\ UNCHANGED <<isp, ofs, cmplt, msg_in, msg_out, ftl_q, exited, execs>>

\* Mutant: the test of function_exited is left out.
RecycleCode_ends == Plain("EXIT")

\* recycle_control_command with nothing pending: the end of the function, or
\* a request for another control command.
RecycleCode == Plain(IF exited THEN "EXIT" ELSE "RECYCLE")

\* Mutant: the command that was answered stays in ctrl_cmd_req.
Release_keeps == nvme.ctrl

\* What the handlers leave in ctrl_cmd_req after answering it.
Release == NULL

\* recycle_control_command, the answer to a control command that waits.
RecycleControlCommand ==
  /\ NvmeFree /\ nvme.recycles > 0
  /\ \/ /\ nvme.ctrl = NULL
        /\ nvme' = [nvme EXCEPT !.recycles = @ - 1]
        /\ UNCHANGED <<host, obj, free, pending>>
     \/ /\ nvme.ctrl # NULL /\ pending # <<>>
        /\ pending' = Tail(pending)
        /\ nvme' = [nvme EXCEPT !.recycles = @ - 1, !.active = Head(pending), !.ctrl = Release]
        /\ PostDmaMsg(Head(pending), nvme.ctrl, obj, free)
     \/ /\ nvme.ctrl # NULL /\ pending = <<>>
        /\ nvme' = [nvme EXCEPT !.recycles = @ - 1, !.ctrl = Release]
        /\ Answer(nvme.ctrl, RecycleCode, obj, free)
        /\ UNCHANGED pending
  /\ UNCHANGED <<sqe, isp, ofs, cmplt, msg_in, msg_out, ftl_q, exited, execs>>

\* data_transfer_command up to the DMA: the active request's buffer and the
\* pages the host names, that is, those of the code it got.
DataTransferBegin ==
  LET r == Head(free)
      a == nvme.active
  IN /\ Arrives("TX")
     /\ nvme' = [nvme EXCEPT !.pc = "transfer", !.req = r, !.page = host.code.page,
                             !.size = host.code.size, !.addr = obj[a].addr]
     /\ obj' = [SetupIoReq(r, obj) EXCEPT ![a].stage = "TX_ON"]
     /\ free' = Tail(free)
     /\ UNCHANGED <<host, ispVars, cmplt, msg_in, msg_out, ftl_q, exited, execs>>

\* Mutant: a transfer that does not make up the size leaves the stage.
Complete_if_exact(o) == IF o.transfered = o.size THEN [o EXCEPT !.stage = "CMPT"] ELSE o

\* Whether the request's size has been reached or not (the code prints an
\* error) the request is complete.
Complete(o) == [o EXCEPT !.stage = "CMPT"]

\* The DMA is over: the command is answered, the request complete.
DataTransferEnd ==
  LET a == nvme.active
      same == obj[a].addr = nvme.addr /\ obj[a].page = nvme.page /\ obj[a].size = nvme.size
      new == [obj[a] EXCEPT !.transfered = @ + nvme.size, !.moved = @ \/ same]
  IN /\ nvme.pc = "transfer"
     /\ nvme' = [nvme EXCEPT !.pc = "free", !.req = NULL]
     /\ Answer(nvme.req, Plain("DONE"), [obj EXCEPT ![a] = Complete(new)], free)
     /\ UNCHANGED <<sqe, ispVars, cmplt, msg_in, msg_out, ftl_q, exited, execs>>

\* msg_cbk: a DMA request answers the control command if there is one (and
\* stays in pending_dma); a flash request goes to the FTL; the end of the
\* function answers the control command.
MsgCbk ==
  LET m == Head(msg_out) IN
  /\ NvmeFree /\ msg_out # <<>>
  /\ msg_out' = Tail(msg_out)
  /\ \/ /\ m.type = "HOST_DMA" /\ nvme.ctrl # NULL
        /\ nvme' = [nvme EXCEPT !.active = m.obj, !.ctrl = Release]
        /\ PostDmaMsg(m.obj, nvme.ctrl, obj, free)
        /\ UNCHANGED ftl_q
     \/ /\ m.type = "EXIT" /\ nvme.ctrl # NULL
        /\ nvme' = [nvme EXCEPT !.ctrl = Release]
        /\ Answer(nvme.ctrl, Plain("EXIT"), obj, free)
        /\ UNCHANGED ftl_q
     \/ /\ m.type \in {"HOST_DMA", "EXIT"} /\ nvme.ctrl = NULL
        /\ UNCHANGED <<host, nvme, obj, free, ftl_q>>
     \/ /\ m.type = "NAND_OP"
        /\ ftl_q' = Append(ftl_q, m.obj)
        /\ UNCHANGED <<host, nvme, obj, free>>
  /\ UNCHANGED <<sqe, ispVars, cmplt, msg_in, exited, execs>>

\* process_isp_read_pages, process_isp_program_pages on the FTL's CPU.
FtlNandOp ==
  /\ ftl_q # <<>>
  /\ ftl_q' = Tail(ftl_q)
  /\ obj' = [obj EXCEPT ![Head(ftl_q)].stage = "NAND_CMPT"]
  /\ UNCHANGED <<host, sqe, nvme, ispVars, free, cmplt, msg_in, msg_out, exited, execs>>

----------------------------------------------------------------------------
(* The ISP thread.                                                         *)

Call == Head(isp.fn)
NextCall == [isp EXCEPT !.pc = "run", !.fn = Tail(@), !.done = 0, !.dma = NULL]

\* thrd_cbk calls the function.
CallFunction ==
  /\ isp.pc = "idle" /\ msg_in # <<>>
  /\ msg_in' = Tail(msg_in)
  /\ \E a \in Applets : isp' = [pc |-> "run", fn |-> a, done |-> 0, dma |-> NULL]
  /\ UNCHANGED <<host, sqe, nvme, pending, ofs, obj, free, cmplt, msg_out, ftl_q, exited, execs>>

\* Mutant: the check leaves out the pages asked for.
FitsBuffer_off(size) == ofs < BUFFER_SIZE

\* alloc_page_buffer: a bump allocator, NULL when the buffer is used up.
FitsBuffer(size) == ofs + size <= BUFFER_SIZE
AllocPageBuffer ==
  /\ isp.pc = "run" /\ isp.fn # <<>> /\ Call.fn = "ALLOC"
  /\ ofs' = IF FitsBuffer(Call.size) THEN ofs + Call.size ELSE ofs
  /\ isp' = NextCall
  /\ UNCHANGED <<host, sqe, nvme, pending, obj, free, cmplt, msg_in, msg_out, ftl_q, exited, execs>>

\* do_sync_host_dma: page and size of the piece after done bytes.
PiecePage(c, done) == c.page + done \div PAGE_SIZE
PieceSize(c, done) == IF c.size - done < MAX_TX_SIZE THEN c.size - done ELSE MAX_TX_SIZE

\* _do_sync_host_dma_: a free request object is filled and put in
\* pending_dma (if there is room) ...
DmaRequest ==
  LET o == Head(cmplt) IN
  /\ isp.pc = "run" /\ isp.fn # <<>> /\ Call.fn \in {"READ_HOST", "WRITE_HOST"}
  /\ isp.done < Call.size /\ cmplt # <<>>
  /\ cmplt' = Tail(cmplt)
  /\ obj' = [obj EXCEPT ![o] =
              [@ EXCEPT !.stage = "INIT", !.tx = Call.fn, !.transfered = 0, !.moved = FALSE,
                        !.page = PiecePage(Call, isp.done), !.addr = isp.done,
                        !.size = PieceSize(Call, isp.done)]]
  /\ pending' = IF Len(pending) = QUEUE_SIZE - 1 THEN pending ELSE Append(pending, o)
  /\ isp' = [isp EXCEPT !.pc = "posted", !.dma = o]
  /\ UNCHANGED <<host, sqe, nvme, ofs, free, msg_in, msg_out, ftl_q, exited, execs>>

\* ... and announced to the NVMe driver.
DmaAnnounce ==
  /\ isp.pc = "posted"
  /\ msg_out' = Append(msg_out, [type |-> "HOST_DMA", obj |-> isp.dma])
  /\ isp' = [isp EXCEPT !.pc = "wait"]
  /\ UNCHANGED <<host, sqe, nvme, pending, ofs, obj, free, cmplt, msg_in, ftl_q, exited, execs>>

\* enQueue(t->cmplt_dma, dma_req): a full queue drops the object, which then
\* is nowhere.
PutBack(q, o) == IF Len(q) = QUEUE_SIZE - 1 THEN q ELSE Append(q, o)

\* The wait for ISP_HOST_DMA_REQ_CMPT ends; the object is free for the next
\* piece of the call.
DmaDone ==
  /\ isp.pc = "wait" /\ obj[isp.dma].stage = "CMPT"
  /\ cmplt' = PutBack(cmplt, isp.dma)
  /\ isp' = [isp EXCEPT !.pc = "run", !.done = @ + obj[isp.dma].size, !.dma = NULL]
  /\ UNCHANGED <<host, sqe, nvme, pending, ofs, obj, free, msg_in, msg_out, ftl_q, exited, execs>>

\* The loop over the pieces ends.
DmaReturn ==
  /\ isp.pc = "run" /\ isp.fn # <<>> /\ Call.fn \in {"READ_HOST", "WRITE_HOST"}
  /\ isp.done >= Call.size
  /\ isp' = NextCall
  /\ UNCHANGED <<host, sqe, nvme, pending, ofs, obj, free, cmplt, msg_in, msg_out, ftl_q, exited, execs>>

\* do_sync_nand_op: post the one flash request and wait for it.
NandRequest ==
  /\ isp.pc = "run" /\ isp.fn # <<>> /\ Call.fn = "FLASH"
  /\ obj' = [obj EXCEPT ![nvme.nand].stage = "NAND_INIT"]
  /\ msg_out' = Append(msg_out, [type |-> "NAND_OP", obj |-> nvme.nand])
  /\ isp' = [isp EXCEPT !.pc = "nand"]
  /\ UNCHANGED <<host, sqe, nvme, pending, ofs, free, cmplt, msg_in, ftl_q, exited, execs>>

NandDone ==
  /\ isp.pc = "nand" /\ obj[nvme.nand].stage = "NAND_CMPT"
  /\ isp' = NextCall
  /\ UNCHANGED <<host, sqe, nvme, pending, ofs, obj, free, cmplt, msg_in, msg_out, ftl_q, exited, execs>>

\* The function returns: function_exited is set ...
FunctionExit ==
  /\ isp.pc = "run" /\ isp.fn = <<>>
  /\ ofs' = 0
  /\ exited' = TRUE
  /\ isp' = [isp EXCEPT !.pc = "exit"]
  /\ UNCHANGED <<host, sqe, nvme, pending, obj, free, cmplt, msg_in, msg_out, ftl_q, execs>>

\* ... before ISP_EXECUTION_EXIT is sent.
AnnounceExit ==
  /\ isp.pc = "exit"
  /\ msg_out' = Append(msg_out, [type |-> "EXIT", obj |-> NULL])
  /\ isp' = [isp EXCEPT !.pc = "idle"]
  /\ UNCHANGED <<host, sqe, nvme, pending, ofs, obj, free, cmplt, msg_in, ftl_q, exited, execs>>

----------------------------------------------------------------------------
Init ==
  /\ host = [pc |-> "idle", code |-> Plain("none")]
  /\ sqe = "none"
  /\ nvme = [pc |-> "free", ctrl |-> NULL, active |-> NULL, nand |-> NULL, recycles |-> 0,
             req |-> NULL, page |-> 0, addr |-> 0, size |-> 0]
  /\ isp = [pc |-> "idle", fn |-> <<>>, done |-> 0, dma |-> NULL]
  /\ obj = [o \in Object |-> Unused]
  /\ free = [o \in Object |-> o]
  /\ pending = <<>> /\ cmplt = <<>> /\ msg_in = <<>> /\ msg_out = <<>> /\ ftl_q = <<>>
  /\ exited = TRUE /\ ofs = 0 /\ execs = 0

HostStep == HostExecute \/ HostAnswered
IspStep ==
  \/ CallFunction \/ AllocPageBuffer \/ DmaRequest \/ DmaAnnounce \/ DmaDone \/ DmaReturn
  \/ NandRequest \/ NandDone \/ FunctionExit \/ AnnounceExit
NvmeStep ==
  \/ ExecuteCommand \/ ControlCommand \/ RecycleControlCommand
  \/ DataTransferBegin \/ DataTransferEnd \/ MsgCbk
Next == HostStep \/ IspStep \/ NvmeStep \/ FtlNandOp

\* Each CPU goes on. The loop of the driver's thread serves its queues in
\* turn, so commands and recycled commands do not keep a message of the ISP
\* thread waiting for ever.
Fairness ==
  /\ WF_vars(HostAnswered) /\ WF_vars(IspStep) /\ WF_vars(FtlNandOp)
  /\ WF_vars(NvmeStep) /\ SF_vars(MsgCbk)

Spec == Init /\ [][Next]_vars /\ Fairness

----------------------------------------------------------------------------
(* Properties.                                                             *)

Message == [type: {"HOST_DMA", "NAND_OP", "EXIT"}, obj: Object \cup {NULL}]

\* Every variable has its type; the bump allocator stays in its buffer.
TypeOK ==
  /\ host \in [pc: {"idle", "sent", "answered"}, code: Code]
  /\ sqe \in {"none", "EXEC", "CTRL", "TX"}
  /\ nvme \in Nvme
  /\ isp \in IspThread
  /\ obj \in [Object -> ObjRecord]
  /\ free \in Seq(Object) /\ pending \in Seq(Object) /\ cmplt \in Seq(Object)
  /\ msg_in \in Seq({"EXECUTE_FTN"}) /\ msg_out \in Seq(Message) /\ ftl_q \in Seq(Object)
  /\ exited \in BOOLEAN
  /\ ofs \in 0 .. BUFFER_SIZE
  /\ execs \in 0 .. MaxExec

One(o) == IF o = NULL THEN <<>> ELSE <<o>>
Holders ==
  free \o cmplt \o One(nvme.ctrl) \o One(nvme.req) \o One(nvme.nand) \o One(isp.dma)

\* Each object of the pool is in exactly one place: free, ready for a DMA
\* request of the function, or held by a command, the flash request or the
\* request under way. execute_command gives back what the last function
\* left, whatever the order its commands and messages ended in.
ObjectsConserved ==
  /\ Len(Holders) = O_SIZE - 1
  /\ {Holders[i] : i \in DOMAIN Holders} = Object

\* A command the host waits for is in one place of the driver: not yet
\* handled, kept in ctrl_cmd_req, or transferring. control_command, the
\* recycle callback and the three messages compete to answer it.
CommandHeldOnce ==
  Cardinality({i \in 1 .. 4 : <<sqe # "none", nvme.ctrl # NULL, nvme.pc = "transfer",
                                host.pc # "sent">>[i]}) = 1

\* The thread of threads[0] has nothing to do: its function has returned and
\* no other waits for it.
Returned == exited /\ msg_in = <<>> /\ isp.pc \in {"idle", "exit"}

\* The host takes a function for ended only when it has returned, although
\* three handlers may tell it so, one on a flag and one on a message that the
\* next execute command does not withdraw. (Under HostSlow.)
EndIsReal == host.pc = "idle" => Returned

\* A call of the function returns when it has been served. Data: its own
\* piece was moved, between the piece's place in the host's buffer and its
\* place in the SSD's. Flash: the FTL is done with the request. (A request
\* that msg_cbk posted stays in pending_dma and is served once more after
\* its object was put back; that late transfer sets the stage of the object,
\* whatever the object is by then. Once the pool has come round that may be a
\* request under way, which ends early: see isp_recycled.)
DoneBeforeReturn ==
  /\ isp.pc = "wait" /\ obj[isp.dma].stage = "CMPT" =>
       /\ obj[isp.dma].moved
       /\ obj[isp.dma].addr = (obj[isp.dma].page - Call.page) * PAGE_SIZE
  /\ isp.pc = "nand" /\ obj[nvme.nand].stage = "NAND_CMPT" =>
       /\ nvme.nand \notin {ftl_q[i] : i \in DOMAIN ftl_q}
       /\ nvme.nand \notin {msg_out[i].obj : i \in DOMAIN msg_out}

\* The pool has not come round: no object that is still in pending_dma has
\* been taken from free_req_objs again. With the sizes of the runs that takes
\* a third function.
Fresh == execs <= 2

\* A function the host started while the pool was fresh comes to its end and
\* the host learns of it: its calls are served, it returns, and only then is
\* the host free. (Later a late transfer may overwrite the stage a call waits
\* for, and the call waits for ever.)
FunctionEnds == (host.pc # "idle" /\ Fresh) ~> (host.pc = "idle" /\ Returned)
=============================================================================
