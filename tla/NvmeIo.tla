------------------------------- MODULE NvmeIo -------------------------------
(***************************************************************************)
(* The I/O path of the NVMe driver (nvme_driver.c) with the single page    *)
(* buffer of buffer_mgt_1wbc-r.c: the host writes commands to a submission *)
(* queue and rings doorbells; the driver thread polls the doorbells        *)
(* (check_door_bell), fetches commands, moves data and posts completions;  *)
(* the FTL thread, on another CPU, reads and programs flash.               *)
(*                                                                         *)
(* A handler of the driver thread is one step: it runs to completion on    *)
(* its CPU, waiting for its own DMA. The message queues between the        *)
(* threads are FIFOs (see KernelQueue). check_door_bell is not a loop but  *)
(* a callback that is queued again by whatever ends its work.              *)
(***************************************************************************)
EXTENDS Integers, Sequences, FiniteSets

CONSTANTS
  SQ_SIZE, CQ_SIZE,  \* entries of the host's submission, completion queue
  NSZE,              \* ssd_config.nsze: pages of the namespace
  MDTS_PAGES,        \* most pages of one command
  HostCmds,          \* commands the host may send: [op, slba, n]
  MaxCmds            \* bound: commands sent in a behaviour

ASSUME QueueAssumption == SQ_SIZE \in Nat /\ CQ_SIZE \in Nat /\ SQ_SIZE >= 2 /\ CQ_SIZE >= 2
ASSUME RangeAssumption == NSZE \in Nat \ {0} /\ MDTS_PAGES \in Nat \ {0} /\ MaxCmds \in Nat
ASSUME CommandAssumption ==
  \A c \in HostCmds : /\ c.op \in {"READ", "WRITE", "FLUSH", "UNKNOWN"}
                      /\ c.slba \in Nat /\ c.n \in 1 .. MDTS_PAGES

Cid == 1 .. MaxCmds
Pages == 0 .. MDTS_PAGES - 1
\* Pages a command may touch: verify_rw_param lets page NSZE through.
Lpn == 0 .. NSZE
\* Content of the i-th page of write cid; Blank is unwritten flash.
Data(cid, i) == <<cid, i>>
Blank == <<0, 0>>

NoReq == [type |-> "none"]
WbcReq == [type |-> "WBC_FLUSH"]
ReadReq(c) == [type |-> "READ_IO", cmd |-> c]
Request == {WbcReq} \cup {ReadReq(c) : c \in Cid}

VARIABLES
  (* the host *)
  sent,           \* commands sent; a command's cid is its place in here
  sq_tail,        \* host's submission queue tail
  sq_mem,         \* submission queue in host memory: entry -> cid
  host_head, host_phase,   \* host's place in the completion queue
  rung,           \* completion queue head last written to the doorbell
  outstanding,    \* cids sent and not seen completed
  shn,            \* CC.SHN: shutdown requested
  db,             \* doorbell updates the driver has not read (db_queue)
  (* the driver thread *)
  d,              \* everything its handlers write, see Driver
  (* the FTL thread *)
  ftl_req,        \* request it is working on
  ftl_out,        \* FTL_MODULE_OUT_Q
  flash,          \* content of the logical pages on flash
  stored          \* flash content the tables stored at shutdown describe

hostVars == <<sent, sq_tail, sq_mem, host_head, host_phase, rung, outstanding, shn>>
vars == <<hostVars, db, d, ftl_req, ftl_out, flash, stored>>

\* State the driver thread's handlers change.
Driver == [
  door: Nat,                  \* check_door_bell callbacks queued
  sq_head: 0 .. SQ_SIZE - 1,  \* sqs[1].head
  cq_head: 0 .. CQ_SIZE - 1,  \* cqs[1].head, tail, phase
  cq_tail: 0 .. CQ_SIZE - 1,
  cq_phase: {0, 1},
  cq_mem: [0 .. CQ_SIZE - 1 -> [cid: Cid \cup {0}, phase: {0, 1}]],  \* host memory
  pending: Seq(Cid),          \* cqs[1].pending
  r_buf_q: Seq(Cid), w_buf_q: Seq(Cid),
  page_buffer_inuse: BOOLEAN,
  page_buffer: [Pages -> Seq(Nat)],
  wbc: [Pages -> [valid: BOOLEAN, lpn: Nat]],
  ftl_in: Seq(Request),       \* FTL_MODULE_IN_Q
  host_mem: [Cid -> Seq(Seq(Nat))],   \* host memory a read command points to
  done: SUBSET Cid            \* history: commands given to enqueue_io_ccmd
]

----------------------------------------------------------------------------
Init ==
  /\ sent = <<>> /\ sq_tail = 0
  /\ sq_mem = [i \in 0 .. SQ_SIZE - 1 |-> 0]
  /\ host_head = 0 /\ host_phase = 1 /\ rung = 0
  /\ outstanding = {} /\ shn = FALSE /\ db = <<>>
  /\ d = [door |-> 1, sq_head |-> 0, cq_head |-> 0, cq_tail |-> 0, cq_phase |-> 1,
          cq_mem |-> [i \in 0 .. CQ_SIZE - 1 |-> [cid |-> 0, phase |-> 0]],
          pending |-> <<>>, r_buf_q |-> <<>>, w_buf_q |-> <<>>,
          page_buffer_inuse |-> FALSE,
          page_buffer |-> [i \in Pages |-> Blank],
          wbc |-> [i \in Pages |-> [valid |-> FALSE, lpn |-> 0]],
          ftl_in |-> <<>>,
          host_mem |-> [c \in Cid |-> <<>>],
          done |-> {}]
  /\ ftl_req = NoReq /\ ftl_out = <<>>
  /\ flash = [l \in Lpn |-> Blank]
  /\ stored = <<>>

----------------------------------------------------------------------------
(* Posting completions. *)

\* Entries nvme_cq_full leaves free.
CqRoom(e) == CQ_SIZE - 1 - ((e.cq_tail + CQ_SIZE - e.cq_head) % CQ_SIZE)

\* Mutant: the phase is never inverted.
PhaseAfter_same(e, i) == e.cq_phase

\* inc_cq_tail, i times: the phase is inverted when the tail wraps.
PhaseAfter(e, i) == IF e.cq_tail + i >= CQ_SIZE THEN 1 - e.cq_phase ELSE e.cq_phase

\* post_io_ccmds: post pending completions while the host's queue has room.
PostCcmds(e) ==
  LET k == IF Len(e.pending) < CqRoom(e) THEN Len(e.pending) ELSE CqRoom(e)
      At(i) == (e.cq_tail + i) % CQ_SIZE
  IN [e EXCEPT
        !.cq_mem = [s \in 0 .. CQ_SIZE - 1 |->
          IF \E i \in 0 .. k - 1 : At(i) = s
          THEN LET i == CHOOSE i \in 0 .. k - 1 : At(i) = s
               IN  [cid |-> e.pending[i + 1], phase |-> PhaseAfter(e, i)]
          ELSE @[s]],
        !.cq_tail = At(k),
        !.cq_phase = PhaseAfter(e, k),
        !.pending = SubSeq(@, k + 1, Len(@))]

\* enqueue_io_ccmd: a completion that finds the pending queue full is dropped.
EnqueueCcmd(e, c) ==
  IF Len(e.pending) = CQ_SIZE - 1
  THEN [e EXCEPT !.done = @ \cup {c}]
  ELSE PostCcmds([e EXCEPT !.pending = Append(@, c), !.done = @ \cup {c}])

----------------------------------------------------------------------------
(* The page buffer and the two queues of commands that wait for it.        *)

\* process_read_ios_step_2: the loop ends when the buffer is taken.
ReadStep2(e) ==
  IF e.r_buf_q = <<>> \/ e.page_buffer_inuse THEN e
  ELSE [e EXCEPT !.page_buffer_inuse = TRUE,
                 !.r_buf_q = Tail(@),
                 !.ftl_in = Append(@, ReadReq(Head(e.r_buf_q)))]

\* get_write_io_buffer: the cache pages of the command become valid
GetWriteIoBuffer(e, c) ==
  [e EXCEPT !.page_buffer_inuse = TRUE,
            !.wbc = [i \in Pages |-> IF i < sent[c].n
                                     THEN [valid |-> TRUE, lpn |-> sent[c].slba + i]
                                     ELSE @[i]]]

\* process_write_ios_step_2: buffer, DMA from the host, flush of the cache,
\* and the completion, before anything is programmed.
WriteStep2(e) ==
  IF e.w_buf_q = <<>> \/ e.page_buffer_inuse THEN e
  ELSE LET c == Head(e.w_buf_q)
           b == GetWriteIoBuffer(e, c)
       IN  EnqueueCcmd([b EXCEPT
             !.w_buf_q = Tail(@),
             !.page_buffer = [i \in Pages |-> IF i < sent[c].n THEN Data(c, i) ELSE @[i]],
             !.ftl_in = Append(@, WbcReq)], c)

\* Mutant: the cache pages stay valid.
FreeWbcBuffer_keeps_valid(e) == [e EXCEPT !.page_buffer_inuse = FALSE]

FreeWbcBuffer(e) ==
  [e EXCEPT !.page_buffer_inuse = FALSE,
            !.wbc = [i \in Pages |-> [@[i] EXCEPT !.valid = FALSE]]]

----------------------------------------------------------------------------
(* check_door_bell *)

AddDoor(e) == [e EXCEPT !.door = @ + 1]
TakeDoor(e) == [e EXCEPT !.door = @ - 1]

\* verify_rw_param, with nlbs = n - 1
Verified(c) == c.slba + (c.n - 1) <= NSZE /\ c.n - 1 < MDTS_PAGES

\* process_io_cmd: READ, WRITE and the rest. A rejected command is completed
\* (with status 0) and the doorbell callback is not queued again.
ProcessReadIo(e, c) ==
  IF ~Verified(sent[c]) THEN EnqueueCcmd(e, c)
  ELSE ReadStep2([e EXCEPT !.r_buf_q = Append(@, c)])

\* Mutant: the doorbell callback is queued while the write is under way.
ProcessWriteIo_adds_door(e, c) ==
  IF ~Verified(sent[c]) THEN EnqueueCcmd(e, c)
  ELSE AddDoor(WriteStep2([e EXCEPT !.w_buf_q = Append(@, c)]))

ProcessWriteIo(e, c) ==
  IF ~Verified(sent[c]) THEN EnqueueCcmd(e, c)
  ELSE WriteStep2([e EXCEPT !.w_buf_q = Append(@, c)])

ProcessFlushIo(e, c) == AddDoor(EnqueueCcmd(e, c))

\* unknown_io_cmd posts no completion
UnknownIoCmd(e, c) == AddDoor(e)

\* Mutant: the head is wrapped one too late.
IncSqHead_late(i) == (i + 1) % (SQ_SIZE + 1)

\* inc_sq_head
IncSqHead(i) == (i + 1) % SQ_SIZE

ProcessIoCmd(e) ==
  LET c == sq_mem[e.sq_head]
      f == [e EXCEPT !.sq_head = IncSqHead(@)]
  IN  CASE sent[c].op = "READ"    -> ProcessReadIo(f, c)
        [] sent[c].op = "WRITE"   -> ProcessWriteIo(f, c)
        [] sent[c].op = "FLUSH"   -> ProcessFlushIo(f, c)
        [] sent[c].op = "UNKNOWN" -> UnknownIoCmd(f, c)

\* A submission doorbell: exactly one command is fetched. The tail written is
\* stored and only printed.
CheckDoorSq ==
  /\ d.door > 0 /\ db # <<>> /\ Head(db).kind = "SQ"
  /\ db' = Tail(db)
  /\ d' = ProcessIoCmd(TakeDoor(d))
  /\ UNCHANGED <<hostVars, ftl_req, ftl_out, flash, stored>>

\* A completion doorbell: pending completions are posted.
CheckDoorCq ==
  /\ d.door > 0 /\ db # <<>> /\ Head(db).kind = "CQ"
  /\ db' = Tail(db)
  /\ d' = AddDoor(PostCcmds([TakeDoor(d) EXCEPT !.cq_head = Head(db).value]))
  /\ UNCHANGED <<hostVars, ftl_req, ftl_out, flash, stored>>

\* No doorbell, for the 10000th time: pending completions are posted, and a
\* shutdown request makes the driver store the tables.
CheckDoorIdle ==
  /\ d.door > 0 /\ db = <<>>
  /\ d' = AddDoor(PostCcmds(TakeDoor(d)))
  /\ stored' = IF shn THEN flash ELSE stored
  /\ UNCHANGED <<hostVars, db, ftl_req, ftl_out, flash>>

----------------------------------------------------------------------------
(* completed_req_cbk *)

\* DMA of the page buffer to the host
ReadIoDma(e, c) ==
  [e EXCEPT !.host_mem = [@ EXCEPT ![c] = [i \in 1 .. sent[c].n |-> e.page_buffer[i - 1]]]]

CompletedRead ==
  /\ ftl_out # <<>> /\ Head(ftl_out).type = "READ_IO"
  /\ ftl_out' = Tail(ftl_out)
  /\ LET c == Head(ftl_out).cmd
         f == [ReadIoDma(d, c) EXCEPT !.page_buffer_inuse = FALSE]
     IN  d' = AddDoor(WriteStep2(ReadStep2(EnqueueCcmd(f, c))))
  /\ UNCHANGED <<hostVars, db, ftl_req, flash, stored>>

\* Mutant: the doorbell callback is not queued after a write.
CompletedWbc_no_door ==
  /\ ftl_out # <<>> /\ Head(ftl_out).type = "WBC_FLUSH"
  /\ ftl_out' = Tail(ftl_out)
  /\ d' = ReadStep2(WriteStep2(FreeWbcBuffer(d)))
  /\ UNCHANGED <<hostVars, db, ftl_req, flash, stored>>

CompletedWbc ==
  /\ ftl_out # <<>> /\ Head(ftl_out).type = "WBC_FLUSH"
  /\ ftl_out' = Tail(ftl_out)
  /\ d' = AddDoor(ReadStep2(WriteStep2(FreeWbcBuffer(d))))
  /\ UNCHANGED <<hostVars, db, ftl_req, flash, stored>>

----------------------------------------------------------------------------
(* The FTL thread: process_req_cbk. Ftl models how pages are placed. *)

FtlTake ==
  /\ ftl_req = NoReq /\ d.ftl_in # <<>>
  /\ ftl_req' = Head(d.ftl_in)
  /\ d' = [d EXCEPT !.ftl_in = Tail(@)]
  /\ UNCHANGED <<hostVars, db, ftl_out, flash, stored>>

\* ftl_process_read_io
FtlRead ==
  /\ ftl_req.type = "READ_IO"
  /\ LET c == sent[ftl_req.cmd]
     IN  d' = [d EXCEPT !.page_buffer =
                 [i \in Pages |-> IF i < c.n THEN flash[c.slba + i] ELSE @[i]]]
  /\ ftl_out' = Append(ftl_out, ftl_req)
  /\ ftl_req' = NoReq
  /\ UNCHANGED <<hostVars, db, flash, stored>>

\* process_wbc: every valid page of the cache is programmed.
FtlProgram ==
  /\ ftl_req.type = "WBC_FLUSH"
  /\ flash' = [l \in Lpn |->
       LET hits == {i \in Pages : d.wbc[i].valid /\ d.wbc[i].lpn = l}
       IN  IF hits = {} THEN flash[l]
           ELSE d.page_buffer[CHOOSE i \in hits : \A j \in hits : j <= i]]
  /\ ftl_out' = Append(ftl_out, ftl_req)
  /\ ftl_req' = NoReq
  /\ UNCHANGED <<hostVars, db, d, stored>>

----------------------------------------------------------------------------
(* The host: a driver that keeps at most SQ_SIZE - 1 commands outstanding  *)
(* and rings the doorbell for each command, as the guest's NVMe driver     *)
(* behind the QEMU device does.                                            *)

Submit(c) ==
  /\ ~shn /\ Len(sent) < MaxCmds /\ Cardinality(outstanding) < SQ_SIZE - 1
  /\ sent' = Append(sent, c)
  /\ sq_mem' = [sq_mem EXCEPT ![sq_tail] = Len(sent) + 1]
  /\ sq_tail' = (sq_tail + 1) % SQ_SIZE
  /\ outstanding' = outstanding \cup {Len(sent) + 1}
  /\ db' = Append(db, [kind |-> "SQ", value |-> sq_tail'])
  /\ UNCHANGED <<host_head, host_phase, rung, shn, d, ftl_req, ftl_out, flash, stored>>

\* The interrupt handler: the entry with the awaited phase is new.
CqeReady == d.cq_mem[host_head].phase = host_phase

Consume ==
  /\ CqeReady
  /\ outstanding' = outstanding \ {d.cq_mem[host_head].cid}
  /\ host_head' = (host_head + 1) % CQ_SIZE
  /\ host_phase' = IF host_head + 1 = CQ_SIZE THEN 1 - host_phase ELSE host_phase
  /\ UNCHANGED <<sent, sq_tail, sq_mem, rung, shn, db, d, ftl_req, ftl_out, flash, stored>>

RingCq ==
  /\ rung # host_head
  /\ rung' = host_head
  /\ db' = Append(db, [kind |-> "CQ", value |-> host_head])
  /\ UNCHANGED <<sent, sq_tail, sq_mem, host_head, host_phase, outstanding, shn, d,
                 ftl_req, ftl_out, flash, stored>>

\* The host has seen its commands complete, but for those no drive completes.
RequestShutdown ==
  /\ ~shn /\ \A c \in outstanding : sent[c].op = "UNKNOWN"
  /\ shn' = TRUE
  /\ UNCHANGED <<sent, sq_tail, sq_mem, host_head, host_phase, rung, outstanding, db, d,
                 ftl_req, ftl_out, flash, stored>>

----------------------------------------------------------------------------
CheckDoor == CheckDoorSq \/ CheckDoorCq \/ CheckDoorIdle
Completed == CompletedRead \/ CompletedWbc
Ftl == FtlTake \/ FtlRead \/ FtlProgram
Host == (\E c \in HostCmds : Submit(c)) \/ Consume \/ RingCq \/ RequestShutdown

Next == CheckDoor \/ Completed \/ Ftl \/ Host

\* run_thread serves a CPU's callback queue and each of its message queues in
\* turn, for ever; the host's interrupt handler runs.
Fairness ==
  /\ WF_vars(CheckDoor) /\ WF_vars(Completed) /\ WF_vars(Ftl)
  /\ WF_vars(Consume) /\ WF_vars(RingCq)

Spec == Init /\ [][Next]_vars /\ Fairness

----------------------------------------------------------------------------
(* Properties. *)

\* The last write of page l among the first m commands, as flash content.
Content(l, m) ==
  LET ws == {c \in 1 .. m : sent[c].op = "WRITE" /\ Verified(sent[c])
                            /\ l \in sent[c].slba .. sent[c].slba + sent[c].n - 1}
  IN  IF ws = {} THEN Blank
      ELSE LET w == CHOOSE c \in ws : \A x \in ws : x <= c
           IN  Data(w, l - sent[w].slba)

\* Indices stay inside their queues, and every variable has its declared type.
TypeOK ==
  /\ d \in Driver
  /\ sq_tail \in 0 .. SQ_SIZE - 1 /\ sq_mem \in [0 .. SQ_SIZE - 1 -> Cid \cup {0}]
  /\ host_head \in 0 .. CQ_SIZE - 1 /\ rung \in 0 .. CQ_SIZE - 1 /\ host_phase \in {0, 1}
  /\ outstanding \subseteq Cid /\ d.done \subseteq 1 .. Len(sent)
  /\ ftl_req = NoReq \/ ftl_req \in Request
  /\ ftl_out \in Seq(Request)

\* Requests between the driver and the FTL.
InFlight == Len(d.r_buf_q) + Len(d.w_buf_q) + Len(d.ftl_in) + Len(ftl_out)
            + (IF ftl_req = NoReq THEN 0 ELSE 1)

\* Exactly one thing will make the driver look at the doorbells again: the
\* queued callback, or the one request that is under way, which also holds
\* the page buffer. Two would let commands overtake each other and share the
\* page buffer; none would stop the drive.
TokenConserved ==
  /\ d.door + InFlight = 1
  /\ d.page_buffer_inuse <=> InFlight = 1

\* A read returns, for every page, the last write sent before it, whatever
\* the order of completions, DMA, flushes of the cache and programming.
ReadsSeeWrites ==
  \A c \in d.done : sent[c].op = "READ" /\ Verified(sent[c]) =>
    \A i \in 1 .. sent[c].n : d.host_mem[c][i] = Content(sent[c].slba + i - 1, c - 1)

\* Every completed command the host has not seen yet is in exactly one place,
\* the pending queue or an entry of the host's queue whose phase the host
\* will recognise; no completion is dropped, overwritten or seen twice.
CompletionsExact ==
  LET posted == (d.cq_tail + CQ_SIZE - host_head) % CQ_SIZE
      New(i) == d.cq_mem[(host_head + i) % CQ_SIZE]
      ph(i)  == IF host_head + i < CQ_SIZE THEN host_phase ELSE 1 - host_phase
  IN  /\ \A i \in 0 .. posted - 1 : New(i).phase = ph(i)
      /\ posted < CQ_SIZE /\ New(posted).phase # ph(posted)
      /\ d.done \cap outstanding =
           {New(i).cid : i \in 0 .. posted - 1} \cup {d.pending[i] : i \in DOMAIN d.pending}
      /\ Cardinality(d.done \cap outstanding) = posted + Len(d.pending)

\* When a FLUSH completes, everything written before it is on flash, although
\* process_flush_io flushes nothing and writes complete before programming.
FlushDurable ==
  [][\A c \in d'.done \ d.done : sent[c].op = "FLUSH" =>
       \A l \in 0 .. NSZE - 1 : flash'[l] = Content(l, c)]_vars

\* The tables stored at shutdown describe every write the host has made.
ShutdownStoresAll ==
  stored # <<>> => \A l \in 0 .. NSZE - 1 : stored[l] = Content(l, Len(sent))

\* Every READ, WRITE and FLUSH is eventually seen completed by the host.
AllComplete ==
  \A c \in Cid : (c \in outstanding /\ sent[c].op # "UNKNOWN") ~> (c \notin outstanding)

\* "add a call back to check door bells" (nvme_driver.c:242): the driver keeps
\* looking at the doorbells. A command that verify_rw_param rejects ends that.
DoorbellsChecked == []<>(d.door > 0)
=============================================================================
