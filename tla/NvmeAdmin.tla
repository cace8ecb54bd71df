----------------------------- MODULE NvmeAdmin -----------------------------
(* The admin side of the NVMe driver (src/firmware/nvme_driver.c): queues   *)
(* are created, used, deleted and created again, and the completions of     *)
(* each find their way to the host. Firmware handlers run to completion on  *)
(* the driver's thread; the host puts entries into its queues and rings     *)
(* doorbells, which the driver reads one at a time, in order (the ring they *)
(* travel in is modelled in HostInterface).                                 *)
(*                                                                          *)
(* An operator Op(s, ...) is a handler: it maps the driver's state s to the *)
(* state it leaves. A command is [op, q, v, cid]: the queue it names, a     *)
(* value (number of queues, end of a downloaded piece) and its identifier.  *)
EXTENDS Integers, Sequences, FiniteSets, FiniteSetsExt, Functions

CONSTANTS
  MAX_IO_SQCQ_PAIRS,
  ASQ_SIZE, ACQ_SIZE,   \* entries of the admin queues (register AQA)
  SQ_SIZE, CQ_SIZE,     \* entries of the I/O queues the host creates
  CODE_PIECES,          \* pieces of a downloaded binary
  MiscCmds,             \* admin commands other than those on queues: [op, v]
  MaxQueueCmds, MaxMisc, MaxIo   \* bounds: commands sent in a behaviour

Qid == 0 .. MAX_IO_SQCQ_PAIRS
IoQid == 1 .. MAX_IO_SQCQ_PAIRS
SqSize(q) == IF q = 0 THEN ASQ_SIZE ELSE SQ_SIZE
CqSize(q) == IF q = 0 THEN ACQ_SIZE ELSE CQ_SIZE

\* enqueue_admin_ccmd does not look for room, enqueue_io_ccmd drops what
\* finds none. A host may keep as many entries of a completion queue taken
\* and not rung for as it has, so the pending ring alone, which is as large,
\* must hold the commands of the submission queue.
ASSUME SizeAssumption ==
  /\ MAX_IO_SQCQ_PAIRS \in Nat \ {0} /\ CODE_PIECES \in Nat
  /\ \A q \in Qid : /\ SqSize(q) \in Nat /\ SqSize(q) >= 2
                    /\ CqSize(q) \in Nat /\ CqSize(q) >= SqSize(q)

QueueOps == {"CREATE_SQ", "CREATE_CQ", "DELETE_SQ", "DELETE_CQ"}

ASSUME CommandAssumption ==
  /\ \A c \in MiscCmds : c.v \in Nat /\ c.op \notin QueueOps \cup {"none", "ISP", "FLUSH"}
  /\ \A c \in MiscCmds : c.op = "FW_DOWNLOAD" => c.v \in 1 .. CODE_PIECES
  /\ MaxQueueCmds \in Nat /\ MaxMisc \in Nat /\ MaxIo \in Nat

Tag == 0 .. Max({ASQ_SIZE, SQ_SIZE}) - 2     \* identifiers a host gives
Slot == 0 .. Max({ASQ_SIZE, SQ_SIZE, ACQ_SIZE, CQ_SIZE}) - 1
Ops == QueueOps \cup {"ISP", "FLUSH"} \cup {c.op : c \in MiscCmds}
Command == [op: Ops, q: Qid, v: Nat, cid: Tag]
NoCmd == [op |-> "none", q |-> 0, v |-> 0, cid |-> 0]
Blank == [cid |-> 0, phase |-> 0, sqhd |-> 0, cdw0 |-> 0]    \* zeroed entry

VARIABLES
  d,         \* the driver, see Driver
  cq_mem,    \* completion queues in host memory
  sq_mem,    \* submission queues in host memory: the identifiers of commands
  db,        \* doorbell updates the driver has not read
  h          \* the host's driver, see Host

vars == <<d, cq_mem, sq_mem, db, h>>

\* NvmeSQueue and NvmeCQueue; a size of 0 is a queue that does not exist.
SQueue == [sqid: Qid, cqid: Qid, size: {0, ASQ_SIZE, SQ_SIZE}, head: Slot, tail: Slot]
CQueue == [cqid: Qid, phase: {0, 1}, size: {0, ACQ_SIZE, CQ_SIZE}, head: Slot, tail: Slot,
           pending: Seq([cid: Tag, cdw0: Nat])]
Driver == [sqs: [Qid -> SQueue], cqs: [Qid -> CQueue],
           iosqCount: 0 .. MAX_IO_SQCQ_PAIRS, iocqCount: 0 .. MAX_IO_SQCQ_PAIRS,
           code_size: 0 .. CODE_PIECES,                 \* external_code_size
           isp: SUBSET [cqid: Qid, cid: Tag]]           \* requests at the ISP thread
QState == {"none", "creating", "live", "deleting"}
Host == [tail: [Qid -> Slot], sqhd: [Qid -> Slot],      \* submission queues
         head: [Qid -> Slot], phase: [Qid -> {0, 1}], rung: [Qid -> Slot],
         sq: [Qid -> QState], cq: [Qid -> QState],
         out: [Qid -> [Tag -> Command \cup {NoCmd}]],   \* commands without a completion
         granted: 0 .. MAX_IO_SQCQ_PAIRS + 1,           \* queue pairs it may create
         nq: 0 .. MaxQueueCmds, nmisc: 0 .. MaxMisc, nio: 0 .. MaxIo]
----------------------------------------------------------------------------
(* Posting completions.                                                     *)

\* nvme_cq_full and the loop around it: entries of cq that may be filled.
CqRoom(cq) == cq.size - 1 - ((cq.tail - cq.head) % cq.size)

\* How many completions the loop posts: the oldest pending ones, as many as
\* fit. (An empty pending queue is left before the size of the queue is used.)
Posted(cq) == IF cq.pending = <<>> THEN 0 ELSE Min({Len(cq.pending), CqRoom(cq)})

\* inc_cq_tail, n times.
PhaseAfter(cq, n) == IF cq.tail + n >= cq.size THEN 1 - cq.phase ELSE cq.phase

\* Queue cq after post_admin_ccmds or post_io_ccmds.
PostCcmds(cq) ==
  LET n == Posted(cq) IN
  IF n = 0 THEN cq
  ELSE [cq EXCEPT !.pending = SubSeq(cq.pending, n + 1, Len(cq.pending)),
                  !.tail = (cq.tail + n) % cq.size,
                  !.phase = PhaseAfter(cq, n)]

\* The host's memory after that, mem before: an entry reports the head of
\* the submission queue, sqhd. Its sqid is not filled in, so a host that
\* lets submission queues share a completion queue cannot tell them apart,
\* and ours does not.
PostEntries(cq, sqhd, mem) ==
  [i \in Slot |->
     IF Posted(cq) > 0 /\ i < cq.size /\ (i - cq.tail) % cq.size < Posted(cq)
     THEN LET n == (i - cq.tail) % cq.size
          IN [cid |-> cq.pending[n + 1].cid, cdw0 |-> cq.pending[n + 1].cdw0, sqhd |-> sqhd,
              phase |-> PhaseAfter(cq, n)]
     ELSE mem[i]]

\* The queue a completion joins. The admin ring is not checked: one more
\* than it holds makes tail equal to head, and all of it is gone.
EnqueueAdmin(s, c, cdw0) ==
  [s EXCEPT !.cqs[0].pending =
     IF Len(@) + 1 = s.cqs[0].size THEN <<>> ELSE Append(@, [cid |-> c.cid, cdw0 |-> cdw0])]

EnqueueIo(s, q, cid) ==
  [s EXCEPT !.cqs[q].pending =
     IF Len(@) + 1 = s.cqs[q].size THEN @ ELSE Append(@, [cid |-> cid, cdw0 |-> 0])]
----------------------------------------------------------------------------
(* The admin commands. Each handler ends in enqueue_admin_ccmd, save the    *)
(* one for an identify command of an unknown kind, which ends nowhere.      *)

Answered(c) == c.op = "IDENTIFY" => c.v \in 0 .. 2

NvmeIdentify(s, c) == IF Answered(c) THEN EnqueueAdmin(s, c, 0) ELSE s

\* The grant is zero-based, the cap is not: a host that asks for more is granted
\* MAX_IO_SQCQ_PAIRS + 1 pairs.
NvmeSetFeature(s, c) ==
  EnqueueAdmin(s, c, IF c.op = "SET_QUEUES" THEN Min({c.v, MAX_IO_SQCQ_PAIRS}) ELSE 0)

NvmeGetFeature(s, c) == EnqueueAdmin(s, c, s.iocqCount)

\* c.v is the end of the piece: dword_off plus its length.
NvmeFwDownload(s, c) == EnqueueAdmin([s EXCEPT !.code_size = c.v], c, 0)

\* nvme_fw_activate (add_applet is part of the applets), nvme_adort_cmd,
\* which looks a request up and stops nothing, and nvme_unimplemented_cmd.
\* (A request it does not find is a null pointer it prints the fields of:
\* words at address 0, which the device can read; nothing is written.)
NvmeFwActivate(s, c) == EnqueueAdmin(s, c, 0)
NvmeAbortCmd(s, c) == EnqueueAdmin(s, c, 0)
NvmeUnimplementedCmd(s, c) == EnqueueAdmin(s, c, 0)

NvmeCreateSq(s, c) ==
  EnqueueAdmin([s EXCEPT !.sqs[c.q] = [sqid |-> c.q, cqid |-> c.v, size |-> SQ_SIZE,
                                       head |-> 0, tail |-> 0],
                         !.iosqCount = @ + 1], c, 0)

\* Mutant: the tail, which nvme_delete_cq leaves alone, is not reset.
NvmeCreateCq_keeps_tail(s, c) ==
  EnqueueAdmin([s EXCEPT !.cqs[c.q] = [cqid |-> c.q, phase |-> 1, size |-> CQ_SIZE,
                                       head |-> 0, tail |-> s.cqs[c.q].tail, pending |-> <<>>],
                         !.iocqCount = @ + 1], c, 0)

NvmeCreateCq(s, c) ==
  EnqueueAdmin([s EXCEPT !.cqs[c.q] = [cqid |-> c.q, phase |-> 1, size |-> CQ_SIZE,
                                       head |-> 0, tail |-> 0, pending |-> <<>>],
                         !.iocqCount = @ + 1], c, 0)

\* cqid and tail stay.
NvmeDeleteSq(s, c) ==
  EnqueueAdmin([s EXCEPT !.sqs[c.q] = [@ EXCEPT !.sqid = 0, !.size = 0, !.head = 0],
                         !.iosqCount = @ - 1], c, 0)

\* Mutant: the queue is not counted down.
NvmeDeleteCq_counted(s, c) ==
  EnqueueAdmin([s EXCEPT !.cqs[c.q] = [@ EXCEPT !.cqid = 0, !.phase = 0, !.size = 0,
                                                !.head = 0]], c, 0)

\* tail and pending stay.
NvmeDeleteCq(s, c) ==
  EnqueueAdmin([s EXCEPT !.cqs[c.q] = [@ EXCEPT !.cqid = 0, !.phase = 0, !.size = 0,
                                                !.head = 0],
                         !.iocqCount = @ - 1], c, 0)

AdminHandler(s, c) ==
  CASE c.op = "IDENTIFY" -> NvmeIdentify(s, c)
    [] c.op \in {"SET_QUEUES", "SET_OTHER"} -> NvmeSetFeature(s, c)
    [] c.op = "GET_FEATURES" -> NvmeGetFeature(s, c)
    [] c.op = "CREATE_SQ" -> NvmeCreateSq(s, c)
    [] c.op = "CREATE_CQ" -> NvmeCreateCq(s, c)
    [] c.op = "DELETE_SQ" -> NvmeDeleteSq(s, c)
    [] c.op = "DELETE_CQ" -> NvmeDeleteCq(s, c)
    [] c.op = "FW_DOWNLOAD" -> NvmeFwDownload(s, c)
    [] c.op = "FW_ACTIVATE" -> NvmeFwActivate(s, c)
    [] c.op = "ABORT" -> NvmeAbortCmd(s, c)
    [] OTHER -> NvmeUnimplementedCmd(s, c)

\* sync_read_scmd and inc_sq_head.
Fetch(s, q) == [s EXCEPT !.sqs[q].head = (@ + 1) % s.sqs[q].size]

\* An I/O command is finished before the next doorbell is read (a flush;
\* reads and writes are in NvmeIo), or handed to the in-storage-processing
\* thread, which completes it later.
IoHandler(s, q, c) ==
  LET cqid == s.cqs[s.sqs[q].cqid].cqid
  IN IF c.op = "ISP" THEN [s EXCEPT !.isp = @ \cup {[cqid |-> cqid, cid |-> c.cid]}]
     ELSE EnqueueIo(s, cqid, c.cid)
----------------------------------------------------------------------------
(* Steps of the driver's thread.                                            *)

\* enqueue_admin_ccmd and enqueue_io_ccmd end in posting what they can to q
\* (\E over one element: "after" is evaluated once).
PostTo(after, q) == \E s \in {after} :
  /\ d' = [s EXCEPT !.cqs[q] = PostCcmds(@)]
  /\ cq_mem' = [cq_mem EXCEPT ![q] = PostEntries(s.cqs[q], s.sqs[q].head, @)]

\* check_door_bell: a submission doorbell makes it fetch one command. (An
\* identify command without a handler enqueues nothing and posts nothing:
\* post_admin_ccmds is reached through enqueue_admin_ccmd only.)
CheckDoorSq ==
  /\ db # <<>> /\ Head(db).kind = "SQ" /\ db' = Tail(db)
  /\ LET q == Head(db).q
         c == h.out[q][sq_mem[q][d.sqs[q].head]]
     IN \E s \in {Fetch([d EXCEPT !.sqs[q].tail = Head(db).value], q)} :
        \E t \in {IF q = 0 THEN AdminHandler(s, c) ELSE IoHandler(s, q, c)} :
          IF c.op = "ISP" \/ ~Answered(c) THEN d' = t /\ UNCHANGED cq_mem
          ELSE PostTo(t, t.cqs[t.sqs[q].cqid].cqid)
  /\ UNCHANGED <<sq_mem, h>>

\* Mutant: the loop ends one queue early.
Polled_short(s) == 1 .. s.iocqCount - 1

\* The completion queues the two polling loops visit.
Polled(s) == 1 .. s.iocqCount

PostPolled(after) == \E s \in {after} :
  /\ d' = [s EXCEPT !.cqs = [q \in Qid |-> IF q \in Polled(s) THEN PostCcmds(s.cqs[q])
                                           ELSE s.cqs[q]]]
  /\ cq_mem' = [q \in Qid |-> IF q \in Polled(s)
                               THEN PostEntries(s.cqs[q], s.sqs[q].head, cq_mem[q])
                               ELSE cq_mem[q]]

\* A completion doorbell makes room in its queue, and the I/O queues are
\* polled: pending admin completions wait for the next admin command.
CheckDoorCq ==
  /\ db # <<>> /\ Head(db).kind = "CQ" /\ db' = Tail(db)
  /\ PostPolled([d EXCEPT !.cqs[Head(db).q].head = Head(db).value])
  /\ UNCHANGED <<sq_mem, h>>

\* No doorbell, for the 10000th time. (Shutdown is in NvmeIo.)
CheckDoorIdle ==
  /\ db = <<>>
  /\ PostPolled(d)
  /\ UNCHANGED <<sq_mem, db, h>>

\* The in-storage-processing thread's message ends a request.
IspComplete ==
  \E r \in d.isp :
    /\ PostTo(EnqueueIo([d EXCEPT !.isp = @ \ {r}], r.cqid, r.cid), r.cqid)
    /\ UNCHANGED <<sq_mem, db, h>>
----------------------------------------------------------------------------
(* The host's driver. Queue i is created after and deleted before the ones  *)
(* below it, its submission queue after and before its completion queue,    *)
(* and deleted only when none of its commands is outstanding. It may ask    *)
(* for any number of pairs; it does not create the one more that it may be  *)
(* granted, for which cqs and sqs have no entry.                            *)

Free(q) == {t \in 0 .. SqSize(q) - 2 : h.out[q][t] = NoCmd}
Idle(q) == Free(q) = 0 .. SqSize(q) - 2

\* Put command op into submission queue q and ring: g is the host's state
\* otherwise. sqhd is the head the last completion reported.
Send(q, op, on, v, g) ==
  LET cid == Min(Free(q))
      c == [op |-> op, q |-> on, v |-> v, cid |-> cid]
      tail == (g.tail[q] + 1) % SqSize(q)
  IN /\ Free(q) # {} /\ tail # g.sqhd[q]
     /\ sq_mem' = [sq_mem EXCEPT ![q][g.tail[q]] = cid]
     /\ h' = [g EXCEPT !.tail[q] = tail, !.out[q][cid] = c]
     /\ db' = Append(db, [kind |-> "SQ", q |-> q, value |-> tail])
     /\ UNCHANGED d

SendMisc(c) ==
  /\ h.nmisc < MaxMisc
  /\ c.op = "SET_QUEUES" => h.granted = 0
  /\ Send(0, c.op, 0, c.v, [h EXCEPT !.nmisc = @ + 1])
  /\ UNCHANGED cq_mem

\* The entries of a new completion queue are zeroed.
CreateCq(q) ==
  /\ h.nq < MaxQueueCmds /\ q <= h.granted /\ h.cq[q] = "none"
  /\ \A p \in 1 .. q - 1 : h.cq[p] = "live"
  /\ cq_mem' = [cq_mem EXCEPT ![q] = [i \in Slot |-> Blank]]
  /\ Send(0, "CREATE_CQ", q, 0,
          [h EXCEPT !.nq = @ + 1, !.cq[q] = "creating",
                    !.head[q] = 0, !.phase[q] = 1, !.rung[q] = 0])

CreateSq(q) ==
  /\ h.nq < MaxQueueCmds /\ h.cq[q] = "live" /\ h.sq[q] = "none"
  /\ Send(0, "CREATE_SQ", q, q,
          [h EXCEPT !.nq = @ + 1, !.sq[q] = "creating", !.tail[q] = 0, !.sqhd[q] = 0])
  /\ UNCHANGED cq_mem

DeleteSq(q) ==
  /\ h.nq < MaxQueueCmds /\ h.sq[q] = "live" /\ Idle(q)
  /\ Send(0, "DELETE_SQ", q, 0, [h EXCEPT !.nq = @ + 1, !.sq[q] = "deleting"])
  /\ UNCHANGED cq_mem

DeleteCq(q) ==
  /\ h.nq < MaxQueueCmds /\ h.cq[q] = "live" /\ h.sq[q] = "none"
  /\ \A p \in IoQid : p > q => h.cq[p] \in {"none", "deleting"}
  /\ Send(0, "DELETE_CQ", q, 0, [h EXCEPT !.nq = @ + 1, !.cq[q] = "deleting"])
  /\ UNCHANGED cq_mem

SendIo(q, op) ==
  /\ h.nio < MaxIo /\ h.sq[q] = "live"
  /\ Send(q, op, 0, 0, [h EXCEPT !.nio = @ + 1])
  /\ UNCHANGED cq_mem

\* What a completed command tells the host about the queue it names.
Learn(g, c, cdw0) ==
  CASE c.op = "SET_QUEUES" -> [g EXCEPT !.granted = cdw0 + 1]
    [] c.op = "CREATE_CQ" -> [g EXCEPT !.cq[c.q] = "live"]
    [] c.op = "CREATE_SQ" -> [g EXCEPT !.sq[c.q] = "live"]
    [] c.op = "DELETE_SQ" -> [g EXCEPT !.sq[c.q] = "none"]
    [] c.op = "DELETE_CQ" -> [g EXCEPT !.cq[c.q] = "none"]
    [] OTHER -> g

\* The next entry of completion queue q has the phase that makes it new.
Consume(q) ==
  LET e == cq_mem[q][h.head[q]] IN
  /\ q = 0 \/ h.cq[q] = "live"
  /\ e.phase = h.phase[q]
  /\ h' = Learn([h EXCEPT !.head[q] = (@ + 1) % CqSize(q),
                          !.phase[q] = IF h.head[q] + 1 = CqSize(q) THEN 1 - @ ELSE @,
                          !.sqhd[q] = e.sqhd,
                          !.out[q][e.cid] = NoCmd],
                h.out[q][e.cid], e.cdw0)
  /\ UNCHANGED <<d, cq_mem, sq_mem, db>>

RingCq(q) ==
  /\ q = 0 \/ h.cq[q] = "live"
  /\ h.rung[q] # h.head[q]
  /\ h' = [h EXCEPT !.rung[q] = h.head[q]]
  /\ db' = Append(db, [kind |-> "CQ", q |-> q, value |-> h.head[q]])
  /\ UNCHANGED <<d, cq_mem, sq_mem>>
----------------------------------------------------------------------------
\* initialize_nvme has set up the admin queues; the others are zero.
Init ==
  /\ d = [sqs |-> [q \in Qid |-> [sqid |-> 0, cqid |-> 0, head |-> 0, tail |-> 0,
                                  size |-> IF q = 0 THEN ASQ_SIZE ELSE 0]],
          cqs |-> [q \in Qid |-> [cqid |-> 0, head |-> 0, tail |-> 0, pending |-> <<>>,
                                  phase |-> IF q = 0 THEN 1 ELSE 0,
                                  size |-> IF q = 0 THEN ACQ_SIZE ELSE 0]],
          iosqCount |-> 0, iocqCount |-> 0, code_size |-> 0, isp |-> {}]
  /\ cq_mem = [q \in Qid |-> [i \in Slot |-> Blank]]
  /\ sq_mem = [q \in Qid |-> [i \in Slot |-> 0]]
  /\ db = <<>>
  /\ h = [tail |-> [q \in Qid |-> 0], sqhd |-> [q \in Qid |-> 0],
          head |-> [q \in Qid |-> 0], phase |-> [q \in Qid |-> 1], rung |-> [q \in Qid |-> 0],
          sq |-> [q \in Qid |-> "none"], cq |-> [q \in Qid |-> "none"],
          out |-> [q \in Qid |-> [t \in Tag |-> NoCmd]],
          granted |-> 0, nq |-> 0, nmisc |-> 0, nio |-> 0]

Next ==
  \/ CheckDoorSq \/ CheckDoorCq \/ CheckDoorIdle \/ IspComplete
  \/ \E c \in MiscCmds : SendMisc(c)
  \/ \E q \in IoQid : CreateCq(q) \/ CreateSq(q) \/ DeleteSq(q) \/ DeleteCq(q)
  \/ \E q \in IoQid, op \in {"FLUSH", "ISP"} : SendIo(q, op)
  \/ \E q \in Qid : Consume(q) \/ RingCq(q)

\* The driver's thread polls for ever, the in-storage-processing thread
\* ends its requests, the host takes completions and rings.
Fairness ==
  /\ WF_vars(CheckDoorSq \/ CheckDoorCq \/ CheckDoorIdle)
  /\ WF_vars(IspComplete)
  /\ WF_vars(\E q \in Qid : Consume(q)) /\ WF_vars(\E q \in Qid : RingCq(q))

Spec == Init /\ [][Next]_vars /\ Fairness
----------------------------------------------------------------------------
(* Properties.                                                             *)

\* Indices, counts and rings of the driver stay in their ranges: the counts
\* of queues within the arrays, however often queues are created and
\* deleted, and no ring of pending completions beyond its room.
TypeOK ==
  /\ d \in Driver /\ h \in Host
  /\ cq_mem \in [Qid -> [Slot -> [cid: Tag, phase: {0, 1}, sqhd: Slot, cdw0: 0 .. MAX_IO_SQCQ_PAIRS]]]
  /\ sq_mem \in [Qid -> [Slot -> Tag]]
  /\ db \in Seq([kind: {"SQ", "CQ"}, q: Qid, value: Slot])

\* Where a command without a completion is: rung for and not fetched, ...
Unfetched(q) ==
  [i \in 1 .. (h.tail[q] - d.sqs[q].head) % SqSize(q) |->
     sq_mem[q][(d.sqs[q].head + i - 1) % SqSize(q)]]
\* ... with the in-storage-processing thread, ...
AtIsp(q) == {r.cid : r \in {x \in d.isp : x.cqid = q}}
\* ... pending, or in the completion queue, new for the host.
PendingCids(q) == [i \in DOMAIN d.cqs[q].pending |-> d.cqs[q].pending[i].cid]
NewEntries(q) ==
  [i \in 1 .. (d.cqs[q].tail - h.head[q]) % CqSize(q) |->
     cq_mem[q][(h.head[q] + i - 1) % CqSize(q)].cid]

\* No command of any queue is lost, answered twice or answered to another
\* queue: each one the host waits for is in exactly one of these places,
\* nothing else is, and the entries the host takes for new are the ones the
\* driver has posted. This holds across the deletion and new creation of
\* queues, whose indices and phases start again, with completion queues
\* that are full and rings that are not checked for room.
EveryCommandOnce ==
  \A q \in {p \in Qid : p = 0 \/ h.sq[p] = "live"} :
    LET somewhere == Unfetched(q) \o PendingCids(q) \o NewEntries(q)
        out == {t \in Tag : h.out[q][t] # NoCmd}
        unanswered == {t \in out : ~Answered(h.out[q][t])}
    IN /\ IsInjective(somewhere)
       /\ Range(somewhere) \cap AtIsp(q) = {}
       /\ out \ unanswered \subseteq Range(somewhere) \cup AtIsp(q)
       /\ Range(somewhere) \cup AtIsp(q) \subseteq out
       /\ \A i \in DOMAIN NewEntries(q) :
            LET slot == h.head[q] + i - 1
            IN cq_mem[q][slot % CqSize(q)].phase
                 = IF slot >= CqSize(q) THEN 1 - h.phase[q] ELSE h.phase[q]

\* Every I/O command completes, whatever queues are created and deleted
\* meanwhile (the host sends MaxIo of them, so all are complete in the end):
\* completions that found their queue full are posted when the host has made
\* room. (An admin completion that found no room is posted with the next
\* admin command only, and a host that does not send one waits for ever.)
IoComplete == []<>(\A q \in IoQid : Idle(q))
=============================================================================
