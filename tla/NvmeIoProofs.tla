---------------------------- MODULE NvmeIoProofs ----------------------------
(***************************************************************************)
(* What the NVMe driver's I/O path guarantees for queues, namespaces and   *)
(* command sequences of any size. One number f runs through the argument:  *)
(* the commands the driver has fetched. It is not a variable of the        *)
(* driver, so the invariant says that it exists.                           *)
(*                                                                         *)
(* The driver works on one command at a time, because whatever ends the    *)
(* work on a command queues check_door_bell and nothing else does: then    *)
(* the queues for the page buffer are always empty, the flash holds the    *)
(* writes among the first f commands (but for one that is still in the     *)
(* page buffer), and reads return them.                                    *)
(***************************************************************************)
EXTENDS NvmeIo, FiniteSetTheorems, SequenceTheorems, TLAPS

\* Index i of a ring of n entries, after at most one turn.
Wrap(i, n) == IF i >= n THEN i - n ELSE i

\* Every read and write of the host is inside the range verify_rw_param checks.
InRange == \A c \in HostCmds : c.op \in {"READ", "WRITE"} => Verified(c)

Door == [kind: {"SQ", "CQ"}, value: Nat]

\* Types of what TypeOK leaves out.
MoreTypes ==
  /\ sent \in Seq(HostCmds) /\ Len(sent) <= MaxCmds
  /\ flash \in [Lpn -> Seq(Nat)] /\ shn \in BOOLEAN
  /\ db \in Seq(Door)
  /\ \A i \in 1 .. Len(db) : db[i].kind = "CQ" => db[i].value \in 0 .. CQ_SIZE - 1

\* A submission doorbell in db stands for one command that is not fetched:
\* g[i] commands were sent and rung for before the i-th entry.
Rung(f) ==
  \E g \in [1 .. Len(db) + 1 -> 0 .. Len(sent)] :
    /\ g[1] = f /\ g[Len(db) + 1] = Len(sent)
    /\ \A i \in 1 .. Len(db) : g[i + 1] = IF db[i].kind = "SQ" THEN g[i] + 1 ELSE g[i]

\* The submission queue holds the commands not fetched, in order.
Submitted(f) ==
  /\ f \in 0 .. Len(sent) /\ Len(sent) - f <= SQ_SIZE - 1
  /\ sq_tail = Wrap(d.sq_head + (Len(sent) - f), SQ_SIZE)
  /\ \A j \in 0 .. SQ_SIZE - 1 :
       j < Len(sent) - f => sq_mem[Wrap(d.sq_head + j, SQ_SIZE)] = f + 1 + j
  /\ f + 1 .. Len(sent) \subseteq outstanding
  /\ d.done \subseteq 1 .. f

----------------------------------------------------------------------------
(* The one command the driver works on.                                    *)

OnFlash(m) == \A l \in Lpn : flash[l] = Content(l, m)
CacheEmpty == \A i \in Pages : ~d.wbc[i].valid

\* Where a request to the FTL is.
Queued(r) == d.ftl_in = <<r>> /\ ftl_req = NoReq /\ ftl_out = <<>>
Served(r) == d.ftl_in = <<>> /\ ftl_req = r /\ ftl_out = <<>>
Returned(r) == d.ftl_in = <<>> /\ ftl_req = NoReq /\ ftl_out = <<r>>
Underway(r) ==
  /\ Queued(r) \/ Served(r) \/ Returned(r)
  /\ d.page_buffer_inuse /\ d.door = 0

\* No command is under way. The callback is lost with a rejected command.
Resting(f) ==
  /\ d.ftl_in = <<>> /\ ftl_req = NoReq /\ ftl_out = <<>>
  /\ ~d.page_buffer_inuse /\ d.door \in {0, 1} /\ (InRange => d.door = 1)
  /\ OnFlash(f) /\ CacheEmpty

Reading(f) ==
  /\ Underway(ReadReq(f))
  /\ f \in 1 .. Len(sent) /\ sent[f].op = "READ" /\ Verified(sent[f])
  /\ f \in outstanding /\ f \notin d.done
  /\ OnFlash(f) /\ CacheEmpty
  /\ Returned(ReadReq(f)) =>
       \A i \in Pages : i < sent[f].n => d.page_buffer[i] = flash[sent[f].slba + i]

\* The write f is in the page buffer, and completed, before it is programmed.
Writing(f) ==
  /\ Underway(WbcReq)
  /\ f \in 1 .. Len(sent) /\ sent[f].op = "WRITE" /\ Verified(sent[f])
  /\ ~Returned(WbcReq) =>
       /\ OnFlash(f - 1)
       /\ \A i \in Pages :
            IF i < sent[f].n
            THEN /\ d.wbc[i].valid /\ d.wbc[i].lpn = sent[f].slba + i
                 /\ d.page_buffer[i] = Data(f, i)
            ELSE ~d.wbc[i].valid
  /\ Returned(WbcReq) => OnFlash(f)

OneAtATime(f) ==
  /\ d.r_buf_q = <<>> /\ d.w_buf_q = <<>>
  /\ Resting(f) \/ Reading(f) \/ Writing(f)

Stored == stored # <<>> => shn /\ \A l \in Lpn : stored[l] = Content(l, Len(sent))

\* Completions are of commands the driver is done with.
OnlyDone(e) ==
  /\ \A s \in 0 .. CQ_SIZE - 1 : e.cq_mem[s].cid \in e.done \cup {0}
  /\ \A i \in 1 .. Len(e.pending) : e.pending[i] \in e.done

TInv == TypeOK /\ MoreTypes
FInv(f) == Rung(f) /\ Submitted(f) /\ OneAtATime(f)
IInv == TInv /\ ReadsSeeWrites /\ Stored /\ OnlyDone(d) /\ \E f \in Nat : FInv(f)

----------------------------------------------------------------------------
(* Facts about the constants and the commands sent.                        *)

LEMMA Sizes ==
  /\ SQ_SIZE \in Nat /\ SQ_SIZE >= 2 /\ CQ_SIZE \in Nat /\ CQ_SIZE >= 2
  /\ NSZE \in Nat /\ MDTS_PAGES \in Nat /\ MDTS_PAGES >= 1 /\ MaxCmds \in Nat
  BY QueueAssumption, RangeAssumption

LEMMA SentCommand ==
  ASSUME TInv, NEW c \in 1 .. Len(sent)
  PROVE  /\ sent[c] \in HostCmds /\ c \in Cid /\ c \in Nat
         /\ sent[c].op \in {"READ", "WRITE", "FLUSH", "UNKNOWN"}
         /\ sent[c].slba \in Nat /\ sent[c].n \in Nat /\ sent[c].n >= 1 /\ sent[c].n <= MDTS_PAGES
<1>1. sent \in Seq(HostCmds) /\ Len(sent) <= MaxCmds /\ Len(sent) \in Nat
  BY DEF TInv, MoreTypes
<1>2. sent[c] \in HostCmds /\ c \in Cid /\ c \in Nat
  BY <1>1, Sizes DEF Cid
<1> QED BY <1>2, CommandAssumption, Sizes

LEMMA WrapIs ==
  ASSUME NEW n \in Nat, n >= 2, NEW i \in 0 .. n - 1
  PROVE  (i + 1) % n = Wrap(i + 1, n) /\ Wrap(i + 1, n) \in 0 .. n - 1
<1>1. CASE i = n - 1
  BY <1>1 DEF Wrap
<1>2. CASE i # n - 1
  <2>1. i + 1 \in Nat /\ i + 1 < n
    BY <1>2
  <2>2. (i + 1) % n = i + 1
    BY <2>1
  <2> QED BY <2>1, <2>2 DEF Wrap
<1> QED BY <1>1, <1>2

----------------------------------------------------------------------------
(* The driver's operators: what they change, and that they keep its types. *)

\* p and e differ at most in the completion queue and the history.
SameWorkButHead(p, e) ==
  /\ p.door = e.door /\ p.sq_head = e.sq_head
  /\ p.r_buf_q = e.r_buf_q /\ p.w_buf_q = e.w_buf_q
  /\ p.page_buffer_inuse = e.page_buffer_inuse /\ p.page_buffer = e.page_buffer
  /\ p.wbc = e.wbc /\ p.ftl_in = e.ftl_in /\ p.host_mem = e.host_mem
SameWork(p, e) == SameWorkButHead(p, e) /\ p.cq_head = e.cq_head

\* How many completions post_io_ccmds posts.
Fit(e) == IF Len(e.pending) < CqRoom(e) THEN Len(e.pending) ELSE CqRoom(e)

LEMMA FitIs ==
  ASSUME NEW e \in Driver
  PROVE  /\ e.pending \in Seq(Cid) /\ Len(e.pending) \in Nat
         /\ CqRoom(e) \in 0 .. CQ_SIZE - 1
         /\ Fit(e) \in 0 .. CQ_SIZE - 1 /\ Fit(e) <= Len(e.pending)
<1>1. e.pending \in Seq(Cid) /\ e.cq_tail \in 0 .. CQ_SIZE - 1 /\ e.cq_head \in 0 .. CQ_SIZE - 1
  BY DEF Driver
<1>2. Len(e.pending) \in Nat
  BY <1>1
<1>3. (e.cq_tail + CQ_SIZE - e.cq_head) % CQ_SIZE \in 0 .. CQ_SIZE - 1
  <2>1. e.cq_tail + CQ_SIZE - e.cq_head \in Int
    BY <1>1, Sizes
  <2> QED BY <2>1, Sizes
<1>4. CqRoom(e) \in 0 .. CQ_SIZE - 1
  BY <1>3, Sizes DEF CqRoom
<1>5. Fit(e) \in 0 .. CQ_SIZE - 1 /\ Fit(e) <= Len(e.pending)
  <2> HIDE DEF CqRoom
  <2> QED BY <1>2, <1>4, Sizes, SMT DEF Fit
<1> QED BY <1>1, <1>2, <1>4, <1>5

LEMMA PostKeeps ==
  ASSUME NEW e \in Driver
  PROVE  /\ PostCcmds(e) \in Driver /\ SameWork(PostCcmds(e), e)
         /\ PostCcmds(e).done = e.done
         /\ OnlyDone(e) => OnlyDone(PostCcmds(e))
<1> DEFINE k == Fit(e)
           at(i) == (e.cq_tail + i) % CQ_SIZE
           mem == [s \in 0 .. CQ_SIZE - 1 |->
                    IF \E i \in 0 .. k - 1 : at(i) = s
                    THEN LET i == CHOOSE i \in 0 .. k - 1 : at(i) = s
                         IN  [cid |-> e.pending[i + 1], phase |-> PhaseAfter(e, i)]
                    ELSE e.cq_mem[s]]
           rest == SubSeq(e.pending, k + 1, Len(e.pending))
<1>1. PostCcmds(e) = [e EXCEPT !.cq_mem = mem, !.cq_tail = at(k),
                               !.cq_phase = PhaseAfter(e, k), !.pending = rest]
  BY DEF PostCcmds, Fit
<1>2. /\ e.pending \in Seq(Cid) /\ Len(e.pending) \in Nat
      /\ k \in 0 .. CQ_SIZE - 1 /\ k <= Len(e.pending)
  BY FitIs
<1>3. /\ e.cq_tail \in 0 .. CQ_SIZE - 1 /\ e.cq_phase \in {0, 1}
      /\ e.cq_mem \in [0 .. CQ_SIZE - 1 -> [cid: Cid \cup {0}, phase: {0, 1}]]
  BY DEF Driver
<1>4. at(k) \in 0 .. CQ_SIZE - 1
  <2>1. e.cq_tail + k \in Int
    BY <1>2, <1>3, Sizes
  <2> QED BY <2>1, Sizes
<1>5. \A i : PhaseAfter(e, i) \in {0, 1}
  BY <1>3 DEF PhaseAfter
<1>6. rest \in Seq(Cid)
  BY <1>2
<1>7. mem \in [0 .. CQ_SIZE - 1 -> [cid: Cid \cup {0}, phase: {0, 1}]]
  <2>1. ASSUME NEW s \in 0 .. CQ_SIZE - 1
        PROVE  mem[s] \in [cid: Cid \cup {0}, phase: {0, 1}]
    <3>1. CASE \E i \in 0 .. k - 1 : at(i) = s
      <4> DEFINE c == CHOOSE i \in 0 .. k - 1 : at(i) = s
      <4>1. c \in 0 .. k - 1
        BY <3>1
      <4>2. mem[s] = [cid |-> e.pending[c + 1], phase |-> PhaseAfter(e, c)]
        BY <3>1
      <4>3. e.pending[c + 1] \in Cid
        <5> HIDE DEF c
        <5>1. c + 1 \in 1 .. Len(e.pending)
          BY <1>2, <4>1
        <5> QED BY <1>2, <5>1
      <4> HIDE DEF c, mem
      <4> QED BY <1>5, <4>2, <4>3
    <3>2. CASE ~\E i \in 0 .. k - 1 : at(i) = s
      <4>1. mem[s] = e.cq_mem[s]
        BY <3>2
      <4> HIDE DEF mem
      <4> QED BY <1>3, <4>1
    <3> QED BY <3>1, <3>2
  <2> HIDE DEF mem
  <2>2. mem = [s \in 0 .. CQ_SIZE - 1 |-> mem[s]]
    BY DEF mem
  <2> QED BY <2>1, <2>2
<1>8. ASSUME OnlyDone(e)
      PROVE  /\ \A s \in 0 .. CQ_SIZE - 1 : mem[s].cid \in e.done \cup {0}
             /\ \A i \in 1 .. Len(rest) : rest[i] \in e.done
  <2>1. ASSUME NEW s \in 0 .. CQ_SIZE - 1 PROVE mem[s].cid \in e.done \cup {0}
    <3>1. CASE \E i \in 0 .. k - 1 : at(i) = s
      <4> DEFINE c == CHOOSE i \in 0 .. k - 1 : at(i) = s
      <4>1. c \in 0 .. k - 1
        BY <3>1
      <4>2. mem[s].cid = e.pending[c + 1]
        BY <3>1
      <4> HIDE DEF c, mem
      <4>3. c + 1 \in 1 .. Len(e.pending)
        BY <1>2, <4>1
      <4> QED BY <1>8, <4>2, <4>3 DEF OnlyDone
    <3>2. CASE ~\E i \in 0 .. k - 1 : at(i) = s
      <4>1. mem[s] = e.cq_mem[s]
        BY <3>2
      <4> HIDE DEF mem
      <4> QED BY <1>8, <4>1 DEF OnlyDone
    <3> QED BY <3>1, <3>2
  <2>2. ASSUME NEW i \in 1 .. Len(rest) PROVE rest[i] \in e.done
    <3> HIDE DEF k
    <3>1. Len(rest) = Len(e.pending) - k /\ rest[i] = e.pending[i + k]
      BY <1>2
    <3>2. i + k \in 1 .. Len(e.pending)
      BY <1>2, <3>1
    <3> QED BY <1>8, <3>1, <3>2 DEF OnlyDone
  <2> QED BY <2>1, <2>2
<1> HIDE DEF mem, rest, k, at
<1>9. PostCcmds(e) \in Driver
  BY <1>1, <1>4, <1>5, <1>6, <1>7, ZenonT(60) DEF Driver
<1>10. /\ PostCcmds(e).cq_mem = mem /\ PostCcmds(e).pending = rest /\ PostCcmds(e).done = e.done
       /\ SameWork(PostCcmds(e), e)
  BY <1>1, <1>9 DEF SameWork, SameWorkButHead, Driver
<1> QED BY <1>9, <1>8, <1>10 DEF OnlyDone

LEMMA EnqueueKeeps ==
  ASSUME NEW e \in Driver, NEW c \in Cid
  PROVE  /\ EnqueueCcmd(e, c) \in Driver /\ SameWork(EnqueueCcmd(e, c), e)
         /\ EnqueueCcmd(e, c).done = e.done \cup {c}
         /\ OnlyDone(e) => OnlyDone(EnqueueCcmd(e, c))
<1>1. CASE Len(e.pending) = CQ_SIZE - 1
  <2>1. EnqueueCcmd(e, c) = [e EXCEPT !.done = @ \cup {c}]
    BY <1>1 DEF EnqueueCcmd
  <2> QED BY <2>1, ZenonT(60) DEF Driver, SameWork, SameWorkButHead, OnlyDone
<1>2. CASE Len(e.pending) # CQ_SIZE - 1
  <2> DEFINE a == [e EXCEPT !.pending = Append(@, c), !.done = @ \cup {c}]
  <2>1. a \in Driver
    <3>1. e.pending \in Seq(Cid) /\ e.done \in SUBSET Cid
      BY DEF Driver
    <3>2. Append(e.pending, c) \in Seq(Cid) /\ e.done \cup {c} \in SUBSET Cid
      BY <3>1
    <3> DEFINE p == Append(e.pending, c)
               n == e.done \cup {c}
    <3>3. a = [e EXCEPT !.pending = p, !.done = n]
      OBVIOUS
    <3> HIDE DEF p, n, a
    <3> QED BY <3>2, <3>3 DEF Driver, p, n
  <2>2. SameWork(a, e) /\ a.done = e.done \cup {c}
    BY DEF Driver, SameWork, SameWorkButHead
  <2>3. EnqueueCcmd(e, c) = PostCcmds(a)
    BY <1>2 DEF EnqueueCcmd
  <2>4. OnlyDone(e) => OnlyDone(a)
    <3> SUFFICES ASSUME OnlyDone(e) PROVE OnlyDone(a)
      OBVIOUS
    <3>1. a.cq_mem = e.cq_mem /\ a.pending = Append(e.pending, c) /\ e.pending \in Seq(Cid)
      BY DEF Driver
    <3>2. \A i \in 1 .. Len(a.pending) :
            a.pending[i] = c \/ (i \in 1 .. Len(e.pending) /\ a.pending[i] = e.pending[i])
      BY <3>1
    <3> HIDE DEF a
    <3> QED BY <2>2, <3>1, <3>2 DEF OnlyDone
  <2> HIDE DEF a
  <2> QED BY <2>1, <2>2, <2>3, <2>4, PostKeeps DEF SameWork, SameWorkButHead
<1> QED BY <1>1, <1>2

----------------------------------------------------------------------------
(* What a step does to the driver, by the command it works on.             *)

SameCq(p, e) ==
  /\ p.cq_head = e.cq_head /\ p.cq_tail = e.cq_tail /\ p.cq_phase = e.cq_phase
  /\ p.cq_mem = e.cq_mem /\ p.pending = e.pending

\* The completion queue of p is that of e after c was completed.
Finishes(p, e, c) ==
  /\ p.done = e.done \cup {c}
  /\ \E y \in Driver : SameCq(y, e) /\ y.done = e.done /\ SameCq(p, EnqueueCcmd(y, c))

\* The queues for the page buffer are empty.
NoneWaits(e) == e.r_buf_q = <<>> /\ e.w_buf_q = <<>>

ReadStarts(p, e, c) ==
  /\ p.page_buffer_inuse /\ p.ftl_in = <<ReadReq(c)>>
  /\ p.wbc = e.wbc /\ p.page_buffer = e.page_buffer
  /\ SameCq(p, e) /\ p.done = e.done

WriteStarts(p, e, c) ==
  /\ p.page_buffer_inuse /\ p.ftl_in = <<WbcReq>>
  /\ \A i \in Pages : i < sent[c].n =>
       p.wbc[i] = [valid |-> TRUE, lpn |-> sent[c].slba + i] /\ p.page_buffer[i] = Data(c, i)
  /\ \A i \in Pages : ~(i < sent[c].n) => p.wbc[i] = e.wbc[i]
  /\ Finishes(p, e, c)

CommandEnds(p, e, c) ==
  /\ p.page_buffer_inuse = e.page_buffer_inuse /\ p.ftl_in = e.ftl_in
  /\ p.wbc = e.wbc /\ p.page_buffer = e.page_buffer
  /\ Finishes(p, e, c)

Ignored(p, e) ==
  /\ p.page_buffer_inuse = e.page_buffer_inuse /\ p.ftl_in = e.ftl_in
  /\ p.wbc = e.wbc /\ p.page_buffer = e.page_buffer
  /\ SameCq(p, e) /\ p.done = e.done

LEMMA StartRead ==
  ASSUME NEW e \in Driver, NEW c \in Cid, NoneWaits(e), ~e.page_buffer_inuse,
         e.ftl_in = <<>>, Verified(sent[c])
  PROVE  /\ ProcessReadIo(e, c) \in Driver
         /\ ReadStarts(ProcessReadIo(e, c), e, c) /\ NoneWaits(ProcessReadIo(e, c))
         /\ ProcessReadIo(e, c).sq_head = e.sq_head /\ ProcessReadIo(e, c).door = e.door
         /\ ProcessReadIo(e, c).host_mem = e.host_mem
<1> DEFINE q == <<ReadReq(c)>>
           p == [e EXCEPT !.r_buf_q = <<>>, !.page_buffer_inuse = TRUE, !.ftl_in = q]
<1>1. ProcessReadIo(e, c) = p
  <2> DEFINE x == [e EXCEPT !.r_buf_q = <<c>>]
  <2>1. ProcessReadIo(e, c) = ReadStep2(x)
    BY DEF ProcessReadIo, NoneWaits
  <2>2. x.r_buf_q = <<c>> /\ ~x.page_buffer_inuse /\ x.ftl_in = <<>>
    BY DEF Driver
  <2>3. Tail(<<c>>) = <<>> /\ Head(<<c>>) = c /\ <<c>> # <<>> /\ Append(<<>>, ReadReq(c)) = q
    OBVIOUS
  <2>4. ReadStep2(x) = [x EXCEPT !.page_buffer_inuse = TRUE, !.r_buf_q = <<>>, !.ftl_in = q]
    <3> HIDE DEF x, q
    <3> QED BY <2>2, <2>3 DEF ReadStep2
  <2> HIDE DEF q
  <2> QED BY <2>1, <2>4 DEF Driver
<1>2. q \in Seq(Request) /\ <<>> \in Seq(Cid)
  <2>1. ReadReq(c) \in Request
    BY DEF Request
  <2> HIDE DEF ReadReq
  <2> QED BY <2>1
<1> HIDE DEF q
<1>3. p \in Driver
  BY <1>2 DEF Driver
<1>4. /\ p.page_buffer_inuse = TRUE /\ p.door = e.door /\ p.ftl_in = q /\ p.wbc = e.wbc
      /\ p.page_buffer = e.page_buffer /\ SameCq(p, e) /\ p.done = e.done
      /\ p.r_buf_q = <<>> /\ p.w_buf_q = e.w_buf_q
      /\ p.sq_head = e.sq_head /\ p.host_mem = e.host_mem
  BY DEF Driver, SameCq
<1> HIDE DEF p
<1> QED BY <1>1, <1>3, <1>4 DEF ReadStarts, NoneWaits, q

LEMMA StartWrite ==
  ASSUME NEW e \in Driver, NEW c \in Cid, NoneWaits(e), ~e.page_buffer_inuse,
         e.ftl_in = <<>>, Verified(sent[c]), sent[c].slba \in Nat, sent[c].n \in Nat
  PROVE  /\ ProcessWriteIo(e, c) \in Driver
         /\ WriteStarts(ProcessWriteIo(e, c), e, c) /\ NoneWaits(ProcessWriteIo(e, c))
         /\ ProcessWriteIo(e, c).sq_head = e.sq_head /\ ProcessWriteIo(e, c).door = e.door
         /\ ProcessWriteIo(e, c).host_mem = e.host_mem
<1> DEFINE q == <<WbcReq>>
           w == [i \in Pages |-> IF i < sent[c].n THEN [valid |-> TRUE, lpn |-> sent[c].slba + i]
                                 ELSE e.wbc[i]]
           b == [i \in Pages |-> IF i < sent[c].n THEN Data(c, i) ELSE e.page_buffer[i]]
           y == [e EXCEPT !.w_buf_q = <<>>, !.page_buffer_inuse = TRUE, !.wbc = w,
                          !.page_buffer = b, !.ftl_in = q]
<1>1. ProcessWriteIo(e, c) = EnqueueCcmd(y, c)
  <2> DEFINE x == [e EXCEPT !.w_buf_q = <<c>>]
             g == [x EXCEPT !.page_buffer_inuse = TRUE, !.wbc = w]
  <2>1. ProcessWriteIo(e, c) = WriteStep2(x)
    BY DEF ProcessWriteIo, NoneWaits
  <2>2. /\ x.w_buf_q = <<c>> /\ ~x.page_buffer_inuse /\ x.wbc = e.wbc
        /\ g.w_buf_q = <<c>> /\ g.ftl_in = <<>> /\ g.page_buffer = e.page_buffer
    BY DEF Driver
  <2>3. Tail(<<c>>) = <<>> /\ Head(<<c>>) = c /\ <<c>> # <<>> /\ Append(<<>>, WbcReq) = q
    OBVIOUS
  <2>4. GetWriteIoBuffer(x, c) = g
    <3> HIDE DEF x
    <3> QED BY <2>2 DEF GetWriteIoBuffer
  <2>5. WriteStep2(x) = EnqueueCcmd([g EXCEPT !.w_buf_q = <<>>, !.page_buffer = b, !.ftl_in = q], c)
    <3> HIDE DEF x, g, q
    <3> QED BY <2>2, <2>3, <2>4, ZenonT(60) DEF WriteStep2
  <2>6. y = [g EXCEPT !.w_buf_q = <<>>, !.page_buffer = b, !.ftl_in = q]
    <3> HIDE DEF w, b, q
    <3> QED BY DEF Driver
  <2> HIDE DEF y, x, g
  <2> QED BY <2>1, <2>5, <2>6
<1>2. q \in Seq(Request) /\ <<>> \in Seq(Cid)
  <2>1. WbcReq \in Request
    BY DEF Request
  <2> HIDE DEF WbcReq
  <2> QED BY <2>1
<1>3. w \in [Pages -> [valid: BOOLEAN, lpn: Nat]]
  <2>1. e.wbc \in [Pages -> [valid: BOOLEAN, lpn: Nat]]
    BY DEF Driver
  <2>2. \A i \in Pages : [valid |-> TRUE, lpn |-> sent[c].slba + i] \in [valid: BOOLEAN, lpn: Nat]
    BY Sizes DEF Pages
  <2> QED BY <2>1, <2>2
<1>4. b \in [Pages -> Seq(Nat)]
  <2>1. \A i \in Pages : Data(c, i) \in Seq(Nat)
    BY Sizes DEF Data, Pages, Cid
  <2> QED BY <2>1 DEF Driver
<1>5. /\ \A i \in Pages : i < sent[c].n =>
           w[i] = [valid |-> TRUE, lpn |-> sent[c].slba + i] /\ b[i] = Data(c, i)
      /\ \A i \in Pages : ~(i < sent[c].n) => w[i] = e.wbc[i]
  OBVIOUS
<1> HIDE DEF q, w, b
<1>6. y \in Driver
  BY <1>2, <1>3, <1>4 DEF Driver
<1>7. /\ y.page_buffer_inuse = TRUE /\ y.door = e.door /\ y.ftl_in = q /\ y.wbc = w
      /\ y.page_buffer = b /\ SameCq(y, e) /\ y.done = e.done
      /\ y.w_buf_q = <<>> /\ y.r_buf_q = e.r_buf_q
      /\ y.sq_head = e.sq_head /\ y.host_mem = e.host_mem
  BY DEF Driver, SameCq
<1> HIDE DEF y
<1> DEFINE p == EnqueueCcmd(y, c)
<1>8. p \in Driver /\ SameWork(p, y) /\ p.done = y.done \cup {c} /\ SameCq(p, EnqueueCcmd(y, c))
  BY <1>6, EnqueueKeeps DEF SameCq
<1>9. Finishes(p, e, c)
  <2> HIDE DEF p
  <2> QED BY <1>6, <1>7, <1>8 DEF Finishes
<1> HIDE DEF p
<1>10. ProcessWriteIo(e, c) = p
  BY <1>1 DEF p
<1>11. /\ p.page_buffer_inuse /\ p.door = e.door /\ p.ftl_in = q /\ p.wbc = w
       /\ p.page_buffer = b /\ p.w_buf_q = <<>> /\ p.r_buf_q = e.r_buf_q
       /\ p.sq_head = e.sq_head /\ p.host_mem = e.host_mem
  BY <1>7, <1>8 DEF SameWork, SameWorkButHead
<1> QED BY <1>5, <1>8, <1>9, <1>10, <1>11 DEF WriteStarts, NoneWaits, q

----------------------------------------------------------------------------
(* The content the flash should have.                                      *)

Covers(c, l) ==
  /\ sent[c].op = "WRITE" /\ Verified(sent[c])
  /\ l \in sent[c].slba .. sent[c].slba + sent[c].n - 1

LEMMA ContentStep ==
  ASSUME NEW m \in Nat, m >= 1, NEW l
  PROVE  Content(l, m) = IF Covers(m, l) THEN Data(m, l - sent[m].slba) ELSE Content(l, m - 1)
<1> DEFINE ws(k) == {c \in 1 .. k : Covers(c, l)}
<1>1. \A k : Content(l, k) = IF ws(k) = {} THEN Blank
                             ELSE LET w == CHOOSE c \in ws(k) : \A x \in ws(k) : x <= c
                                  IN  Data(w, l - sent[w].slba)
  BY DEF Content, Covers
<1>2. CASE Covers(m, l)
  <2>1. m \in ws(m) /\ \A x \in ws(m) : x <= m
    BY <1>2
  <2>2. \A c \in ws(m) : (\A x \in ws(m) : x <= c) => c = m
    BY <2>1
  <2>3. (CHOOSE c \in ws(m) : \A x \in ws(m) : x <= c) = m
    <3> HIDE DEF ws
    <3> QED BY <2>1, <2>2
  <2> HIDE DEF ws
  <2> QED BY <1>1, <1>2, <2>1, <2>3
<1>3. CASE ~Covers(m, l)
  <2>1. ws(m) = ws(m - 1)
    BY <1>3
  <2> HIDE DEF ws
  <2> QED BY <1>1, <1>3, <2>1
<1> QED BY <1>2, <1>3

\* A set of numbers with a bound has a largest one: the smallest distance
\* from the bound exists, as < is well founded.
LEMMA LargestIn ==
  ASSUME NEW m \in Nat, NEW S \in SUBSET (1 .. m), S # {}
  PROVE  \E c \in S : \A x \in S : x <= c
<1> DEFINE T == {m - c : c \in S}
           R == OpToRel(<, Nat)
<1>1. IsWellFoundedOn(R, Nat)
  BY NatLessThanWellFounded
<1>2. T \subseteq Nat /\ T # {}
  <2>1. \A c \in S : m - c \in Nat
    OBVIOUS
  <2> HIDE DEF R
  <2> QED BY <2>1
<1>3. \A x, y \in Nat : x < y => <<x, y>> \in R
  BY DEF OpToRel
<1> HIDE DEF T, R
<1>4. \E x \in T : \A y \in T : ~(<<y, x>> \in R)
  BY <1>1, <1>2, WFMin
<1>5. PICK x \in T : \A y \in T : ~(y < x)
  BY <1>2, <1>3, <1>4
<1>6. PICK c \in S : x = m - c
  BY DEF T
<1>7. ASSUME NEW z \in S PROVE z <= c
  <2>1. m - z \in T
    BY DEF T
  <2>2. ~(m - z < m - c)
    BY <1>5, <1>6, <2>1
  <2> QED BY <2>2
<1> QED BY <1>7

\* What was sent before does not change when a command is added.
LEMMA ContentFrozen ==
  ASSUME TInv, sent' = sent \/ (\E c \in HostCmds : sent' = Append(sent, c)),
         NEW m \in 0 .. Len(sent), NEW l
  PROVE  Content(l, m)' = Content(l, m)
<1>1. \A c \in 1 .. m : sent'[c] = sent[c]
  <2>1. sent \in Seq(HostCmds) /\ Len(sent) \in Nat
    BY DEF TInv, MoreTypes
  <2> QED BY <2>1
<1> DEFINE ws == {c \in 1 .. m : Covers(c, l)}
<1>2. ws' = ws
  BY <1>1 DEF Covers, Verified
<1>3. Content(l, m) = IF ws = {} THEN Blank
                      ELSE LET w == CHOOSE c \in ws : \A x \in ws : x <= c
                           IN  Data(w, l - sent[w].slba)
  BY DEF Content, Covers
<1>4. Content(l, m)' = IF ws' = {} THEN Blank
                       ELSE LET w == CHOOSE c \in ws' : \A x \in ws' : x <= c
                            IN  Data(w, l - sent'[w].slba)
  BY DEF Content, Covers, Verified, Data, Blank
<1>5. ASSUME NEW S \in SUBSET (1 .. m), S # {}
      PROVE  (CHOOSE c \in S : \A x \in S : x <= c) \in 1 .. m
  <2>1. \E c \in S : \A x \in S : x <= c
    <3>1. m \in Nat
      BY DEF TInv, MoreTypes
    <3> QED BY <1>5, <3>1, LargestIn
  <2> HIDE DEF ws
  <2> QED BY <2>1
<1>6. CASE ws = {}
  BY <1>2, <1>3, <1>4, <1>6
<1>7. CASE ws # {}
  <2> DEFINE w == CHOOSE c \in ws : \A x \in ws : x <= c
  <2>1. w \in 1 .. m
    BY <1>5, <1>7
  <2>2. sent'[w] = sent[w]
    BY <1>1, <2>1
  <2>3. Content(l, m) = Data(w, l - sent[w].slba)
    BY <1>3, <1>7
  <2>4. Content(l, m)' = Data(w, l - sent'[w].slba)
    <3> DEFINE v == CHOOSE c \in ws' : \A x \in ws' : x <= c
    <3>1. Content(l, m)' = Data(v, l - sent'[v].slba)
      BY <1>2, <1>4, <1>7
    <3>2. v = w
      <4> HIDE DEF ws
      <4> QED BY <1>2
    <3> HIDE DEF v, w
    <3> QED BY <3>1, <3>2
  <2> HIDE DEF w
  <2> QED BY <2>2, <2>3, <2>4
<1> QED BY <1>6, <1>7

----------------------------------------------------------------------------
(* Doorbells and the submission queue.                                     *)

\* A doorbell is read: one command fewer is unfetched if it was a submission
\* doorbell, and then there was one.
LEMMA RungTail ==
  ASSUME TInv, NEW f \in Nat, Rung(f), db # <<>>, db' = Tail(db), sent' = sent
  PROVE  /\ Head(db).kind = "SQ" => f + 1 <= Len(sent) /\ Rung(f + 1)'
         /\ Head(db).kind # "SQ" => Rung(f)'
<1>1. /\ db \in Seq(Door) /\ Len(db) \in Nat /\ Len(db) >= 1 /\ Head(db) = db[1]
      /\ Len(db') = Len(db) - 1 /\ \A i \in 1 .. Len(db') : db'[i] = db[i + 1]
      /\ Len(sent) \in Nat
  BY DEF TInv, MoreTypes
<1>2. PICK g \in [1 .. Len(db) + 1 -> 0 .. Len(sent)] :
        /\ g[1] = f /\ g[Len(db) + 1] = Len(sent)
        /\ \A i \in 1 .. Len(db) : g[i + 1] = IF db[i].kind = "SQ" THEN g[i] + 1 ELSE g[i]
  BY DEF Rung
<1> DEFINE h == [i \in 1 .. Len(db') + 1 |-> g[i + 1]]
<1>3. h \in [1 .. Len(db') + 1 -> 0 .. Len(sent')]
  BY <1>1
<1>4. h[1] = g[2] /\ h[Len(db') + 1] = Len(sent')
  BY <1>1, <1>2
<1>5. \A i \in 1 .. Len(db') : h[i + 1] = IF db'[i].kind = "SQ" THEN h[i] + 1 ELSE h[i]
  <2> SUFFICES ASSUME NEW i \in 1 .. Len(db')
               PROVE  h[i + 1] = IF db'[i].kind = "SQ" THEN h[i] + 1 ELSE h[i]
    OBVIOUS
  <2>1. i + 1 \in 1 .. Len(db) /\ i + 1 \in 1 .. Len(db') + 1 /\ i \in 1 .. Len(db') + 1
    BY <1>1
  <2>2. h[i + 1] = g[i + 1 + 1] /\ h[i] = g[i + 1]
    BY <2>1
  <2> QED BY <1>1, <1>2, <2>1, <2>2
<1>6. g[2] = IF db[1].kind = "SQ" THEN f + 1 ELSE f
  BY <1>1, <1>2
<1>7. g[2] \in 0 .. Len(sent)
  BY <1>1
<1>8. Rung(g[2])'
  <2> HIDE DEF h
  <2> QED BY <1>3, <1>4, <1>5 DEF Rung
<1>9. CASE db[1].kind = "SQ"
  BY <1>1, <1>6, <1>7, <1>8, <1>9
<1>10. CASE db[1].kind # "SQ"
  BY <1>1, <1>6, <1>8, <1>10
<1> QED BY <1>9, <1>10

\* The host rings: for a command it has just sent, or for completions.
LEMMA RungAppend ==
  ASSUME TInv, NEW f \in Nat, Rung(f), NEW x \in Door, db' = Append(db, x),
         Len(sent') = IF x.kind = "SQ" THEN Len(sent) + 1 ELSE Len(sent)
  PROVE  Rung(f)'
<1>1. /\ db \in Seq(Door) /\ Len(db) \in Nat /\ Len(db') = Len(db) + 1
      /\ db'[Len(db) + 1] = x /\ \A i \in 1 .. Len(db) : db'[i] = db[i]
      /\ Len(sent) \in Nat
  BY DEF TInv, MoreTypes
<1>2. PICK g \in [1 .. Len(db) + 1 -> 0 .. Len(sent)] :
        /\ g[1] = f /\ g[Len(db) + 1] = Len(sent)
        /\ \A i \in 1 .. Len(db) : g[i + 1] = IF db[i].kind = "SQ" THEN g[i] + 1 ELSE g[i]
  BY DEF Rung
<1> DEFINE h == [i \in 1 .. Len(db') + 1 |-> IF i = Len(db') + 1 THEN Len(sent') ELSE g[i]]
<1>3. Len(sent') \in Nat /\ Len(sent') >= Len(sent)
  BY <1>1
<1>4. h \in [1 .. Len(db') + 1 -> 0 .. Len(sent')]
  BY <1>1, <1>3
<1>5. h[1] = f /\ h[Len(db') + 1] = Len(sent') /\ h[Len(db) + 1] = Len(sent)
  BY <1>1, <1>2
<1>6. \A i \in 1 .. Len(db') : h[i + 1] = IF db'[i].kind = "SQ" THEN h[i] + 1 ELSE h[i]
  <2> SUFFICES ASSUME NEW i \in 1 .. Len(db')
               PROVE  h[i + 1] = IF db'[i].kind = "SQ" THEN h[i] + 1 ELSE h[i]
    OBVIOUS
  <2>1. CASE i = Len(db) + 1
    BY <1>1, <1>5, <2>1
  <2>2. CASE i # Len(db) + 1
    <3>1. i \in 1 .. Len(db) /\ h[i] = g[i] /\ h[i + 1] = g[i + 1]
      BY <1>1, <2>2
    <3> HIDE DEF h
    <3> QED BY <1>1, <1>2, <3>1
  <2> QED BY <2>1, <2>2
<1> HIDE DEF h
<1> QED BY <1>4, <1>5, <1>6 DEF Rung

\* With no doorbell left every command has been fetched.
LEMMA RungAll ==
  ASSUME TInv, NEW f \in Nat, Rung(f), db = <<>>
  PROVE  f = Len(sent)
  BY DEF Rung, TInv, MoreTypes

LEMMA RungSame ==
  ASSUME NEW f \in Nat, Rung(f), UNCHANGED <<db, sent>>
  PROVE  Rung(f)'
  BY DEF Rung

\* The driver fetches the command it was rung for.
LEMMA NextCommand ==
  ASSUME TInv, NEW f \in Nat, FInv(f), CheckDoorSq
  PROVE  /\ f + 1 \in 1 .. Len(sent) /\ sq_mem[d.sq_head] = f + 1
         /\ Resting(f) /\ d.door = 1 /\ NoneWaits(d) /\ Rung(f + 1)'
<1>1. d.door > 0 /\ db # <<>> /\ Head(db).kind = "SQ" /\ db' = Tail(db) /\ sent' = sent
  BY DEF CheckDoorSq, hostVars
<1>2. Rung(f) /\ Submitted(f) /\ OneAtATime(f)
  BY DEF FInv
<1>3. f + 1 <= Len(sent) /\ Rung(f + 1)'
  BY <1>1, <1>2, RungTail
<1>4. Len(sent) \in Nat /\ d.sq_head \in 0 .. SQ_SIZE - 1 /\ d.door \in Nat
  BY DEF TInv, MoreTypes, TypeOK, Driver
<1>5. sq_mem[d.sq_head] = f + 1
  <2>1. 0 \in 0 .. SQ_SIZE - 1 /\ 0 < Len(sent) - f /\ Wrap(d.sq_head + 0, SQ_SIZE) = d.sq_head
    BY <1>3, <1>4, Sizes DEF Wrap
  <2>2. sq_mem[Wrap(d.sq_head + 0, SQ_SIZE)] = f + 1 + 0
    BY <1>2, <2>1 DEF Submitted
  <2> QED BY <2>1, <2>2
<1>6. Resting(f) /\ d.door = 1 /\ NoneWaits(d)
  BY <1>1, <1>2, <1>4 DEF OneAtATime, NoneWaits, Resting, Reading, Writing, Underway
<1> QED BY <1>3, <1>4, <1>5, <1>6

\* The head moves on with the command fetched.
LEMMA SubmittedFetch ==
  ASSUME TInv, NEW f \in Nat, Submitted(f), f + 1 \in 1 .. Len(sent),
         d'.sq_head = Wrap(d.sq_head + 1, SQ_SIZE), d'.done \subseteq d.done \cup {f + 1},
         UNCHANGED <<sent, sq_tail, sq_mem, outstanding>>
  PROVE  Submitted(f + 1)'
<1>1. Len(sent) \in Nat /\ d.sq_head \in 0 .. SQ_SIZE - 1
  BY DEF TInv, MoreTypes, TypeOK, Driver
<1>2. /\ f + 1 \in 0 .. Len(sent') /\ Len(sent') - (f + 1) <= SQ_SIZE - 1
      /\ (f + 1) + 1 .. Len(sent') \subseteq outstanding' /\ d'.done \subseteq 1 .. f + 1
  <2>1. f \in 0 .. Len(sent) /\ Len(sent) - f <= SQ_SIZE - 1
    BY DEF Submitted
  <2>2. (f + 1) + 1 .. Len(sent') \subseteq outstanding'
    <3>1. (f + 1) + 1 .. Len(sent) \subseteq f + 1 .. Len(sent)
      BY <1>1
    <3> QED BY <3>1 DEF Submitted
  <2>3. d'.done \subseteq 1 .. f + 1
    <3>1. 1 .. f \subseteq 1 .. f + 1 /\ f + 1 \in 1 .. f + 1
      OBVIOUS
    <3> QED BY <3>1 DEF Submitted
  <2> QED BY <1>1, <2>1, <2>2, <2>3, Sizes
<1>3. sq_tail' = Wrap(d'.sq_head + (Len(sent') - (f + 1)), SQ_SIZE)
  <2> DEFINE m == Len(sent) - f
             h == d.sq_head
  <2>1. m \in 1 .. SQ_SIZE - 1 /\ sq_tail = Wrap(h + m, SQ_SIZE)
    BY <1>1, Sizes DEF Submitted
  <2>2. Len(sent') - (f + 1) = m - 1
    BY <1>1
  <2>3. h \in 0 .. SQ_SIZE - 1 /\ d'.sq_head = Wrap(h + 1, SQ_SIZE) /\ sq_tail' = sq_tail
    BY <1>1
  <2> HIDE DEF m, h
  <2>4. Wrap(h + m, SQ_SIZE) = Wrap(Wrap(h + 1, SQ_SIZE) + (m - 1), SQ_SIZE)
    BY <2>1, <2>3, Sizes DEF Wrap
  <2> QED BY <2>1, <2>2, <2>3, <2>4
<1>4. ASSUME NEW j \in 0 .. SQ_SIZE - 1, j < Len(sent') - (f + 1)
      PROVE  sq_mem'[Wrap(d'.sq_head + j, SQ_SIZE)] = (f + 1) + 1 + j
  <2>1. j + 1 \in 0 .. SQ_SIZE - 1 /\ j + 1 < Len(sent) - f
    BY <1>1, <1>2, <1>4, Sizes
  <2>2. Wrap(d'.sq_head + j, SQ_SIZE) = Wrap(d.sq_head + (j + 1), SQ_SIZE)
    BY <1>1, <2>1, Sizes, SMTT(30) DEF Wrap
  <2>3. sq_mem[Wrap(d.sq_head + (j + 1), SQ_SIZE)] = f + 1 + (j + 1)
    BY <2>1 DEF Submitted
  <2> QED BY <2>2, <2>3, Sizes
<1> QED BY <1>2, <1>3, <1>4 DEF Submitted

----------------------------------------------------------------------------
(* check_door_bell fetches a command.                                      *)

\* Which command is started, ended or ignored, and who queues the callback.
Dispatched(p, e, c) ==
  \/ /\ sent[c].op = "READ" /\ Verified(sent[c])
     /\ ReadStarts(p, e, c) /\ p.door = 0
  \/ /\ sent[c].op = "WRITE" /\ Verified(sent[c])
     /\ WriteStarts(p, e, c) /\ p.door = 0
  \/ /\ sent[c].op \in {"READ", "WRITE"} /\ ~Verified(sent[c])
     /\ CommandEnds(p, e, c) /\ p.door = 0
  \/ /\ sent[c].op = "FLUSH" /\ CommandEnds(p, e, c) /\ p.door = 1
  \/ /\ sent[c].op = "UNKNOWN" /\ Ignored(p, e) /\ p.door = 1

LEMMA CommandEnded ==
  ASSUME NEW e \in Driver, NEW c \in Cid
  PROVE  /\ CommandEnds(EnqueueCcmd(e, c), e, c)
         /\ SameWork(EnqueueCcmd(e, c), e) /\ EnqueueCcmd(e, c) \in Driver
<1>1. /\ EnqueueCcmd(e, c) \in Driver /\ SameWork(EnqueueCcmd(e, c), e)
      /\ EnqueueCcmd(e, c).done = e.done \cup {c}
  BY EnqueueKeeps
<1> DEFINE p == EnqueueCcmd(e, c)
<1>2. SameCq(e, e) /\ SameCq(p, EnqueueCcmd(e, c))
  BY DEF SameCq
<1> HIDE DEF p
<1> QED BY <1>1, <1>2 DEF CommandEnds, Finishes, SameWork, SameWorkButHead, p

LEMMA DoorAdded ==
  ASSUME NEW e \in Driver
  PROVE  /\ AddDoor(e) \in Driver /\ AddDoor(e).door = e.door + 1
         /\ Ignored(AddDoor(e), e) /\ (NoneWaits(AddDoor(e)) <=> NoneWaits(e))
         /\ AddDoor(e).sq_head = e.sq_head /\ AddDoor(e).host_mem = e.host_mem
<1>1. AddDoor(e) \in Driver
  <2> DEFINE k == e.door + 1
  <2>1. k \in Nat
    BY DEF Driver
  <2>2. AddDoor(e) = [e EXCEPT !.door = k]
    BY DEF AddDoor
  <2> HIDE DEF k
  <2> QED BY <2>1, <2>2 DEF Driver
<1>2. /\ AddDoor(e).door = e.door + 1 /\ (NoneWaits(AddDoor(e)) <=> NoneWaits(e))
      /\ AddDoor(e).sq_head = e.sq_head /\ AddDoor(e).host_mem = e.host_mem
  BY DEF AddDoor, Driver, NoneWaits
<1>3. Ignored(AddDoor(e), e)
  BY DEF AddDoor, Driver, Ignored, SameCq
<1> QED BY <1>1, <1>2, <1>3

LEMMA FetchEffect ==
  ASSUME TInv, NEW f \in Nat, FInv(f), CheckDoorSq
  PROVE  /\ d' \in Driver /\ NoneWaits(d') /\ Dispatched(d', d, f + 1)
         /\ d'.sq_head = Wrap(d.sq_head + 1, SQ_SIZE) /\ d'.host_mem = d.host_mem
<1> DEFINE c == f + 1
           k == d.door - 1
           s == IncSqHead(d.sq_head)
           x == [d EXCEPT !.door = k, !.sq_head = s]
<1>1. /\ c \in 1 .. Len(sent) /\ sq_mem[d.sq_head] = c
      /\ Resting(f) /\ d.door = 1 /\ NoneWaits(d) /\ d \in Driver
  BY NextCommand DEF TInv, TypeOK
<1>2. s = Wrap(d.sq_head + 1, SQ_SIZE) /\ s \in 0 .. SQ_SIZE - 1 /\ k = 0
  <2>1. d.sq_head \in 0 .. SQ_SIZE - 1
    BY <1>1 DEF Driver
  <2> QED BY <1>1, <2>1, WrapIs, Sizes DEF IncSqHead
<1>3. /\ c \in Cid /\ sent[c].op \in {"READ", "WRITE", "FLUSH", "UNKNOWN"}
      /\ sent[c].slba \in Nat /\ sent[c].n \in Nat
  BY <1>1, SentCommand
<1>4. d' = CASE sent[c].op = "READ"    -> ProcessReadIo(x, c)
             [] sent[c].op = "WRITE"   -> ProcessWriteIo(x, c)
             [] sent[c].op = "FLUSH"   -> ProcessFlushIo(x, c)
             [] sent[c].op = "UNKNOWN" -> UnknownIoCmd(x, c)
  <2>1. TakeDoor(d).sq_head = d.sq_head /\ [TakeDoor(d) EXCEPT !.sq_head = IncSqHead(@)] = x
    BY <1>1 DEF TakeDoor, Driver
  <2>2. d' = ProcessIoCmd(TakeDoor(d))
    BY DEF CheckDoorSq
  <2> HIDE DEF x, c
  <2> QED BY <1>1, <2>1, <2>2 DEF ProcessIoCmd
<1> HIDE DEF c, k, s
<1>5. x \in Driver
  BY <1>1, <1>2 DEF Driver
<1>6. /\ x.door = 0 /\ x.sq_head = s /\ NoneWaits(x) /\ x.host_mem = d.host_mem
      /\ x.page_buffer_inuse = d.page_buffer_inuse /\ x.ftl_in = d.ftl_in /\ x.wbc = d.wbc
      /\ x.page_buffer = d.page_buffer /\ SameCq(x, d) /\ x.done = d.done
  BY <1>1, <1>2 DEF Driver, NoneWaits, SameCq
<1> HIDE DEF x
<1>7. ~x.page_buffer_inuse /\ x.ftl_in = <<>>
  BY <1>1, <1>6 DEF Resting
\* Relative to d instead of x.
<1>8. \A p : /\ ReadStarts(p, x, c) => ReadStarts(p, d, c)
             /\ WriteStarts(p, x, c) => WriteStarts(p, d, c)
             /\ CommandEnds(p, x, c) => CommandEnds(p, d, c)
             /\ Ignored(p, x) => Ignored(p, d)
  <2> SUFFICES ASSUME NEW p
               PROVE  /\ ReadStarts(p, x, c) => ReadStarts(p, d, c)
                      /\ WriteStarts(p, x, c) => WriteStarts(p, d, c)
                      /\ CommandEnds(p, x, c) => CommandEnds(p, d, c)
                      /\ Ignored(p, x) => Ignored(p, d)
    OBVIOUS
  <2>1. Finishes(p, x, c) => Finishes(p, d, c)
    BY <1>6 DEF Finishes, SameCq
  <2>2. SameCq(p, x) => SameCq(p, d)
    BY <1>6 DEF SameCq
  <2>3. ReadStarts(p, x, c) => ReadStarts(p, d, c)
    BY <1>6, <2>2 DEF ReadStarts
  <2>4. WriteStarts(p, x, c) => WriteStarts(p, d, c)
    BY <1>6, <2>1 DEF WriteStarts
  <2>5. CommandEnds(p, x, c) => CommandEnds(p, d, c)
    BY <1>6, <2>1 DEF CommandEnds
  <2>6. Ignored(p, x) => Ignored(p, d)
    BY <1>6, <2>2 DEF Ignored
  <2> QED BY <2>3, <2>4, <2>5, <2>6
<1> DEFINE Good(p) == /\ p \in Driver /\ NoneWaits(p) /\ Dispatched(p, d, c)
                      /\ p.sq_head = s /\ p.host_mem = d.host_mem
<1>9. ASSUME sent[c].op = "READ", Verified(sent[c]) PROVE Good(ProcessReadIo(x, c))
  BY <1>3, <1>5, <1>6, <1>7, <1>8, <1>9, StartRead DEF Dispatched
<1>10. ASSUME sent[c].op = "WRITE", Verified(sent[c]) PROVE Good(ProcessWriteIo(x, c))
  BY <1>3, <1>5, <1>6, <1>7, <1>8, <1>10, StartWrite DEF Dispatched
<1>11. /\ EnqueueCcmd(x, c) \in Driver /\ NoneWaits(EnqueueCcmd(x, c))
       /\ CommandEnds(EnqueueCcmd(x, c), d, c) /\ EnqueueCcmd(x, c).door = 0
       /\ EnqueueCcmd(x, c).sq_head = s /\ EnqueueCcmd(x, c).host_mem = d.host_mem
  <2>1. /\ CommandEnds(EnqueueCcmd(x, c), x, c)
        /\ SameWork(EnqueueCcmd(x, c), x) /\ EnqueueCcmd(x, c) \in Driver
    BY <1>3, <1>5, CommandEnded
  <2> QED BY <1>6, <1>8, <2>1 DEF SameWork, SameWorkButHead, NoneWaits
<1>12. ASSUME sent[c].op \in {"READ", "WRITE"}, ~Verified(sent[c])
       PROVE  /\ Good(EnqueueCcmd(x, c)) /\ ProcessReadIo(x, c) = EnqueueCcmd(x, c)
              /\ ProcessWriteIo(x, c) = EnqueueCcmd(x, c)
  BY <1>11, <1>12 DEF Dispatched, ProcessReadIo, ProcessWriteIo
<1>13. ASSUME sent[c].op = "FLUSH" PROVE Good(ProcessFlushIo(x, c))
  <2> DEFINE e == EnqueueCcmd(x, c)
             p == AddDoor(e)
  <2>1. /\ p \in Driver /\ p.door = 1 /\ Ignored(p, e) /\ NoneWaits(p)
        /\ p.sq_head = s /\ p.host_mem = d.host_mem
    BY <1>11, DoorAdded
  <2>2. CommandEnds(e, d, c)
    BY <1>11
  <2> HIDE DEF p, e
  <2>3. Finishes(p, d, c)
    BY <2>1, <2>2 DEF CommandEnds, Ignored, Finishes, SameCq
  <2>4. CommandEnds(p, d, c)
    BY <2>1, <2>2, <2>3 DEF CommandEnds, Ignored
  <2>5. ProcessFlushIo(x, c) = p
    BY DEF ProcessFlushIo, p, e
  <2> QED BY <1>13, <2>1, <2>4, <2>5 DEF Dispatched
<1>14. ASSUME sent[c].op = "UNKNOWN" PROVE Good(UnknownIoCmd(x, c))
  BY <1>5, <1>6, <1>8, <1>14, DoorAdded DEF UnknownIoCmd, Dispatched
<1>15. Good(d')
  <2> HIDE DEF Good
  <2> QED BY <1>3, <1>4, <1>9, <1>10, <1>12, <1>13, <1>14
<1> QED BY <1>2, <1>15 DEF c

----------------------------------------------------------------------------
(* Every step keeps the invariant. First what does not concern commands.   *)

LEMMA ContentSame ==
  ASSUME UNCHANGED sent
  PROVE  \A l, m : Content(l, m)' = Content(l, m)
  BY DEF Content, Verified, Data, Blank

LEMMA DoorTail ==
  ASSUME TInv, db # <<>>, db' = Tail(db)
  PROVE  /\ db' \in Seq(Door)
         /\ \A i \in 1 .. Len(db') : db'[i].kind = "CQ" => db'[i].value \in 0 .. CQ_SIZE - 1
         /\ Head(db) \in Door /\ (Head(db).kind = "CQ" => Head(db).value \in 0 .. CQ_SIZE - 1)
<1>1. /\ db \in Seq(Door) /\ Len(db) \in Nat /\ Len(db) >= 1 /\ Head(db) = db[1]
      /\ Len(db') = Len(db) - 1 /\ \A i \in 1 .. Len(db') : db'[i] = db[i + 1]
      /\ db' \in Seq(Door)
  BY DEF TInv, MoreTypes
<1>2. \A i \in 1 .. Len(db) : db[i].kind = "CQ" => db[i].value \in 0 .. CQ_SIZE - 1
  BY DEF TInv, MoreTypes
<1>3. \A i \in 1 .. Len(db') : i + 1 \in 1 .. Len(db)
  BY <1>1
<1>4. 1 \in 1 .. Len(db)
  BY <1>1
<1> QED BY <1>1, <1>2, <1>3, <1>4

\* Types, for a step of the driver.
LEMMA DriverTypes ==
  ASSUME TInv, UNCHANGED hostVars, d' \in Driver, d'.done \subseteq 1 .. Len(sent),
         UNCHANGED <<ftl_req, flash>> \/ (flash' \in [Lpn -> Seq(Nat)] /\ ftl_req' \in Request \cup {NoReq}),
         ftl_out' \in Seq(Request),
         db' = db \/ (db # <<>> /\ db' = Tail(db))
  PROVE  TInv'
<1>1. MoreTypes'
  <2>1. /\ db' \in Seq(Door)
        /\ \A i \in 1 .. Len(db') : db'[i].kind = "CQ" => db'[i].value \in 0 .. CQ_SIZE - 1
    <3>1. CASE db' = db
      BY <3>1 DEF TInv, MoreTypes
    <3>2. CASE db # <<>> /\ db' = Tail(db)
      BY <3>2, DoorTail
    <3> QED BY <3>1, <3>2
  <2>2. sent' = sent /\ shn' = shn
    BY DEF hostVars
  <2> QED BY <2>1, <2>2 DEF TInv, MoreTypes
<1>2. TypeOK'
  <2>1. UNCHANGED <<sent, sq_tail, sq_mem, host_head, host_phase, rung, outstanding>>
    BY DEF hostVars
  <2> QED BY <2>1 DEF TInv, TypeOK
<1> QED BY <1>1, <1>2 DEF TInv

\* A step that leaves the commands, what they wait for and the flash alone.
LEMMA QuietKeeps ==
  ASSUME TInv, NEW f \in Nat, OneAtATime(f), UNCHANGED <<sent, ftl_req, ftl_out, flash>>,
         outstanding \cap (1 .. Len(sent)) \subseteq outstanding' \cup d.done,
         SameWorkButHead(d', d), d'.done = d.done
  PROVE  OneAtATime(f)'
<1>1. /\ d'.page_buffer_inuse = d.page_buffer_inuse /\ d'.ftl_in = d.ftl_in
      /\ d'.wbc = d.wbc /\ d'.page_buffer = d.page_buffer /\ d'.done = d.done
      /\ d'.door = d.door
  BY DEF SameWorkButHead
<1>2. \A m : OnFlash(m)' <=> OnFlash(m)
  BY ContentSame DEF OnFlash
<1>3. CacheEmpty' <=> CacheEmpty
  BY <1>1 DEF CacheEmpty
<1>4. \A r : /\ Returned(r)' <=> Returned(r)
             /\ Underway(r)' <=> Underway(r)
  BY <1>1 DEF Queued, Served, Returned, Underway
<1>5. d'.r_buf_q = <<>> /\ d'.w_buf_q = <<>>
  BY DEF OneAtATime, SameWorkButHead
<1>6. Resting(f) => Resting(f)'
  BY <1>1, <1>2, <1>3 DEF Resting
<1>7. Reading(f) => Reading(f)'
  <2> SUFFICES ASSUME Reading(f) PROVE Reading(f)'
    OBVIOUS
  <2>1. f \in outstanding' /\ f \notin d'.done
    BY <1>1 DEF Reading
  <2>2. Verified(sent[f])' <=> Verified(sent[f])
    BY DEF Verified
  <2>3. Underway(ReadReq(f))' /\ (Returned(ReadReq(f))' <=> Returned(ReadReq(f)))
    BY <1>4 DEF Reading
  <2>4. OnFlash(f)' /\ CacheEmpty'
    BY <1>2, <1>3 DEF Reading
  <2> QED BY <1>1, <2>1, <2>2, <2>3, <2>4 DEF Reading
<1>8. Writing(f) => Writing(f)'
  <2> SUFFICES ASSUME Writing(f) PROVE Writing(f)'
    OBVIOUS
  <2>1. Verified(sent[f])' <=> Verified(sent[f])
    BY DEF Verified
  <2>2. Underway(WbcReq)' /\ (Returned(WbcReq)' <=> Returned(WbcReq))
    BY <1>4 DEF Writing
  <2>3. (OnFlash(f)' <=> OnFlash(f)) /\ (OnFlash(f - 1)' <=> OnFlash(f - 1))
    BY <1>2
  <2> QED BY <1>1, <2>1, <2>2, <2>3 DEF Writing, Data
<1> QED BY <1>5, <1>6, <1>7, <1>8 DEF OneAtATime

LEMMA SubmittedSame ==
  ASSUME NEW f \in Nat, Submitted(f), UNCHANGED <<sent, sq_tail, sq_mem, outstanding>>,
         d'.sq_head = d.sq_head, d'.done \subseteq 1 .. f
  PROVE  Submitted(f)'
  BY DEF Submitted

LEMMA HistorySame ==
  ASSUME UNCHANGED <<sent, shn, stored>>, ReadsSeeWrites, Stored,
         \A c \in d'.done : c \notin d.done => ~(sent[c].op = "READ" /\ Verified(sent[c])),
         d'.host_mem = d.host_mem
  PROVE  ReadsSeeWrites' /\ Stored'
<1>1. ReadsSeeWrites'
  BY ContentSame DEF ReadsSeeWrites, Verified
<1>2. Stored'
  BY ContentSame DEF Stored
<1> QED BY <1>1, <1>2

----------------------------------------------------------------------------
(* The steps of check_door_bell.                                           *)

LEMMA FinishesDone ==
  ASSUME NEW p, NEW e, NEW c \in Cid, Finishes(p, e, c), OnlyDone(e)
  PROVE  OnlyDone(p)
<1>1. PICK y \in Driver : SameCq(y, e) /\ y.done = e.done /\ SameCq(p, EnqueueCcmd(y, c))
  BY DEF Finishes
<1>2. OnlyDone(y)
  BY <1>1 DEF SameCq, OnlyDone
<1>3. OnlyDone(EnqueueCcmd(y, c)) /\ EnqueueCcmd(y, c).done = y.done \cup {c}
  BY <1>2, EnqueueKeeps
<1> QED BY <1>1, <1>3 DEF SameCq, OnlyDone, Finishes

\* What a command that is no write leaves on flash.
LEMMA SameContent ==
  ASSUME TInv, NEW f \in Nat, OnFlash(f), UNCHANGED <<sent, flash>>,
         ~(sent[f + 1].op = "WRITE" /\ Verified(sent[f + 1]))
  PROVE  OnFlash(f + 1)'
<1>1. \A l : Content(l, f + 1) = Content(l, f)
  <2> TAKE l
  <2>1. f + 1 \in Nat /\ f + 1 >= 1 /\ (f + 1) - 1 = f
    OBVIOUS
  <2>2. ~Covers(f + 1, l)
    BY DEF Covers
  <2> QED BY <2>1, <2>2, ContentStep
<1> QED BY <1>1, ContentSame DEF OnFlash

LEMMA FetchKeeps ==
  ASSUME IInv, CheckDoorSq
  PROVE  IInv'
<1>1. PICK f \in Nat : FInv(f)
  BY DEF IInv
<1> DEFINE c == f + 1
<1>2. TInv /\ ReadsSeeWrites /\ Stored /\ OnlyDone(d) /\ Submitted(f)
  BY <1>1 DEF IInv, FInv
<1>3. /\ c \in 1 .. Len(sent) /\ Resting(f) /\ Rung(c)'
  BY <1>1, <1>2, NextCommand
<1>4. /\ d' \in Driver /\ NoneWaits(d') /\ Dispatched(d', d, c)
      /\ d'.sq_head = Wrap(d.sq_head + 1, SQ_SIZE) /\ d'.host_mem = d.host_mem
  BY <1>1, <1>2, FetchEffect
<1>5. /\ UNCHANGED <<sent, sq_tail, sq_mem, outstanding, shn, stored, flash, ftl_req, ftl_out>>
      /\ UNCHANGED hostVars /\ db # <<>> /\ db' = Tail(db)
  BY DEF CheckDoorSq, hostVars
<1>6. c \in Cid /\ c \in outstanding /\ c \notin d.done /\ Len(sent) \in Nat
  <2>1. c \in Cid /\ Len(sent) \in Nat
    BY <1>2, <1>3, SentCommand DEF TInv, MoreTypes
  <2>2. c \in f + 1 .. Len(sent) /\ c \notin 1 .. f
    BY <1>3, <2>1
  <2> QED BY <1>2, <2>1, <2>2 DEF Submitted
<1>7. d'.done \subseteq d.done \cup {c}
  BY <1>4 DEF Dispatched, ReadStarts, WriteStarts, CommandEnds, Ignored, Finishes
<1>8. Submitted(c)'
  BY <1>2, <1>3, <1>4, <1>5, <1>7, SubmittedFetch
<1>9. TInv'
  <2>1. d'.done \subseteq 1 .. Len(sent)
    BY <1>2, <1>3, <1>7 DEF TInv, TypeOK
  <2>2. ftl_out' \in Seq(Request)
    BY <1>2, <1>5 DEF TInv, TypeOK
  <2> QED BY <1>2, <1>4, <1>5, <2>1, <2>2, DriverTypes
<1>10. OnlyDone(d')
  <2>1. CASE SameCq(d', d) /\ d'.done = d.done
    BY <1>2, <2>1 DEF SameCq, OnlyDone
  <2>2. CASE Finishes(d', d, c)
    BY <1>2, <1>6, <2>2, FinishesDone
  <2> QED BY <1>4, <2>1, <2>2 DEF Dispatched, ReadStarts, WriteStarts, CommandEnds, Ignored
<1>11. ReadsSeeWrites' /\ Stored'
  <2>1. d'.done = d.done \/ ~(sent[c].op = "READ" /\ Verified(sent[c]))
    BY <1>4 DEF Dispatched, ReadStarts, Ignored
  <2> QED BY <1>2, <1>4, <1>5, <1>7, <2>1, HistorySame
<1>12. OneAtATime(c)'
  <2>1. d'.r_buf_q = <<>> /\ d'.w_buf_q = <<>>
    BY <1>4 DEF NoneWaits
  <2>2. /\ d.ftl_in = <<>> /\ ftl_req' = NoReq /\ ftl_out' = <<>> /\ ~d.page_buffer_inuse
        /\ OnFlash(f) /\ CacheEmpty
    BY <1>3, <1>5 DEF Resting
  <2>3. sent'[c] = sent[c] /\ (Verified(sent[c])' <=> Verified(sent[c]))
    BY <1>5 DEF Verified
  <2> HIDE DEF c
  <2>4. ~(sent[c].op = "WRITE" /\ Verified(sent[c])) => OnFlash(c)'
    BY <1>2, <1>5, <2>2, SameContent DEF c
  <2>5. CASE sent[c].op = "READ" /\ Verified(sent[c]) /\ ReadStarts(d', d, c) /\ d'.door = 0
    <3>1. Queued(ReadReq(c))' /\ Underway(ReadReq(c))' /\ ~Returned(ReadReq(c))'
      BY <2>2, <2>5 DEF ReadStarts, Queued, Underway, Returned
    <3>2. CacheEmpty'
      BY <2>2, <2>5 DEF ReadStarts, CacheEmpty
    <3>3. c \in outstanding' /\ c \notin d'.done
      BY <1>5, <1>6, <2>5 DEF ReadStarts
    <3>4. Reading(c)'
      BY <1>3, <1>5, <2>3, <2>4, <2>5, <3>1, <3>2, <3>3 DEF Reading
    <3> QED BY <2>1, <3>4 DEF OneAtATime
  <2>6. CASE sent[c].op = "WRITE" /\ Verified(sent[c]) /\ WriteStarts(d', d, c) /\ d'.door = 0
    <3>1. Underway(WbcReq)' /\ ~Returned(WbcReq)'
      <4>1. Queued(WbcReq)' /\ d'.page_buffer_inuse
        BY <2>2, <2>6 DEF WriteStarts, Queued
      <4> QED BY <2>6, <4>1 DEF Queued, Underway, Returned
    <3>2. OnFlash(c - 1)'
      <4>1. c - 1 = f
        BY <1>1 DEF c
      <4> QED BY <1>5, <2>2, <4>1, ContentSame DEF OnFlash
    <3>3. \A i \in Pages :
            IF i < sent[c].n
            THEN /\ d'.wbc[i].valid /\ d'.wbc[i].lpn = sent[c].slba + i
                 /\ d'.page_buffer[i] = Data(c, i)
            ELSE ~d'.wbc[i].valid
      <4> TAKE i \in Pages
      <4>1. ASSUME i < sent[c].n
            PROVE  /\ d'.wbc[i].valid /\ d'.wbc[i].lpn = sent[c].slba + i
                   /\ d'.page_buffer[i] = Data(c, i)
        <5>1. /\ d'.wbc[i] = [valid |-> TRUE, lpn |-> sent[c].slba + i]
              /\ d'.page_buffer[i] = Data(c, i)
          BY <2>6, <4>1 DEF WriteStarts
        <5> QED BY <5>1
      <4>2. ASSUME ~(i < sent[c].n) PROVE ~d'.wbc[i].valid
        BY <2>2, <2>6, <4>2 DEF WriteStarts, CacheEmpty
      <4> QED BY <4>1, <4>2
    <3>4. Writing(c)'
      BY <1>3, <1>5, <2>3, <2>6, <3>1, <3>2, <3>3 DEF Writing, Data
    <3> QED BY <2>1, <3>4 DEF OneAtATime
  <2>7. CASE /\ CommandEnds(d', d, c) \/ Ignored(d', d)
             /\ ~(sent[c].op = "WRITE" /\ Verified(sent[c]))
             /\ d'.door \in {0, 1} /\ (InRange => d'.door = 1)
    <3>1. d'.ftl_in = <<>> /\ ~d'.page_buffer_inuse /\ d'.wbc = d.wbc
      BY <2>2, <2>7 DEF CommandEnds, Ignored
    <3>2. CacheEmpty'
      BY <2>2, <3>1 DEF CacheEmpty
    <3>3. Resting(c)'
      BY <2>2, <2>4, <2>7, <3>1, <3>2 DEF Resting
    <3> QED BY <2>1, <3>3 DEF OneAtATime
  <2>8. InRange => ~(sent[c].op \in {"READ", "WRITE"} /\ ~Verified(sent[c]))
    BY <1>2, <1>3, SentCommand DEF InRange
  <2> QED BY <1>4, <2>5, <2>6, <2>7, <2>8 DEF Dispatched
<1>13. c \in Nat
  OBVIOUS
<1> QED BY <1>3, <1>8, <1>9, <1>10, <1>11, <1>12, <1>13 DEF IInv, FInv

\* p is e after the pending completions were posted, the host being at h.
Polls(p, e, h) ==
  /\ p.done = e.done
  /\ \E y \in Driver :
       /\ y.cq_head = h /\ y.cq_tail = e.cq_tail /\ y.cq_phase = e.cq_phase
       /\ y.cq_mem = e.cq_mem /\ y.pending = e.pending /\ y.done = e.done
       /\ SameCq(p, PostCcmds(y))

LEMMA PollEffect ==
  ASSUME NEW e \in Driver, e.door > 0, NEW h \in 0 .. CQ_SIZE - 1, OnlyDone(e)
  PROVE  LET p == AddDoor(PostCcmds([TakeDoor(e) EXCEPT !.cq_head = h])) IN
         p \in Driver /\ SameWorkButHead(p, e) /\ Polls(p, e, h) /\ OnlyDone(p)
<1> DEFINE k == e.door - 1
           y == [e EXCEPT !.door = k, !.cq_head = h]
           x == PostCcmds(y)
           p == AddDoor(x)
<1>1. k \in Nat /\ e.door \in Nat
  BY DEF Driver
<1>2. [TakeDoor(e) EXCEPT !.cq_head = h] = y
  BY DEF TakeDoor, Driver
<1> HIDE DEF k
<1>3. y \in Driver
  BY <1>1 DEF Driver
<1>4. /\ y.door = k /\ y.cq_head = h /\ y.cq_tail = e.cq_tail /\ y.cq_phase = e.cq_phase
      /\ y.cq_mem = e.cq_mem /\ y.pending = e.pending /\ y.done = e.done
      /\ y.sq_head = e.sq_head /\ y.r_buf_q = e.r_buf_q /\ y.w_buf_q = e.w_buf_q
      /\ y.page_buffer_inuse = e.page_buffer_inuse /\ y.page_buffer = e.page_buffer
      /\ y.wbc = e.wbc /\ y.ftl_in = e.ftl_in /\ y.host_mem = e.host_mem
  BY DEF Driver
<1> HIDE DEF y
<1>5. OnlyDone(y)
  BY <1>4 DEF OnlyDone
<1>6. x \in Driver /\ SameWork(x, y) /\ x.done = y.done /\ OnlyDone(x)
  BY <1>3, <1>5, PostKeeps
<1>7. SameCq(x, PostCcmds(y))
  BY DEF SameCq
<1> HIDE DEF x
<1>8. /\ p \in Driver /\ p.door = x.door + 1 /\ Ignored(p, x)
      /\ p.sq_head = x.sq_head /\ p.host_mem = x.host_mem
  BY <1>6, DoorAdded
<1>9. p.r_buf_q = x.r_buf_q /\ p.w_buf_q = x.w_buf_q
  BY <1>6 DEF AddDoor, Driver
<1> HIDE DEF p
<1>10. p.door = e.door
  BY <1>1, <1>4, <1>6, <1>8 DEF SameWork, SameWorkButHead, k
<1>11. SameWorkButHead(p, e)
  BY <1>4, <1>6, <1>8, <1>9, <1>10 DEF SameWork, SameWorkButHead, Ignored
<1>12. SameCq(p, PostCcmds(y)) /\ p.done = e.done
  BY <1>4, <1>6, <1>7, <1>8 DEF Ignored, SameCq
<1>13. Polls(p, e, h)
  BY <1>3, <1>4, <1>12 DEF Polls
<1>14. OnlyDone(p)
  BY <1>6, <1>8 DEF Ignored, SameCq, OnlyDone
<1> QED BY <1>2, <1>8, <1>11, <1>13, <1>14 DEF p, x

LEMMA CqDoorEffect ==
  ASSUME TInv, OnlyDone(d), CheckDoorCq
  PROVE  /\ d' \in Driver /\ SameWorkButHead(d', d) /\ OnlyDone(d')
         /\ Head(db).value \in 0 .. CQ_SIZE - 1 /\ Polls(d', d, Head(db).value)
<1>1. /\ d.door > 0 /\ db # <<>> /\ Head(db).kind = "CQ" /\ db' = Tail(db)
      /\ d' = AddDoor(PostCcmds([TakeDoor(d) EXCEPT !.cq_head = Head(db).value]))
  BY DEF CheckDoorCq
<1>2. Head(db).value \in 0 .. CQ_SIZE - 1 /\ d \in Driver
  BY <1>1, DoorTail DEF TInv, TypeOK
<1> QED BY <1>1, <1>2, PollEffect

LEMMA IdleEffect ==
  ASSUME TInv, OnlyDone(d), CheckDoorIdle
  PROVE  /\ d' \in Driver /\ SameWorkButHead(d', d) /\ OnlyDone(d')
         /\ d.cq_head \in 0 .. CQ_SIZE - 1 /\ Polls(d', d, d.cq_head)
<1>1. d.door > 0 /\ d \in Driver /\ d.cq_head \in 0 .. CQ_SIZE - 1
  BY DEF CheckDoorIdle, TInv, TypeOK, Driver
<1>2. [TakeDoor(d) EXCEPT !.cq_head = d.cq_head] = TakeDoor(d)
  BY <1>1 DEF TakeDoor, Driver
<1>3. d' = AddDoor(PostCcmds([TakeDoor(d) EXCEPT !.cq_head = d.cq_head]))
  BY <1>2 DEF CheckDoorIdle
<1> QED BY <1>1, <1>3, PollEffect

LEMMA PollKeeps ==
  ASSUME IInv, CheckDoorCq \/ CheckDoorIdle
  PROVE  IInv'
<1>1. PICK f \in Nat : FInv(f)
  BY DEF IInv
<1>2. TInv /\ ReadsSeeWrites /\ Stored /\ OnlyDone(d) /\ Rung(f) /\ Submitted(f) /\ OneAtATime(f)
  BY <1>1 DEF IInv, FInv
<1>3. d' \in Driver /\ SameWorkButHead(d', d) /\ OnlyDone(d') /\ d'.done = d.done
  BY <1>2, CqDoorEffect, IdleEffect DEF Polls
<1>4. /\ UNCHANGED <<sent, sq_tail, sq_mem, outstanding, shn, flash, ftl_req, ftl_out>>
      /\ UNCHANGED hostVars
      /\ db' = db \/ (db # <<>> /\ db' = Tail(db) /\ Head(db).kind # "SQ")
  BY DEF CheckDoorCq, CheckDoorIdle, hostVars
<1>5. TInv'
  <2>1. d'.done \subseteq 1 .. Len(sent) /\ ftl_out' \in Seq(Request)
    BY <1>2, <1>3, <1>4 DEF TInv, TypeOK
  <2> QED BY <1>2, <1>3, <1>4, <2>1, DriverTypes
<1>6. Rung(f)'
  BY <1>2, <1>4, RungTail, RungSame
<1>7. Submitted(f)'
  <2>1. d'.done \subseteq 1 .. f /\ d'.sq_head = d.sq_head
    BY <1>2, <1>3 DEF Submitted, SameWorkButHead
  <2> QED BY <1>2, <1>4, <2>1, SubmittedSame
<1>8. OneAtATime(f)'
  BY <1>2, <1>3, <1>4, QuietKeeps
<1>9. ReadsSeeWrites'
  BY <1>2, <1>3, <1>4, ContentSame DEF ReadsSeeWrites, Verified, SameWorkButHead
<1>10. Stored'
  <2>1. CASE stored' = stored
    BY <1>2, <1>4, <2>1, ContentSame DEF Stored
  <2>2. CASE stored' # stored
    <3>1. CheckDoorIdle /\ shn /\ stored' = flash /\ db = <<>> /\ d.door > 0
      BY <2>2 DEF CheckDoorCq, CheckDoorIdle
    <3>2. f = Len(sent)
      BY <1>2, <3>1, RungAll
    <3>3. OnFlash(f)
      BY <1>2, <3>1 DEF OneAtATime, Resting, Reading, Writing, Underway
    <3> QED BY <1>4, <3>1, <3>2, <3>3, ContentSame DEF Stored, OnFlash
  <2> QED BY <2>1, <2>2
<1> QED BY <1>3, <1>5, <1>6, <1>7, <1>8, <1>9, <1>10 DEF IInv, FInv

----------------------------------------------------------------------------
(* The FTL thread and completed_req_cbk.                                   *)

LEMMA Requests ==
  /\ WbcReq \in Request /\ \A c \in Cid : ReadReq(c) \in Request
  /\ WbcReq # NoReq /\ \A c : ReadReq(c) # NoReq /\ ReadReq(c) # WbcReq
  /\ \A c : ReadReq(c).type = "READ_IO" /\ ReadReq(c).cmd = c
  /\ WbcReq.type = "WBC_FLUSH" /\ NoReq.type = "none"
<1>1. \A c : ReadReq(c).type = "READ_IO" /\ ReadReq(c).cmd = c
  BY DEF ReadReq
<1>2. WbcReq.type = "WBC_FLUSH" /\ NoReq.type = "none"
  BY DEF WbcReq, NoReq
<1>3. WbcReq \in Request /\ \A c \in Cid : ReadReq(c) \in Request
  BY DEF Request
<1> QED BY <1>1, <1>2, <1>3

\* A request that is under way is the one of command f.
LEMMA TheRequest ==
  ASSUME NEW f \in Nat, OneAtATime(f)
  PROVE  /\ ftl_out # <<>> =>
              (Returned(ReadReq(f)) /\ Reading(f)) \/ (Returned(WbcReq) /\ Writing(f))
         /\ d.ftl_in # <<>> =>
              (Queued(ReadReq(f)) /\ Reading(f)) \/ (Queued(WbcReq) /\ Writing(f))
         /\ ftl_req # NoReq =>
              (Served(ReadReq(f)) /\ Reading(f)) \/ (Served(WbcReq) /\ Writing(f))
<1>1. CASE Resting(f)
  BY <1>1 DEF Resting
<1>2. ASSUME NEW r, Queued(r) \/ Served(r) \/ Returned(r)
      PROVE  /\ ftl_out # <<>> => Returned(r)
             /\ d.ftl_in # <<>> => Queued(r)
             /\ ftl_req # NoReq => Served(r)
  BY <1>2 DEF Queued, Served, Returned
<1>3. CASE Reading(f)
  <2>1. Queued(ReadReq(f)) \/ Served(ReadReq(f)) \/ Returned(ReadReq(f))
    BY <1>3 DEF Reading, Underway
  <2> QED BY <1>2, <1>3, <2>1
<1>4. CASE Writing(f)
  <2>1. Queued(WbcReq) \/ Served(WbcReq) \/ Returned(WbcReq)
    BY <1>4 DEF Writing, Underway
  <2> QED BY <1>2, <1>4, <2>1
<1> QED BY <1>1, <1>3, <1>4 DEF OneAtATime

\* d' after the driver has given command f's data to the host.
LEMMA ReadEffect ==
  ASSUME TInv, NEW f \in Nat, OneAtATime(f), CompletedRead
  PROVE  /\ Reading(f) /\ Returned(ReadReq(f)) /\ f \in Cid
         /\ d' \in Driver /\ NoneWaits(d') /\ Finishes(d', d, f)
         /\ d'.door = 1 /\ ~d'.page_buffer_inuse /\ d'.ftl_in = <<>> /\ d'.wbc = d.wbc
         /\ d'.sq_head = d.sq_head
         /\ d'.host_mem = [d.host_mem EXCEPT ![f] = [i \in 1 .. sent[f].n |-> d.page_buffer[i - 1]]]
<1>1. ftl_out # <<>> /\ Head(ftl_out).type = "READ_IO" /\ ftl_out' = Tail(ftl_out) /\ UNCHANGED hostVars
  BY DEF CompletedRead
<1>2. (Returned(ReadReq(f)) /\ Reading(f)) \/ (Returned(WbcReq) /\ Writing(f))
  BY <1>1, TheRequest
<1>3. Reading(f) /\ Returned(ReadReq(f)) /\ Head(ftl_out).cmd = f
  <2>1. \A r : Returned(r) => Head(ftl_out) = r
    BY DEF Returned
  <2> QED BY <1>1, <1>2, <2>1, Requests
<1>4. /\ f \in 1 .. Len(sent) /\ f \in Cid /\ sent[f].n \in Nat /\ sent[f].n <= MDTS_PAGES
      /\ d \in Driver /\ d.door = 0 /\ d.ftl_in = <<>>
  BY <1>3, SentCommand DEF Reading, TInv, TypeOK, Underway, Returned
<1> DEFINE data == [i \in 1 .. sent[f].n |-> d.page_buffer[i - 1]]
           hm == [d.host_mem EXCEPT ![f] = data]
           x == [d EXCEPT !.host_mem = hm, !.page_buffer_inuse = FALSE]
           p == EnqueueCcmd(x, f)
<1>5. d' = AddDoor(WriteStep2(ReadStep2(p)))
  <2>1. [ReadIoDma(d, f) EXCEPT !.page_buffer_inuse = FALSE] = x
    BY <1>4 DEF ReadIoDma, Driver
  <2> HIDE DEF x
  <2> QED BY <1>3, <2>1 DEF CompletedRead
<1>6. data \in Seq(Seq(Nat))
  <2>1. d.page_buffer \in [Pages -> Seq(Nat)]
    BY <1>4 DEF Driver
  <2>2. \A i \in 1 .. sent[f].n : i - 1 \in Pages
    BY <1>4, Sizes DEF Pages
  <2>3. data \in [1 .. sent[f].n -> Seq(Nat)]
    BY <2>1, <2>2
  <2> HIDE DEF data
  <2> DEFINE P == Seq(Nat)
  <2>4. Seq(P) = UNION {[1 .. n -> P] : n \in Nat}
    BY SeqDef
  <2> HIDE DEF P
  <2> QED BY <1>4, <2>3, <2>4, Zenon DEF P
<1>7. hm \in [Cid -> Seq(Seq(Nat))]
  <2>1. d.host_mem \in [Cid -> Seq(Seq(Nat))]
    BY <1>4 DEF Driver
  <2> HIDE DEF data
  <2> QED BY <1>4, <1>6, <2>1
<1> HIDE DEF data, hm
<1>8. x \in Driver
  BY <1>4, <1>7, ZenonT(60) DEF Driver
<1>9. /\ x.host_mem = hm /\ ~x.page_buffer_inuse /\ x.door = d.door /\ x.sq_head = d.sq_head
      /\ x.ftl_in = d.ftl_in /\ x.wbc = d.wbc /\ x.page_buffer = d.page_buffer
      /\ NoneWaits(x) /\ SameCq(x, d) /\ x.done = d.done
  BY <1>4 DEF Driver, NoneWaits, SameCq, OneAtATime
<1> HIDE DEF x
<1>10. p \in Driver /\ SameWork(p, x) /\ p.done = x.done \cup {f} /\ SameCq(p, EnqueueCcmd(x, f))
  BY <1>4, <1>8, EnqueueKeeps DEF SameCq
<1> HIDE DEF p
<1>11. ReadStep2(p) = p /\ WriteStep2(p) = p
  BY <1>9, <1>10 DEF ReadStep2, WriteStep2, SameWork, SameWorkButHead, NoneWaits
<1>12. /\ d' \in Driver /\ d'.door = p.door + 1 /\ Ignored(d', p) /\ (NoneWaits(d') <=> NoneWaits(p))
       /\ d'.sq_head = p.sq_head /\ d'.host_mem = p.host_mem
  BY <1>5, <1>10, <1>11, DoorAdded
<1>13. SameCq(d', EnqueueCcmd(x, f)) /\ d'.done = d.done \cup {f}
  BY <1>9, <1>10, <1>12 DEF Ignored, SameCq
<1>14. Finishes(d', d, f)
  BY <1>8, <1>9, <1>13 DEF Finishes
<1>15. /\ d'.door = 1 /\ ~d'.page_buffer_inuse /\ d'.ftl_in = <<>> /\ d'.wbc = d.wbc
       /\ d'.sq_head = d.sq_head /\ d'.host_mem = hm /\ NoneWaits(d')
  BY <1>4, <1>9, <1>10, <1>12 DEF SameWork, SameWorkButHead, Ignored, NoneWaits
<1> QED BY <1>3, <1>4, <1>12, <1>14, <1>15 DEF hm, data

LEMMA WbcEffect ==
  ASSUME TInv, NEW f \in Nat, OneAtATime(f), CompletedWbc
  PROVE  /\ Writing(f) /\ Returned(WbcReq)
         /\ d' \in Driver /\ NoneWaits(d') /\ SameCq(d', d) /\ d'.done = d.done
         /\ d'.door = 1 /\ ~d'.page_buffer_inuse /\ d'.ftl_in = <<>>
         /\ \A i \in Pages : ~d'.wbc[i].valid
         /\ d'.sq_head = d.sq_head /\ d'.host_mem = d.host_mem
<1>1. ftl_out # <<>> /\ Head(ftl_out).type = "WBC_FLUSH"
  BY DEF CompletedWbc
<1>2. (Returned(ReadReq(f)) /\ Reading(f)) \/ (Returned(WbcReq) /\ Writing(f))
  BY <1>1, TheRequest
<1>3. Writing(f) /\ Returned(WbcReq)
  <2>1. \A r : Returned(r) => Head(ftl_out) = r
    BY DEF Returned
  <2> QED BY <1>1, <1>2, <2>1, Requests
<1>4. d \in Driver /\ d.door = 0 /\ d.ftl_in = <<>>
  BY <1>3 DEF Writing, TInv, TypeOK, Underway, Returned
<1> DEFINE w == [i \in Pages |-> [d.wbc[i] EXCEPT !.valid = FALSE]]
           p == [d EXCEPT !.page_buffer_inuse = FALSE, !.wbc = w]
<1>5. d.wbc \in [Pages -> [valid: BOOLEAN, lpn: Nat]]
  BY <1>4 DEF Driver
<1>6. w \in [Pages -> [valid: BOOLEAN, lpn: Nat]]
  BY <1>5
<1>7. \A i \in Pages : w[i].valid = FALSE
  BY <1>5
<1>8. FreeWbcBuffer(d) = p
  BY DEF FreeWbcBuffer
<1> HIDE DEF w
<1>9. p \in Driver
  BY <1>4, <1>6, ZenonT(60) DEF Driver
<1>10. /\ ~p.page_buffer_inuse /\ p.door = 0 /\ p.sq_head = d.sq_head /\ p.host_mem = d.host_mem
       /\ p.ftl_in = <<>> /\ p.wbc = w /\ NoneWaits(p) /\ SameCq(p, d) /\ p.done = d.done
  BY <1>4 DEF Driver, NoneWaits, SameCq, OneAtATime
<1> HIDE DEF p
<1>11. ReadStep2(p) = p /\ WriteStep2(p) = p
  BY <1>10 DEF ReadStep2, WriteStep2, NoneWaits
<1>12. d' = AddDoor(p)
  BY <1>8, <1>11 DEF CompletedWbc
<1>13. /\ d' \in Driver /\ d'.door = p.door + 1 /\ Ignored(d', p) /\ (NoneWaits(d') <=> NoneWaits(p))
       /\ d'.sq_head = p.sq_head /\ d'.host_mem = p.host_mem
  BY <1>9, <1>12, DoorAdded
<1>14. SameCq(d', d) /\ d'.done = d.done
  BY <1>10, <1>13 DEF Ignored, SameCq
<1> QED BY <1>3, <1>7, <1>10, <1>13, <1>14 DEF Ignored

\* A step of the FTL thread that only concerns the command under way.
LEMMA FtlStepKeeps ==
  ASSUME TInv, ReadsSeeWrites, Stored, OnlyDone(d), NEW f \in Nat, Rung(f), Submitted(f),
         UNCHANGED <<sent, sq_tail, sq_mem, outstanding, shn, stored, db>>, UNCHANGED hostVars,
         flash' \in [Lpn -> Seq(Nat)], ftl_req' \in Request \cup {NoReq}, ftl_out' \in Seq(Request),
         d' \in Driver, d'.sq_head = d.sq_head, d'.host_mem = d.host_mem, d'.done = d.done,
         SameCq(d', d), OneAtATime(f)'
  PROVE  IInv'
<1>1. TInv'
  <2>1. d'.done \subseteq 1 .. Len(sent)
    BY DEF TInv, TypeOK
  <2> QED BY <2>1, DriverTypes
<1>2. Rung(f)'
  BY RungSame
<1>3. Submitted(f)'
  <2>1. d'.done \subseteq 1 .. f
    BY DEF Submitted
  <2> QED BY <2>1, SubmittedSame
<1>4. OnlyDone(d')
  BY DEF SameCq, OnlyDone
<1>5. ReadsSeeWrites' /\ Stored'
  BY HistorySame
<1> QED BY <1>1, <1>2, <1>3, <1>4, <1>5 DEF IInv, FInv

LEMMA ReadDoneKeeps ==
  ASSUME IInv, CompletedRead
  PROVE  IInv'
<1>1. PICK f \in Nat : FInv(f)
  BY DEF IInv
<1>2. TInv /\ ReadsSeeWrites /\ Stored /\ OnlyDone(d) /\ Rung(f) /\ Submitted(f) /\ OneAtATime(f)
  BY <1>1 DEF IInv, FInv
<1> DEFINE data == [i \in 1 .. sent[f].n |-> d.page_buffer[i - 1]]
<1>3. /\ Reading(f) /\ Returned(ReadReq(f)) /\ f \in Cid
      /\ d' \in Driver /\ NoneWaits(d') /\ Finishes(d', d, f)
      /\ d'.door = 1 /\ ~d'.page_buffer_inuse /\ d'.ftl_in = <<>> /\ d'.wbc = d.wbc
      /\ d'.sq_head = d.sq_head /\ d'.host_mem = [d.host_mem EXCEPT ![f] = data]
  BY <1>2, ReadEffect
<1>4. /\ UNCHANGED <<sent, sq_tail, sq_mem, outstanding, shn, stored, flash, ftl_req, db>>
      /\ UNCHANGED hostVars /\ ftl_req = NoReq /\ ftl_out' = <<>>
  BY <1>3 DEF CompletedRead, hostVars, Returned
<1>5. d'.done = d.done \cup {f} /\ f \in 1 .. f /\ f \in 1 .. Len(sent)
  BY <1>3 DEF Finishes, Reading
<1>6. TInv'
  <2>1. d'.done \subseteq 1 .. Len(sent)
    BY <1>2, <1>5 DEF TInv, TypeOK
  <2>2. ftl_out' \in Seq(Request)
    BY <1>4
  <2> QED BY <1>2, <1>3, <1>4, <2>1, <2>2, DriverTypes
<1>7. Rung(f)'
  BY <1>2, <1>4, RungSame
<1>8. Submitted(f)'
  <2>1. d'.done \subseteq 1 .. f
    BY <1>2, <1>5 DEF Submitted
  <2> QED BY <1>2, <1>3, <1>4, <2>1, SubmittedSame
<1>9. OneAtATime(f)'
  <2>1. OnFlash(f)' /\ CacheEmpty'
    BY <1>3, <1>4, ContentSame DEF OnFlash, CacheEmpty, Reading
  <2>2. Resting(f)'
    BY <1>3, <1>4, <2>1 DEF Resting
  <2> QED BY <1>3, <2>2 DEF OneAtATime, NoneWaits
<1>10. OnlyDone(d')
  BY <1>2, <1>3, FinishesDone
<1>11. Stored'
  BY <1>2, <1>4, ContentSame DEF Stored
<1>12. ASSUME NEW c \in d'.done, sent[c].op = "READ", Verified(sent[c]), NEW i \in 1 .. sent[c].n
       PROVE  d'.host_mem[c][i] = Content(sent[c].slba + i - 1, c - 1)
  <2>1. CASE c = f
    <3> DEFINE l == sent[f].slba + (i - 1)
    <3>1. /\ sent[f].slba \in Nat /\ sent[f].n \in Nat /\ sent[f].n <= MDTS_PAGES /\ f >= 1
          /\ i \in 1 .. sent[f].n /\ d.host_mem \in [Cid -> Seq(Seq(Nat))]
      BY <1>2, <1>5, <1>12, <2>1, SentCommand, SMTT(60) DEF TInv, TypeOK, Driver
    <3>2. i - 1 \in Pages /\ i - 1 < sent[f].n /\ l \in Lpn
      BY <1>12, <2>1, <3>1, Sizes, SMTT(30) DEF Pages, Lpn, Verified
    <3>3. d'.host_mem[f][i] = d.page_buffer[i - 1]
      BY <1>3, <3>1
    <3>4. d.page_buffer[i - 1] = flash[l]
      BY <1>3, <3>2 DEF Reading
    <3>5. flash[l] = Content(l, f)
      BY <1>3, <3>2 DEF Reading, OnFlash
    <3>6. Content(l, f) = Content(l, f - 1)
      <4>1. ~Covers(f, l)
        BY <1>3 DEF Covers, Reading
      <4> QED BY <3>1, <4>1, ContentStep
    <3>7. sent[f].slba + i - 1 = l
      BY <3>1
    <3> HIDE DEF l
    <3> QED BY <2>1, <3>3, <3>4, <3>5, <3>6, <3>7
  <2>2. CASE c # f
    <3>1. c \in d.done /\ c \in Cid
      BY <1>2, <1>5, <2>2, <1>3 DEF TInv, TypeOK, Driver
    <3>2. d'.host_mem[c] = d.host_mem[c]
      <4>1. d.host_mem \in [Cid -> Seq(Seq(Nat))]
        BY <1>2 DEF TInv, TypeOK, Driver
      <4> HIDE DEF data
      <4> QED BY <1>3, <2>2, <3>1, <4>1
    <3> QED BY <1>2, <1>12, <3>1, <3>2 DEF ReadsSeeWrites
  <2> QED BY <2>1, <2>2
<1>13. ReadsSeeWrites'
  BY <1>4, <1>12, ContentSame DEF ReadsSeeWrites, Verified
<1> QED BY <1>6, <1>7, <1>8, <1>9, <1>10, <1>11, <1>13 DEF IInv, FInv

LEMMA WbcDoneKeeps ==
  ASSUME IInv, CompletedWbc
  PROVE  IInv'
<1>1. PICK f \in Nat : FInv(f)
  BY DEF IInv
<1>2. TInv /\ ReadsSeeWrites /\ Stored /\ OnlyDone(d) /\ Rung(f) /\ Submitted(f) /\ OneAtATime(f)
  BY <1>1 DEF IInv, FInv
<1>3. /\ Writing(f) /\ Returned(WbcReq)
      /\ d' \in Driver /\ NoneWaits(d') /\ SameCq(d', d) /\ d'.done = d.done
      /\ d'.door = 1 /\ ~d'.page_buffer_inuse /\ d'.ftl_in = <<>>
      /\ \A i \in Pages : ~d'.wbc[i].valid
      /\ d'.sq_head = d.sq_head /\ d'.host_mem = d.host_mem
  BY <1>2, WbcEffect
<1>4. /\ UNCHANGED <<sent, sq_tail, sq_mem, outstanding, shn, stored, flash, ftl_req, db>>
      /\ UNCHANGED hostVars /\ ftl_req = NoReq /\ ftl_out' = <<>>
  BY <1>3 DEF CompletedWbc, hostVars, Returned
<1>5. TInv'
  <2>1. d'.done \subseteq 1 .. Len(sent)
    BY <1>2, <1>3 DEF TInv, TypeOK
  <2>2. ftl_out' \in Seq(Request)
    BY <1>4
  <2> QED BY <1>2, <1>3, <1>4, <2>1, <2>2, DriverTypes
<1>6. Rung(f)'
  BY <1>2, <1>4, RungSame
<1>7. Submitted(f)'
  <2>1. d'.done \subseteq 1 .. f
    BY <1>2, <1>3 DEF Submitted
  <2> QED BY <1>2, <1>3, <1>4, <2>1, SubmittedSame
<1>8. OneAtATime(f)'
  <2>1. OnFlash(f)' /\ CacheEmpty'
    BY <1>3, <1>4, ContentSame DEF OnFlash, CacheEmpty, Writing
  <2>2. Resting(f)'
    BY <1>3, <1>4, <2>1 DEF Resting
  <2> QED BY <1>3, <2>2 DEF OneAtATime, NoneWaits
<1>9. OnlyDone(d')
  BY <1>2, <1>3 DEF SameCq, OnlyDone
<1>10. ReadsSeeWrites' /\ Stored'
  BY <1>2, <1>3, <1>4, HistorySame
<1> QED BY <1>5, <1>6, <1>7, <1>8, <1>9, <1>10 DEF IInv, FInv

LEMMA FtlTakeKeeps ==
  ASSUME IInv, FtlTake
  PROVE  IInv'
<1>1. PICK f \in Nat : FInv(f)
  BY DEF IInv
<1>2. TInv /\ ReadsSeeWrites /\ Stored /\ OnlyDone(d) /\ Rung(f) /\ Submitted(f) /\ OneAtATime(f)
  BY <1>1 DEF IInv, FInv
<1>3. (Queued(ReadReq(f)) /\ Reading(f)) \/ (Queued(WbcReq) /\ Writing(f))
  BY <1>2, TheRequest DEF FtlTake
<1>4. /\ UNCHANGED <<sent, sq_tail, sq_mem, outstanding, shn, stored, flash, ftl_out, db>>
      /\ UNCHANGED hostVars
  BY DEF FtlTake, hostVars
<1>5. \A r : Queued(r) => Head(d.ftl_in) = r /\ Tail(d.ftl_in) = <<>> /\ ftl_out = <<>>
  BY DEF Queued
<1>6. d' = [d EXCEPT !.ftl_in = <<>>] /\ d \in Driver
  BY <1>2, <1>3, <1>5 DEF FtlTake, TInv, TypeOK
<1>7. <<>> \in Seq(Request)
  OBVIOUS
<1>8. d' \in Driver
  BY <1>6, <1>7 DEF Driver
<1>9. /\ d'.ftl_in = <<>> /\ d'.door = d.door /\ d'.sq_head = d.sq_head /\ d'.host_mem = d.host_mem
      /\ d'.page_buffer_inuse = d.page_buffer_inuse /\ d'.wbc = d.wbc /\ d'.done = d.done
      /\ d'.page_buffer = d.page_buffer /\ SameCq(d', d)
      /\ d'.r_buf_q = d.r_buf_q /\ d'.w_buf_q = d.w_buf_q
  BY <1>6 DEF Driver, SameCq
<1>10. \A r : Queued(r) => Served(r)' /\ (r # NoReq => \A q : ~Returned(q)')
  BY <1>4, <1>5, <1>9 DEF Queued, Served, Returned, FtlTake
<1>11. \A m : OnFlash(m) => OnFlash(m)'
  BY <1>4, ContentSame DEF OnFlash
<1>12. CacheEmpty => CacheEmpty'
  BY <1>9 DEF CacheEmpty
<1>13. flash' \in [Lpn -> Seq(Nat)] /\ ftl_out' \in Seq(Request)
  BY <1>2, <1>4 DEF TInv, TypeOK, MoreTypes
<1>14. CASE Queued(ReadReq(f)) /\ Reading(f)
  <2>1. Served(ReadReq(f))' /\ ~Returned(ReadReq(f))'
    BY <1>10, <1>14, Requests
  <2>2. f \in 1 .. Len(sent) /\ sent[f].op = "READ" /\ Verified(sent[f])
    BY <1>14 DEF Reading
  <2>3. Underway(ReadReq(f))'
    BY <1>9, <1>14, <2>1 DEF Reading, Underway
  <2>4. Verified(sent[f])'
    BY <1>4, <2>2 DEF Verified
  <2>5. /\ f \in outstanding' /\ f \notin d'.done /\ OnFlash(f)' /\ CacheEmpty'
    BY <1>4, <1>9, <1>11, <1>12, <1>14 DEF Reading
  <2>6. Reading(f)'
    BY <1>4, <2>1, <2>2, <2>3, <2>4, <2>5 DEF Reading
  <2>7. OneAtATime(f)'
    BY <1>2, <1>9, <2>6 DEF OneAtATime
  <2>8. ftl_req' \in Request
    <3>1. f \in Cid
      BY <1>2, <2>2, SentCommand
    <3> QED BY <3>1, <2>1, Requests DEF Served
  <2> QED BY <1>2, <1>4, <1>8, <1>9, <1>13, <2>7, <2>8, FtlStepKeeps
<1>15. CASE Queued(WbcReq) /\ Writing(f)
  <2>1. Served(WbcReq)' /\ ~Returned(WbcReq)' /\ ~Returned(WbcReq)
    <3>1. ~Returned(WbcReq)
      BY <1>15 DEF Queued, Returned
    <3> QED BY <1>10, <1>15, <3>1, Requests
  <2>2. f \in 1 .. Len(sent) /\ sent[f].op = "WRITE" /\ Verified(sent[f])
    BY <1>15 DEF Writing
  <2>3. Underway(WbcReq)'
    BY <1>9, <1>15, <2>1 DEF Writing, Underway
  <2>4. Verified(sent[f])'
    BY <1>4, <2>2 DEF Verified
  <2>5. OnFlash(f - 1)'
    BY <1>11, <1>15, <2>1 DEF Writing
  <2>6. Writing(f)'
    BY <1>4, <1>9, <1>15, <2>1, <2>2, <2>3, <2>4, <2>5 DEF Writing, Data
  <2>7. OneAtATime(f)'
    BY <1>2, <1>9, <2>6 DEF OneAtATime
  <2>8. ftl_req' \in Request
    BY <2>1, Requests DEF Served
  <2> QED BY <1>2, <1>4, <1>8, <1>9, <1>13, <2>7, <2>8, FtlStepKeeps
<1> QED BY <1>3, <1>14, <1>15

LEMMA FtlReadKeeps ==
  ASSUME IInv, FtlRead
  PROVE  IInv'
<1>1. PICK f \in Nat : FInv(f)
  BY DEF IInv
<1>2. TInv /\ ReadsSeeWrites /\ Stored /\ OnlyDone(d) /\ Rung(f) /\ Submitted(f) /\ OneAtATime(f)
  BY <1>1 DEF IInv, FInv
<1>3. Served(ReadReq(f)) /\ Reading(f) /\ ftl_req.cmd = f
  <2>1. ftl_req # NoReq /\ ftl_req # WbcReq
    BY Requests DEF FtlRead
  <2>2. Served(ReadReq(f)) /\ Reading(f)
    BY <1>2, <2>1, TheRequest DEF Served
  <2> QED BY <2>2, Requests DEF Served
<1>4. /\ UNCHANGED <<sent, sq_tail, sq_mem, outstanding, shn, stored, flash, db>>
      /\ UNCHANGED hostVars /\ ftl_req' = NoReq
  BY DEF FtlRead, hostVars
<1>5. /\ f \in 1 .. Len(sent) /\ f \in Cid /\ sent[f].op = "READ" /\ Verified(sent[f])
      /\ sent[f].n \in Nat /\ sent[f].slba \in Nat
      /\ d \in Driver /\ flash \in [Lpn -> Seq(Nat)] /\ d.ftl_in = <<>>
  BY <1>2, <1>3, SentCommand DEF Reading, Served, TInv, TypeOK, MoreTypes
<1>6. ftl_out' = <<ReadReq(f)>> /\ ftl_out' \in Seq(Request)
  <2>1. ReadReq(f) \in Request
    BY <1>5, Requests
  <2>2. ftl_out' = <<ReadReq(f)>>
    BY <1>3 DEF FtlRead, Served
  <2> HIDE DEF ReadReq
  <2> QED BY <2>1, <2>2
<1> DEFINE b == [i \in Pages |-> IF i < sent[f].n THEN flash[sent[f].slba + i] ELSE d.page_buffer[i]]
<1>7. d' = [d EXCEPT !.page_buffer = b]
  BY <1>3 DEF FtlRead
<1>8. b \in [Pages -> Seq(Nat)]
  <2>1. d.page_buffer \in [Pages -> Seq(Nat)]
    BY <1>5 DEF Driver
  <2>2. \A i \in Pages : i < sent[f].n => sent[f].slba + i \in Lpn
    <3> DEFINE a == sent[f].slba
               n == sent[f].n
    <3>1. a \in Nat /\ n \in Nat /\ a + (n - 1) <= NSZE
      BY <1>5 DEF Verified
    <3> HIDE DEF a, n
    <3>2. \A i \in Pages : i < n => a + i \in Lpn
      BY <3>1, Sizes DEF Pages, Lpn
    <3> QED BY <3>2 DEF a, n
  <2> QED BY <1>5, <2>1, <2>2
<1>9. \A i \in Pages : i < sent[f].n => b[i] = flash[sent[f].slba + i]
  OBVIOUS
<1> HIDE DEF b
<1>10. d' \in Driver
  BY <1>5, <1>7, <1>8 DEF Driver
<1>11. /\ d'.ftl_in = <<>> /\ d'.door = d.door /\ d'.sq_head = d.sq_head /\ d'.host_mem = d.host_mem
       /\ d'.page_buffer_inuse = d.page_buffer_inuse /\ d'.wbc = d.wbc /\ d'.done = d.done
       /\ d'.page_buffer = b /\ SameCq(d', d)
       /\ d'.r_buf_q = d.r_buf_q /\ d'.w_buf_q = d.w_buf_q
  BY <1>5, <1>7 DEF Driver, SameCq
<1>12. Reading(f)'
  <2>1. Underway(ReadReq(f))'
    <3>1. Returned(ReadReq(f))'
      BY <1>4, <1>6, <1>11 DEF Returned, ReadReq
    <3>2. d'.page_buffer_inuse /\ d'.door = 0
      BY <1>3, <1>11 DEF Underway, Reading
    <3> QED BY <3>1, <3>2 DEF Underway
  <2>2. Verified(sent[f])'
    BY <1>4, <1>5 DEF Verified
  <2>3. f \in outstanding' /\ f \notin d'.done
    BY <1>3, <1>4, <1>11 DEF Reading
  <2>4. OnFlash(f)' /\ CacheEmpty'
    BY <1>3, <1>4, <1>11, ContentSame DEF OnFlash, CacheEmpty, Reading
  <2>5. \A i \in Pages : i < sent'[f].n => d'.page_buffer[i] = flash'[sent'[f].slba + i]
    BY <1>4, <1>9, <1>11
  <2> QED BY <1>4, <1>5, <2>1, <2>2, <2>3, <2>4, <2>5 DEF Reading
<1>13. OneAtATime(f)'
  BY <1>2, <1>11, <1>12 DEF OneAtATime
<1> QED BY <1>2, <1>4, <1>5, <1>6, <1>10, <1>11, <1>13, FtlStepKeeps

\* Programming the page buffer puts write f on flash.
LEMMA Programmed ==
  ASSUME TInv, NEW f \in Nat, Writing(f), ~Returned(WbcReq), FtlProgram
  PROVE  flash' \in [Lpn -> Seq(Nat)] /\ \A l \in Lpn : flash'[l] = Content(l, f)
<1>1. /\ f \in 1 .. Len(sent) /\ sent[f].op = "WRITE" /\ Verified(sent[f]) /\ OnFlash(f - 1)
      /\ \A i \in Pages :
           IF i < sent[f].n
           THEN /\ d.wbc[i].valid /\ d.wbc[i].lpn = sent[f].slba + i
                /\ d.page_buffer[i] = Data(f, i)
           ELSE ~d.wbc[i].valid
  BY DEF Writing
<1>2. /\ sent[f].slba \in Nat /\ sent[f].n \in Nat /\ sent[f].n <= MDTS_PAGES /\ f >= 1
      /\ flash \in [Lpn -> Seq(Nat)]
  BY <1>1, SentCommand DEF TInv, MoreTypes
<1> DEFINE hits(l) == {i \in Pages : d.wbc[i].valid /\ d.wbc[i].lpn = l}
           top(l) == CHOOSE i \in hits(l) : \A j \in hits(l) : j <= i
<1>3. flash' = [l \in Lpn |-> IF hits(l) = {} THEN flash[l] ELSE d.page_buffer[top(l)]]
  BY DEF FtlProgram
<1>4. ASSUME NEW l \in Lpn
      PROVE  flash'[l] = Content(l, f) /\ flash'[l] \in Seq(Nat)
  <2> DEFINE k == l - sent[f].slba
  <2>1. l \in Nat
    BY Sizes DEF Lpn
  <2>2. CASE Covers(f, l)
    <3>1. k \in Pages /\ k < sent[f].n
      BY <1>2, <2>1, <2>2, Sizes, SMTT(30) DEF Covers, Pages
    <3>2. \A i \in Pages : (d.wbc[i].valid /\ d.wbc[i].lpn = l) <=> i = k
      <4> TAKE i \in Pages
      <4>1. i \in Nat
        BY Sizes DEF Pages
      <4>2. sent[f].slba + i = l <=> i = k
        BY <1>2, <2>1, <4>1
      <4>3. i = k => i < sent[f].n
        BY <3>1
      <4> HIDE DEF k
      <4> QED BY <1>1, <4>2, <4>3
    <3>3. hits(l) = {k}
      <4> HIDE DEF k
      <4> QED BY <3>1, <3>2
    <3>4. top(l) = k
      <4>1. k <= k
        BY <1>2, <2>1
      <4> HIDE DEF k, hits
      <4> QED BY <3>3, <4>1
    <3> HIDE DEF hits, top
    <3>5. flash'[l] = d.page_buffer[k]
      BY <1>3, <3>3, <3>4
    <3>6. d.page_buffer[k] = Data(f, k)
      BY <1>1, <3>1
    <3>7. Content(l, f) = Data(f, k)
      BY <1>2, <2>2, ContentStep
    <3>8. Data(f, k) \in Seq(Nat)
      <4>1. k \in Nat
        BY <3>1, Sizes DEF Pages
      <4> HIDE DEF k
      <4> QED BY <4>1 DEF Data
    <3> QED BY <3>5, <3>6, <3>7, <3>8
  <2>3. CASE ~Covers(f, l)
    <3>1. ASSUME NEW i \in Pages, d.wbc[i].valid, d.wbc[i].lpn = l PROVE FALSE
      <4>1. i \in Nat
        BY Sizes DEF Pages
      <4>2. i < sent[f].n /\ l = sent[f].slba + i
        BY <1>1, <3>1
      <4>3. l \in sent[f].slba .. sent[f].slba + sent[f].n - 1
        BY <1>2, <4>1, <4>2
      <4> QED BY <1>1, <2>3, <4>3 DEF Covers
    <3>2. hits(l) = {}
      BY <3>1
    <3>3. flash'[l] = flash[l]
      <4> HIDE DEF hits, top
      <4> QED BY <1>3, <3>2
    <3>4. flash[l] = Content(l, f - 1)
      BY <1>1 DEF OnFlash
    <3>5. Content(l, f) = Content(l, f - 1)
      BY <1>2, <2>3, ContentStep
    <3> QED BY <1>2, <3>3, <3>4, <3>5
  <2> QED BY <2>2, <2>3
<1>5. flash' = [l \in Lpn |-> flash'[l]]
  BY <1>3
<1> QED BY <1>4, <1>5

LEMMA FtlProgramKeeps ==
  ASSUME IInv, FtlProgram
  PROVE  IInv'
<1>1. PICK f \in Nat : FInv(f)
  BY DEF IInv
<1>2. TInv /\ ReadsSeeWrites /\ Stored /\ OnlyDone(d) /\ Rung(f) /\ Submitted(f) /\ OneAtATime(f)
  BY <1>1 DEF IInv, FInv
<1>3. Served(WbcReq) /\ Writing(f) /\ ~Returned(WbcReq)
  <2>1. ftl_req # NoReq /\ \A c : ftl_req # ReadReq(c)
    BY Requests DEF FtlProgram
  <2>2. Served(WbcReq) /\ Writing(f)
    BY <1>2, <2>1, TheRequest DEF Served
  <2> QED BY <2>1, <2>2 DEF Served, Returned
<1>4. /\ UNCHANGED <<sent, sq_tail, sq_mem, outstanding, shn, stored, d, db>>
      /\ UNCHANGED hostVars /\ ftl_req' = NoReq
  BY DEF FtlProgram, hostVars
<1>5. flash' \in [Lpn -> Seq(Nat)] /\ \A l \in Lpn : flash'[l] = Content(l, f)
  BY <1>2, <1>3, Programmed
<1>6. ftl_out' = <<WbcReq>> /\ ftl_out' \in Seq(Request)
  <2>1. WbcReq \in Request
    BY Requests
  <2>2. ftl_out' = <<WbcReq>>
    BY <1>3 DEF FtlProgram, Served
  <2> HIDE DEF WbcReq
  <2> QED BY <2>1, <2>2
<1>7. Writing(f)'
  <2>1. Returned(WbcReq)'
    BY <1>3, <1>4, <1>6 DEF Returned, Served
  <2>2. Underway(WbcReq)'
    BY <1>3, <1>4, <2>1 DEF Underway, Writing
  <2>3. Verified(sent[f])' /\ f \in 1 .. Len(sent) /\ sent[f].op = "WRITE"
    BY <1>3, <1>4 DEF Verified, Writing
  <2>4. OnFlash(f)'
    BY <1>4, <1>5, ContentSame DEF OnFlash
  <2> QED BY <1>4, <2>1, <2>2, <2>3, <2>4 DEF Writing
<1>8. OneAtATime(f)'
  BY <1>2, <1>4, <1>7 DEF OneAtATime
<1>9. d' \in Driver /\ SameCq(d', d) /\ d'.sq_head = d.sq_head /\ d'.host_mem = d.host_mem /\ d'.done = d.done
  BY <1>2, <1>4 DEF TInv, TypeOK, SameCq
<1> QED BY <1>2, <1>4, <1>5, <1>6, <1>8, <1>9, FtlStepKeeps

----------------------------------------------------------------------------
(* The host.                                                               *)

\* A command fits: the ones not fetched are outstanding.
LEMMA RoomLeft ==
  ASSUME TInv, NEW f \in Nat, Submitted(f), Cardinality(outstanding) < SQ_SIZE - 1
  PROVE  Len(sent) - f < SQ_SIZE - 1
<1>1. Len(sent) \in Nat /\ f \in 0 .. Len(sent) /\ f + 1 .. Len(sent) \subseteq outstanding
  BY DEF TInv, MoreTypes, Submitted
<1>2. IsFiniteSet(outstanding)
  <2>1. IsFiniteSet(1 .. MaxCmds)
    BY Sizes, FS_Interval
  <2> QED BY <2>1, FS_Subset DEF TInv, TypeOK, Cid
<1>3. Cardinality(outstanding) \in Nat
  BY <1>2, FS_CardinalityType
<1>4. Cardinality(f + 1 .. Len(sent)) <= Cardinality(outstanding)
  BY <1>1, <1>2, FS_Subset
<1>5. Cardinality(f + 1 .. Len(sent)) = Len(sent) - f
  <2>1. f + 1 \in Int /\ Len(sent) \in Int
    BY <1>1
  <2>2. Cardinality(f + 1 .. Len(sent)) = IF f + 1 > Len(sent) THEN 0 ELSE Len(sent) - (f + 1) + 1
    BY <2>1, FS_Interval
  <2> QED BY <1>1, <2>2
<1> QED BY <1>1, <1>3, <1>4, <1>5, Sizes

\* The host's doorbell write is one more entry of db.
LEMMA DoorWritten ==
  ASSUME TInv, NEW x \in Door, db' = Append(db, x),
         x.kind = "CQ" => x.value \in 0 .. CQ_SIZE - 1
  PROVE  /\ db' \in Seq(Door)
         /\ \A i \in 1 .. Len(db') : db'[i].kind = "CQ" => db'[i].value \in 0 .. CQ_SIZE - 1
<1>1. /\ db \in Seq(Door) /\ Len(db) \in Nat /\ Len(db') = Len(db) + 1 /\ db' \in Seq(Door)
      /\ db'[Len(db) + 1] = x /\ \A i \in 1 .. Len(db) : db'[i] = db[i]
  BY DEF TInv, MoreTypes
<1>2. ASSUME NEW i \in 1 .. Len(db'), db'[i].kind = "CQ"
      PROVE  db'[i].value \in 0 .. CQ_SIZE - 1
  <2>1. CASE i = Len(db) + 1
    BY <1>1, <1>2, <2>1
  <2>2. CASE i # Len(db) + 1
    <3>1. i \in 1 .. Len(db)
      BY <1>1, <2>2
    <3>2. db[i].kind = "CQ"
      BY <1>1, <1>2, <3>1
    <3> QED BY <1>1, <3>1, <3>2 DEF TInv, MoreTypes
  <2> QED BY <2>1, <2>2
<1> QED BY <1>1, <1>2

LEMMA SubmitKeeps ==
  ASSUME IInv, NEW c \in HostCmds, Submit(c)
  PROVE  IInv'
<1>1. PICK f \in Nat : FInv(f)
  BY DEF IInv
<1>2. TInv /\ ReadsSeeWrites /\ Stored /\ OnlyDone(d) /\ Rung(f) /\ Submitted(f) /\ OneAtATime(f)
  BY <1>1 DEF IInv, FInv
<1> DEFINE n == Len(sent)
           x == [kind |-> "SQ", value |-> sq_tail']
<1>3. /\ ~shn /\ n < MaxCmds /\ Cardinality(outstanding) < SQ_SIZE - 1
      /\ sent' = Append(sent, c) /\ sq_mem' = [sq_mem EXCEPT ![sq_tail] = n + 1]
      /\ sq_tail' = (sq_tail + 1) % SQ_SIZE /\ outstanding' = outstanding \cup {n + 1}
      /\ db' = Append(db, x)
      /\ UNCHANGED <<host_head, host_phase, rung, shn, d, ftl_req, ftl_out, flash, stored>>
  BY DEF Submit
<1>4. /\ n \in Nat /\ Len(sent') = n + 1 /\ sent' \in Seq(HostCmds) /\ sent'[n + 1] = c
      /\ \A i \in 1 .. n : sent'[i] = sent[i]
  BY <1>2, <1>3 DEF TInv, MoreTypes
<1>5. /\ sq_tail \in 0 .. SQ_SIZE - 1 /\ sq_mem \in [0 .. SQ_SIZE - 1 -> Cid \cup {0}]
      /\ d \in Driver /\ d.sq_head \in 0 .. SQ_SIZE - 1
      /\ outstanding \subseteq Cid /\ d.done \subseteq 1 .. n
  BY <1>2 DEF TInv, TypeOK, Driver
<1>6. sq_tail' = Wrap(sq_tail + 1, SQ_SIZE) /\ sq_tail' \in 0 .. SQ_SIZE - 1
  BY <1>3, <1>5, WrapIs, Sizes
<1>7. n + 1 \in Cid
  BY <1>3, <1>4, Sizes DEF Cid
<1>8. x \in Door /\ x.kind = "SQ"
  <2>1. sq_tail' \in Nat
    BY <1>6, Sizes
  <2> QED BY <2>1 DEF Door
<1>9. sent' \in Seq(HostCmds) /\ Len(sent') <= MaxCmds /\ n <= Len(sent')
  BY <1>3, <1>4, Sizes
<1> HIDE DEF x
<1>10. TInv'
  <2>1. /\ db' \in Seq(Door)
        /\ \A i \in 1 .. Len(db') : db'[i].kind = "CQ" => db'[i].value \in 0 .. CQ_SIZE - 1
    BY <1>2, <1>3, <1>8, DoorWritten
  <2>2. MoreTypes'
    BY <1>2, <1>3, <1>9, <2>1 DEF TInv, MoreTypes
  <2>3. d'.done \subseteq 1 .. Len(sent')
    BY <1>3, <1>4, <1>5
  <2>4. sq_mem' \in [0 .. SQ_SIZE - 1 -> Cid \cup {0}] /\ outstanding' \subseteq Cid
    BY <1>3, <1>5, <1>7
  <2>5. TypeOK'
    BY <1>2, <1>3, <1>6, <2>3, <2>4 DEF TInv, TypeOK
  <2> QED BY <2>2, <2>5 DEF TInv
<1>11. Rung(f)'
  BY <1>2, <1>3, <1>4, <1>8, RungAppend
<1>12. f \in 0 .. n /\ n - f < SQ_SIZE - 1
  BY <1>2, <1>3, RoomLeft DEF Submitted
<1>13. Submitted(f)'
  <2> DEFINE m == n - f
             h == d.sq_head
  <2>1. m \in 0 .. SQ_SIZE - 2 /\ h \in 0 .. SQ_SIZE - 1 /\ Len(sent') - f = m + 1
    BY <1>4, <1>5, <1>12, Sizes
  <2>2. sq_tail = Wrap(h + m, SQ_SIZE)
    BY <1>2 DEF Submitted
  <2>3. \A j \in 0 .. SQ_SIZE - 1 : j < m => sq_mem[Wrap(h + j, SQ_SIZE)] = f + 1 + j
    BY <1>2 DEF Submitted
  <2>4. n = f + m
    BY <1>1, <1>4
  <2> HIDE DEF m, h, n
  <2>5. sq_tail' = Wrap(h + (m + 1), SQ_SIZE)
    BY <1>6, <2>1, <2>2, Sizes DEF Wrap
  <2>6. ASSUME NEW j \in 0 .. SQ_SIZE - 1, j < m + 1
        PROVE  sq_mem'[Wrap(h + j, SQ_SIZE)] = f + 1 + j
    <3>1. CASE j = m
      BY <1>3, <1>5, <2>2, <2>4, <3>1
    <3>2. CASE j # m
      <4>1. j < m /\ Wrap(h + j, SQ_SIZE) # sq_tail /\ Wrap(h + j, SQ_SIZE) \in 0 .. SQ_SIZE - 1
        BY <2>1, <2>2, <2>6, <3>2, Sizes DEF Wrap
      <4> QED BY <1>3, <1>5, <2>3, <4>1
    <3> QED BY <3>1, <3>2
  <2>7. f \in 0 .. Len(sent') /\ Len(sent') - f <= SQ_SIZE - 1
    BY <1>12, <1>4, <2>1, Sizes DEF n
  <2>8. f + 1 .. Len(sent') \subseteq outstanding'
    <3>1. f + 1 .. n \subseteq outstanding
      BY <1>2 DEF Submitted, n
    <3>2. \A i \in f + 1 .. Len(sent') : i \in f + 1 .. n \/ i = n + 1
      BY <1>4, <1>12
    <3> QED BY <1>3, <3>1, <3>2
  <2>9. d'.done \subseteq 1 .. f /\ d'.sq_head = h
    BY <1>2, <1>3 DEF Submitted, h
  <2> QED BY <2>1, <2>5, <2>6, <2>7, <2>8, <2>9 DEF Submitted
<1>14. \A m \in 0 .. n : \A l : Content(l, m)' = Content(l, m)
  BY <1>2, <1>3, ContentFrozen
<1>15. OneAtATime(f)'
  <2>1. \A m \in 0 .. n : OnFlash(m)' <=> OnFlash(m)
    BY <1>3, <1>14 DEF OnFlash
  <2>2. CacheEmpty' <=> CacheEmpty
    BY <1>3 DEF CacheEmpty
  <2>3. \A r : /\ Returned(r)' <=> Returned(r)
               /\ Underway(r)' <=> Underway(r)
    BY <1>3 DEF Queued, Served, Returned, Underway
  <2>4. Resting(f) => Resting(f)'
    BY <1>3, <1>12, <2>1, <2>2 DEF Resting
  <2>5. f \in 1 .. n => /\ sent'[f] = sent[f] /\ f \in 1 .. Len(sent')
                        /\ (Verified(sent[f])' <=> Verified(sent[f]))
    BY <1>4 DEF Verified
  <2>6. ASSUME Reading(f) PROVE Reading(f)'
    <3>1. f \in 1 .. n /\ f \in outstanding' /\ f \notin d'.done
      BY <1>3, <2>6 DEF Reading
    <3>2. Underway(ReadReq(f))' /\ (Returned(ReadReq(f))' <=> Returned(ReadReq(f)))
      BY <2>3, <2>6 DEF Reading
    <3>3. OnFlash(f)' /\ CacheEmpty'
      BY <1>12, <2>1, <2>2, <2>6 DEF Reading
    <3> QED BY <1>3, <2>5, <2>6, <3>1, <3>2, <3>3 DEF Reading
  <2>7. ASSUME Writing(f) PROVE Writing(f)'
    <3>1. f \in 1 .. n /\ f - 1 \in 0 .. n
      BY <1>4, <2>7 DEF Writing
    <3>2. Underway(WbcReq)' /\ (Returned(WbcReq)' <=> Returned(WbcReq))
      BY <2>3, <2>7 DEF Writing
    <3>3. (OnFlash(f)' <=> OnFlash(f)) /\ (OnFlash(f - 1)' <=> OnFlash(f - 1))
      BY <1>12, <2>1, <3>1
    <3> QED BY <1>3, <2>5, <2>7, <3>1, <3>2, <3>3 DEF Writing, Data
  <2> QED BY <1>2, <1>3, <2>4, <2>6, <2>7 DEF OneAtATime
<1>16. ReadsSeeWrites'
  <2>1. \A a \in d.done : /\ sent'[a] = sent[a] /\ (Verified(sent[a])' <=> Verified(sent[a]))
                          /\ a - 1 \in 0 .. n
    BY <1>4, <1>5 DEF Verified
  <2> SUFFICES ASSUME NEW a \in d.done, sent[a].op = "READ", Verified(sent[a]),
                      NEW i \in 1 .. sent[a].n
               PROVE  d.host_mem[a][i] = Content(sent[a].slba + i - 1, a - 1)'
    BY <1>3, <2>1 DEF ReadsSeeWrites, Verified
  <2> DEFINE l == sent[a].slba + i - 1
  <2>2. d.host_mem[a][i] = Content(l, a - 1)
    BY <1>2 DEF ReadsSeeWrites
  <2>3. l' = l
    BY <2>1
  <2> HIDE DEF l
  <2>4. Content(l, a - 1)' = Content(l, a - 1)
    BY <1>14, <2>1, <2>3
  <2> QED BY <2>2, <2>4 DEF l
<1>17. Stored'
  BY <1>2, <1>3 DEF Stored
<1>18. OnlyDone(d')
  BY <1>2, <1>3
<1> QED BY <1>10, <1>11, <1>13, <1>15, <1>16, <1>17, <1>18 DEF IInv, FInv

\* A step of the host that sends no command.
LEMMA HostStepKeeps ==
  ASSUME IInv, NEW f \in Nat, FInv(f), TInv', Rung(f)', shn => shn',
         UNCHANGED <<sent, sq_tail, sq_mem, d, ftl_req, ftl_out, flash, stored>>,
         outstanding \cap (1 .. Len(sent)) \subseteq outstanding' \cup d.done
  PROVE  IInv'
<1>1. TInv /\ ReadsSeeWrites /\ Stored /\ OnlyDone(d) /\ Rung(f) /\ Submitted(f) /\ OneAtATime(f)
  BY DEF IInv, FInv
<1>2. Submitted(f)'
  <2>1. f + 1 .. Len(sent) \subseteq outstanding'
    <3>1. /\ Len(sent) \in Nat /\ f + 1 .. Len(sent) \subseteq outstanding /\ d.done \subseteq 1 .. f
      BY <1>1 DEF Submitted, TInv, MoreTypes
    <3>2. \A i \in f + 1 .. Len(sent) : i \in 1 .. Len(sent) /\ i \notin 1 .. f
      BY <3>1
    <3> QED BY <3>1, <3>2
  <2> QED BY <1>1, <2>1 DEF Submitted
<1>3. OneAtATime(f)'
  <2>1. SameWorkButHead(d', d) /\ d'.done = d.done
    BY DEF SameWorkButHead
  <2> QED BY <1>1, <2>1, QuietKeeps
<1>4. ReadsSeeWrites'
  BY <1>1, ContentSame DEF ReadsSeeWrites, Verified
<1>5. Stored'
  BY <1>1, ContentSame DEF Stored
<1>6. OnlyDone(d')
  BY <1>1
<1> QED BY <1>2, <1>3, <1>4, <1>5, <1>6 DEF IInv, FInv

LEMMA ConsumeKeeps ==
  ASSUME IInv, Consume
  PROVE  IInv'
<1>1. PICK f \in Nat : FInv(f)
  BY DEF IInv
<1>2. TInv /\ OnlyDone(d) /\ Rung(f)
  BY <1>1 DEF IInv, FInv
<1>3. host_head \in 0 .. CQ_SIZE - 1 /\ host_phase \in {0, 1}
  BY <1>2 DEF TInv, TypeOK
<1>4. host_head' \in 0 .. CQ_SIZE - 1 /\ host_phase' \in {0, 1}
  <2>1. host_head' \in 0 .. CQ_SIZE - 1
    BY <1>3, WrapIs, Sizes DEF Consume
  <2>2. host_phase' \in {0, 1}
    BY <1>3 DEF Consume
  <2> QED BY <2>1, <2>2
<1>5. /\ UNCHANGED <<sent, sq_tail, sq_mem, rung, shn, db, d, ftl_req, ftl_out, flash, stored>>
      /\ outstanding' = outstanding \ {d.cq_mem[host_head].cid}
  BY DEF Consume
<1>6. TInv'
  <2>1. TypeOK'
    BY <1>2, <1>4, <1>5 DEF TInv, TypeOK
  <2>2. MoreTypes'
    BY <1>2, <1>5 DEF TInv, MoreTypes
  <2> QED BY <2>1, <2>2 DEF TInv
<1>7. outstanding \cap (1 .. Len(sent)) \subseteq outstanding' \cup d.done
  <2>1. d.cq_mem[host_head].cid \in d.done \cup {0}
    BY <1>2, <1>3 DEF OnlyDone
  <2>2. 0 \notin 1 .. Len(sent)
    OBVIOUS
  <2> QED BY <1>5, <2>1, <2>2
<1>8. Rung(f)'
  BY <1>2, <1>5, RungSame
<1> QED BY <1>1, <1>5, <1>6, <1>7, <1>8, HostStepKeeps

LEMMA RingCqKeeps ==
  ASSUME IInv, RingCq
  PROVE  IInv'
<1>1. PICK f \in Nat : FInv(f)
  BY DEF IInv
<1>2. TInv /\ Rung(f)
  BY <1>1 DEF IInv, FInv
<1> DEFINE x == [kind |-> "CQ", value |-> host_head]
<1>3. /\ UNCHANGED <<sent, sq_tail, sq_mem, host_head, host_phase, outstanding, shn, d,
                     ftl_req, ftl_out, flash, stored>>
      /\ rung' = host_head /\ db' = Append(db, x)
  BY DEF RingCq
<1>4. x \in Door /\ x.kind = "CQ" /\ x.value \in 0 .. CQ_SIZE - 1 /\ host_head \in 0 .. CQ_SIZE - 1
  <2>1. host_head \in 0 .. CQ_SIZE - 1
    BY <1>2 DEF TInv, TypeOK
  <2>2. host_head \in Nat
    BY <2>1, Sizes
  <2> QED BY <2>1, <2>2 DEF Door
<1> HIDE DEF x
<1>5. TInv'
  <2>1. /\ db' \in Seq(Door)
        /\ \A i \in 1 .. Len(db') : db'[i].kind = "CQ" => db'[i].value \in 0 .. CQ_SIZE - 1
    BY <1>2, <1>3, <1>4, DoorWritten
  <2>2. MoreTypes'
    BY <1>2, <1>3, <2>1 DEF TInv, MoreTypes
  <2>3. TypeOK'
    BY <1>2, <1>3, <1>4 DEF TInv, TypeOK
  <2> QED BY <2>2, <2>3 DEF TInv
<1>6. Rung(f)'
  BY <1>2, <1>3, <1>4, RungAppend
<1>7. outstanding \cap (1 .. Len(sent)) \subseteq outstanding' \cup d.done
  BY <1>3
<1> QED BY <1>1, <1>3, <1>5, <1>6, <1>7, HostStepKeeps

LEMMA ShutdownKeeps ==
  ASSUME IInv, RequestShutdown \/ UNCHANGED vars
  PROVE  IInv'
<1>1. PICK f \in Nat : FInv(f)
  BY DEF IInv
<1>2. TInv /\ Rung(f)
  BY <1>1 DEF IInv, FInv
<1>3. /\ UNCHANGED <<sent, sq_tail, sq_mem, host_head, host_phase, rung, outstanding, db, d,
                     ftl_req, ftl_out, flash, stored>>
      /\ shn' = shn \/ shn' = TRUE
  BY DEF RequestShutdown, vars, hostVars
<1>4. TInv'
  <2>1. shn' \in BOOLEAN
    BY <1>2, <1>3 DEF TInv, MoreTypes
  <2>2. MoreTypes'
    BY <1>2, <1>3, <2>1 DEF TInv, MoreTypes
  <2>3. TypeOK'
    BY <1>2, <1>3 DEF TInv, TypeOK
  <2> QED BY <2>2, <2>3 DEF TInv
<1>5. Rung(f)'
  BY <1>2, <1>3, RungSame
<1>6. outstanding \cap (1 .. Len(sent)) \subseteq outstanding' \cup d.done
  BY <1>3
<1>7. shn => shn'
  BY <1>3
<1> QED BY <1>1, <1>3, <1>4, <1>5, <1>6, <1>7, HostStepKeeps

----------------------------------------------------------------------------
(* The invariant, and what it says of every behaviour.                     *)

LEMMA InitIInv == Init => IInv
<1> SUFFICES ASSUME Init PROVE IInv
  OBVIOUS
<1> DEFINE mem == [i \in 0 .. CQ_SIZE - 1 |-> [cid |-> 0, phase |-> 0]]
           buf == [i \in Pages |-> Blank]
           cache == [i \in Pages |-> [valid |-> FALSE, lpn |-> 0]]
           hm == [c \in Cid |-> <<>>]
           e == [door |-> 1, sq_head |-> 0, cq_head |-> 0, cq_tail |-> 0, cq_phase |-> 1,
                 cq_mem |-> mem, pending |-> <<>>, r_buf_q |-> <<>>, w_buf_q |-> <<>>,
                 page_buffer_inuse |-> FALSE, page_buffer |-> buf, wbc |-> cache,
                 ftl_in |-> <<>>, host_mem |-> hm, done |-> {}]
<1>1. /\ d = e /\ sent = <<>> /\ sq_tail = 0 /\ sq_mem = [i \in 0 .. SQ_SIZE - 1 |-> 0]
      /\ host_head = 0 /\ host_phase = 1 /\ rung = 0 /\ outstanding = {} /\ shn = FALSE
      /\ db = <<>> /\ ftl_req = NoReq /\ ftl_out = <<>> /\ flash = [l \in Lpn |-> Blank]
      /\ stored = <<>>
  BY DEF Init
<1>2. Blank \in Seq(Nat)
  BY DEF Blank
<1>3. /\ mem \in [0 .. CQ_SIZE - 1 -> [cid: Cid \cup {0}, phase: {0, 1}]]
      /\ cache \in [Pages -> [valid: BOOLEAN, lpn: Nat]]
  OBVIOUS
<1>4. buf \in [Pages -> Seq(Nat)] /\ hm \in [Cid -> Seq(Seq(Nat))]
  BY <1>2
<1>5. \A s \in 0 .. CQ_SIZE - 1 : mem[s].cid = 0
  OBVIOUS
<1>6. \A i \in Pages : cache[i].valid = FALSE
  OBVIOUS
<1> HIDE DEF mem, buf, cache, hm
<1>7. 0 \in 0 .. CQ_SIZE - 1 /\ 0 \in 0 .. SQ_SIZE - 1
  BY Sizes
<1>8. e \in Driver
  BY <1>3, <1>4, <1>7 DEF Driver
<1>9. /\ e.door = 1 /\ e.sq_head = 0 /\ e.cq_mem = mem /\ e.pending = <<>> /\ e.done = {}
      /\ e.r_buf_q = <<>> /\ e.w_buf_q = <<>> /\ e.page_buffer_inuse = FALSE
      /\ e.ftl_in = <<>> /\ e.wbc = cache
  OBVIOUS
<1> HIDE DEF e
<1>10. TInv
  <2>1. TypeOK
    <3>1. sq_mem \in [0 .. SQ_SIZE - 1 -> Cid \cup {0}] /\ ftl_out \in Seq(Request)
      BY <1>1
    <3>2. d.done = {} /\ outstanding = {} /\ d \in Driver
      BY <1>1, <1>8, <1>9
    <3>3. sq_tail \in 0 .. SQ_SIZE - 1 /\ host_head \in 0 .. CQ_SIZE - 1 /\ rung \in 0 .. CQ_SIZE - 1
      BY <1>1, <1>7
    <3> QED BY <1>1, <3>1, <3>2, <3>3 DEF TypeOK
  <2>2. MoreTypes
    <3>1. flash \in [Lpn -> Seq(Nat)]
      BY <1>1, <1>2
    <3>2. sent \in Seq(HostCmds) /\ Len(sent) = 0 /\ db \in Seq(Door) /\ Len(db) = 0
      BY <1>1
    <3>3. Len(sent) <= MaxCmds
      BY <3>2, Sizes
    <3>4. \A i \in 1 .. Len(db) : db[i].kind = "CQ" => db[i].value \in 0 .. CQ_SIZE - 1
      BY <3>2
    <3>5. shn \in BOOLEAN
      BY <1>1
    <3> QED BY <3>1, <3>2, <3>3, <3>4, <3>5 DEF MoreTypes
  <2> QED BY <2>1, <2>2 DEF TInv
<1>11. ReadsSeeWrites /\ Stored /\ OnlyDone(d)
  BY <1>1, <1>5, <1>9 DEF ReadsSeeWrites, Stored, OnlyDone
<1>12. Rung(0)
  <2> DEFINE g == [i \in 1 .. 1 |-> 0]
  <2>1. g \in [1 .. Len(db) + 1 -> 0 .. Len(sent)] /\ g[1] = 0
    BY <1>1
  <2> HIDE DEF g
  <2> QED BY <1>1, <2>1 DEF Rung
<1>13. Submitted(0)
  BY <1>1, <1>9, Sizes DEF Submitted, Wrap
<1>14. OneAtATime(0)
  <2>1. \A l : Content(l, 0) = Blank
    BY DEF Content
  <2>2. OnFlash(0)
    BY <1>1, <2>1 DEF OnFlash
  <2>3. CacheEmpty
    BY <1>1, <1>6, <1>9 DEF CacheEmpty
  <2> QED BY <1>1, <1>9, <2>2, <2>3 DEF OneAtATime, Resting
<1> QED BY <1>10, <1>11, <1>12, <1>13, <1>14 DEF IInv, FInv

LEMMA NextIInv == IInv /\ [Next]_vars => IInv'
<1> SUFFICES ASSUME IInv, [Next]_vars PROVE IInv'
  OBVIOUS
<1>1. CASE CheckDoor
  BY <1>1, FetchKeeps, PollKeeps DEF CheckDoor
<1>2. CASE Completed
  BY <1>2, ReadDoneKeeps, WbcDoneKeeps DEF Completed
<1>3. CASE Ftl
  BY <1>3, FtlTakeKeeps, FtlReadKeeps, FtlProgramKeeps DEF Ftl
<1>4. CASE Host
  BY <1>4, SubmitKeeps, ConsumeKeeps, RingCqKeeps, ShutdownKeeps DEF Host
<1>5. CASE UNCHANGED vars
  BY <1>5, ShutdownKeeps
<1> QED BY <1>1, <1>2, <1>3, <1>4, <1>5 DEF Next

\* The invariant of the I/O path holds in every behaviour of the driver.
THEOREM Invariance == Spec => []IInv
BY InitIInv, NextIInv, PTL DEF Spec

\* Indices stay inside their queues and every variable keeps its type, for
\* every size of the queues and of the namespace (nvme_driver.c, inc_sq_head,
\* inc_cq_tail, the queues of the page buffer).
THEOREM TypeCorrect == Spec => []TypeOK
<1>1. IInv => TypeOK
  BY DEF IInv, TInv
<1> QED BY <1>1, Invariance, PTL

\* Of the queued check_door_bell callback and the request that is under way
\* there is always exactly one, and the request holds the page buffer, as long
\* as the host stays in the range verify_rw_param checks: the driver works on
\* one command at a time and never stops looking at the doorbells.
THEOREM TokenCorrect == ASSUME InRange PROVE Spec => []TokenConserved
<1>1. IInv => TokenConserved
  <2> SUFFICES ASSUME IInv PROVE TokenConserved
    OBVIOUS
  <2>1. PICK f \in Nat : OneAtATime(f)
    BY DEF IInv, FInv
  <2>2. Len(d.r_buf_q) = 0 /\ Len(d.w_buf_q) = 0
    BY <2>1 DEF OneAtATime
  <2>3. CASE Resting(f)
    <3>1. /\ Len(d.ftl_in) = 0 /\ Len(ftl_out) = 0 /\ ftl_req = NoReq /\ d.door = 1
          /\ ~d.page_buffer_inuse
      BY <2>3 DEF Resting
    <3>2. InFlight = 0
      BY <2>2, <3>1 DEF InFlight
    <3> QED BY <3>1, <3>2 DEF TokenConserved
  <2>4. CASE Reading(f) \/ Writing(f)
    <3>1. PICK r : Underway(r) /\ r # NoReq
      BY <2>4, Requests DEF Reading, Writing
    <3>2. d.door = 0 /\ d.page_buffer_inuse
      BY <3>1 DEF Underway
    <3>3. InFlight = 1
      <4>1. CASE Queued(r)
        <5>1. Len(d.ftl_in) = 1 /\ Len(ftl_out) = 0 /\ ftl_req = NoReq
          BY <4>1 DEF Queued
        <5> QED BY <2>2, <5>1 DEF InFlight
      <4>2. CASE Served(r)
        <5>1. Len(d.ftl_in) = 0 /\ Len(ftl_out) = 0 /\ ftl_req # NoReq
          BY <3>1, <4>2 DEF Served
        <5> QED BY <2>2, <5>1 DEF InFlight
      <4>3. CASE Returned(r)
        <5>1. Len(d.ftl_in) = 0 /\ Len(ftl_out) = 1 /\ ftl_req = NoReq
          BY <4>3 DEF Returned
        <5> QED BY <2>2, <5>1 DEF InFlight
      <4> QED BY <3>1, <4>1, <4>2, <4>3 DEF Underway
    <3> QED BY <3>2, <3>3 DEF TokenConserved
  <2> QED BY <2>1, <2>3, <2>4 DEF OneAtATime
<1> QED BY <1>1, Invariance, PTL

\* A completed read has put in host memory what the writes sent before it
\* wrote, although writes are completed before they are programmed and the
\* driver and the FTL run on different CPUs (process_read_ios_step_2,
\* process_write_ios_step_2, completed_req_cbk).
THEOREM ReadsCorrect == Spec => []ReadsSeeWrites
<1>1. IInv => ReadsSeeWrites
  BY DEF IInv
<1> QED BY <1>1, Invariance, PTL

\* The tables that check_door_bell stores at shutdown describe every write
\* the host has made, whatever is still in the queues when it asks.
THEOREM ShutdownCorrect == Spec => []ShutdownStoresAll
<1>1. IInv => ShutdownStoresAll
  <2>1. 0 .. NSZE - 1 \subseteq Lpn
    BY Sizes DEF Lpn
  <2> QED BY <2>1 DEF IInv, Stored, ShutdownStoresAll
<1> QED BY <1>1, Invariance, PTL

\* When a FLUSH completes every write sent before it is on flash, although
\* process_flush_io flushes nothing: the callback that fetches the FLUSH is
\* queued only after the write before it was programmed.
THEOREM FlushCorrect == Spec => FlushDurable
<1> DEFINE A == \A c \in d'.done \ d.done : sent[c].op = "FLUSH" =>
                  \A l \in 0 .. NSZE - 1 : flash'[l] = Content(l, c)
<1>1. IInv /\ [Next]_vars => [A]_vars
  <2> SUFFICES ASSUME IInv, Next, NEW c \in d'.done \ d.done, sent[c].op = "FLUSH",
                      NEW l \in 0 .. NSZE - 1
               PROVE  flash'[l] = Content(l, c)
    OBVIOUS
  <2>1. PICK f \in Nat : FInv(f)
    BY DEF IInv
  <2>2. TInv /\ OnlyDone(d) /\ OneAtATime(f)
    BY <2>1 DEF IInv, FInv
  <2>3. CASE CheckDoorSq
    <3>1. Dispatched(d', d, f + 1) /\ Resting(f)
      BY <2>1, <2>2, <2>3, FetchEffect, NextCommand
    <3>2. c = f + 1
      BY <3>1 DEF Dispatched, ReadStarts, WriteStarts, CommandEnds, Ignored, Finishes
    <3>3. UNCHANGED <<sent, flash>>
      BY <2>3 DEF CheckDoorSq, hostVars
    <3>4. OnFlash(f + 1)'
      BY <2>2, <3>1, <3>2, <3>3, SameContent DEF Resting
    <3>5. l \in Lpn
      BY Sizes DEF Lpn
    <3> QED BY <3>2, <3>3, <3>4, <3>5, ContentSame DEF OnFlash
  <2>4. CASE CompletedRead
    <3>1. Reading(f) /\ Finishes(d', d, f)
      BY <2>2, <2>4, ReadEffect
    <3> QED BY <3>1 DEF Reading, Finishes
  <2>5. ASSUME d'.done = d.done PROVE FALSE
    BY <2>5
  <2>6. CASE CheckDoorCq
    BY <2>2, <2>5, <2>6, CqDoorEffect DEF Polls
  <2>7. CASE CheckDoorIdle
    BY <2>2, <2>5, <2>7, IdleEffect DEF Polls
  <2>8. CASE CompletedWbc
    BY <2>2, <2>5, <2>8, WbcEffect
  <2>9. CASE FtlTake \/ FtlRead
    <3>1. d \in Driver
      BY <2>2 DEF TInv, TypeOK
    <3>2. d'.done = d.done
      BY <2>9, <3>1 DEF FtlTake, FtlRead, Driver
    <3> QED BY <2>5, <3>2
  <2>10. CASE FtlProgram \/ Host
    BY <2>5, <2>10 DEF FtlProgram, Host, Submit, Consume, RingCq, RequestShutdown
  <2> QED BY <2>3, <2>4, <2>6, <2>7, <2>8, <2>9, <2>10 DEF Next, CheckDoor, Completed, Ftl
<1>2. [][Next]_vars /\ []IInv => [][A]_vars
  BY <1>1, PTL
<1> QED BY <1>2, Invariance, PTL DEF Spec, FlushDurable
=============================================================================
