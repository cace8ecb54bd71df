-------------------------- MODULE NvmeAdminProofs --------------------------
(***************************************************************************)
(* The admin side of the NVMe driver, for any number of queue pairs and    *)
(* all sizes of queues: whatever queues are created, deleted and created   *)
(* again, no command is lost, answered twice or answered to another queue. *)
(*                                                                         *)
(* What is on its way to the host is, for each queue, one sequence: the    *)
(* entries it has not seen, then the pending ones. Posting does not change *)
(* it. What ties the queues together is the admin queue: a command that    *)
(* creates or deletes a queue is carried out if and only if it is fetched, *)
(* and what the host believes of the queue changes when it has seen the    *)
(* completion.                                                             *)
(***************************************************************************)
EXTENDS NvmeAdmin, FiniteSetTheorems, SequenceTheorems, WellFoundedInduction, TLAPS

\* The operators below take the driver's state e, the host's g, the
\* completion queues cm and the submission queues sm in host memory and the
\* doorbells b.

\* Rings of n entries: how far b is ahead of a; the entry k ahead of a.
Off(a, b, n) == IF a <= b THEN b - a ELSE b - a + n
Fwd(a, k, n) == IF a + k < n THEN a + k ELSE a + k - n

IsSq(b, i, q) == i \in 1 .. Len(b) /\ b[i].kind = "SQ" /\ b[i].q = q
IsCq(b, i, q) == i \in 1 .. Len(b) /\ b[i].kind = "CQ" /\ b[i].q = q

\* A queue that exists.
Made(x) == x.size # 0

\* Completions on their way to the host, and commands not fetched.
NewOf(cq, hd, n) == Off(hd, cq.tail, n)
Way(cq, m, hd, n) ==
  [k \in 1 .. NewOf(cq, hd, n) + Len(cq.pending) |->
     IF k <= NewOf(cq, hd, n)
     THEN [cid |-> m[Fwd(hd, k - 1, n)].cid, cdw0 |-> m[Fwd(hd, k - 1, n)].cdw0]
     ELSE cq.pending[k - NewOf(cq, hd, n)]]
Unf(sq, m, tl, n) == [k \in 1 .. Off(sq.head, tl, n) |-> m[Fwd(sq.head, k - 1, n)]]

\* The host's places in a completion queue that the driver knows, that are
\* in doorbells, and that are true, by their distance to the tail.
Heads(cq, hd, rung, b, q, n) ==
  /\ {cq.tail, cq.head, hd, rung} \subseteq 0 .. n - 1
  /\ Off(rung, cq.tail, n) <= Off(cq.head, cq.tail, n)
  /\ Off(hd, cq.tail, n) <= Off(rung, cq.tail, n)
  /\ \A i \in 1 .. Len(b) : IsCq(b, i, q) =>
       /\ b[i].value \in 0 .. n - 1
       /\ Off(b[i].value, cq.tail, n) <= Off(cq.head, cq.tail, n)
       /\ Off(rung, cq.tail, n) <= Off(b[i].value, cq.tail, n)
  /\ \A i, j \in 1 .. Len(b) : i < j /\ IsCq(b, i, q) /\ IsCq(b, j, q) =>
       Off(b[j].value, cq.tail, n) <= Off(b[i].value, cq.tail, n)

\* The entries before the tail have the driver's phase, the others not.
Phases(cq, m, hd, ph, n) ==
  /\ \A i \in 0 .. n - 1 : m[i].phase = IF i < cq.tail THEN cq.phase ELSE 1 - cq.phase
  /\ ph = IF hd <= cq.tail THEN cq.phase ELSE 1 - cq.phase

\* The completion queue cq, its entries m, what the host believes of it
\* (st), and the host's place, doorbell and phase.
CqPart(cq, m, st, hd, rung, ph, b, q) ==
  LET n == CqSize(q)
  IN /\ q = 0 \/ st = "live" => Made(cq)
     /\ q # 0 /\ st = "none" => ~Made(cq)
     /\ q # 0 /\ st = "creating" =>
          hd = 0 /\ rung = 0 /\ ph = 1 /\ \A i \in 0 .. n - 1 : m[i].phase = 0
     /\ Made(cq) => /\ cq.size = n /\ cq.cqid = q
                    /\ Heads(cq, hd, rung, b, q, n) /\ Phases(cq, m, hd, ph, n)
     /\ ~Made(cq) => cq.pending = <<>> /\ \A i \in 1 .. Len(b) : ~IsCq(b, i, q)

\* Each submission doorbell stands for a command of its own.
SqDoors(sq, tl, b, q, n) ==
  /\ \A i \in 1 .. Len(b) : IsSq(b, i, q) =>
       /\ b[i].value \in 0 .. n - 1
       /\ 1 <= Off(sq.head, b[i].value, n)
       /\ Off(sq.head, b[i].value, n) <= Off(sq.head, tl, n)
  /\ \A i, j \in 1 .. Len(b) : i < j /\ IsSq(b, i, q) /\ IsSq(b, j, q) =>
       Off(sq.head, b[i].value, n) < Off(sq.head, b[j].value, n)

Holds(way, t) == \E k \in 1 .. Len(way) : way[k].cid = t
In(unf, t) == \E k \in 1 .. Len(unf) : unf[k] = t

AtIspOf(isp, q, t) == [cqid |-> q, cid |-> t] \in isp
WayInj(way) == \A k, l \in 1 .. Len(way) : way[k].cid = way[l].cid => k = l
UnfInj(unf) == \A k, l \in 1 .. Len(unf) : unf[k] = unf[l] => k = l

\* A command the host waits for, out[t], is in one place, if it is answered
\* at all.
OnePlace(way, unf, isp, out, q, t) ==
  /\ ~(Holds(way, t) /\ In(unf, t)) /\ ~(Holds(way, t) /\ AtIspOf(isp, q, t))
  /\ ~(In(unf, t) /\ AtIspOf(isp, q, t))
  /\ Holds(way, t) \/ In(unf, t) \/ AtIspOf(isp, q, t) => out[t] # NoCmd
  /\ out[t] # NoCmd /\ Answered(out[t]) => Holds(way, t) \/ In(unf, t) \/ AtIspOf(isp, q, t)
Once(way, unf, isp, out, q) ==
  /\ WayInj(way) /\ UnfInj(unf) /\ \A t \in Tag : OnePlace(way, unf, isp, out, q, t)

\* What commands the host waits for, and what their completions tell it.
Known(way, out, q) ==
  /\ \A t \in Tag : out[t] # NoCmd =>
       /\ t <= SqSize(q) - 2 /\ out[t].cid = t
       /\ IF q = 0 THEN out[t].op \notin {"none", "ISP", "FLUSH"} ELSE out[t].op \in {"ISP", "FLUSH"}
       /\ out[t].op = "FW_DOWNLOAD" => out[t].v \in 1 .. CODE_PIECES
  /\ \A k \in 1 .. Len(way) :
       /\ way[k].cdw0 \in 0 .. MAX_IO_SQCQ_PAIRS

Up(st, q) == q = 0 \/ st = "live"

\* Nothing of a queue without a live submission queue is under way.
Quiet(cq, isp, hd, out, b, q) ==
  /\ \A t \in Tag : out[t] = NoCmd
  /\ \A i \in 1 .. Len(b) : ~IsSq(b, i, q)
  /\ \A t \in Tag : ~AtIspOf(isp, q, t)
  /\ Made(cq) => cq.tail = hd /\ cq.pending = <<>>

\* A live submission queue with the host's tail, and its commands.
Works(sq, tl, way, unf, isp, out, b, q) ==
  /\ {sq.head, tl} \subseteq 0 .. SqSize(q) - 1
  /\ SqDoors(sq, tl, b, q, SqSize(q))
  /\ Once(way, unf, isp, out, q) /\ Known(way, out, q)

\* The submission queue sq; cst is what the host believes of the completion
\* queue.
SqPart(sq, cq, way, unf, isp, st, cst, hd, tl, out, b, q) ==
  /\ Up(st, q) => Made(sq)
  /\ q # 0 /\ st = "none" => ~Made(sq)
  /\ q # 0 /\ st # "none" => cst = "live"
  /\ Made(sq) => sq.size = SqSize(q) /\ sq.cqid = q
  /\ ~Made(sq) => sq.head = 0
  /\ q # 0 /\ st = "creating" => sq.head = 0 /\ tl = 0
  /\ Up(st, q) => Works(sq, tl, way, unf, isp, out, b, q)
  /\ ~Up(st, q) => Quiet(cq, isp, hd, out, b, q)

WayOf(e, cm, g, q) == Way(e.cqs[q], cm[q], g.head[q], CqSize(q))
UnfOf(e, sm, g, q) == Unf(e.sqs[q], sm[q], g.tail[q], SqSize(q))
CqAt(e, cm, g, b, q) ==
  CqPart(e.cqs[q], cm[q], g.cq[q], g.head[q], g.rung[q], g.phase[q], b, q)
SqAt(e, cm, sm, g, b, q) ==
  SqPart(e.sqs[q], e.cqs[q], WayOf(e, cm, g, q), UnfOf(e, sm, g, q), e.isp, g.sq[q], g.cq[q],
         g.head[q], g.tail[q], g.out[q], b, q)

\* A command on a queue is carried out when it is fetched.
AdminCmd(c, unfetched, e, g) ==
  /\ c.op = "CREATE_CQ" => /\ c.q \in IoQid /\ g.cq[c.q] = "creating"
                           /\ Made(e.cqs[c.q]) = ~unfetched
  /\ c.op = "DELETE_CQ" => /\ c.q \in IoQid /\ g.cq[c.q] = "deleting"
                           /\ Made(e.cqs[c.q]) = unfetched
  /\ c.op = "CREATE_SQ" => /\ c.q \in IoQid /\ g.sq[c.q] = "creating" /\ c.v = c.q
                           /\ Made(e.sqs[c.q]) = ~unfetched
  /\ c.op = "DELETE_SQ" => /\ c.q \in IoQid /\ g.sq[c.q] = "deleting"
                           /\ Made(e.sqs[c.q]) = unfetched

\* The doorbells of a completion queue are before the one of the command
\* that deletes it.
Before(unf, out, head, b) ==
  \A k \in 1 .. Len(unf) : out[unf[k]].op = "DELETE_CQ" =>
    \A i, j \in 1 .. Len(b) :
      i < j /\ IsSq(b, i, 0) /\ IsCq(b, j, out[unf[k]].q) => Off(head, b[i].value, ASQ_SIZE) < k

AdminPart(unf, out, head, e, g, b) ==
  /\ \A t \in Tag : AdminCmd(out[t], In(unf, t), e, g)
  /\ \A t, s \in Tag :
       out[t].op \in QueueOps /\ out[s].op = out[t].op /\ out[s].q = out[t].q => s = t
  /\ Before(unf, out, head, b)

Counts(e) ==
  /\ e.iocqCount = Cardinality({q \in IoQid : Made(e.cqs[q])})
  /\ e.iosqCount = Cardinality({q \in IoQid : Made(e.sqs[q])})

\* The inductive invariant.
Inv(e, cm, sm, b, g) ==
  /\ Counts(e) /\ AdminPart(UnfOf(e, sm, g, 0), g.out[0], e.sqs[0].head, e, g, b)
  /\ \A q \in Qid : CqAt(e, cm, g, b, q) /\ SqAt(e, cm, sm, g, b, q)
IInv == TypeOK /\ Inv(d, cq_mem, sq_mem, db, h)

----------------------------------------------------------------------------
(* Rings.                                                                  *)

LEMMA ModOff ==
  ASSUME NEW n \in Nat, n >= 2, NEW a \in 0 .. n - 1, NEW b \in 0 .. n - 1
  PROVE  (b - a) % n = Off(a, b, n) /\ Off(a, b, n) \in 0 .. n - 1
<1>1. CASE a <= b
  BY <1>1 DEF Off
<1>2. CASE a > b
  <2>1. (b - a + n) % n = b - a + n
    BY <1>2
  <2>2. (b - a) % n = (b - a + n) % n
    BY <1>2
  <2> QED BY <1>2, <2>1, <2>2 DEF Off
<1> QED BY <1>1, <1>2

LEMMA ModFwd ==
  ASSUME NEW n \in Nat, n >= 2, NEW a \in 0 .. n - 1, NEW k \in 0 .. n
  PROVE  (a + k) % n = Fwd(a, k, n) /\ Fwd(a, k, n) \in 0 .. n - 1
<1>1. CASE a + k < n
  BY <1>1 DEF Fwd
<1>2. CASE a + k >= n
  <2>1. (a + k - n) % n = a + k - n
    BY <1>2
  <2>2. (a + k) % n = (a + k - n) % n
    BY <1>2
  <2> QED BY <1>2, <2>1, <2>2 DEF Fwd
<1> QED BY <1>1, <1>2

LEMMA OffFwd ==
  ASSUME NEW n \in Nat, n >= 2, NEW a \in 0 .. n - 1, NEW k \in 0 .. n - 1
  PROVE  Off(a, Fwd(a, k, n), n) = k /\ Fwd(a, k, n) \in 0 .. n - 1
BY DEF Off, Fwd

LEMMA OffInt ==
  ASSUME NEW a \in Int, NEW b \in Int, NEW n \in Int
  PROVE  Off(a, b, n) \in Int
BY DEF Off

LEMMA FwdOff ==
  ASSUME NEW n \in Nat, n >= 2, NEW a \in 0 .. n - 1, NEW b \in 0 .. n - 1
  PROVE  /\ Off(a, b, n) \in 0 .. n - 1 /\ Fwd(a, Off(a, b, n), n) = b
         /\ (Off(a, b, n) = 0) <=> a = b
BY DEF Off, Fwd

\* From a tail b to the entry j ahead of the head a.
LEMMA FromTail ==
  ASSUME NEW n \in Nat, n >= 2, NEW a \in 0 .. n - 1, NEW b \in 0 .. n - 1, NEW j \in 0 .. n - 1
  PROVE  Off(b, Fwd(a, j, n), n) = IF j >= Off(a, b, n) THEN j - Off(a, b, n)
                                   ELSE n - Off(a, b, n) + j
BY DEF Off, Fwd

\* The head of a ring moves on by one.
LEMMA OffNext ==
  ASSUME NEW n \in Nat, n >= 2, NEW a \in 0 .. n - 1, NEW b \in 0 .. n - 1, a # b
  PROVE  /\ Fwd(a, 1, n) \in 0 .. n - 1
         /\ Off(Fwd(a, 1, n), b, n) = Off(a, b, n) - 1
         /\ \A k \in 0 .. n - 2 : Fwd(Fwd(a, 1, n), k, n) = Fwd(a, k + 1, n)
BY DEF Off, Fwd

\* The tail of a ring moves on by k, where there is room.
LEMMA OffPush ==
  ASSUME NEW n \in Nat, n >= 2, NEW a \in 0 .. n - 1, NEW b \in 0 .. n - 1,
         NEW k \in 0 .. n - 1, Off(a, b, n) + k <= n - 1
  PROVE  /\ Fwd(b, k, n) \in 0 .. n - 1
         /\ Off(a, Fwd(b, k, n), n) = Off(a, b, n) + k
BY DEF Off, Fwd


----------------------------------------------------------------------------
(* Sizes.                                                                  *)

LEMMA MinIs ==
  ASSUME NEW a \in Int, NEW b \in Int
  PROVE  Min({a, b}) = IF a <= b THEN a ELSE b
<1>1. \E x \in {a, b} : \A y \in {a, b} : x <= y
  <2>1. CASE a <= b
    BY <2>1
  <2>2. CASE ~(a <= b)
    BY <2>2
  <2> QED BY <2>1, <2>2
<1>2. Min({a, b}) \in {a, b} /\ \A y \in {a, b} : Min({a, b}) <= y
  BY <1>1 DEF Min
<1> QED BY <1>2

LEMMA MaxIs ==
  ASSUME NEW a \in Int, NEW b \in Int
  PROVE  Max({a, b}) \in Int /\ Max({a, b}) >= a /\ Max({a, b}) >= b
<1>1. \E x \in {a, b} : \A y \in {a, b} : x >= y
  <2>1. a >= b \/ b >= a
    OBVIOUS
  <2> QED BY <2>1
<1>2. Max({a, b}) \in {a, b} /\ \A y \in {a, b} : Max({a, b}) >= y
  BY <1>1 DEF Max
<1> QED BY <1>2

LEMMA MaxOf ==
  ASSUME NEW a \in Int, NEW b \in Int, NEW c \in Int, NEW e \in Int
  PROVE  LET m == Max({a, b, c, e})
         IN m \in Int /\ m >= a /\ m >= b /\ m >= c /\ m >= e
<1>1. \E x \in {a, b} : \A y \in {a, b} : x >= y
  <2>1. a >= b \/ b >= a
    OBVIOUS
  <2> QED BY <2>1
<1>2. \E x \in {c, e} : \A y \in {c, e} : x >= y
  <2>1. c >= e \/ e >= c
    OBVIOUS
  <2> QED BY <2>1
<1>3. \E x \in {a, b, c, e} : \A y \in {a, b, c, e} : x >= y
  <2>1. PICK x \in {a, b} : \A y \in {a, b} : x >= y
    BY <1>1
  <2>2. PICK z \in {c, e} : \A y \in {c, e} : z >= y
    BY <1>2
  <2>3. CASE x >= z
    BY <2>1, <2>2, <2>3
  <2>4. CASE ~(x >= z)
    BY <2>1, <2>2, <2>4
  <2> QED BY <2>3, <2>4
<1>4. Max({a, b, c, e}) \in {a, b, c, e} /\ \A y \in {a, b, c, e} : Max({a, b, c, e}) >= y
  BY <1>3 DEF Max
<1> QED BY <1>4

\* A ring fits the slots, an identifier the tags.
LEMMA Sizes ==
  ASSUME NEW q \in Qid
  PROVE  /\ SqSize(q) \in Nat /\ SqSize(q) >= 2
         /\ CqSize(q) \in Nat /\ CqSize(q) >= SqSize(q)
         /\ 0 .. SqSize(q) - 1 \subseteq Slot /\ 0 .. CqSize(q) - 1 \subseteq Slot
         /\ 0 .. SqSize(q) - 2 \subseteq Tag
         /\ Slot \subseteq Nat /\ Tag \subseteq Nat /\ 0 \in Slot /\ 0 \in Tag
<1>1. 0 \in Qid /\ 1 \in Qid
  BY SizeAssumption DEF Qid
<1>2. /\ ASQ_SIZE \in Nat /\ ASQ_SIZE >= 2 /\ ACQ_SIZE \in Nat /\ ACQ_SIZE >= ASQ_SIZE
      /\ SQ_SIZE \in Nat /\ SQ_SIZE >= 2 /\ CQ_SIZE \in Nat /\ CQ_SIZE >= SQ_SIZE
  BY <1>1, SizeAssumption DEF SqSize, CqSize
<1>3. Slot = 0 .. Max({ASQ_SIZE, SQ_SIZE, ACQ_SIZE, CQ_SIZE}) - 1
  BY DEF Slot
<1>4. Tag = 0 .. Max({ASQ_SIZE, SQ_SIZE}) - 2
  BY DEF Tag
<1>5. /\ Max({ASQ_SIZE, SQ_SIZE, ACQ_SIZE, CQ_SIZE}) \in Int
      /\ Max({ASQ_SIZE, SQ_SIZE, ACQ_SIZE, CQ_SIZE}) >= ASQ_SIZE
      /\ Max({ASQ_SIZE, SQ_SIZE, ACQ_SIZE, CQ_SIZE}) >= SQ_SIZE
      /\ Max({ASQ_SIZE, SQ_SIZE, ACQ_SIZE, CQ_SIZE}) >= ACQ_SIZE
      /\ Max({ASQ_SIZE, SQ_SIZE, ACQ_SIZE, CQ_SIZE}) >= CQ_SIZE
  BY <1>2, MaxOf
<1>6. /\ Max({ASQ_SIZE, SQ_SIZE}) \in Int
      /\ Max({ASQ_SIZE, SQ_SIZE}) >= ASQ_SIZE /\ Max({ASQ_SIZE, SQ_SIZE}) >= SQ_SIZE
  BY <1>2, MaxIs
<1>7. SqSize(q) \in {ASQ_SIZE, SQ_SIZE} /\ CqSize(q) \in {ACQ_SIZE, CQ_SIZE} /\ CqSize(q) >= SqSize(q)
  BY <1>2 DEF SqSize, CqSize
<1>8. PICK m \in Int : m = Max({ASQ_SIZE, SQ_SIZE, ACQ_SIZE, CQ_SIZE})
  BY <1>5
<1>9. PICK t \in Int : t = Max({ASQ_SIZE, SQ_SIZE})
  BY <1>6
<1>10. Slot = 0 .. m - 1 /\ m >= SqSize(q) /\ m >= CqSize(q) /\ m >= 2
  BY <1>2, <1>3, <1>5, <1>7, <1>8
<1>11. Tag = 0 .. t - 2 /\ t >= SqSize(q) /\ t >= 2
  BY <1>2, <1>4, <1>6, <1>7, <1>9
<1>12. SqSize(q) \in Nat /\ SqSize(q) >= 2 /\ CqSize(q) \in Nat
  BY <1>2, <1>7
<1>13. 0 .. SqSize(q) - 1 \subseteq Slot /\ 0 .. CqSize(q) - 1 \subseteq Slot /\ 0 \in Slot /\ Slot \subseteq Nat
  BY <1>10, <1>12
<1>14. 0 .. SqSize(q) - 2 \subseteq Tag /\ 0 \in Tag /\ Tag \subseteq Nat
  BY <1>11, <1>12
<1> QED BY <1>7, <1>12, <1>13, <1>14

LEMMA QidFacts == 0 \in Qid /\ IoQid = Qid \ {0} /\ IoQid \subseteq Qid /\ SqSize(0) = ASQ_SIZE
BY SizeAssumption DEF Qid, IoQid, SqSize


----------------------------------------------------------------------------
(* Posting.                                                                *)

Item == [cid: Tag, cdw0: Nat]
Entry == [cid: Tag, phase: {0, 1}, sqhd: Slot, cdw0: 0 .. MAX_IO_SQCQ_PAIRS]
InRing(cq, n) == cq.size = n /\ cq.tail \in 0 .. n - 1 /\ cq.head \in 0 .. n - 1

\* Queue r is queue cq after k completions were posted.
PostedBy(r, cq, k, n) ==
  /\ r.pending = SubSeq(cq.pending, k + 1, Len(cq.pending))
  /\ r.tail = Fwd(cq.tail, k, n) /\ r.phase = PhaseAfter(cq, k)
  /\ r.head = cq.head /\ r.size = cq.size /\ r.cqid = cq.cqid

LEMMA PostIs ==
  ASSUME NEW cq \in CQueue, NEW n \in Nat, n >= 2, InRing(cq, n)
  PROVE  /\ Posted(cq) \in 0 .. n - 1 /\ Posted(cq) <= Len(cq.pending)
         /\ Off(cq.head, cq.tail, n) + Posted(cq) <= n - 1
         /\ PostedBy(PostCcmds(cq), cq, Posted(cq), n)
<1>1. cq.pending \in Seq(Item) /\ Len(cq.pending) \in Nat /\ cq.phase \in {0, 1}
  BY DEF CQueue, Item
<1>2. CqRoom(cq) = n - 1 - Off(cq.head, cq.tail, n) /\ Off(cq.head, cq.tail, n) \in 0 .. n - 1
  <2>1. cq.tail \in 0 .. n - 1 /\ cq.head \in 0 .. n - 1 /\ cq.size = n
    BY DEF InRing
  <2>2. (cq.tail - cq.head) % n = Off(cq.head, cq.tail, n) /\ Off(cq.head, cq.tail, n) \in 0 .. n - 1
    BY <2>1, ModOff
  <2> QED BY <2>1, <2>2 DEF CqRoom
<1>3. Posted(cq) = IF cq.pending = <<>> THEN 0
                   ELSE IF Len(cq.pending) <= CqRoom(cq) THEN Len(cq.pending) ELSE CqRoom(cq)
  <2>1. Min({Len(cq.pending), CqRoom(cq)})
          = IF Len(cq.pending) <= CqRoom(cq) THEN Len(cq.pending) ELSE CqRoom(cq)
    BY <1>1, <1>2, MinIs
  <2> QED BY <2>1 DEF Posted
<1>4. Posted(cq) \in 0 .. n - 1 /\ Posted(cq) <= Len(cq.pending)
  BY <1>1, <1>2, <1>3
<1>5. Off(cq.head, cq.tail, n) + Posted(cq) <= n - 1
  BY <1>1, <1>2, <1>3
<1>6. PostedBy(PostCcmds(cq), cq, Posted(cq), n)
  <2>1. CASE Posted(cq) = 0
    <3>1. PostCcmds(cq) = cq
      BY <2>1 DEF PostCcmds
    <3>2. SubSeq(cq.pending, 1, Len(cq.pending)) = cq.pending
      BY <1>1
    <3>3. Fwd(cq.tail, 0, n) = cq.tail /\ PhaseAfter(cq, 0) = cq.phase
      BY DEF Fwd, PhaseAfter, InRing
    <3> QED BY <2>1, <3>1, <3>2, <3>3 DEF PostedBy
  <2>2. CASE Posted(cq) # 0
    <3>1. PostCcmds(cq) = [cq EXCEPT !.pending = SubSeq(cq.pending, Posted(cq) + 1, Len(cq.pending)),
                                     !.tail = (cq.tail + Posted(cq)) % cq.size,
                                     !.phase = PhaseAfter(cq, Posted(cq))]
      BY <2>2 DEF PostCcmds
    <3>2. (cq.tail + Posted(cq)) % cq.size = Fwd(cq.tail, Posted(cq), n)
      <4>1. cq.tail \in 0 .. n - 1 /\ cq.size = n /\ Posted(cq) \in 0 .. n
        BY <1>4 DEF InRing
      <4> QED BY <4>1, ModFwd
    <3> QED BY <3>1, <3>2 DEF PostedBy, CQueue
  <2> QED BY <2>1, <2>2
<1> QED BY <1>4, <1>5, <1>6

\* Entry i of the memory after posting, from memory m.
PostedCell(cq, i, x, m, n) ==
  IF i < n /\ Off(cq.tail, i, n) < Posted(cq)
  THEN [cid |-> cq.pending[Off(cq.tail, i, n) + 1].cid,
        cdw0 |-> cq.pending[Off(cq.tail, i, n) + 1].cdw0, sqhd |-> x,
        phase |-> PhaseAfter(cq, Off(cq.tail, i, n))]
  ELSE m[i]

LEMMA PostCells ==
  ASSUME NEW cq \in CQueue, NEW n \in Nat, n >= 2, InRing(cq, n), NEW x, NEW m,
         0 .. n - 1 \subseteq Slot, Slot \subseteq Nat
  PROVE  PostEntries(cq, x, m) = [i \in Slot |-> PostedCell(cq, i, x, m, n)]
<1>1. Posted(cq) \in 0 .. n - 1
  BY PostIs
<1>2. ASSUME NEW i \in Slot
      PROVE  PostEntries(cq, x, m)[i] = PostedCell(cq, i, x, m, n)
  <2>1. PostEntries(cq, x, m)[i] =
          IF Posted(cq) > 0 /\ i < cq.size /\ (i - cq.tail) % cq.size < Posted(cq)
          THEN [cid |-> cq.pending[((i - cq.tail) % cq.size) + 1].cid,
                cdw0 |-> cq.pending[((i - cq.tail) % cq.size) + 1].cdw0, sqhd |-> x,
                phase |-> PhaseAfter(cq, (i - cq.tail) % cq.size)]
          ELSE m[i]
    BY DEF PostEntries
  <2>2. CASE i < n
    <3>1. i \in 0 .. n - 1 /\ (i - cq.tail) % cq.size = Off(cq.tail, i, n)
          /\ Off(cq.tail, i, n) \in 0 .. n - 1
      <4>1. cq.tail \in 0 .. n - 1 /\ cq.size = n /\ i \in 0 .. n - 1
        BY <2>2 DEF InRing
      <4> QED BY <4>1, ModOff
    <3>2. PICK o \in 0 .. n - 1 : o = Off(cq.tail, i, n)
      BY <3>1
    <3>3. Posted(cq) > 0 /\ o < Posted(cq) <=> o < Posted(cq)
      BY <1>1, <3>2
    <3> QED BY <2>1, <2>2, <3>1, <3>2, <3>3 DEF PostedCell, InRing
  <2>3. CASE ~(i < n)
    BY <2>1, <2>3 DEF PostedCell, InRing
  <2> QED BY <2>2, <2>3
<1> QED BY <1>2 DEF PostEntries


LEMMA PostTypes ==
  ASSUME NEW cq \in CQueue, NEW n \in Nat, n >= 2, InRing(cq, n), NEW x \in Slot,
         NEW m \in [Slot -> Entry], 0 .. n - 1 \subseteq Slot, Slot \subseteq Nat,
         \A k \in 1 .. Len(cq.pending) : cq.pending[k].cdw0 \in 0 .. MAX_IO_SQCQ_PAIRS
  PROVE  PostCcmds(cq) \in CQueue /\ PostEntries(cq, x, m) \in [Slot -> Entry]
<1>1. /\ cq.pending \in Seq(Item) /\ Len(cq.pending) \in Nat /\ cq.phase \in {0, 1}
      /\ cq.tail \in 0 .. n - 1 /\ cq.head \in 0 .. n - 1 /\ cq.size = n
  BY DEF CQueue, Item, InRing
<1>2. Posted(cq) \in 0 .. n - 1 /\ Posted(cq) <= Len(cq.pending)
  BY PostIs
<1>3. PostCcmds(cq) \in CQueue
  <2>1. CASE Posted(cq) = 0
    BY <2>1 DEF PostCcmds
  <2>2. CASE Posted(cq) # 0
    <3>1. PostCcmds(cq) = [cq EXCEPT !.pending = SubSeq(cq.pending, Posted(cq) + 1, Len(cq.pending)),
                                     !.tail = (cq.tail + Posted(cq)) % cq.size,
                                     !.phase = PhaseAfter(cq, Posted(cq))]
      BY <2>2 DEF PostCcmds
    <3>2. (cq.tail + Posted(cq)) % cq.size \in Slot
      <4>1. Posted(cq) \in 0 .. n
        BY <1>2
      <4>2. (cq.tail + Posted(cq)) % n = Fwd(cq.tail, Posted(cq), n) /\ Fwd(cq.tail, Posted(cq), n) \in 0 .. n - 1
        BY <1>1, <4>1, ModFwd
      <4> QED BY <1>1, <4>2
    <3>3. SubSeq(cq.pending, Posted(cq) + 1, Len(cq.pending)) \in Seq(Item)
      BY <1>1, <1>2
    <3>4. PhaseAfter(cq, Posted(cq)) \in {0, 1}
      BY <1>1 DEF PhaseAfter
    <3> QED BY <3>1, <3>2, <3>3, <3>4 DEF CQueue, Item
  <2> QED BY <2>1, <2>2
<1>4. ASSUME NEW i \in Slot
      PROVE  PostedCell(cq, i, x, m, n) \in Entry
  <2>1. CASE i < n /\ Off(cq.tail, i, n) < Posted(cq)
    <3>1. i \in 0 .. n - 1 /\ Off(cq.tail, i, n) \in 0 .. n - 1
      <4>1. i \in 0 .. n - 1
        BY <2>1
      <4> QED BY <1>1, <4>1, FwdOff
    <3>2. PICK o \in 0 .. n - 1 : o = Off(cq.tail, i, n)
      BY <3>1
    <3>3. o + 1 \in 1 .. Len(cq.pending)
      BY <1>2, <2>1, <3>2
    <3>4. cq.pending[o + 1] \in Item /\ cq.pending[o + 1].cdw0 \in 0 .. MAX_IO_SQCQ_PAIRS
      BY <1>1, <3>3
    <3>5. PhaseAfter(cq, o) \in {0, 1}
      BY <1>1 DEF PhaseAfter
    <3>6. PostedCell(cq, i, x, m, n) =
            [cid |-> cq.pending[o + 1].cid, cdw0 |-> cq.pending[o + 1].cdw0, sqhd |-> x,
             phase |-> PhaseAfter(cq, o)]
      BY <2>1, <3>2 DEF PostedCell
    <3> QED BY <3>4, <3>5, <3>6 DEF Entry, Item
  <2>2. CASE ~(i < n /\ Off(cq.tail, i, n) < Posted(cq))
    BY <2>2 DEF PostedCell
  <2> QED BY <2>1, <2>2
<1>5. PostEntries(cq, x, m) = [i \in Slot |-> PostedCell(cq, i, x, m, n)]
  BY PostCells
<1> QED BY <1>3, <1>4, <1>5

\* A place that is no farther behind than the driver's head stays so.
LEMMA PostOff ==
  ASSUME NEW cq \in CQueue, NEW n \in Nat, n >= 2, InRing(cq, n), NEW v \in 0 .. n - 1,
         Off(v, cq.tail, n) <= Off(cq.head, cq.tail, n)
  PROVE  Off(v, PostCcmds(cq).tail, n) = Off(v, cq.tail, n) + Posted(cq)
<1>1. cq.tail \in 0 .. n - 1 /\ cq.head \in 0 .. n - 1
  BY DEF InRing
<1>2. /\ Posted(cq) \in 0 .. n - 1 /\ Off(cq.head, cq.tail, n) + Posted(cq) <= n - 1
      /\ PostCcmds(cq).tail = Fwd(cq.tail, Posted(cq), n)
  BY PostIs DEF PostedBy
<1>3. Off(v, cq.tail, n) \in 0 .. n - 1 /\ Off(cq.head, cq.tail, n) \in 0 .. n - 1
  BY <1>1, FwdOff
<1>4. Off(v, cq.tail, n) + Posted(cq) <= n - 1
  BY <1>2, <1>3
<1> QED BY <1>1, <1>2, <1>4, OffPush

LEMMA PostHeads ==
  ASSUME NEW cq \in CQueue, NEW n \in Nat, n >= 2, cq.size = n, NEW hd, NEW rung, NEW b, NEW q,
         Heads(cq, hd, rung, b, q, n)
  PROVE  Heads(PostCcmds(cq), hd, rung, b, q, n)
<1>1. InRing(cq, n) /\ hd \in 0 .. n - 1 /\ rung \in 0 .. n - 1
  BY DEF Heads, InRing
<1>2. /\ Posted(cq) \in 0 .. n - 1
      /\ PostCcmds(cq).tail = Fwd(cq.tail, Posted(cq), n) /\ PostCcmds(cq).head = cq.head
  BY <1>1, PostIs DEF PostedBy
<1>3. PostCcmds(cq).tail \in 0 .. n - 1
  <2>1. cq.tail \in 0 .. n - 1 /\ Posted(cq) \in 0 .. n
    BY <1>1, <1>2 DEF InRing
  <2> QED BY <1>2, <2>1, ModFwd
<1>4. \A v \in 0 .. n - 1 : Off(v, cq.tail, n) \in Int
  BY <1>1 DEF InRing, Off
<1>5. \A v \in 0 .. n - 1 : Off(v, cq.tail, n) <= Off(cq.head, cq.tail, n) =>
        Off(v, PostCcmds(cq).tail, n) = Off(v, cq.tail, n) + Posted(cq)
  BY <1>1, PostOff
<1>6. cq.head \in 0 .. n - 1 /\ cq.tail \in 0 .. n - 1
  BY <1>1 DEF InRing
<1>7. Off(cq.head, PostCcmds(cq).tail, n) = Off(cq.head, cq.tail, n) + Posted(cq)
  BY <1>4, <1>5, <1>6
<1>8. /\ Off(rung, cq.tail, n) <= Off(cq.head, cq.tail, n)
      /\ Off(hd, cq.tail, n) <= Off(rung, cq.tail, n)
  BY DEF Heads
<1>9. Off(rung, PostCcmds(cq).tail, n) = Off(rung, cq.tail, n) + Posted(cq)
  BY <1>1, <1>5, <1>8
<1>10. Off(hd, cq.tail, n) <= Off(cq.head, cq.tail, n)
  BY <1>1, <1>4, <1>6, <1>8
<1>11. Off(hd, PostCcmds(cq).tail, n) = Off(hd, cq.tail, n) + Posted(cq)
  BY <1>1, <1>5, <1>10
<1>12. ASSUME NEW i \in 1 .. Len(b), IsCq(b, i, q)
       PROVE  /\ b[i].value \in 0 .. n - 1
              /\ Off(b[i].value, PostCcmds(cq).tail, n) = Off(b[i].value, cq.tail, n) + Posted(cq)
              /\ Off(b[i].value, cq.tail, n) <= Off(cq.head, cq.tail, n)
              /\ Off(rung, cq.tail, n) <= Off(b[i].value, cq.tail, n)
  <2>1. /\ b[i].value \in 0 .. n - 1
        /\ Off(b[i].value, cq.tail, n) <= Off(cq.head, cq.tail, n)
        /\ Off(rung, cq.tail, n) <= Off(b[i].value, cq.tail, n)
    BY <1>12 DEF Heads
  <2> QED BY <2>1, <1>5
<1>13. ASSUME NEW i \in 1 .. Len(b), IsCq(b, i, q)
       PROVE  /\ b[i].value \in 0 .. n - 1
              /\ Off(b[i].value, PostCcmds(cq).tail, n) <= Off(PostCcmds(cq).head, PostCcmds(cq).tail, n)
              /\ Off(rung, PostCcmds(cq).tail, n) <= Off(b[i].value, PostCcmds(cq).tail, n)
  <2>1. /\ b[i].value \in 0 .. n - 1
        /\ Off(b[i].value, PostCcmds(cq).tail, n) = Off(b[i].value, cq.tail, n) + Posted(cq)
        /\ Off(b[i].value, cq.tail, n) <= Off(cq.head, cq.tail, n)
        /\ Off(rung, cq.tail, n) <= Off(b[i].value, cq.tail, n)
    BY <1>12, <1>13
  <2>2. PICK v \in 0 .. n - 1 : v = b[i].value
    BY <2>1
  <2>3. Off(v, cq.tail, n) \in Int /\ Off(rung, cq.tail, n) \in Int /\ Off(cq.head, cq.tail, n) \in Int
    BY <1>1, <1>4, <1>6
  <2> QED BY <1>2, <1>7, <1>9, <2>1, <2>2, <2>3
<1>14. ASSUME NEW i \in 1 .. Len(b), NEW j \in 1 .. Len(b), i < j, IsCq(b, i, q), IsCq(b, j, q)
       PROVE  Off(b[j].value, PostCcmds(cq).tail, n) <= Off(b[i].value, PostCcmds(cq).tail, n)
  <2>1. Off(b[j].value, cq.tail, n) <= Off(b[i].value, cq.tail, n)
    BY <1>14 DEF Heads
  <2>2. /\ b[i].value \in 0 .. n - 1
        /\ Off(b[i].value, PostCcmds(cq).tail, n) = Off(b[i].value, cq.tail, n) + Posted(cq)
    BY <1>12, <1>14
  <2>3. /\ b[j].value \in 0 .. n - 1
        /\ Off(b[j].value, PostCcmds(cq).tail, n) = Off(b[j].value, cq.tail, n) + Posted(cq)
    BY <1>12, <1>14
  <2>4. Off(b[i].value, cq.tail, n) \in Int /\ Off(b[j].value, cq.tail, n) \in Int
    BY <1>4, <2>2, <2>3
  <2> QED BY <1>2, <2>1, <2>2, <2>3, <2>4
<1>15. /\ Off(rung, PostCcmds(cq).tail, n) <= Off(PostCcmds(cq).head, PostCcmds(cq).tail, n)
       /\ Off(hd, PostCcmds(cq).tail, n) <= Off(rung, PostCcmds(cq).tail, n)
  BY <1>1, <1>2, <1>4, <1>6, <1>7, <1>8, <1>9, <1>11
<1> QED BY <1>1, <1>2, <1>3, <1>6, <1>13, <1>14, <1>15 DEF Heads


LEMMA PostPhases ==
  ASSUME NEW cq \in CQueue, NEW n \in Nat, n >= 2, cq.size = n, NEW hd, NEW rung, NEW b, NEW q,
         Heads(cq, hd, rung, b, q, n), NEW x, NEW m, NEW ph, Phases(cq, m, hd, ph, n),
         0 .. n - 1 \subseteq Slot, Slot \subseteq Nat
  PROVE  Phases(PostCcmds(cq), PostEntries(cq, x, m), hd, ph, n)
<1>1. InRing(cq, n) /\ cq.tail \in 0 .. n - 1 /\ cq.phase \in {0, 1} /\ hd \in 0 .. n - 1
  BY DEF Heads, InRing, CQueue
<1>2. PICK t \in 0 .. n - 1 : t = cq.tail
  BY <1>1
<1>3. PICK f \in {0, 1} : f = cq.phase
  BY <1>1
<1>4. Posted(cq) \in 0 .. n - 1
  BY <1>1, PostIs
<1>5. PICK k \in 0 .. n - 1 : k = Posted(cq)
  BY <1>4
<1>6. Off(hd, t, n) + k <= n - 1
  <2>1. Off(cq.head, cq.tail, n) + Posted(cq) <= n - 1
    BY <1>1, PostIs
  <2>2. Off(hd, cq.tail, n) <= Off(rung, cq.tail, n) /\ Off(rung, cq.tail, n) <= Off(cq.head, cq.tail, n)
    BY DEF Heads
  <2>3. cq.head \in 0 .. n - 1 /\ rung \in 0 .. n - 1
    BY DEF Heads
  <2>4. Off(hd, cq.tail, n) \in Int /\ Off(rung, cq.tail, n) \in Int /\ Off(cq.head, cq.tail, n) \in Int
    BY <1>1, <2>3 DEF Off
  <2> QED BY <1>2, <1>5, <2>1, <2>2, <2>4
<1>7. PICK y \in 0 .. n - 1 : y = Fwd(t, k, n)
  BY DEF Fwd
<1>8. PostCcmds(cq).tail = y /\ PostCcmds(cq).phase = PhaseAfter(cq, k)
  BY <1>1, <1>2, <1>5, <1>7, PostIs DEF PostedBy
<1>9. PhaseAfter(cq, k) = IF t + k >= n THEN 1 - f ELSE f
  BY <1>2, <1>3 DEF PhaseAfter
<1>10. PICK g \in {0, 1} : g = IF t + k >= n THEN 1 - f ELSE f
  OBVIOUS
<1>11. y = IF t + k < n THEN t + k ELSE t + k - n
  BY <1>7 DEF Fwd
<1>12. ASSUME NEW i \in 0 .. n - 1
       PROVE  PostEntries(cq, x, m)[i].phase = IF i < y THEN g ELSE 1 - g
  <2>1. i \in Slot /\ PostEntries(cq, x, m)[i] = PostedCell(cq, i, x, m, n)
    BY <1>1, PostCells
  <2>2. m[i].phase = IF i < t THEN f ELSE 1 - f
    BY <1>2, <1>3 DEF Phases
  <2>3. PICK o \in 0 .. n - 1 : o = Off(t, i, n)
    <3>1. Off(t, i, n) \in 0 .. n - 1
      BY FwdOff
    <3> QED BY <3>1
  <2>4. o = IF t <= i THEN i - t ELSE i - t + n
    BY <2>3 DEF Off
  <2>5. PostEntries(cq, x, m)[i].phase = IF o < k THEN IF t + o >= n THEN 1 - f ELSE f
                                         ELSE IF i < t THEN f ELSE 1 - f
    BY <1>2, <1>3, <1>5, <2>1, <2>2, <2>3 DEF PostedCell, PhaseAfter
  <2> QED BY <1>10, <1>11, <2>4, <2>5
<1>13. ph = IF hd <= y THEN g ELSE 1 - g
  <2>1. ph = IF hd <= t THEN f ELSE 1 - f
    BY <1>2, <1>3 DEF Phases
  <2>2. (IF hd <= t THEN t - hd ELSE t - hd + n) + k <= n - 1
    BY <1>6 DEF Off
  <2> QED BY <1>1, <1>10, <1>11, <2>1, <2>2
<1> QED BY <1>8, <1>9, <1>10, <1>12, <1>13 DEF Phases

LEMMA PostWay ==
  ASSUME NEW cq \in CQueue, NEW n \in Nat, n >= 2, cq.size = n, NEW hd, NEW rung, NEW b, NEW q,
         Heads(cq, hd, rung, b, q, n), NEW x, NEW m,
         0 .. n - 1 \subseteq Slot, Slot \subseteq Nat
  PROVE  Way(PostCcmds(cq), PostEntries(cq, x, m), hd, n) = Way(cq, m, hd, n)
<1>1. InRing(cq, n) /\ cq.tail \in 0 .. n - 1 /\ hd \in 0 .. n - 1 /\ cq.pending \in Seq(Item)
  BY DEF Heads, InRing, CQueue, Item
<1>2. Posted(cq) \in 0 .. n - 1 /\ Posted(cq) <= Len(cq.pending)
  BY <1>1, PostIs
<1>3. PICK k \in 0 .. n - 1 : k = Posted(cq)
  BY <1>2
<1>4. PostCcmds(cq).pending = SubSeq(cq.pending, k + 1, Len(cq.pending))
  BY <1>1, <1>3, PostIs DEF PostedBy
<1>5. Off(hd, cq.tail, n) <= Off(cq.head, cq.tail, n)
  <2>1. Off(hd, cq.tail, n) <= Off(rung, cq.tail, n) /\ Off(rung, cq.tail, n) <= Off(cq.head, cq.tail, n)
    BY DEF Heads
  <2>2. cq.head \in 0 .. n - 1 /\ rung \in 0 .. n - 1
    BY DEF Heads
  <2>3. Off(hd, cq.tail, n) \in 0 .. n - 1 /\ Off(rung, cq.tail, n) \in 0 .. n - 1
        /\ Off(cq.head, cq.tail, n) \in 0 .. n - 1
    BY <1>1, <2>2, FwdOff
  <2> QED BY <2>1, <2>3
<1>6. PICK w \in 0 .. n - 1 : w = NewOf(cq, hd, n)
  BY <1>1 DEF NewOf, Off
<1>7. NewOf(PostCcmds(cq), hd, n) = w + k /\ w + k <= n - 1
  <2>1. Off(hd, PostCcmds(cq).tail, n) = Off(hd, cq.tail, n) + Posted(cq)
    BY <1>1, <1>5, PostOff
  <2>2. Off(cq.head, cq.tail, n) + Posted(cq) <= n - 1 /\ Off(cq.head, cq.tail, n) \in Int
    BY <1>1, PostIs DEF InRing, Off
  <2> QED BY <1>3, <1>5, <1>6, <2>1, <2>2 DEF NewOf
<1>8. PICK p \in Seq(Item) : p = cq.pending
  BY <1>1
<1>9. PICK r \in Seq(Item) : r = PostCcmds(cq).pending
  <2>1. SubSeq(p, k + 1, Len(p)) \in Seq(Item)
    BY <1>2, <1>3, <1>8
  <2> QED BY <1>4, <1>8, <2>1
<1>10. Len(r) = Len(p) - k /\ \A j \in 1 .. Len(r) : r[j] = p[j + k]
  BY <1>2, <1>3, <1>4, <1>8, <1>9
<1>11. ASSUME NEW j \in w + 1 .. w + k
       PROVE  /\ PostEntries(cq, x, m)[Fwd(hd, j - 1, n)].cid = p[j - w].cid
              /\ PostEntries(cq, x, m)[Fwd(hd, j - 1, n)].cdw0 = p[j - w].cdw0
  <2>0. j - 1 \in 0 .. n - 1 /\ Fwd(hd, j - 1, n) \in 0 .. n - 1
    <3>1. j - 1 \in 0 .. n - 1
      BY <1>7
    <3> QED BY <1>1, <3>1, OffFwd
  <2>1. PICK i \in 0 .. n - 1 : i = Fwd(hd, j - 1, n)
    BY <2>0
  <2>2. Off(cq.tail, i, n) = j - 1 - w
    <3>1. Off(cq.tail, Fwd(hd, j - 1, n), n) = IF j - 1 >= Off(hd, cq.tail, n) THEN j - 1 - Off(hd, cq.tail, n)
                                               ELSE n - Off(hd, cq.tail, n) + (j - 1)
      BY <1>1, <2>0, FromTail
    <3>2. w = Off(hd, cq.tail, n) /\ j - 1 >= w
      BY <1>6 DEF NewOf
    <3> QED BY <2>1, <3>1, <3>2
  <2>3. PostEntries(cq, x, m)[i] = PostedCell(cq, i, x, m, n)
    BY <1>1, PostCells
  <2>4. i < n /\ Off(cq.tail, i, n) < Posted(cq)
    BY <1>3, <2>2
  <2>5. Off(cq.tail, i, n) + 1 = j - w
    BY <2>2
  <2> QED BY <1>8, <2>1, <2>3, <2>4, <2>5 DEF PostedCell
<1>12. ASSUME NEW j \in 1 .. w
       PROVE  PostEntries(cq, x, m)[Fwd(hd, j - 1, n)] = m[Fwd(hd, j - 1, n)]
  <2>0. j - 1 \in 0 .. n - 1 /\ Fwd(hd, j - 1, n) \in 0 .. n - 1
    <3>1. j - 1 \in 0 .. n - 1
      BY <1>7
    <3> QED BY <1>1, <3>1, OffFwd
  <2>1. PICK i \in 0 .. n - 1 : i = Fwd(hd, j - 1, n)
    BY <2>0
  <2>2. Off(cq.tail, i, n) >= k
    <3>1. Off(cq.tail, Fwd(hd, j - 1, n), n) = IF j - 1 >= Off(hd, cq.tail, n) THEN j - 1 - Off(hd, cq.tail, n)
                                               ELSE n - Off(hd, cq.tail, n) + (j - 1)
      BY <1>1, <2>0, FromTail
    <3>2. w = Off(hd, cq.tail, n) /\ ~(j - 1 >= w) /\ n - w + (j - 1) >= k
      BY <1>6, <1>7 DEF NewOf
    <3> QED BY <2>1, <3>1, <3>2
  <2>3. Off(cq.tail, i, n) \in Int
    BY <1>1 DEF Off
  <2>4. PostEntries(cq, x, m)[i] = PostedCell(cq, i, x, m, n)
    BY <1>1, PostCells
  <2> QED BY <1>3, <2>1, <2>2, <2>3, <2>4 DEF PostedCell
<1>13. /\ Way(cq, m, hd, n) = [j \in 1 .. w + Len(p) |->
            IF j <= w THEN [cid |-> m[Fwd(hd, j - 1, n)].cid, cdw0 |-> m[Fwd(hd, j - 1, n)].cdw0]
            ELSE p[j - w]]
  BY <1>6, <1>8 DEF Way
<1>14. Way(PostCcmds(cq), PostEntries(cq, x, m), hd, n) = [j \in 1 .. (w + k) + Len(r) |->
            IF j <= w + k THEN [cid |-> PostEntries(cq, x, m)[Fwd(hd, j - 1, n)].cid,
                                cdw0 |-> PostEntries(cq, x, m)[Fwd(hd, j - 1, n)].cdw0]
            ELSE r[j - (w + k)]]
  BY <1>7, <1>9 DEF Way
<1>15. (w + k) + Len(r) = w + Len(p)
  BY <1>10
<1>16. ASSUME NEW j \in 1 .. w + Len(p)
       PROVE  (IF j <= w + k THEN [cid |-> PostEntries(cq, x, m)[Fwd(hd, j - 1, n)].cid,
                                   cdw0 |-> PostEntries(cq, x, m)[Fwd(hd, j - 1, n)].cdw0]
               ELSE r[j - (w + k)])
              = IF j <= w THEN [cid |-> m[Fwd(hd, j - 1, n)].cid, cdw0 |-> m[Fwd(hd, j - 1, n)].cdw0]
                ELSE p[j - w]
  <2>1. CASE j <= w
    BY <1>12, <2>1
  <2>2. CASE j > w /\ j <= w + k
    <3>1. j \in w + 1 .. w + k /\ j - w \in 1 .. Len(p)
      BY <1>2, <1>3, <1>8, <2>2
    <3>2. p[j - w] = [cid |-> p[j - w].cid, cdw0 |-> p[j - w].cdw0]
      <4>1. PICK z \in Item : z = p[j - w]
        BY <3>1
      <4>2. z = [cid |-> z.cid, cdw0 |-> z.cdw0]
        BY DEF Item
      <4> QED BY <4>1, <4>2
    <3> QED BY <1>11, <2>2, <3>1, <3>2
  <2>3. CASE j > w + k
    <3>1. j - (w + k) \in 1 .. Len(r) /\ (j - (w + k)) + k = j - w /\ ~(j <= w) /\ ~(j <= w + k)
      BY <1>10, <2>3
    <3> QED BY <1>10, <3>1
  <2> QED BY <2>1, <2>2, <2>3
<1> QED BY <1>13, <1>14, <1>15, <1>16


----------------------------------------------------------------------------
(* The sequences of commands on their way.                                 *)

LEMMA WayAppend ==
  ASSUME NEW way \in Seq(Item), WayInj(way), NEW it \in Item
  PROVE  /\ \A t : Holds(Append(way, it), t) <=> Holds(way, t) \/ it.cid = t
         /\ ~Holds(way, it.cid) => WayInj(Append(way, it))
<1>1. Len(Append(way, it)) = Len(way) + 1 /\ Len(way) \in Nat
  OBVIOUS
<1>2. \A k \in 1 .. Len(way) : Append(way, it)[k] = way[k]
  OBVIOUS
<1>3. Append(way, it)[Len(way) + 1] = it
  OBVIOUS
<1>4. PICK w : w = Append(way, it)
  OBVIOUS
<1>5. ASSUME NEW t PROVE Holds(w, t) <=> Holds(way, t) \/ it.cid = t
  BY <1>1, <1>2, <1>3, <1>4 DEF Holds
<1>6. ASSUME ~Holds(way, it.cid) PROVE WayInj(w)
  <2>1. \A k \in 1 .. Len(way) : way[k].cid # it.cid
    BY <1>6 DEF Holds
  <2>2. SUFFICES ASSUME NEW k \in 1 .. Len(way) + 1, NEW l \in 1 .. Len(way) + 1, w[k].cid = w[l].cid
                 PROVE  k = l
    BY <1>1, <1>4 DEF WayInj
  <2>3. CASE k \in 1 .. Len(way) /\ l \in 1 .. Len(way)
    BY <1>2, <1>4, <2>2, <2>3 DEF WayInj
  <2>4. CASE k = Len(way) + 1 /\ l \in 1 .. Len(way)
    BY <1>2, <1>3, <1>4, <2>1, <2>2, <2>4
  <2>5. CASE l = Len(way) + 1 /\ k \in 1 .. Len(way)
    BY <1>2, <1>3, <1>4, <2>1, <2>2, <2>5
  <2>6. CASE k = Len(way) + 1 /\ l = Len(way) + 1
    BY <2>6
  <2> QED BY <1>1, <2>3, <2>4, <2>5, <2>6
<1> QED BY <1>4, <1>5, <1>6

LEMMA WayTail ==
  ASSUME NEW way \in Seq(Item), WayInj(way), way # <<>>
  PROVE  /\ \A t : Holds(Tail(way), t) <=> Holds(way, t) /\ way[1].cid # t
         /\ WayInj(Tail(way)) /\ Holds(way, way[1].cid)
<1>1. Len(Tail(way)) = Len(way) - 1 /\ Len(way) \in Nat \ {0}
  OBVIOUS
<1>2. \A k \in 1 .. Len(way) - 1 : Tail(way)[k] = way[k + 1]
  OBVIOUS
<1>3. PICK w : w = Tail(way)
  OBVIOUS
<1>4. ASSUME NEW t, Holds(w, t) PROVE Holds(way, t) /\ way[1].cid # t
  <2>1. PICK k \in 1 .. Len(way) - 1 : w[k].cid = t
    BY <1>1, <1>3, <1>4 DEF Holds
  <2>2. way[k + 1].cid = t /\ k + 1 \in 1 .. Len(way) /\ 1 \in 1 .. Len(way) /\ k + 1 # 1
    BY <1>1, <1>2, <1>3, <2>1
  <2> QED BY <2>2 DEF Holds, WayInj
<1>5. ASSUME NEW t, Holds(way, t), way[1].cid # t PROVE Holds(w, t)
  <2>1. PICK k \in 1 .. Len(way) : way[k].cid = t
    BY <1>5 DEF Holds
  <2>2. k - 1 \in 1 .. Len(way) - 1 /\ (k - 1) + 1 = k
    BY <1>1, <1>5, <2>1
  <2>3. w[k - 1].cid = t
    BY <1>2, <1>3, <2>1, <2>2
  <2> QED BY <1>1, <1>3, <2>2, <2>3 DEF Holds
<1>6. WayInj(w)
  <2>1. SUFFICES ASSUME NEW k \in 1 .. Len(way) - 1, NEW l \in 1 .. Len(way) - 1, w[k].cid = w[l].cid
                 PROVE  k = l
    BY <1>1, <1>3 DEF WayInj
  <2>2. way[k + 1].cid = way[l + 1].cid /\ k + 1 \in 1 .. Len(way) /\ l + 1 \in 1 .. Len(way)
    BY <1>1, <1>2, <1>3, <2>1
  <2>3. k + 1 = l + 1
    BY <2>2 DEF WayInj
  <2> QED BY <2>3
<1>7. 1 \in 1 .. Len(way)
  BY <1>1
<1> QED BY <1>3, <1>4, <1>5, <1>6, <1>7 DEF Holds

LEMMA UnfAppend ==
  ASSUME NEW unf \in Seq(Tag), UnfInj(unf), NEW c \in Tag
  PROVE  /\ \A t : In(Append(unf, c), t) <=> In(unf, t) \/ c = t
         /\ ~In(unf, c) => UnfInj(Append(unf, c))
<1>1. Len(Append(unf, c)) = Len(unf) + 1 /\ Len(unf) \in Nat
  OBVIOUS
<1>2. \A k \in 1 .. Len(unf) : Append(unf, c)[k] = unf[k]
  OBVIOUS
<1>3. Append(unf, c)[Len(unf) + 1] = c
  OBVIOUS
<1>4. PICK w : w = Append(unf, c)
  OBVIOUS
<1>5. ASSUME NEW t PROVE In(w, t) <=> In(unf, t) \/ c = t
  BY <1>1, <1>2, <1>3, <1>4 DEF In
<1>6. ASSUME ~In(unf, c) PROVE UnfInj(w)
  <2>1. \A k \in 1 .. Len(unf) : unf[k] # c
    BY <1>6 DEF In
  <2>2. SUFFICES ASSUME NEW k \in 1 .. Len(unf) + 1, NEW l \in 1 .. Len(unf) + 1, w[k] = w[l]
                 PROVE  k = l
    BY <1>1, <1>4 DEF UnfInj
  <2>3. CASE k \in 1 .. Len(unf) /\ l \in 1 .. Len(unf)
    BY <1>2, <1>4, <2>2, <2>3 DEF UnfInj
  <2>4. CASE k = Len(unf) + 1 /\ l \in 1 .. Len(unf)
    BY <1>2, <1>3, <1>4, <2>1, <2>2, <2>4
  <2>5. CASE l = Len(unf) + 1 /\ k \in 1 .. Len(unf)
    BY <1>2, <1>3, <1>4, <2>1, <2>2, <2>5
  <2>6. CASE k = Len(unf) + 1 /\ l = Len(unf) + 1
    BY <2>6
  <2> QED BY <1>1, <2>3, <2>4, <2>5, <2>6
<1> QED BY <1>4, <1>5, <1>6

LEMMA UnfTail ==
  ASSUME NEW unf \in Seq(Tag), UnfInj(unf), unf # <<>>
  PROVE  /\ \A t : In(Tail(unf), t) <=> In(unf, t) /\ unf[1] # t
         /\ UnfInj(Tail(unf)) /\ In(unf, unf[1])
<1>1. Len(Tail(unf)) = Len(unf) - 1 /\ Len(unf) \in Nat \ {0}
  OBVIOUS
<1>2. \A k \in 1 .. Len(unf) - 1 : Tail(unf)[k] = unf[k + 1]
  OBVIOUS
<1>3. PICK w : w = Tail(unf)
  OBVIOUS
<1>4. ASSUME NEW t, In(w, t) PROVE In(unf, t) /\ unf[1] # t
  <2>1. PICK k \in 1 .. Len(unf) - 1 : w[k] = t
    BY <1>1, <1>3, <1>4 DEF In
  <2>2. unf[k + 1] = t /\ k + 1 \in 1 .. Len(unf) /\ 1 \in 1 .. Len(unf) /\ k + 1 # 1
    BY <1>1, <1>2, <1>3, <2>1
  <2> QED BY <2>2 DEF In, UnfInj
<1>5. ASSUME NEW t, In(unf, t), unf[1] # t PROVE In(w, t)
  <2>1. PICK k \in 1 .. Len(unf) : unf[k] = t
    BY <1>5 DEF In
  <2>2. k - 1 \in 1 .. Len(unf) - 1 /\ (k - 1) + 1 = k
    BY <1>1, <1>5, <2>1
  <2>3. w[k - 1] = t
    BY <1>2, <1>3, <2>1, <2>2
  <2> QED BY <1>1, <1>3, <2>2, <2>3 DEF In
<1>6. UnfInj(w)
  <2>1. SUFFICES ASSUME NEW k \in 1 .. Len(unf) - 1, NEW l \in 1 .. Len(unf) - 1, w[k] = w[l]
                 PROVE  k = l
    BY <1>1, <1>3 DEF UnfInj
  <2>2. unf[k + 1] = unf[l + 1] /\ k + 1 \in 1 .. Len(unf) /\ l + 1 \in 1 .. Len(unf)
    BY <1>1, <1>2, <1>3, <2>1
  <2>3. k + 1 = l + 1
    BY <2>2 DEF UnfInj
  <2> QED BY <2>3
<1>7. 1 \in 1 .. Len(unf)
  BY <1>1
<1> QED BY <1>3, <1>4, <1>5, <1>6, <1>7 DEF In


\* A command is fetched and answered, ...
LEMMA OnceAnswer ==
  ASSUME NEW way \in Seq(Item), NEW unf \in Seq(Tag), NEW isp, NEW out, NEW q,
         Once(way, unf, isp, out, q), unf # <<>>, NEW it \in Item, it.cid = unf[1]
  PROVE  Once(Append(way, it), Tail(unf), isp, out, q)
<1>1. WayInj(way) /\ UnfInj(unf) /\ \A t \in Tag : OnePlace(way, unf, isp, out, q, t)
  BY DEF Once
<1>2. /\ \A t : In(Tail(unf), t) <=> In(unf, t) /\ unf[1] # t
      /\ UnfInj(Tail(unf)) /\ In(unf, unf[1]) /\ unf[1] \in Tag
  BY <1>1, UnfTail
<1>3. ~Holds(way, it.cid)
  BY <1>1, <1>2 DEF OnePlace
<1>4. /\ \A t : Holds(Append(way, it), t) <=> Holds(way, t) \/ it.cid = t
      /\ WayInj(Append(way, it))
  BY <1>1, <1>3, WayAppend
<1>5. ASSUME NEW t \in Tag PROVE OnePlace(Append(way, it), Tail(unf), isp, out, q, t)
  <2>1. OnePlace(way, unf, isp, out, q, t)
    BY <1>1
  <2>2. Holds(Append(way, it), t) <=> Holds(way, t) \/ it.cid = t
    BY <1>4
  <2>3. In(Tail(unf), t) <=> In(unf, t) /\ it.cid # t
    BY <1>2
  <2>4. it.cid = t => In(unf, t)
    BY <1>2
  <2> QED BY <2>1, <2>2, <2>3, <2>4 DEF OnePlace
<1> QED BY <1>2, <1>4, <1>5 DEF Once

\* ... or given to the in-storage-processing thread, ...
LEMMA OnceGive ==
  ASSUME NEW way \in Seq(Item), NEW unf \in Seq(Tag), NEW isp, NEW out, NEW q,
         Once(way, unf, isp, out, q), unf # <<>>
  PROVE  Once(way, Tail(unf), isp \cup {[cqid |-> q, cid |-> unf[1]]}, out, q)
<1>1. WayInj(way) /\ UnfInj(unf) /\ \A t \in Tag : OnePlace(way, unf, isp, out, q, t)
  BY DEF Once
<1>2. /\ \A t : In(Tail(unf), t) <=> In(unf, t) /\ unf[1] # t
      /\ UnfInj(Tail(unf)) /\ In(unf, unf[1]) /\ unf[1] \in Tag
  BY <1>1, UnfTail
<1>3. PICK x : x = isp \cup {[cqid |-> q, cid |-> unf[1]]}
  OBVIOUS
<1>4. ASSUME NEW t \in Tag PROVE OnePlace(way, Tail(unf), x, out, q, t)
  <2>1. OnePlace(way, unf, isp, out, q, t)
    BY <1>1
  <2>2. AtIspOf(x, q, t) <=> AtIspOf(isp, q, t) \/ unf[1] = t
    BY <1>3 DEF AtIspOf
  <2>3. In(Tail(unf), t) <=> In(unf, t) /\ unf[1] # t
    BY <1>2
  <2>4. unf[1] = t => In(unf, t)
    BY <1>2
  <2> QED BY <2>1, <2>2, <2>3, <2>4 DEF OnePlace
<1> QED BY <1>1, <1>2, <1>3, <1>4 DEF Once

\* ... or forgotten.
LEMMA OnceDrop ==
  ASSUME NEW way \in Seq(Item), NEW unf \in Seq(Tag), NEW isp, NEW out, NEW q,
         Once(way, unf, isp, out, q), unf # <<>>, ~Answered(out[unf[1]])
  PROVE  Once(way, Tail(unf), isp, out, q)
<1>1. WayInj(way) /\ UnfInj(unf) /\ \A t \in Tag : OnePlace(way, unf, isp, out, q, t)
  BY DEF Once
<1>2. /\ \A t : In(Tail(unf), t) <=> In(unf, t) /\ unf[1] # t
      /\ UnfInj(Tail(unf)) /\ In(unf, unf[1]) /\ unf[1] \in Tag
  BY <1>1, UnfTail
<1>3. ASSUME NEW t \in Tag PROVE OnePlace(way, Tail(unf), isp, out, q, t)
  <2>1. OnePlace(way, unf, isp, out, q, t)
    BY <1>1
  <2>2. In(Tail(unf), t) <=> In(unf, t) /\ unf[1] # t
    BY <1>2
  <2> QED BY <2>1, <2>2 DEF OnePlace
<1> QED BY <1>1, <1>2, <1>3 DEF Once

\* The in-storage-processing thread ends a request.
LEMMA OnceTake ==
  ASSUME NEW way \in Seq(Item), NEW unf \in Seq(Tag), NEW isp, NEW out, NEW q,
         Once(way, unf, isp, out, q), NEW it \in Item, AtIspOf(isp, q, it.cid)
  PROVE  Once(Append(way, it), unf, isp \ {[cqid |-> q, cid |-> it.cid]}, out, q)
<1>1. WayInj(way) /\ UnfInj(unf) /\ \A t \in Tag : OnePlace(way, unf, isp, out, q, t)
  BY DEF Once
<1>2. it.cid \in Tag
  BY DEF Item
<1>3. ~Holds(way, it.cid)
  BY <1>1, <1>2 DEF OnePlace
<1>4. /\ \A t : Holds(Append(way, it), t) <=> Holds(way, t) \/ it.cid = t
      /\ WayInj(Append(way, it))
  BY <1>1, <1>3, WayAppend
<1>5. PICK x : x = isp \ {[cqid |-> q, cid |-> it.cid]}
  OBVIOUS
<1>6. ASSUME NEW t \in Tag PROVE OnePlace(Append(way, it), unf, x, out, q, t)
  <2>1. OnePlace(way, unf, isp, out, q, t)
    BY <1>1
  <2>2. Holds(Append(way, it), t) <=> Holds(way, t) \/ it.cid = t
    BY <1>4
  <2>3. AtIspOf(x, q, t) <=> AtIspOf(isp, q, t) /\ it.cid # t
    BY <1>5 DEF AtIspOf
  <2>4. it.cid = t => AtIspOf(isp, q, t)
    OBVIOUS
  <2> QED BY <2>1, <2>2, <2>3, <2>4 DEF OnePlace
<1> QED BY <1>1, <1>4, <1>5, <1>6 DEF Once

\* The host takes a completion.
LEMMA OnceConsume ==
  ASSUME NEW way \in Seq(Item), NEW unf \in Seq(Tag), NEW isp, NEW q,
         NEW out \in [Tag -> Command \cup {NoCmd}],
         Once(way, unf, isp, out, q), way # <<>>
  PROVE  Once(Tail(way), unf, isp, [out EXCEPT ![way[1].cid] = NoCmd], q)
<1>1. WayInj(way) /\ UnfInj(unf) /\ \A t \in Tag : OnePlace(way, unf, isp, out, q, t)
  BY DEF Once
<1>2. /\ \A t : Holds(Tail(way), t) <=> Holds(way, t) /\ way[1].cid # t
      /\ WayInj(Tail(way)) /\ Holds(way, way[1].cid)
  BY <1>1, WayTail
<1>3. PICK o : o = [out EXCEPT ![way[1].cid] = NoCmd]
  OBVIOUS
<1>4. ASSUME NEW t \in Tag PROVE OnePlace(Tail(way), unf, isp, o, q, t)
  <2>1. OnePlace(way, unf, isp, out, q, t)
    BY <1>1
  <2>2. Holds(Tail(way), t) <=> Holds(way, t) /\ way[1].cid # t
    BY <1>2
  <2>3. way[1].cid = t => o[t] = NoCmd /\ Holds(way, t)
    BY <1>2, <1>3
  <2>4. way[1].cid # t => o[t] = out[t]
    BY <1>3
  <2> QED BY <2>1, <2>2, <2>3, <2>4 DEF OnePlace
<1> QED BY <1>1, <1>2, <1>3, <1>4 DEF Once

\* The host sends a command.
LEMMA OnceSend ==
  ASSUME NEW way \in Seq(Item), NEW unf \in Seq(Tag), NEW isp, NEW q,
         NEW out \in [Tag -> Command \cup {NoCmd}], NEW c, c # NoCmd,
         Once(way, unf, isp, out, q), NEW u \in Tag, out[u] = NoCmd
  PROVE  Once(way, Append(unf, u), isp, [out EXCEPT ![u] = c], q)
<1>1. WayInj(way) /\ UnfInj(unf) /\ \A t \in Tag : OnePlace(way, unf, isp, out, q, t)
  BY DEF Once
<1>2. ~In(unf, u) /\ ~Holds(way, u) /\ ~AtIspOf(isp, q, u)
  BY <1>1 DEF OnePlace
<1>3. /\ \A t : In(Append(unf, u), t) <=> In(unf, t) \/ u = t
      /\ UnfInj(Append(unf, u))
  BY <1>1, <1>2, UnfAppend
<1>4. PICK o : o = [out EXCEPT ![u] = c]
  OBVIOUS
<1>5. ASSUME NEW t \in Tag PROVE OnePlace(way, Append(unf, u), isp, o, q, t)
  <2>1. OnePlace(way, unf, isp, out, q, t)
    BY <1>1
  <2>2. In(Append(unf, u), t) <=> In(unf, t) \/ u = t
    BY <1>3
  <2>3. u = t => o[t] # NoCmd /\ ~In(unf, t) /\ ~Holds(way, t) /\ ~AtIspOf(isp, q, t)
    BY <1>2, <1>4
  <2>4. u # t => o[t] = out[t]
    BY <1>4
  <2> QED BY <2>1, <2>2, <2>3, <2>4 DEF OnePlace
<1> QED BY <1>1, <1>3, <1>4, <1>5 DEF Once

\* Requests of other queues do not matter.
LEMMA OnceOther ==
  ASSUME NEW way, NEW unf, NEW isp, NEW x, NEW out, NEW q, Once(way, unf, isp, out, q),
         \A t \in Tag : AtIspOf(x, q, t) <=> AtIspOf(isp, q, t)
  PROVE  Once(way, unf, x, out, q)
BY DEF Once, OnePlace


----------------------------------------------------------------------------
(* The sequences in the rings.                                             *)

LEMMA WayIs ==
  ASSUME NEW cq \in CQueue, NEW n \in Nat, n >= 2, cq.tail \in 0 .. n - 1, NEW hd \in 0 .. n - 1,
         NEW m \in [Slot -> Entry], 0 .. n - 1 \subseteq Slot
  PROVE  /\ NewOf(cq, hd, n) \in 0 .. n - 1 /\ Way(cq, m, hd, n) \in Seq(Item)
         /\ Len(Way(cq, m, hd, n)) = NewOf(cq, hd, n) + Len(cq.pending)
         /\ \A k \in 1 .. NewOf(cq, hd, n) :
              /\ Fwd(hd, k - 1, n) \in 0 .. n - 1
              /\ Way(cq, m, hd, n)[k].cid = m[Fwd(hd, k - 1, n)].cid
              /\ Way(cq, m, hd, n)[k].cdw0 = m[Fwd(hd, k - 1, n)].cdw0
         /\ \A k \in 1 .. Len(cq.pending) :
              /\ NewOf(cq, hd, n) + k \in 1 .. Len(Way(cq, m, hd, n))
              /\ Way(cq, m, hd, n)[NewOf(cq, hd, n) + k] = cq.pending[k]
<1>1. NewOf(cq, hd, n) \in 0 .. n - 1
  BY FwdOff DEF NewOf
<1>2. PICK w \in 0 .. n - 1 : w = NewOf(cq, hd, n)
  BY <1>1
<1>3. cq.pending \in Seq(Item)
  BY DEF CQueue, Item
<1>4. PICK p \in Seq(Item) : p = cq.pending
  BY <1>3
<1>5. Way(cq, m, hd, n) = [k \in 1 .. w + Len(p) |->
         IF k <= w THEN [cid |-> m[Fwd(hd, k - 1, n)].cid, cdw0 |-> m[Fwd(hd, k - 1, n)].cdw0]
         ELSE p[k - w]]
  BY <1>2, <1>4 DEF Way
<1>6. ASSUME NEW k \in 1 .. w
      PROVE  /\ Fwd(hd, k - 1, n) \in 0 .. n - 1 /\ m[Fwd(hd, k - 1, n)] \in Entry
             /\ [cid |-> m[Fwd(hd, k - 1, n)].cid, cdw0 |-> m[Fwd(hd, k - 1, n)].cdw0] \in Item
  <2>1. k - 1 \in 0 .. n - 1
    OBVIOUS
  <2>2. Fwd(hd, k - 1, n) \in 0 .. n - 1
    BY <2>1, OffFwd
  <2>3. m[Fwd(hd, k - 1, n)] \in Entry
    BY <2>2
  <2>4. m[Fwd(hd, k - 1, n)].cid \in Tag /\ m[Fwd(hd, k - 1, n)].cdw0 \in Nat
    BY <2>3, SizeAssumption DEF Entry
  <2> QED BY <2>2, <2>3, <2>4 DEF Item
<1>7. ASSUME NEW k \in 1 .. w + Len(p), ~(k <= w) PROVE p[k - w] \in Item
  <2>1. k - w \in 1 .. Len(p)
    BY <1>7
  <2> QED BY <2>1
<1>8. \A k \in 1 .. w + Len(p) :
        (IF k <= w THEN [cid |-> m[Fwd(hd, k - 1, n)].cid, cdw0 |-> m[Fwd(hd, k - 1, n)].cdw0]
         ELSE p[k - w]) \in Item
  <2> TAKE k \in 1 .. w + Len(p)
  <2>1. CASE k <= w
    <3>1. k \in 1 .. w
      BY <2>1
    <3> QED BY <1>6, <2>1, <3>1
  <2>2. CASE ~(k <= w)
    BY <1>7, <2>2
  <2> QED BY <2>1, <2>2
<1>9. PICK f : f = Way(cq, m, hd, n)
  OBVIOUS
<1>10. f \in [1 .. w + Len(p) -> Item]
  BY <1>5, <1>8, <1>9
<1>11. f \in Seq(Item) /\ Len(f) = w + Len(p)
  BY <1>10
<1>12. ASSUME NEW k \in 1 .. w
       PROVE  f[k].cid = m[Fwd(hd, k - 1, n)].cid /\ f[k].cdw0 = m[Fwd(hd, k - 1, n)].cdw0
  <2>1. k \in 1 .. w + Len(p) /\ k <= w
    OBVIOUS
  <2> QED BY <1>5, <1>9, <2>1
<1>13. ASSUME NEW k \in 1 .. Len(p) PROVE w + k \in 1 .. Len(f) /\ f[w + k] = p[k]
  <2>1. w + k \in 1 .. w + Len(p) /\ ~(w + k <= w) /\ (w + k) - w = k
    OBVIOUS
  <2> QED BY <1>5, <1>9, <1>11, <2>1
<1> QED BY <1>1, <1>2, <1>4, <1>6, <1>9, <1>11, <1>12, <1>13

LEMMA WayEnqueue ==
  ASSUME NEW cq \in CQueue, NEW r \in CQueue, NEW n \in Nat, n >= 2, cq.tail \in 0 .. n - 1,
         NEW hd \in 0 .. n - 1, NEW m \in [Slot -> Entry], 0 .. n - 1 \subseteq Slot,
         NEW it \in Item, r.tail = cq.tail, r.pending = Append(cq.pending, it)
  PROVE  Way(r, m, hd, n) = Append(Way(cq, m, hd, n), it)
<1>1. PICK w \in 0 .. n - 1 : w = NewOf(cq, hd, n)
  BY WayIs
<1>2. cq.pending \in Seq(Item)
  BY DEF CQueue, Item
<1>3. PICK p \in Seq(Item) : p = cq.pending
  BY <1>2
<1>4. PICK f \in Seq(Item) : f = Way(cq, m, hd, n)
  BY WayIs
<1>5. f = [k \in 1 .. w + Len(p) |->
         IF k <= w THEN [cid |-> m[Fwd(hd, k - 1, n)].cid, cdw0 |-> m[Fwd(hd, k - 1, n)].cdw0]
         ELSE p[k - w]]
  BY <1>1, <1>3, <1>4 DEF Way
<1>6. Len(f) = w + Len(p)
  BY <1>1, <1>3, <1>4, WayIs
<1>7. Way(r, m, hd, n) = [k \in 1 .. w + Len(Append(p, it)) |->
         IF k <= w THEN [cid |-> m[Fwd(hd, k - 1, n)].cid, cdw0 |-> m[Fwd(hd, k - 1, n)].cdw0]
         ELSE Append(p, it)[k - w]]
  BY <1>1, <1>3 DEF Way, NewOf
<1>8. PICK g : g = Way(r, m, hd, n)
  OBVIOUS
<1>9. DOMAIN g = 1 .. (w + Len(p)) + 1
  BY <1>7, <1>8
<1>10. g \in Seq(Item) /\ Len(g) = (w + Len(p)) + 1
  <2>1. g \in Seq(Item)
    BY <1>8, WayIs
  <2> QED BY <1>9, <2>1
<1>11. ASSUME NEW k \in 1 .. w + Len(p) PROVE g[k] = f[k]
  <2>1. k \in 1 .. w + Len(Append(p, it)) /\ (~(k <= w) => k - w \in 1 .. Len(p))
    OBVIOUS
  <2>2. ~(k <= w) => Append(p, it)[k - w] = p[k - w]
    BY <2>1
  <2> QED BY <1>5, <1>7, <1>8, <2>1, <2>2
<1>12. g[(w + Len(p)) + 1] = it
  <2>1. /\ (w + Len(p)) + 1 \in 1 .. w + Len(Append(p, it)) /\ ~((w + Len(p)) + 1 <= w)
        /\ ((w + Len(p)) + 1) - w = Len(p) + 1 /\ Append(p, it)[Len(p) + 1] = it
    OBVIOUS
  <2> QED BY <1>7, <1>8, <2>1
<1>13. /\ Append(f, it) \in Seq(Item) /\ Len(Append(f, it)) = (w + Len(p)) + 1
       /\ \A k \in 1 .. w + Len(p) : Append(f, it)[k] = f[k]
       /\ Append(f, it)[(w + Len(p)) + 1] = it
  BY <1>6
<1>14. \A k \in 1 .. (w + Len(p)) + 1 : k \in 1 .. w + Len(p) \/ k = (w + Len(p)) + 1
  <2>1. PICK z \in Nat : z = w + Len(p)
    OBVIOUS
  <2>2. \A k \in 1 .. z + 1 : k \in 1 .. z \/ k = z + 1
    OBVIOUS
  <2> QED BY <2>1, <2>2
<1>15. \A k \in 1 .. Len(g) : g[k] = Append(f, it)[k]
  BY <1>10, <1>11, <1>12, <1>13, <1>14
<1>16. g = Append(f, it)
  BY <1>10, <1>13, <1>15
<1> QED BY <1>4, <1>8, <1>16

\* The host takes the entry at its head.
LEMMA WayConsume ==
  ASSUME NEW cq \in CQueue, NEW n \in Nat, n >= 2, cq.tail \in 0 .. n - 1,
         NEW hd \in 0 .. n - 1, NEW m \in [Slot -> Entry], 0 .. n - 1 \subseteq Slot,
         hd # cq.tail
  PROVE  /\ Way(cq, m, hd, n) # <<>> /\ Way(cq, m, Fwd(hd, 1, n), n) = Tail(Way(cq, m, hd, n))
         /\ Way(cq, m, hd, n)[1].cid = m[hd].cid /\ Way(cq, m, hd, n)[1].cdw0 = m[hd].cdw0
<1>1. PICK w \in 0 .. n - 1 : w = NewOf(cq, hd, n)
  BY WayIs
<1>2. w > 0
  <2>1. Off(hd, cq.tail, n) # 0
    BY FwdOff
  <2> QED BY <1>1, <2>1 DEF NewOf
<1>3. PICK x \in 0 .. n - 1 : x = Fwd(hd, 1, n)
  <2>1. Fwd(hd, 1, n) \in 0 .. n - 1
    BY OffNext
  <2> QED BY <2>1
<1>4. NewOf(cq, x, n) = w - 1 /\ \A k \in 0 .. n - 2 : Fwd(x, k, n) = Fwd(hd, k + 1, n)
  BY <1>1, <1>3, OffNext DEF NewOf
<1>5. cq.pending \in Seq(Item)
  BY DEF CQueue, Item
<1>6. PICK p \in Seq(Item) : p = cq.pending
  BY <1>5
<1>7. PICK f \in Seq(Item) : f = Way(cq, m, hd, n)
  BY WayIs
<1>8. PICK g \in Seq(Item) : g = Way(cq, m, x, n)
  BY WayIs
<1>9. f = [k \in 1 .. w + Len(p) |->
         IF k <= w THEN [cid |-> m[Fwd(hd, k - 1, n)].cid, cdw0 |-> m[Fwd(hd, k - 1, n)].cdw0]
         ELSE p[k - w]]
  BY <1>1, <1>6, <1>7 DEF Way
<1>10. g = [k \in 1 .. (w - 1) + Len(p) |->
         IF k <= w - 1 THEN [cid |-> m[Fwd(x, k - 1, n)].cid, cdw0 |-> m[Fwd(x, k - 1, n)].cdw0]
         ELSE p[k - (w - 1)]]
  BY <1>4, <1>6, <1>8 DEF Way
<1>11. Len(f) = w + Len(p) /\ Len(g) = (w - 1) + Len(p)
  <2>1. Len(Way(cq, m, hd, n)) = NewOf(cq, hd, n) + Len(cq.pending)
    BY WayIs
  <2>2. Len(Way(cq, m, x, n)) = NewOf(cq, x, n) + Len(cq.pending)
    BY WayIs
  <2> QED BY <1>1, <1>4, <1>6, <1>7, <1>8, <2>1, <2>2
<1>12. ASSUME NEW k \in 1 .. (w - 1) + Len(p) PROVE g[k] = f[k + 1]
  <2>1. k + 1 \in 1 .. w + Len(p)
    BY <1>2
  <2>2. CASE k <= w - 1
    <3>1. k - 1 \in 0 .. n - 2 /\ k + 1 <= w /\ (k + 1) - 1 = (k - 1) + 1
      BY <2>2
    <3>2. Fwd(x, k - 1, n) = Fwd(hd, (k + 1) - 1, n)
      BY <1>4, <3>1
    <3> QED BY <1>9, <1>10, <2>1, <2>2, <3>1, <3>2
  <2>3. CASE ~(k <= w - 1)
    <3>1. ~(k + 1 <= w) /\ (k + 1) - w = k - (w - 1)
      BY <2>3
    <3> QED BY <1>9, <1>10, <2>1, <2>3, <3>1
  <2> QED BY <2>2, <2>3
<1>13. f # <<>> /\ Tail(f) \in Seq(Item) /\ Len(Tail(f)) = (w - 1) + Len(p)
       /\ \A k \in 1 .. (w - 1) + Len(p) : Tail(f)[k] = f[k + 1]
  BY <1>2, <1>11
<1>14. g = Tail(f)
  BY <1>11, <1>12, <1>13
<1>15. Fwd(hd, 1 - 1, n) = hd
  BY DEF Fwd
<1>16. f[1].cid = m[hd].cid /\ f[1].cdw0 = m[hd].cdw0
  <2>1. 1 \in 1 .. w + Len(p) /\ 1 <= w
    BY <1>2
  <2> QED BY <1>9, <1>15, <2>1
<1> QED BY <1>3, <1>7, <1>8, <1>13, <1>14, <1>16


LEMMA WayEmpty ==
  ASSUME NEW cq \in CQueue, NEW n \in Nat, n >= 2, cq.tail \in 0 .. n - 1,
         NEW hd \in 0 .. n - 1, NEW m \in [Slot -> Entry], 0 .. n - 1 \subseteq Slot
  PROVE  Way(cq, m, hd, n) = <<>> <=> cq.tail = hd /\ cq.pending = <<>>
<1>1. /\ NewOf(cq, hd, n) \in 0 .. n - 1 /\ Way(cq, m, hd, n) \in Seq(Item)
      /\ Len(Way(cq, m, hd, n)) = NewOf(cq, hd, n) + Len(cq.pending)
  BY WayIs
<1>2. (NewOf(cq, hd, n) = 0) <=> hd = cq.tail
  BY FwdOff DEF NewOf
<1>3. cq.pending \in Seq(Item)
  BY DEF CQueue, Item
<1>4. Len(cq.pending) \in Nat /\ (Len(cq.pending) = 0 <=> cq.pending = <<>>)
  BY <1>3
<1>5. Len(Way(cq, m, hd, n)) = 0 <=> Way(cq, m, hd, n) = <<>>
  BY <1>1
<1> QED BY <1>1, <1>2, <1>4, <1>5

LEMMA UnfIs ==
  ASSUME NEW n \in Nat, n >= 2, NEW sq, sq.head \in 0 .. n - 1, NEW tl \in 0 .. n - 1,
         NEW m \in [Slot -> Tag], 0 .. n - 1 \subseteq Slot
  PROVE  /\ Off(sq.head, tl, n) \in 0 .. n - 1 /\ Unf(sq, m, tl, n) \in Seq(Tag)
         /\ Len(Unf(sq, m, tl, n)) = Off(sq.head, tl, n)
         /\ \A k \in 1 .. Off(sq.head, tl, n) :
              /\ Fwd(sq.head, k - 1, n) \in 0 .. n - 1
              /\ Unf(sq, m, tl, n)[k] = m[Fwd(sq.head, k - 1, n)]
         /\ Unf(sq, m, tl, n) = <<>> <=> sq.head = tl
<1>1. Off(sq.head, tl, n) \in 0 .. n - 1 /\ ((Off(sq.head, tl, n) = 0) <=> sq.head = tl)
  BY FwdOff
<1>2. PICK w \in 0 .. n - 1 : w = Off(sq.head, tl, n)
  BY <1>1
<1>3. PICK a \in 0 .. n - 1 : a = sq.head
  OBVIOUS
<1>4. Unf(sq, m, tl, n) = [k \in 1 .. w |-> m[Fwd(a, k - 1, n)]]
  BY <1>2, <1>3 DEF Unf
<1>5. ASSUME NEW k \in 1 .. w PROVE Fwd(a, k - 1, n) \in 0 .. n - 1 /\ m[Fwd(a, k - 1, n)] \in Tag
  <2>1. k - 1 \in 0 .. n - 1
    OBVIOUS
  <2>2. Fwd(a, k - 1, n) \in 0 .. n - 1
    BY <2>1, OffFwd
  <2> QED BY <2>2
<1>6. PICK f : f = Unf(sq, m, tl, n)
  OBVIOUS
<1>7. f \in [1 .. w -> Tag]
  BY <1>4, <1>5, <1>6
<1>8. f \in Seq(Tag) /\ Len(f) = w
  BY <1>7
<1>9. f = <<>> <=> w = 0
  BY <1>8
<1> QED BY <1>1, <1>2, <1>3, <1>4, <1>5, <1>6, <1>8, <1>9

LEMMA UnfEmpty ==
  ASSUME NEW n \in Nat, n >= 2, NEW sq, sq.head \in 0 .. n - 1, NEW tl \in 0 .. n - 1,
         NEW m \in [Slot -> Tag], 0 .. n - 1 \subseteq Slot
  PROVE  Unf(sq, m, tl, n) = <<>> <=> sq.head = tl
BY UnfIs


\* A command is put at the tail.
LEMMA UnfSend ==
  ASSUME NEW n \in Nat, n >= 2, NEW sq, sq.head \in 0 .. n - 1, NEW tl \in 0 .. n - 1,
         NEW m \in [Slot -> Tag], 0 .. n - 1 \subseteq Slot, NEW c \in Tag,
         Off(sq.head, tl, n) + 1 <= n - 1
  PROVE  Unf(sq, [m EXCEPT ![tl] = c], Fwd(tl, 1, n), n) = Append(Unf(sq, m, tl, n), c)
<1>1. PICK w \in 0 .. n - 1 : w = Off(sq.head, tl, n)
  BY UnfIs
<1>2. PICK a \in 0 .. n - 1 : a = sq.head
  OBVIOUS
<1>3. PICK mm : mm = [m EXCEPT ![tl] = c]
  OBVIOUS
<1>4. mm \in [Slot -> Tag] /\ mm[tl] = c /\ \A i \in Slot : i # tl => mm[i] = m[i]
  BY <1>3
<1>5. 1 \in 0 .. n - 1 /\ Off(a, tl, n) + 1 <= n - 1
  BY <1>2
<1>6. Off(a, Fwd(tl, 1, n), n) = w + 1 /\ Fwd(tl, 1, n) \in 0 .. n - 1
  BY <1>1, <1>2, <1>5, OffPush
<1>7. PICK x \in 0 .. n - 1 : x = Fwd(tl, 1, n)
  BY <1>6
<1>8. PICK f \in Seq(Tag) : f = Unf(sq, m, tl, n)
  BY UnfIs
<1>9. PICK g \in Seq(Tag) : g = Unf(sq, mm, x, n)
  BY <1>4, UnfIs
<1>10. f = [k \in 1 .. w |-> m[Fwd(a, k - 1, n)]]
  BY <1>1, <1>2, <1>8 DEF Unf
<1>11. g = [k \in 1 .. w + 1 |-> mm[Fwd(a, k - 1, n)]]
  BY <1>2, <1>6, <1>7, <1>9 DEF Unf
<1>12. Len(f) = w /\ Len(g) = w + 1
  BY <1>10, <1>11
<1>13. ASSUME NEW k \in 1 .. w PROVE g[k] = f[k]
  <2>1. k - 1 \in 0 .. n - 1 /\ k \in 1 .. w + 1 /\ k - 1 # w
    OBVIOUS
  <2>2. Fwd(a, k - 1, n) \in 0 .. n - 1 /\ Off(a, Fwd(a, k - 1, n), n) = k - 1
    BY <2>1, OffFwd
  <2>3. Fwd(a, k - 1, n) # tl
    BY <1>1, <1>2, <2>1, <2>2
  <2> QED BY <1>4, <1>10, <1>11, <2>1, <2>2, <2>3
<1>14. g[w + 1] = c
  <2>1. Fwd(a, w, n) = tl
    <3>1. Fwd(a, Off(a, tl, n), n) = tl
      BY FwdOff
    <3>2. w = Off(a, tl, n)
      BY <1>1, <1>2
    <3> QED BY <3>1, <3>2
  <2>2. w + 1 \in 1 .. w + 1 /\ (w + 1) - 1 = w
    OBVIOUS
  <2> QED BY <1>4, <1>11, <2>1, <2>2
<1>15. /\ Append(f, c) \in Seq(Tag) /\ Len(Append(f, c)) = w + 1
       /\ \A k \in 1 .. w : Append(f, c)[k] = f[k]
       /\ Append(f, c)[w + 1] = c
  BY <1>12
<1>16. \A k \in 1 .. w + 1 : k \in 1 .. w \/ k = w + 1
  OBVIOUS
<1>17. g = Append(f, c)
  BY <1>12, <1>13, <1>14, <1>15, <1>16
<1> QED BY <1>3, <1>7, <1>8, <1>9, <1>17

\* The command at the head is fetched.
LEMMA UnfFetch ==
  ASSUME NEW n \in Nat, n >= 2, NEW sq, sq.head \in 0 .. n - 1, NEW tl \in 0 .. n - 1,
         NEW m \in [Slot -> Tag], 0 .. n - 1 \subseteq Slot, sq.head # tl,
         NEW r, r.head = Fwd(sq.head, 1, n)
  PROVE  /\ Unf(sq, m, tl, n) # <<>> /\ Unf(sq, m, tl, n)[1] = m[sq.head]
         /\ Unf(r, m, tl, n) = Tail(Unf(sq, m, tl, n)) /\ r.head \in 0 .. n - 1
<1>1. PICK w \in 0 .. n - 1 : w = Off(sq.head, tl, n)
  BY UnfIs
<1>2. PICK a \in 0 .. n - 1 : a = sq.head
  OBVIOUS
<1>3. w > 0
  <2>1. Off(sq.head, tl, n) # 0
    BY FwdOff
  <2> QED BY <1>1, <2>1
<1>4. /\ Fwd(a, 1, n) \in 0 .. n - 1 /\ Off(Fwd(a, 1, n), tl, n) = w - 1
      /\ \A k \in 0 .. n - 2 : Fwd(Fwd(a, 1, n), k, n) = Fwd(a, k + 1, n)
  BY <1>1, <1>2, OffNext
<1>5. PICK x \in 0 .. n - 1 : x = Fwd(a, 1, n)
  BY <1>4
<1>6. r.head = x
  BY <1>2, <1>5
<1>7. PICK f \in Seq(Tag) : f = Unf(sq, m, tl, n)
  BY UnfIs
<1>8. PICK g \in Seq(Tag) : g = Unf(r, m, tl, n)
  BY <1>6, UnfIs
<1>9. f = [k \in 1 .. w |-> m[Fwd(a, k - 1, n)]]
  BY <1>1, <1>2, <1>7 DEF Unf
<1>10. g = [k \in 1 .. w - 1 |-> m[Fwd(x, k - 1, n)]]
  BY <1>4, <1>5, <1>6, <1>8 DEF Unf
<1>11. Len(f) = w /\ Len(g) = w - 1
  BY <1>3, <1>9, <1>10
<1>12. ASSUME NEW k \in 1 .. w - 1 PROVE g[k] = f[k + 1]
  <2>1. k + 1 \in 1 .. w /\ k - 1 \in 0 .. n - 2 /\ (k + 1) - 1 = (k - 1) + 1
    OBVIOUS
  <2>2. Fwd(x, k - 1, n) = Fwd(a, (k + 1) - 1, n)
    BY <1>4, <1>5, <2>1
  <2> QED BY <1>9, <1>10, <2>1, <2>2
<1>13. /\ f # <<>> /\ Tail(f) \in Seq(Tag) /\ Len(Tail(f)) = w - 1
       /\ \A k \in 1 .. w - 1 : Tail(f)[k] = f[k + 1]
  BY <1>3, <1>11
<1>14. g = Tail(f)
  BY <1>11, <1>12, <1>13
<1>15. f[1] = m[a]
  <2>1. Fwd(a, 1 - 1, n) = a
    BY DEF Fwd
  <2>2. 1 \in 1 .. w
    BY <1>3
  <2> QED BY <1>9, <2>1, <2>2
<1> QED BY <1>2, <1>5, <1>6, <1>7, <1>8, <1>13, <1>14, <1>15

----------------------------------------------------------------------------
(* Room.                                                                   *)

LEMMA CountBound ==
  ASSUME NEW n \in Nat, NEW m \in Nat, NEW x \in 0 .. m, NEW f \in [1 .. n -> (0 .. m) \ {x}],
         \A k, l \in 1 .. n : f[k] = f[l] => k = l
  PROVE  n <= m
<1>1. IsFiniteSet(1 .. n) /\ Cardinality(1 .. n) = n
  <2>1. IsFiniteSet(1 .. n) /\ Cardinality(1 .. n) = IF 1 > n THEN 0 ELSE n - 1 + 1
    BY FS_Interval
  <2> QED BY <2>1
<1>2. IsFiniteSet(0 .. m) /\ Cardinality(0 .. m) = m + 1
  <2>1. IsFiniteSet(0 .. m) /\ Cardinality(0 .. m) = IF 0 > m THEN 0 ELSE m - 0 + 1
    BY FS_Interval
  <2> QED BY <2>1
<1>3. IsFiniteSet((0 .. m) \ {x}) /\ Cardinality((0 .. m) \ {x}) = m
  <2>1. /\ IsFiniteSet((0 .. m) \ {x})
        /\ Cardinality((0 .. m) \ {x}) = IF x \in 0 .. m THEN Cardinality(0 .. m) - 1 ELSE Cardinality(0 .. m)
    BY <1>2, FS_RemoveElement
  <2> QED BY <1>2, <2>1
<1>4. PICK T : T = (0 .. m) \ {x}
  OBVIOUS
<1>5. PICK S : S = 1 .. n
  OBVIOUS
<1>6. SUFFICES ASSUME m < n PROVE FALSE
  OBVIOUS
<1>7. IsFiniteSet(S) /\ IsFiniteSet(T) /\ Cardinality(T) < Cardinality(S) /\ f \in [S -> T]
  BY <1>1, <1>3, <1>4, <1>5, <1>6
<1>8. \E y, z \in S : y # z /\ f[y] = f[z]
  BY <1>7, FS_PigeonHole
<1> QED BY <1>5, <1>8


----------------------------------------------------------------------------
(* Doorbells.                                                              *)

Door == [kind: {"SQ", "CQ"}, q: Qid, value: Slot]

LEMMA PopIs ==
  ASSUME NEW b \in Seq(Door), b # <<>>
  PROVE  /\ Len(Tail(b)) = Len(b) - 1 /\ Len(b) \in Nat \ {0} /\ Tail(b) \in Seq(Door)
         /\ b[1] = Head(b) /\ Head(b) \in Door
         /\ \A i \in 1 .. Len(Tail(b)) : i + 1 \in 1 .. Len(b) /\ Tail(b)[i] = b[i + 1]
         /\ \A i, q : IsSq(Tail(b), i, q) => IsSq(b, i + 1, q)
         /\ \A i, q : IsCq(Tail(b), i, q) => IsCq(b, i + 1, q)
<1>1. Len(Tail(b)) = Len(b) - 1 /\ Len(b) \in Nat \ {0} /\ Tail(b) \in Seq(Door)
      /\ b[1] = Head(b) /\ Head(b) \in Door
  OBVIOUS
<1>2. \A i \in 1 .. Len(Tail(b)) : i + 1 \in 1 .. Len(b) /\ Tail(b)[i] = b[i + 1]
  OBVIOUS
<1> QED BY <1>1, <1>2 DEF IsSq, IsCq

LEMMA PushIs ==
  ASSUME NEW b \in Seq(Door), NEW x \in Door
  PROVE  /\ Len(Append(b, x)) = Len(b) + 1 /\ Len(b) \in Nat /\ Append(b, x) \in Seq(Door)
         /\ Append(b, x)[Len(b) + 1] = x
         /\ \A i \in 1 .. Len(b) : Append(b, x)[i] = b[i]
         /\ \A i, q : IsSq(Append(b, x), i, q) =>
              IsSq(b, i, q) \/ (i = Len(b) + 1 /\ x.kind = "SQ" /\ x.q = q)
         /\ \A i, q : IsCq(Append(b, x), i, q) =>
              IsCq(b, i, q) \/ (i = Len(b) + 1 /\ x.kind = "CQ" /\ x.q = q)
<1>1. Len(Append(b, x)) = Len(b) + 1 /\ Len(b) \in Nat /\ Append(b, x) \in Seq(Door)
      /\ Append(b, x)[Len(b) + 1] = x
  OBVIOUS
<1>2. \A i \in 1 .. Len(b) : Append(b, x)[i] = b[i]
  OBVIOUS
<1> QED BY <1>1, <1>2 DEF IsSq, IsCq

LEMMA HeadsPop ==
  ASSUME NEW b \in Seq(Door), b # <<>>, NEW cq, NEW hd, NEW rung, NEW q, NEW n, Heads(cq, hd, rung, b, q, n)
  PROVE  Heads(cq, hd, rung, Tail(b), q, n)
<1>1. /\ Len(Tail(b)) = Len(b) - 1 /\ Len(b) \in Nat \ {0}
      /\ \A i \in 1 .. Len(Tail(b)) : i + 1 \in 1 .. Len(b) /\ Tail(b)[i] = b[i + 1]
      /\ \A i : IsCq(Tail(b), i, q) => IsCq(b, i + 1, q)
  BY PopIs
<1>2. PICK t : t = Tail(b)
  OBVIOUS
<1>3. ASSUME NEW i \in 1 .. Len(t), IsCq(t, i, q)
      PROVE  /\ t[i].value \in 0 .. n - 1
             /\ Off(t[i].value, cq.tail, n) <= Off(cq.head, cq.tail, n)
             /\ Off(rung, cq.tail, n) <= Off(t[i].value, cq.tail, n)
  BY <1>1, <1>2, <1>3 DEF Heads
<1>4. ASSUME NEW i \in 1 .. Len(t), NEW j \in 1 .. Len(t), i < j, IsCq(t, i, q), IsCq(t, j, q)
      PROVE  Off(t[j].value, cq.tail, n) <= Off(t[i].value, cq.tail, n)
  <2>1. /\ i + 1 \in 1 .. Len(b) /\ j + 1 \in 1 .. Len(b) /\ i + 1 < j + 1
        /\ IsCq(b, i + 1, q) /\ IsCq(b, j + 1, q) /\ t[i] = b[i + 1] /\ t[j] = b[j + 1]
    BY <1>1, <1>2, <1>4
  <2> QED BY <2>1 DEF Heads
<1> QED BY <1>2, <1>3, <1>4 DEF Heads

LEMMA CqPop ==
  ASSUME NEW b \in Seq(Door), b # <<>>, NEW cq, NEW m, NEW st, NEW hd, NEW rung, NEW ph, NEW q,
         CqPart(cq, m, st, hd, rung, ph, b, q)
  PROVE  CqPart(cq, m, st, hd, rung, ph, Tail(b), q)
<1>1. \A i \in 1 .. Len(Tail(b)) : IsCq(Tail(b), i, q) => i + 1 \in 1 .. Len(b) /\ IsCq(b, i + 1, q)
  BY PopIs
<1>2. PICK t : t = Tail(b)
  OBVIOUS
<1>3. Made(cq) => Heads(cq, hd, rung, t, q, CqSize(q))
  BY <1>2, HeadsPop DEF CqPart
<1>4. ~Made(cq) => \A i \in 1 .. Len(t) : ~IsCq(t, i, q)
  BY <1>1, <1>2 DEF CqPart
<1>5. CqPart(cq, m, st, hd, rung, ph, t, q)
  BY <1>3, <1>4 DEF CqPart
<1> QED BY <1>2, <1>5

\* A doorbell of another queue or kind is rung.
LEMMA CqPush ==
  ASSUME NEW b \in Seq(Door), NEW x \in Door, NEW cq, NEW m, NEW st, NEW hd, NEW rung, NEW ph, NEW q,
         CqPart(cq, m, st, hd, rung, ph, b, q), ~(x.kind = "CQ" /\ x.q = q)
  PROVE  CqPart(cq, m, st, hd, rung, ph, Append(b, x), q)
<1>1. /\ \A i \in 1 .. Len(b) : Append(b, x)[i] = b[i]
      /\ \A i : IsCq(Append(b, x), i, q) => IsCq(b, i, q)
  BY PushIs
<1>2. PICK t : t = Append(b, x)
  OBVIOUS
<1>3. \A i : IsCq(t, i, q) => IsCq(b, i, q) /\ i \in 1 .. Len(b) /\ t[i] = b[i]
  BY <1>1, <1>2 DEF IsCq
<1>4. ASSUME Made(cq) PROVE Heads(cq, hd, rung, t, q, CqSize(q))
  <2>1. Heads(cq, hd, rung, b, q, CqSize(q))
    BY <1>4 DEF CqPart
  <2>2. \A i \in 1 .. Len(t) : IsCq(t, i, q) =>
          /\ t[i].value \in 0 .. CqSize(q) - 1
          /\ Off(t[i].value, cq.tail, CqSize(q)) <= Off(cq.head, cq.tail, CqSize(q))
          /\ Off(rung, cq.tail, CqSize(q)) <= Off(t[i].value, cq.tail, CqSize(q))
    BY <1>3, <2>1 DEF Heads
  <2>3. ASSUME NEW i \in 1 .. Len(t), NEW j \in 1 .. Len(t), i < j, IsCq(t, i, q), IsCq(t, j, q)
        PROVE  Off(t[j].value, cq.tail, CqSize(q)) <= Off(t[i].value, cq.tail, CqSize(q))
    <3>1. /\ IsCq(b, i, q) /\ i \in 1 .. Len(b) /\ t[i] = b[i]
          /\ IsCq(b, j, q) /\ j \in 1 .. Len(b) /\ t[j] = b[j]
      BY <1>3, <2>3
    <3> QED BY <2>1, <2>3, <3>1 DEF Heads
  <2> QED BY <2>1, <2>2, <2>3 DEF Heads
<1>5. ~Made(cq) => \A i \in 1 .. Len(t) : ~IsCq(t, i, q)
  BY <1>3 DEF CqPart
<1>6. CqPart(cq, m, st, hd, rung, ph, t, q)
  BY <1>4, <1>5 DEF CqPart
<1> QED BY <1>2, <1>6

LEMMA SqDoorsPop ==
  ASSUME NEW b \in Seq(Door), b # <<>>, NEW sq, NEW tl, NEW q, NEW n, SqDoors(sq, tl, b, q, n)
  PROVE  SqDoors(sq, tl, Tail(b), q, n)
<1>1. /\ Len(Tail(b)) = Len(b) - 1 /\ Len(b) \in Nat \ {0}
      /\ \A i \in 1 .. Len(Tail(b)) : i + 1 \in 1 .. Len(b) /\ Tail(b)[i] = b[i + 1]
      /\ \A i : IsSq(Tail(b), i, q) => IsSq(b, i + 1, q)
  BY PopIs
<1>2. PICK t : t = Tail(b)
  OBVIOUS
<1>3. ASSUME NEW i \in 1 .. Len(t), IsSq(t, i, q)
      PROVE  /\ t[i].value \in 0 .. n - 1
             /\ 1 <= Off(sq.head, t[i].value, n)
             /\ Off(sq.head, t[i].value, n) <= Off(sq.head, tl, n)
  BY <1>1, <1>2, <1>3 DEF SqDoors
<1>4. ASSUME NEW i \in 1 .. Len(t), NEW j \in 1 .. Len(t), i < j, IsSq(t, i, q), IsSq(t, j, q)
      PROVE  Off(sq.head, t[i].value, n) < Off(sq.head, t[j].value, n)
  <2>1. /\ i + 1 \in 1 .. Len(b) /\ j + 1 \in 1 .. Len(b) /\ i + 1 < j + 1
        /\ IsSq(b, i + 1, q) /\ IsSq(b, j + 1, q) /\ t[i] = b[i + 1] /\ t[j] = b[j + 1]
    BY <1>1, <1>2, <1>4
  <2> QED BY <2>1 DEF SqDoors
<1> QED BY <1>2, <1>3, <1>4 DEF SqDoors

LEMMA SqPop ==
  ASSUME NEW b \in Seq(Door), b # <<>>, NEW sq, NEW cq, NEW way, NEW unf, NEW isp, NEW st, NEW cst,
         NEW hd, NEW tl, NEW out, NEW q,
         SqPart(sq, cq, way, unf, isp, st, cst, hd, tl, out, b, q)
  PROVE  SqPart(sq, cq, way, unf, isp, st, cst, hd, tl, out, Tail(b), q)
<1>1. \A i \in 1 .. Len(Tail(b)) : IsSq(Tail(b), i, q) => i + 1 \in 1 .. Len(b) /\ IsSq(b, i + 1, q)
  BY PopIs
<1>2. PICK t : t = Tail(b)
  OBVIOUS
<1>3. Up(st, q) => Works(sq, tl, way, unf, isp, out, t, q)
  BY <1>2, SqDoorsPop DEF SqPart, Works
<1>4. ~Up(st, q) => Quiet(cq, isp, hd, out, t, q)
  BY <1>1, <1>2 DEF SqPart, Quiet
<1>5. SqPart(sq, cq, way, unf, isp, st, cst, hd, tl, out, t, q)
  BY <1>3, <1>4 DEF SqPart
<1> QED BY <1>2, <1>5

LEMMA SqPush ==
  ASSUME NEW b \in Seq(Door), NEW x \in Door, NEW sq, NEW cq, NEW way, NEW unf, NEW isp, NEW st, NEW cst,
         NEW hd, NEW tl, NEW out, NEW q, ~(x.kind = "SQ" /\ x.q = q),
         SqPart(sq, cq, way, unf, isp, st, cst, hd, tl, out, b, q)
  PROVE  SqPart(sq, cq, way, unf, isp, st, cst, hd, tl, out, Append(b, x), q)
<1>1. /\ \A i \in 1 .. Len(b) : Append(b, x)[i] = b[i]
      /\ \A i : IsSq(Append(b, x), i, q) => IsSq(b, i, q)
  BY PushIs
<1>2. PICK t : t = Append(b, x)
  OBVIOUS
<1>3. \A i : IsSq(t, i, q) => IsSq(b, i, q) /\ i \in 1 .. Len(b) /\ t[i] = b[i]
  BY <1>1, <1>2 DEF IsSq
<1>4. ASSUME Up(st, q) PROVE Works(sq, tl, way, unf, isp, out, t, q)
  <2>1. Works(sq, tl, way, unf, isp, out, b, q)
    BY <1>4 DEF SqPart
  <2>2. SqDoors(sq, tl, t, q, SqSize(q))
    BY <1>3, <2>1 DEF SqDoors, Works
  <2> QED BY <2>1, <2>2 DEF Works
<1>5. ~Up(st, q) => Quiet(cq, isp, hd, out, t, q)
  BY <1>3 DEF SqPart, Quiet
<1>6. SqPart(sq, cq, way, unf, isp, st, cst, hd, tl, out, t, q)
  BY <1>4, <1>5 DEF SqPart
<1> QED BY <1>2, <1>6

\* Requests of other queues at the in-storage-processing thread do not matter.
LEMMA SqIsp ==
  ASSUME NEW b, NEW sq, NEW cq, NEW way, NEW unf, NEW isp, NEW x, NEW st, NEW cst,
         NEW hd, NEW tl, NEW out, NEW q,
         SqPart(sq, cq, way, unf, isp, st, cst, hd, tl, out, b, q),
         \A t \in Tag : AtIspOf(x, q, t) <=> AtIspOf(isp, q, t)
  PROVE  SqPart(sq, cq, way, unf, x, st, cst, hd, tl, out, b, q)
<1>1. ASSUME Up(st, q) PROVE Works(sq, tl, way, unf, x, out, b, q)
  <2>1. Works(sq, tl, way, unf, isp, out, b, q)
    BY <1>1 DEF SqPart
  <2>2. Once(way, unf, x, out, q)
    BY <2>1, OnceOther DEF Works
  <2> QED BY <2>1, <2>2 DEF Works
<1>2. ~Up(st, q) => Quiet(cq, x, hd, out, b, q)
  BY DEF SqPart, Quiet
<1> QED BY <1>1, <1>2 DEF SqPart

----------------------------------------------------------------------------
(* Identifiers and room.                                                   *)

LEMMA LeastElement ==
  ASSUME NEW S, S \subseteq Nat, S # {}
  PROVE  Min(S) \in S
<1> DEFINE R == OpToRel(<, Nat)
<1>1. \E x \in S : \A y \in S : <<y, x>> \notin R
  <2>1. IsWellFoundedOn(R, Nat)
    BY NatLessThanWellFounded
  <2> HIDE DEF R
  <2> QED BY <2>1, WFMin
<1>2. \A x, y \in Nat : <<y, x>> \in R <=> y < x
  BY DEF OpToRel
<1> HIDE DEF R
<1>3. PICK m \in S : \A y \in S : <<y, m>> \notin R
  BY <1>1
<1>4. \A k \in S : m <= k
  <2> TAKE k \in S
  <2>1. m \in Nat /\ k \in Nat /\ ~(k < m)
    BY <1>2, <1>3
  <2> QED BY <2>1
<1> QED BY <1>3, <1>4 DEF Min

\* What is not on its way leaves room in the pending ring for it.
LEMMA WayRoom ==
  ASSUME NEW q \in Qid, NEW way \in Seq(Item), NEW unf, NEW isp, NEW out,
         Once(way, unf, isp, out, q), Known(way, out, q),
         NEW x \in Tag, out[x] # NoCmd, ~Holds(way, x)
  PROVE  Len(way) <= SqSize(q) - 2
<1>1. SqSize(q) - 2 \in Nat /\ Len(way) \in Nat /\ Tag \subseteq Nat
  BY Sizes
<1>2. PICK f : f = [k \in 1 .. Len(way) |-> way[k].cid]
  OBVIOUS
<1>3. ASSUME NEW t \in Tag, out[t] # NoCmd PROVE t \in 0 .. SqSize(q) - 2
  BY <1>1, <1>3 DEF Known
<1>4. ASSUME NEW k \in 1 .. Len(way) PROVE way[k].cid \in (0 .. SqSize(q) - 2) \ {x}
  <2>1. way[k] \in Item
    OBVIOUS
  <2>2. way[k].cid \in Tag /\ Holds(way, way[k].cid)
    BY <2>1 DEF Item, Holds
  <2>3. out[way[k].cid] # NoCmd
    BY <2>2 DEF Once, OnePlace
  <2> QED BY <1>3, <2>2, <2>3
<1>5. f \in [1 .. Len(way) -> (0 .. SqSize(q) - 2) \ {x}] /\ x \in 0 .. SqSize(q) - 2
  BY <1>2, <1>3, <1>4
<1>6. \A k, l \in 1 .. Len(way) : f[k] = f[l] => k = l
  BY <1>2 DEF Once, WayInj
<1> QED BY <1>1, <1>5, <1>6, CountBound

\* A free identifier leaves room in the submission queue.
LEMMA UnfRoom ==
  ASSUME NEW q \in Qid, NEW way, NEW unf \in Seq(Tag), NEW isp, NEW out,
         Once(way, unf, isp, out, q), Known(way, out, q),
         NEW x \in 0 .. SqSize(q) - 2, out[x] = NoCmd
  PROVE  Len(unf) <= SqSize(q) - 2
<1>1. SqSize(q) - 2 \in Nat /\ Len(unf) \in Nat /\ Tag \subseteq Nat
  BY Sizes
<1>2. PICK f : f = [k \in 1 .. Len(unf) |-> unf[k]]
  OBVIOUS
<1>3. ASSUME NEW t \in Tag, out[t] # NoCmd PROVE t \in 0 .. SqSize(q) - 2
  BY <1>1, <1>3 DEF Known
<1>4. ASSUME NEW k \in 1 .. Len(unf) PROVE unf[k] \in (0 .. SqSize(q) - 2) \ {x}
  <2>1. unf[k] \in Tag /\ In(unf, unf[k])
    BY DEF In
  <2>2. out[unf[k]] # NoCmd
    BY <2>1 DEF Once, OnePlace
  <2> QED BY <1>3, <2>1, <2>2
<1>5. f \in [1 .. Len(unf) -> (0 .. SqSize(q) - 2) \ {x}]
  BY <1>2, <1>4
<1>6. \A k, l \in 1 .. Len(unf) : f[k] = f[l] => k = l
  BY <1>2 DEF Once, UnfInj
<1> QED BY <1>1, <1>5, <1>6, CountBound

----------------------------------------------------------------------------
(* Posting keeps the invariant.                                            *)

Typed(e, cm, sm, b, g) ==
  /\ e \in Driver /\ g \in Host /\ cm \in [Qid -> [Slot -> Entry]]
  /\ sm \in [Qid -> [Slot -> Tag]] /\ b \in Seq(Door)
Good(e, cm, sm, b, g) == Typed(e, cm, sm, b, g) /\ Inv(e, cm, sm, b, g)

\* The parts of a state have their types.
LEMMA PartTypes ==
  ASSUME NEW e, NEW cm, NEW sm, NEW b, NEW g, Typed(e, cm, sm, b, g), NEW q \in Qid
  PROVE  /\ e.cqs[q] \in CQueue /\ e.sqs[q] \in SQueue /\ cm[q] \in [Slot -> Entry]
         /\ sm[q] \in [Slot -> Tag] /\ e.sqs[q].head \in Slot /\ e.cqs[q].pending \in Seq(Item)
         /\ g.head[q] \in Slot /\ g.tail[q] \in Slot /\ g.rung[q] \in Slot /\ g.phase[q] \in {0, 1}
         /\ g.out[q] \in [Tag -> Command \cup {NoCmd}] /\ b \in Seq(Door)
BY DEF Typed, Driver, Host, CQueue, SQueue, Item

\* The sequences of a queue that works.
LEMMA WorkSeqs ==
  ASSUME NEW e, NEW cm, NEW sm, NEW b, NEW g, Good(e, cm, sm, b, g), NEW q \in Qid, Up(g.sq[q], q)
  PROVE  /\ Made(e.cqs[q]) /\ Made(e.sqs[q])
         /\ e.cqs[q].tail \in 0 .. CqSize(q) - 1 /\ g.head[q] \in 0 .. CqSize(q) - 1
         /\ e.sqs[q].head \in 0 .. SqSize(q) - 1 /\ g.tail[q] \in 0 .. SqSize(q) - 1
         /\ WayOf(e, cm, g, q) \in Seq(Item) /\ UnfOf(e, sm, g, q) \in Seq(Tag)
         /\ Works(e.sqs[q], g.tail[q], WayOf(e, cm, g, q), UnfOf(e, sm, g, q), e.isp, g.out[q], b, q)
<1>1. CqAt(e, cm, g, b, q) /\ SqAt(e, cm, sm, g, b, q) /\ Typed(e, cm, sm, b, g)
  BY DEF Good, Inv
<1>2. Works(e.sqs[q], g.tail[q], WayOf(e, cm, g, q), UnfOf(e, sm, g, q), e.isp, g.out[q], b, q)
      /\ Made(e.sqs[q])
  BY <1>1 DEF SqAt, SqPart
<1>3. Made(e.cqs[q])
  <2>1. q = 0 \/ g.cq[q] = "live"
    BY <1>1 DEF SqAt, SqPart, Up
  <2> QED BY <1>1, <2>1 DEF CqAt, CqPart
<1>4. Heads(e.cqs[q], g.head[q], g.rung[q], b, q, CqSize(q))
  BY <1>1, <1>3 DEF CqAt, CqPart
<1>5. e.cqs[q].tail \in 0 .. CqSize(q) - 1 /\ g.head[q] \in 0 .. CqSize(q) - 1
  BY <1>4 DEF Heads
<1>6. e.sqs[q].head \in 0 .. SqSize(q) - 1 /\ g.tail[q] \in 0 .. SqSize(q) - 1
  BY <1>2 DEF Works
<1>7. e.cqs[q] \in CQueue /\ cm[q] \in [Slot -> Entry] /\ sm[q] \in [Slot -> Tag]
  BY <1>1, PartTypes
<1>8. /\ SqSize(q) \in Nat /\ SqSize(q) >= 2 /\ CqSize(q) \in Nat /\ CqSize(q) >= 2
      /\ 0 .. SqSize(q) - 1 \subseteq Slot /\ 0 .. CqSize(q) - 1 \subseteq Slot
  BY Sizes
<1>9. WayOf(e, cm, g, q) \in Seq(Item)
  BY <1>5, <1>7, <1>8, WayIs DEF WayOf
<1>10. UnfOf(e, sm, g, q) \in Seq(Tag)
  BY <1>6, <1>7, <1>8, UnfIs DEF UnfOf
<1> QED BY <1>2, <1>3, <1>5, <1>6, <1>9, <1>10

\* A queue without pending completions is left as it is.
LEMMA PostNone ==
  ASSUME NEW cq, cq.pending = <<>>, NEW x, NEW m \in [Slot -> Entry]
  PROVE  PostCcmds(cq) = cq /\ PostEntries(cq, x, m) = m
<1>1. Posted(cq) = 0
  BY DEF Posted
<1>2. PostEntries(cq, x, m) = [i \in Slot |-> m[i]]
  BY <1>1 DEF PostEntries
<1> QED BY <1>1, <1>2 DEF PostCcmds

LEMMA PostPart ==
  ASSUME NEW q \in Qid, NEW cq \in CQueue, NEW m \in [Slot -> Entry], NEW x \in Slot,
         NEW st, NEW hd, NEW rung, NEW ph, NEW b, CqPart(cq, m, st, hd, rung, ph, b, q),
         \A k \in 1 .. Len(cq.pending) : cq.pending[k].cdw0 \in 0 .. MAX_IO_SQCQ_PAIRS,
         q # 0 /\ st = "creating" => cq.pending = <<>>
  PROVE  /\ CqPart(PostCcmds(cq), PostEntries(cq, x, m), st, hd, rung, ph, b, q)
         /\ PostCcmds(cq) \in CQueue /\ PostEntries(cq, x, m) \in [Slot -> Entry]
         /\ PostCcmds(cq).size = cq.size
         /\ Made(cq) => Way(PostCcmds(cq), PostEntries(cq, x, m), hd, CqSize(q)) = Way(cq, m, hd, CqSize(q))
<1>1. CASE cq.pending = <<>>
  BY <1>1, PostNone
<1>2. CASE cq.pending # <<>>
  <2>1. Made(cq) /\ cq.size = CqSize(q) /\ cq.cqid = q
    BY <1>2 DEF CqPart
  <2>2. Heads(cq, hd, rung, b, q, CqSize(q)) /\ Phases(cq, m, hd, ph, CqSize(q))
    BY <2>1 DEF CqPart
  <2>3. InRing(cq, CqSize(q))
    BY <2>1, <2>2 DEF Heads, InRing
  <2>4. CqSize(q) \in Nat /\ CqSize(q) >= 2 /\ 0 .. CqSize(q) - 1 \subseteq Slot /\ Slot \subseteq Nat
    BY Sizes
  <2>5. PostCcmds(cq) \in CQueue /\ PostEntries(cq, x, m) \in [Slot -> Entry]
    BY <2>3, <2>4, PostTypes
  <2>6. Heads(PostCcmds(cq), hd, rung, b, q, CqSize(q))
    BY <2>1, <2>2, <2>4, PostHeads
  <2>7. Phases(PostCcmds(cq), PostEntries(cq, x, m), hd, ph, CqSize(q))
    BY <2>1, <2>2, <2>4, PostPhases
  <2>8. Way(PostCcmds(cq), PostEntries(cq, x, m), hd, CqSize(q)) = Way(cq, m, hd, CqSize(q))
    BY <2>1, <2>2, <2>4, PostWay
  <2>9. PostCcmds(cq).size = cq.size /\ PostCcmds(cq).cqid = cq.cqid
    BY <2>3, <2>4, PostIs DEF PostedBy
  <2>10. Made(PostCcmds(cq))
    BY <2>1, <2>9 DEF Made
  <2>11. CqPart(PostCcmds(cq), PostEntries(cq, x, m), st, hd, rung, ph, b, q)
    <3>1. PICK r : r = PostCcmds(cq)
      OBVIOUS
    <3>2. PICK w : w = PostEntries(cq, x, m)
      OBVIOUS
    <3>3. CqPart(r, w, st, hd, rung, ph, b, q)
      BY <1>2, <2>1, <2>6, <2>7, <2>9, <2>10, <3>1, <3>2 DEF CqPart
    <3> QED BY <3>1, <3>2, <3>3
  <2> QED BY <2>5, <2>8, <2>9, <2>11
<1> QED BY <1>1, <1>2

\* What is pending belongs to a queue that works.
LEMMA PendingUp ==
  ASSUME NEW e, NEW cm, NEW sm, NEW b, NEW g, Good(e, cm, sm, b, g), NEW q \in Qid,
         e.cqs[q].pending # <<>>
  PROVE  Up(g.sq[q], q)
<1>1. CqAt(e, cm, g, b, q) /\ SqAt(e, cm, sm, g, b, q)
  BY DEF Good, Inv
<1>2. Made(e.cqs[q])
  BY <1>1 DEF CqAt, CqPart
<1> QED BY <1>1, <1>2 DEF SqAt, SqPart, Quiet

\* The results of pending completions fit the entries.
LEMMA PendingData ==
  ASSUME NEW e, NEW cm, NEW sm, NEW b, NEW g, Good(e, cm, sm, b, g), NEW q \in Qid
  PROVE  \A k \in 1 .. Len(e.cqs[q].pending) : e.cqs[q].pending[k].cdw0 \in 0 .. MAX_IO_SQCQ_PAIRS
<1>1. CASE e.cqs[q].pending = <<>>
  BY <1>1
<1>2. CASE e.cqs[q].pending # <<>>
  <2>1. Up(g.sq[q], q)
    BY <1>2, PendingUp
  <2>2. /\ e.cqs[q].tail \in 0 .. CqSize(q) - 1 /\ g.head[q] \in 0 .. CqSize(q) - 1
        /\ Works(e.sqs[q], g.tail[q], WayOf(e, cm, g, q), UnfOf(e, sm, g, q), e.isp, g.out[q], b, q)
    BY <2>1, WorkSeqs
  <2>3. e.cqs[q] \in CQueue /\ cm[q] \in [Slot -> Entry]
    BY PartTypes DEF Good
  <2>4. CqSize(q) \in Nat /\ CqSize(q) >= 2 /\ 0 .. CqSize(q) - 1 \subseteq Slot
    BY Sizes
  <2>5. ASSUME NEW k \in 1 .. Len(e.cqs[q].pending)
        PROVE  \E l \in 1 .. Len(WayOf(e, cm, g, q)) : WayOf(e, cm, g, q)[l] = e.cqs[q].pending[k]
    <3>1. NewOf(e.cqs[q], g.head[q], CqSize(q)) + k \in 1 .. Len(WayOf(e, cm, g, q))
          /\ WayOf(e, cm, g, q)[NewOf(e.cqs[q], g.head[q], CqSize(q)) + k] = e.cqs[q].pending[k]
      BY <2>2, <2>3, <2>4, WayIs DEF WayOf
    <3> QED BY <3>1
  <2>6. \A l \in 1 .. Len(WayOf(e, cm, g, q)) : WayOf(e, cm, g, q)[l].cdw0 \in 0 .. MAX_IO_SQCQ_PAIRS
    BY <2>2 DEF Works, Known
  <2> QED BY <2>5, <2>6
<1> QED BY <1>1, <1>2

\* Driver f and memory fm after the queues Q were posted.
PostedAll(f, fm, e, cm, Q) ==
  /\ f = [e EXCEPT !.cqs = [q \in Qid |-> IF q \in Q THEN PostCcmds(e.cqs[q]) ELSE e.cqs[q]]]
  /\ fm = [q \in Qid |-> IF q \in Q THEN PostEntries(e.cqs[q], e.sqs[q].head, cm[q]) ELSE cm[q]]

LEMMA PostOne ==
  ASSUME NEW e, NEW cm, NEW sm, NEW b, NEW g, Good(e, cm, sm, b, g), NEW Q, NEW f, NEW fm,
         PostedAll(f, fm, e, cm, Q), NEW q \in Qid
  PROVE  /\ CqAt(f, fm, g, b, q) /\ SqAt(f, fm, sm, g, b, q) /\ f.cqs[q].size = e.cqs[q].size
         /\ f.cqs[q] \in CQueue /\ fm[q] \in [Slot -> Entry]
<1>1. CqAt(e, cm, g, b, q) /\ SqAt(e, cm, sm, g, b, q) /\ Typed(e, cm, sm, b, g)
  BY DEF Good, Inv
<1>2. /\ f.cqs[q] = IF q \in Q THEN PostCcmds(e.cqs[q]) ELSE e.cqs[q]
      /\ fm[q] = IF q \in Q THEN PostEntries(e.cqs[q], e.sqs[q].head, cm[q]) ELSE cm[q]
      /\ f.sqs = e.sqs /\ f.isp = e.isp
  BY <1>1 DEF PostedAll, Typed, Driver
<1>3. e.cqs[q] \in CQueue /\ cm[q] \in [Slot -> Entry] /\ e.sqs[q].head \in Slot
  BY <1>1, PartTypes
<1>4. CASE q \notin Q
  <2>1. f.cqs[q] = e.cqs[q] /\ fm[q] = cm[q]
    BY <1>2, <1>4
  <2> QED BY <1>1, <1>2, <1>3, <2>1 DEF CqAt, SqAt, WayOf, UnfOf
<1>5. CASE q \in Q
  <2>1. f.cqs[q] = PostCcmds(e.cqs[q]) /\ fm[q] = PostEntries(e.cqs[q], e.sqs[q].head, cm[q])
    BY <1>2, <1>5
  <2>2. CASE e.cqs[q].pending = <<>>
    <3>1. f.cqs[q] = e.cqs[q] /\ fm[q] = cm[q]
      BY <1>3, <2>1, <2>2, PostNone
    <3> QED BY <1>1, <1>2, <1>3, <3>1 DEF CqAt, SqAt, WayOf, UnfOf
  <2>3. CASE e.cqs[q].pending # <<>>
    <3>1. Up(g.sq[q], q) /\ (q # 0 => g.cq[q] = "live")
      BY <1>1, <2>3, PendingUp DEF SqAt, SqPart, Up
    <3>2. Made(e.cqs[q])
      BY <3>1, WorkSeqs
    <3>3. \A k \in 1 .. Len(e.cqs[q].pending) : e.cqs[q].pending[k].cdw0 \in 0 .. MAX_IO_SQCQ_PAIRS
      BY PendingData
    <3>4. CqPart(e.cqs[q], cm[q], g.cq[q], g.head[q], g.rung[q], g.phase[q], b, q)
      BY <1>1 DEF CqAt
    <3>5. q # 0 /\ g.cq[q] = "creating" => e.cqs[q].pending = <<>>
      BY <3>1
    <3>6. /\ CqPart(f.cqs[q], fm[q], g.cq[q], g.head[q], g.rung[q], g.phase[q], b, q)
          /\ f.cqs[q] \in CQueue /\ fm[q] \in [Slot -> Entry] /\ f.cqs[q].size = e.cqs[q].size
          /\ Way(f.cqs[q], fm[q], g.head[q], CqSize(q)) = Way(e.cqs[q], cm[q], g.head[q], CqSize(q))
      BY <1>3, <2>1, <3>2, <3>3, <3>4, <3>5, PostPart
    <3>7. WayOf(f, fm, g, q) = WayOf(e, cm, g, q) /\ UnfOf(f, sm, g, q) = UnfOf(e, sm, g, q)
      BY <1>2, <3>6 DEF WayOf, UnfOf
    <3>8. SqAt(f, fm, sm, g, b, q)
      BY <1>1, <1>2, <3>1, <3>7 DEF SqAt, SqPart
    <3> QED BY <3>6, <3>8 DEF CqAt
  <2> QED BY <2>2, <2>3
<1> QED BY <1>4, <1>5

\* Commands on queues depend on which queues exist only.
SameMade(e, f) ==
  \A q \in IoQid : Made(f.cqs[q]) = Made(e.cqs[q]) /\ Made(f.sqs[q]) = Made(e.sqs[q])

LEMMA AdminCmdSame ==
  ASSUME NEW e, NEW f, SameMade(e, f), NEW g, NEW c, NEW u, AdminCmd(c, u, e, g)
  PROVE  AdminCmd(c, u, f, g)
<1>1. c.op = "CREATE_CQ" \/ c.op = "DELETE_CQ" => Made(f.cqs[c.q]) = Made(e.cqs[c.q])
  BY DEF SameMade, AdminCmd
<1>2. c.op = "CREATE_SQ" \/ c.op = "DELETE_SQ" => Made(f.sqs[c.q]) = Made(e.sqs[c.q])
  BY DEF SameMade, AdminCmd
<1> QED BY <1>1, <1>2, Zenon DEF AdminCmd

LEMMA PostInv ==
  ASSUME NEW e, NEW cm, NEW sm, NEW b, NEW g, Good(e, cm, sm, b, g), NEW Q, NEW f, NEW fm,
         PostedAll(f, fm, e, cm, Q)
  PROVE  Good(f, fm, sm, b, g)
<1>1. Typed(e, cm, sm, b, g)
  BY DEF Good
<1>2. \A q \in Qid : /\ CqAt(f, fm, g, b, q) /\ SqAt(f, fm, sm, g, b, q)
                     /\ f.cqs[q].size = e.cqs[q].size
                     /\ f.cqs[q] \in CQueue /\ fm[q] \in [Slot -> Entry]
  BY PostOne
<1>3. /\ f.sqs = e.sqs /\ f.isp = e.isp /\ f.iocqCount = e.iocqCount /\ f.iosqCount = e.iosqCount
  BY <1>1 DEF PostedAll, Typed, Driver
<1>4. f \in Driver
  <2>1. [q \in Qid |-> IF q \in Q THEN PostCcmds(e.cqs[q]) ELSE e.cqs[q]] \in [Qid -> CQueue]
    BY <1>1, <1>2 DEF PostedAll, Typed, Driver
  <2> QED BY <1>1, <2>1 DEF PostedAll, Typed, Driver
<1>5. fm \in [Qid -> [Slot -> Entry]]
  BY <1>2 DEF PostedAll
<1>6. \A q \in Qid : Made(f.cqs[q]) <=> Made(e.cqs[q])
  BY <1>2 DEF Made
<1>7. Counts(f)
  <2>1. {q \in IoQid : Made(f.cqs[q])} = {q \in IoQid : Made(e.cqs[q])}
    BY <1>6, QidFacts
  <2> QED BY <1>3, <2>1 DEF Good, Inv, Counts
<1>8. AdminPart(UnfOf(f, sm, g, 0), g.out[0], f.sqs[0].head, f, g, b)
  <2>1. AdminPart(UnfOf(e, sm, g, 0), g.out[0], e.sqs[0].head, e, g, b)
    BY DEF Good, Inv
  <2>2. UnfOf(f, sm, g, 0) = UnfOf(e, sm, g, 0) /\ f.sqs[0].head = e.sqs[0].head
    BY <1>3 DEF UnfOf
  <2>3. SameMade(e, f)
    BY <1>2, <1>3, QidFacts DEF SameMade, Made
  <2>4. \A t \in Tag : AdminCmd(g.out[0][t], In(UnfOf(e, sm, g, 0), t), f, g)
    BY <2>1, <2>3, AdminCmdSame DEF AdminPart
  <2> QED BY <2>1, <2>2, <2>4 DEF AdminPart
<1> QED BY <1>1, <1>2, <1>4, <1>5, <1>7, <1>8 DEF Good, Typed, Inv

----------------------------------------------------------------------------
(* A doorbell is read.                                                     *)

LEMMA PopInv ==
  ASSUME NEW e, NEW cm, NEW sm, NEW b, NEW g, Good(e, cm, sm, b, g), b # <<>>
  PROVE  Good(e, cm, sm, Tail(b), g)
<1>1. b \in Seq(Door) /\ Typed(e, cm, sm, b, g)
  BY DEF Good, Typed
<1>2. PICK t : t = Tail(b)
  OBVIOUS
<1>3. /\ t \in Seq(Door)
      /\ \A i \in 1 .. Len(t) : i + 1 \in 1 .. Len(b) /\ t[i] = b[i + 1]
      /\ \A i, q : IsSq(t, i, q) => IsSq(b, i + 1, q)
      /\ \A i, q : IsCq(t, i, q) => IsCq(b, i + 1, q)
  BY <1>1, <1>2, PopIs
<1>4. \A q \in Qid : CqAt(e, cm, g, t, q) /\ SqAt(e, cm, sm, g, t, q)
  BY <1>1, <1>2, CqPop, SqPop DEF Good, Inv, CqAt, SqAt
<1>5. AdminPart(UnfOf(e, sm, g, 0), g.out[0], e.sqs[0].head, e, g, t)
  <2>1. PICK unf : unf = UnfOf(e, sm, g, 0)
    OBVIOUS
  <2>2. AdminPart(unf, g.out[0], e.sqs[0].head, e, g, b)
    BY <2>1 DEF Good, Inv
  <2>3. ASSUME NEW k \in 1 .. Len(unf), g.out[0][unf[k]].op = "DELETE_CQ",
               NEW i \in 1 .. Len(t), NEW j \in 1 .. Len(t), i < j, IsSq(t, i, 0),
               IsCq(t, j, g.out[0][unf[k]].q)
        PROVE  Off(e.sqs[0].head, t[i].value, ASQ_SIZE) < k
    <3>1. i + 1 \in 1 .. Len(b) /\ j + 1 \in 1 .. Len(b) /\ i + 1 < j + 1 /\ t[i] = b[i + 1]
      BY <1>3, <2>3
    <3>2. IsSq(b, i + 1, 0) /\ IsCq(b, j + 1, g.out[0][unf[k]].q)
      BY <1>3, <2>3
    <3> QED BY <2>2, <2>3, <3>1, <3>2 DEF AdminPart, Before
  <2>4. Before(unf, g.out[0], e.sqs[0].head, t)
    BY <2>3 DEF Before
  <2> QED BY <2>1, <2>2, <2>4 DEF AdminPart
<1>6. Typed(e, cm, sm, t, g)
  BY <1>1, <1>3 DEF Typed
<1> QED BY <1>2, <1>4, <1>5, <1>6 DEF Good, Inv

\* The command that is fetched next from queue q.
NextCid(e, sm, q) == sm[q][e.sqs[q].head]
NextCmd(e, sm, g, q) == g.out[q][NextCid(e, sm, q)]

\* A doorbell of queue q was read: there is a command to fetch, and if it
\* deletes a completion queue, no doorbell of that one is left.
Due(e, sm, g, b, q) ==
  /\ Up(g.sq[q], q) /\ e.sqs[q].head # g.tail[q]
  /\ \A i \in 1 .. Len(b) : IsSq(b, i, q) => 2 <= Off(e.sqs[q].head, b[i].value, SqSize(q))
  /\ q = 0 /\ NextCmd(e, sm, g, 0).op = "DELETE_CQ" =>
       \A i \in 1 .. Len(b) : ~IsCq(b, i, NextCmd(e, sm, g, 0).q)

\* The oldest command of a queue with commands not fetched.
LEMMA OldestIs ==
  ASSUME NEW e, NEW cm, NEW sm, NEW b, NEW g, Good(e, cm, sm, b, g), NEW q \in Qid,
         Up(g.sq[q], q), e.sqs[q].head # g.tail[q]
  PROVE  /\ UnfOf(e, sm, g, q) # <<>> /\ UnfOf(e, sm, g, q)[1] = NextCid(e, sm, q)
         /\ NextCid(e, sm, q) \in Tag /\ In(UnfOf(e, sm, g, q), NextCid(e, sm, q))
         /\ NextCmd(e, sm, g, q) # NoCmd /\ NextCmd(e, sm, g, q) \in Command
         /\ NextCmd(e, sm, g, q).cid = NextCid(e, sm, q)
         /\ ~Holds(WayOf(e, cm, g, q), NextCid(e, sm, q))
<1>1. /\ e.sqs[q].head \in 0 .. SqSize(q) - 1 /\ g.tail[q] \in 0 .. SqSize(q) - 1
      /\ UnfOf(e, sm, g, q) \in Seq(Tag)
      /\ Works(e.sqs[q], g.tail[q], WayOf(e, cm, g, q), UnfOf(e, sm, g, q), e.isp, g.out[q], b, q)
  BY WorkSeqs
<1>2. sm[q] \in [Slot -> Tag] /\ g.out[q] \in [Tag -> Command \cup {NoCmd}]
  BY PartTypes DEF Good
<1>3. SqSize(q) \in Nat /\ SqSize(q) >= 2 /\ 0 .. SqSize(q) - 1 \subseteq Slot
  BY Sizes
<1>4. NextCid(e, sm, q) \in Tag
  BY <1>1, <1>2, <1>3 DEF NextCid
<1>5. PICK r : r = [head |-> Fwd(e.sqs[q].head, 1, SqSize(q))]
  OBVIOUS
<1>6. UnfOf(e, sm, g, q) # <<>> /\ UnfOf(e, sm, g, q)[1] = NextCid(e, sm, q)
  <2>1. r.head = Fwd(e.sqs[q].head, 1, SqSize(q))
    BY <1>5
  <2>2. PICK sq : sq = e.sqs[q]
    OBVIOUS
  <2>3. PICK tl : tl = g.tail[q]
    OBVIOUS
  <2>4. PICK m : m = sm[q]
    OBVIOUS
  <2>5. PICK n : n = SqSize(q)
    OBVIOUS
  <2>6. /\ n \in Nat /\ n >= 2 /\ sq.head \in 0 .. n - 1 /\ tl \in 0 .. n - 1 /\ m \in [Slot -> Tag]
        /\ 0 .. n - 1 \subseteq Slot /\ sq.head # tl /\ r.head = Fwd(sq.head, 1, n)
    BY <1>1, <1>2, <1>3, <2>1, <2>2, <2>3, <2>4, <2>5
  <2>7. Unf(sq, m, tl, n) # <<>> /\ Unf(sq, m, tl, n)[1] = m[sq.head]
    BY <2>6, UnfFetch
  <2> QED BY <2>2, <2>3, <2>4, <2>5, <2>7 DEF UnfOf, NextCid
<1>7. In(UnfOf(e, sm, g, q), NextCid(e, sm, q))
  <2>1. 1 \in 1 .. Len(UnfOf(e, sm, g, q))
    BY <1>1, <1>6
  <2> QED BY <1>6, <2>1 DEF In
<1>8. NextCmd(e, sm, g, q) # NoCmd /\ ~Holds(WayOf(e, cm, g, q), NextCid(e, sm, q))
  BY <1>1, <1>4, <1>7 DEF Works, Once, OnePlace, NextCmd
<1>9. NextCmd(e, sm, g, q).cid = NextCid(e, sm, q)
  BY <1>1, <1>4, <1>8 DEF Works, Known, NextCmd
<1>10. NextCmd(e, sm, g, q) \in Command
  BY <1>2, <1>4, <1>8 DEF NextCmd
<1> QED BY <1>4, <1>6, <1>7, <1>8, <1>9, <1>10

LEMMA PopDue ==
  ASSUME NEW e, NEW cm, NEW sm, NEW b, NEW g, Good(e, cm, sm, b, g), b # <<>>,
         Head(b).kind = "SQ", NEW q \in Qid, q = Head(b).q
  PROVE  Due(e, sm, g, Tail(b), q)
<1>1. b \in Seq(Door)
  BY DEF Good, Typed
<1>2. PICK t : t = Tail(b)
  OBVIOUS
<1>3. /\ Len(b) \in Nat \ {0} /\ b[1] = Head(b)
      /\ \A i \in 1 .. Len(t) : i + 1 \in 1 .. Len(b) /\ t[i] = b[i + 1]
      /\ \A i : IsSq(t, i, q) => IsSq(b, i + 1, q)
      /\ \A i, p : IsCq(t, i, p) => IsCq(b, i + 1, p)
  BY <1>1, <1>2, PopIs
<1>4. 1 \in 1 .. Len(b) /\ IsSq(b, 1, q)
  BY <1>3 DEF IsSq
<1>5. Up(g.sq[q], q)
  BY <1>4 DEF Good, Inv, SqAt, SqPart, Quiet
<1>6. PICK hd : hd = e.sqs[q].head
  OBVIOUS
<1>7. PICK n : n = SqSize(q)
  OBVIOUS
<1>8. n \in Nat /\ n >= 2
  BY <1>7, Sizes
<1>9. /\ hd \in 0 .. n - 1 /\ g.tail[q] \in 0 .. n - 1
      /\ SqDoors(e.sqs[q], g.tail[q], b, q, n)
  BY <1>5, <1>6, <1>7, WorkSeqs DEF Works
<1>10. /\ b[1].value \in 0 .. n - 1
       /\ 1 <= Off(hd, b[1].value, n) /\ Off(hd, b[1].value, n) <= Off(hd, g.tail[q], n)
  BY <1>4, <1>6, <1>9 DEF SqDoors
<1>11. hd # g.tail[q]
  <2>1. SUFFICES ASSUME hd = g.tail[q] PROVE FALSE
    OBVIOUS
  <2>2. Off(hd, b[1].value, n) \in 0 .. n - 1
    BY <1>8, <1>9, <1>10 DEF Off
  <2>3. Off(hd, g.tail[q], n) = 0
    BY <1>9, <2>1 DEF Off
  <2> QED BY <1>10, <2>2, <2>3
<1>12. ASSUME NEW i \in 1 .. Len(t), IsSq(t, i, q)
       PROVE  2 <= Off(hd, t[i].value, n)
  <2>1. i + 1 \in 1 .. Len(b) /\ 1 < i + 1 /\ IsSq(b, i + 1, q) /\ t[i] = b[i + 1]
    BY <1>3, <1>12
  <2>2. Off(hd, b[1].value, n) < Off(hd, b[i + 1].value, n) /\ b[i + 1].value \in 0 .. n - 1
    BY <1>4, <1>6, <1>9, <2>1 DEF SqDoors
  <2>3. Off(hd, b[1].value, n) \in Int /\ Off(hd, b[i + 1].value, n) \in Int
    <3>1. hd \in Int /\ n \in Int
      BY <1>8, <1>9
    <3>2. PICK y \in Int : y = b[1].value
      BY <1>8, <1>10
    <3>3. PICK z \in Int : z = b[i + 1].value
      BY <1>8, <2>2
    <3>4. Off(hd, y, n) \in Int /\ Off(hd, z, n) \in Int
      BY <3>1, OffInt
    <3> QED BY <3>2, <3>3, <3>4
  <2> QED BY <1>10, <2>1, <2>2, <2>3
<1>13. ASSUME q = 0, NextCmd(e, sm, g, 0).op = "DELETE_CQ",
              NEW i \in 1 .. Len(t), IsCq(t, i, NextCmd(e, sm, g, 0).q)
       PROVE  FALSE
  <2>1. PICK unf : unf = UnfOf(e, sm, g, 0)
    OBVIOUS
  <2>2. unf # <<>> /\ unf[1] = NextCid(e, sm, 0) /\ unf \in Seq(Tag)
    BY <1>5, <1>6, <1>11, <1>13, <2>1, OldestIs, WorkSeqs
  <2>3. 1 \in 1 .. Len(unf) /\ g.out[0][unf[1]].op = "DELETE_CQ"
    BY <1>13, <2>2 DEF NextCmd
  <2>4. Before(unf, g.out[0], hd, b)
    BY <1>6, <1>13, <2>1 DEF Good, Inv, AdminPart
  <2>5. i + 1 \in 1 .. Len(b) /\ 1 < i + 1 /\ IsCq(b, i + 1, g.out[0][unf[1]].q)
    BY <1>3, <1>13, <2>2 DEF NextCmd
  <2>6. Off(hd, b[1].value, ASQ_SIZE) < 1
    BY <1>4, <1>13, <2>3, <2>4, <2>5 DEF Before
  <2>7. n = ASQ_SIZE
    BY <1>7, <1>13, QidFacts
  <2>8. Off(hd, b[1].value, n) \in Int
    BY <1>8, <1>9, <1>10 DEF Off
  <2> QED BY <1>10, <2>6, <2>7, <2>8
<1> QED BY <1>2, <1>5, <1>6, <1>7, <1>11, <1>12, <1>13 DEF Due

\* The doorbells of the other commands, once the oldest is fetched.
LEMMA FetchDoors ==
  ASSUME NEW n \in Nat, n >= 2, NEW sq, NEW r, NEW tl \in 0 .. n - 1, NEW b, NEW q,
         sq.head \in 0 .. n - 1, sq.head # tl, r.head = Fwd(sq.head, 1, n),
         SqDoors(sq, tl, b, q, n),
         \A i \in 1 .. Len(b) : IsSq(b, i, q) => 2 <= Off(sq.head, b[i].value, n)
  PROVE  SqDoors(r, tl, b, q, n)
<1>1. Off(r.head, tl, n) = Off(sq.head, tl, n) - 1 /\ Off(sq.head, tl, n) \in Int
  <2>1. Off(sq.head, tl, n) \in Int
    BY DEF Off
  <2> QED BY <2>1, OffNext
<1>2. ASSUME NEW i \in 1 .. Len(b), IsSq(b, i, q)
      PROVE  /\ b[i].value \in 0 .. n - 1 /\ Off(r.head, b[i].value, n) = Off(sq.head, b[i].value, n) - 1
             /\ Off(sq.head, b[i].value, n) \in Int /\ 2 <= Off(sq.head, b[i].value, n)
             /\ Off(sq.head, b[i].value, n) <= Off(sq.head, tl, n)
  <2>1. /\ b[i].value \in 0 .. n - 1 /\ 2 <= Off(sq.head, b[i].value, n)
        /\ Off(sq.head, b[i].value, n) <= Off(sq.head, tl, n)
    BY <1>2 DEF SqDoors
  <2>2. b[i].value # sq.head /\ Off(sq.head, b[i].value, n) \in Int
    BY <2>1 DEF Off
  <2>3. Off(r.head, b[i].value, n) = Off(sq.head, b[i].value, n) - 1
    BY <2>1, <2>2, OffNext
  <2> QED BY <2>1, <2>2, <2>3
<1>3. ASSUME NEW i \in 1 .. Len(b), IsSq(b, i, q)
      PROVE  /\ b[i].value \in 0 .. n - 1
             /\ 1 <= Off(r.head, b[i].value, n) /\ Off(r.head, b[i].value, n) <= Off(r.head, tl, n)
  BY <1>1, <1>2, <1>3
<1>4. ASSUME NEW i \in 1 .. Len(b), NEW j \in 1 .. Len(b), i < j, IsSq(b, i, q), IsSq(b, j, q)
      PROVE  Off(r.head, b[i].value, n) < Off(r.head, b[j].value, n)
  <2>1. Off(sq.head, b[i].value, n) < Off(sq.head, b[j].value, n)
    BY <1>4 DEF SqDoors
  <2> QED BY <1>2, <1>4, <2>1
<1> QED BY <1>3, <1>4 DEF SqDoors

----------------------------------------------------------------------------
(* A command is fetched.                                                   *)

\* Driver f has fetched the oldest command of queue q.
Fetched(f, e, q) ==
  /\ f.sqs[q].head = Fwd(e.sqs[q].head, 1, SqSize(q))
  /\ f.sqs[q].size = e.sqs[q].size /\ f.sqs[q].cqid = e.sqs[q].cqid

\* Driver f has one more completion pending in queue q.
Appended(f, e, q, it) ==
  /\ f.cqs[q].pending = Append(e.cqs[q].pending, it)
  /\ f.cqs[q].cqid = e.cqs[q].cqid /\ f.cqs[q].phase = e.cqs[q].phase
  /\ f.cqs[q].size = e.cqs[q].size /\ f.cqs[q].head = e.cqs[q].head /\ f.cqs[q].tail = e.cqs[q].tail

LEMMA FetchUnf ==
  ASSUME NEW e, NEW cm, NEW sm, NEW b, NEW g, Good(e, cm, sm, b, g), NEW q \in Qid,
         Up(g.sq[q], q), e.sqs[q].head # g.tail[q], NEW f, Fetched(f, e, q)
  PROVE  UnfOf(f, sm, g, q) = Tail(UnfOf(e, sm, g, q)) /\ f.sqs[q].head \in 0 .. SqSize(q) - 1
<1>1. e.sqs[q].head \in 0 .. SqSize(q) - 1 /\ g.tail[q] \in 0 .. SqSize(q) - 1
  BY WorkSeqs
<1>2. sm[q] \in [Slot -> Tag]
  BY PartTypes DEF Good
<1>3. SqSize(q) \in Nat /\ SqSize(q) >= 2 /\ 0 .. SqSize(q) - 1 \subseteq Slot
  BY Sizes
<1>4. PICK sq : sq = e.sqs[q]
  OBVIOUS
<1>5. PICK r : r = f.sqs[q]
  OBVIOUS
<1>6. PICK tl : tl = g.tail[q]
  OBVIOUS
<1>7. PICK m : m = sm[q]
  OBVIOUS
<1>8. PICK n : n = SqSize(q)
  OBVIOUS
<1>9. /\ n \in Nat /\ n >= 2 /\ sq.head \in 0 .. n - 1 /\ tl \in 0 .. n - 1 /\ m \in [Slot -> Tag]
      /\ 0 .. n - 1 \subseteq Slot /\ sq.head # tl /\ r.head = Fwd(sq.head, 1, n)
  BY <1>1, <1>2, <1>3, <1>4, <1>5, <1>6, <1>7, <1>8 DEF Fetched
<1>10. Unf(r, m, tl, n) = Tail(Unf(sq, m, tl, n)) /\ r.head \in 0 .. n - 1
  BY <1>9, UnfFetch
<1> QED BY <1>4, <1>5, <1>6, <1>7, <1>8, <1>10 DEF UnfOf

LEMMA FetchPart ==
  ASSUME NEW e, NEW cm, NEW sm, NEW b, NEW g, Good(e, cm, sm, b, g), NEW q \in Qid,
         Due(e, sm, g, b, q), NEW f, Fetched(f, e, q),
         Once(WayOf(f, cm, g, q), Tail(UnfOf(e, sm, g, q)), f.isp, g.out[q], q),
         Known(WayOf(f, cm, g, q), g.out[q], q)
  PROVE  SqAt(f, cm, sm, g, b, q)
<1>1. Up(g.sq[q], q) /\ e.sqs[q].head # g.tail[q]
  BY DEF Due
<1>2. UnfOf(f, sm, g, q) = Tail(UnfOf(e, sm, g, q)) /\ f.sqs[q].head \in 0 .. SqSize(q) - 1
  BY <1>1, FetchUnf
<1>3. /\ e.sqs[q].head \in 0 .. SqSize(q) - 1 /\ g.tail[q] \in 0 .. SqSize(q) - 1
      /\ SqDoors(e.sqs[q], g.tail[q], b, q, SqSize(q)) /\ Made(e.sqs[q])
  BY <1>1, WorkSeqs DEF Works
<1>4. SqSize(q) \in Nat /\ SqSize(q) >= 2
  BY Sizes
<1>5. SqDoors(f.sqs[q], g.tail[q], b, q, SqSize(q))
  <2>1. PICK sq : sq = e.sqs[q]
    OBVIOUS
  <2>2. PICK r : r = f.sqs[q]
    OBVIOUS
  <2>3. /\ sq.head \in 0 .. SqSize(q) - 1 /\ sq.head # g.tail[q]
        /\ r.head = Fwd(sq.head, 1, SqSize(q)) /\ SqDoors(sq, g.tail[q], b, q, SqSize(q))
        /\ \A i \in 1 .. Len(b) : IsSq(b, i, q) => 2 <= Off(sq.head, b[i].value, SqSize(q))
    BY <1>1, <1>3, <2>1, <2>2 DEF Due, Fetched
  <2>4. SqDoors(r, g.tail[q], b, q, SqSize(q))
    BY <1>3, <1>4, <2>3, FetchDoors
  <2> QED BY <2>2, <2>4
<1>6. Works(f.sqs[q], g.tail[q], WayOf(f, cm, g, q), UnfOf(f, sm, g, q), f.isp, g.out[q], b, q)
  BY <1>2, <1>3, <1>5 DEF Works
<1>7. Made(f.sqs[q])
  BY <1>3 DEF Made, Fetched
<1>8. SqAt(e, cm, sm, g, b, q)
  BY DEF Good, Inv
<1>9. /\ q # 0 /\ g.sq[q] # "none" => g.cq[q] = "live"
      /\ f.sqs[q].size = SqSize(q) /\ f.sqs[q].cqid = q
  BY <1>3, <1>8 DEF SqAt, SqPart, Fetched
<1>10. q # 0 => g.sq[q] = "live"
  BY <1>1 DEF Up
<1> QED BY <1>1, <1>6, <1>7, <1>9, <1>10 DEF SqAt, SqPart

\* Nothing in the part of a completion queue depends on what is pending.
LEMMA CqPending ==
  ASSUME NEW cq, NEW r, NEW m, NEW st, NEW hd, NEW rung, NEW ph, NEW b, NEW q,
         CqPart(cq, m, st, hd, rung, ph, b, q), Made(cq),
         r.cqid = cq.cqid, r.phase = cq.phase, r.size = cq.size, r.head = cq.head, r.tail = cq.tail
  PROVE  CqPart(r, m, st, hd, rung, ph, b, q)
<1>1. Made(r)
  BY DEF Made
<1>2. Heads(r, hd, rung, b, q, CqSize(q))
  BY DEF CqPart, Heads
<1>3. Phases(r, m, hd, ph, CqSize(q))
  BY DEF CqPart, Phases
<1> QED BY <1>1, <1>2, <1>3 DEF CqPart

\* A completion that finds room in the pending ring.
LEMMA PendingRoom ==
  ASSUME NEW e, NEW cm, NEW sm, NEW b, NEW g, Good(e, cm, sm, b, g), NEW q \in Qid, Up(g.sq[q], q),
         NEW x \in Tag, g.out[q][x] # NoCmd, ~Holds(WayOf(e, cm, g, q), x)
  PROVE  Len(e.cqs[q].pending) + 1 # e.cqs[q].size
<1>1. /\ Made(e.cqs[q]) /\ e.cqs[q].tail \in 0 .. CqSize(q) - 1 /\ g.head[q] \in 0 .. CqSize(q) - 1
      /\ WayOf(e, cm, g, q) \in Seq(Item)
      /\ Works(e.sqs[q], g.tail[q], WayOf(e, cm, g, q), UnfOf(e, sm, g, q), e.isp, g.out[q], b, q)
  BY WorkSeqs
<1>2. e.cqs[q] \in CQueue /\ cm[q] \in [Slot -> Entry] /\ e.cqs[q].pending \in Seq(Item)
  BY PartTypes DEF Good
<1>3. CqSize(q) \in Nat /\ CqSize(q) >= 2 /\ 0 .. CqSize(q) - 1 \subseteq Slot
      /\ SqSize(q) \in Nat /\ CqSize(q) >= SqSize(q)
  BY Sizes
<1>4. Len(WayOf(e, cm, g, q)) <= SqSize(q) - 2
  BY <1>1, WayRoom DEF Works
<1>5. /\ NewOf(e.cqs[q], g.head[q], CqSize(q)) \in 0 .. CqSize(q) - 1
      /\ Len(WayOf(e, cm, g, q)) = NewOf(e.cqs[q], g.head[q], CqSize(q)) + Len(e.cqs[q].pending)
  BY <1>1, <1>2, <1>3, WayIs DEF WayOf
<1>6. e.cqs[q].size = CqSize(q)
  BY <1>1 DEF Good, Inv, CqAt, CqPart
<1>7. Len(e.cqs[q].pending) \in Nat
  BY <1>2
<1>8. PICK w \in Nat : w = Len(WayOf(e, cm, g, q))
  BY <1>1
<1>9. PICK k \in Nat : k = Len(e.cqs[q].pending)
  BY <1>7
<1>10. k <= w /\ w <= SqSize(q) - 2
  BY <1>3, <1>4, <1>5, <1>8, <1>9
<1> QED BY <1>3, <1>6, <1>9, <1>10

LEMMA AppendWay ==
  ASSUME NEW e, NEW cm, NEW sm, NEW b, NEW g, Good(e, cm, sm, b, g), NEW q \in Qid, Up(g.sq[q], q),
         NEW f, NEW it \in Item, Appended(f, e, q, it), f.cqs[q] \in CQueue
  PROVE  WayOf(f, cm, g, q) = Append(WayOf(e, cm, g, q), it) /\ CqAt(f, cm, g, b, q)
<1>1. /\ Made(e.cqs[q]) /\ e.cqs[q].tail \in 0 .. CqSize(q) - 1 /\ g.head[q] \in 0 .. CqSize(q) - 1
  BY WorkSeqs
<1>2. e.cqs[q] \in CQueue /\ cm[q] \in [Slot -> Entry]
  BY PartTypes DEF Good
<1>3. CqSize(q) \in Nat /\ CqSize(q) >= 2 /\ 0 .. CqSize(q) - 1 \subseteq Slot
  BY Sizes
<1>4. PICK cq : cq = e.cqs[q]
  OBVIOUS
<1>5. PICK r : r = f.cqs[q]
  OBVIOUS
<1>6. r.tail = cq.tail /\ r.pending = Append(cq.pending, it)
  BY <1>4, <1>5 DEF Appended
<1>7. cq \in CQueue /\ r \in CQueue /\ cq.tail \in 0 .. CqSize(q) - 1
  BY <1>1, <1>2, <1>4, <1>5
<1>8. Way(r, cm[q], g.head[q], CqSize(q)) = Append(Way(cq, cm[q], g.head[q], CqSize(q)), it)
  <2>1. PICK n : n = CqSize(q)
    OBVIOUS
  <2>2. PICK hd : hd = g.head[q]
    OBVIOUS
  <2>3. PICK m : m = cm[q]
    OBVIOUS
  <2>4. /\ n \in Nat /\ n >= 2 /\ cq.tail \in 0 .. n - 1 /\ hd \in 0 .. n - 1
        /\ m \in [Slot -> Entry] /\ 0 .. n - 1 \subseteq Slot
    BY <1>1, <1>2, <1>3, <1>7, <2>1, <2>2, <2>3
  <2>5. Way(r, m, hd, n) = Append(Way(cq, m, hd, n), it)
    BY <1>6, <1>7, <2>4, WayEnqueue
  <2> QED BY <2>1, <2>2, <2>3, <2>5
<1>9. CqPart(cq, cm[q], g.cq[q], g.head[q], g.rung[q], g.phase[q], b, q)
  BY <1>4 DEF Good, Inv, CqAt
<1>10. CqPart(r, cm[q], g.cq[q], g.head[q], g.rung[q], g.phase[q], b, q)
  <2>1. r.cqid = cq.cqid /\ r.phase = cq.phase /\ r.size = cq.size /\ r.head = cq.head /\ Made(cq)
    BY <1>1, <1>4, <1>5 DEF Appended
  <2> QED BY <1>6, <1>9, <2>1, CqPending
<1> QED BY <1>4, <1>5, <1>8, <1>10 DEF WayOf, CqAt

\* A completion may carry result w.
Result(w) == w \in 0 .. MAX_IO_SQCQ_PAIRS

LEMMA KnownAppend ==
  ASSUME NEW way \in Seq(Item), NEW out, NEW q, Known(way, out, q), NEW it \in Item,
         Result(it.cdw0)
  PROVE  Known(Append(way, it), out, q)
<1>1. PICK w : w = Append(way, it)
  OBVIOUS
<1>2. ASSUME NEW k \in 1 .. Len(w)
      PROVE  /\ w[k].cdw0 \in 0 .. MAX_IO_SQCQ_PAIRS
  <2>1. CASE k = Len(way) + 1
    <3>1. w[k] = it
      BY <1>1, <2>1
    <3> QED BY <3>1 DEF Result
  <2>2. CASE k # Len(way) + 1
    <3>1. k \in 1 .. Len(way) /\ w[k] = way[k]
      BY <1>1, <2>2
    <3> QED BY <3>1 DEF Known
  <2> QED BY <2>1, <2>2
<1> QED BY <1>1, <1>2 DEF Known

\* The command is answered, ...
LEMMA AnswerPart ==
  ASSUME NEW e, NEW cm, NEW sm, NEW b, NEW g, Good(e, cm, sm, b, g), NEW q \in Qid,
         Due(e, sm, g, b, q), NEW f, Fetched(f, e, q),
         NEW it \in Item, Appended(f, e, q, it), f.cqs[q] \in CQueue, f.isp = e.isp,
         it.cid = NextCid(e, sm, q), Result(it.cdw0)
  PROVE  CqAt(f, cm, g, b, q) /\ SqAt(f, cm, sm, g, b, q)
<1>1. Up(g.sq[q], q) /\ e.sqs[q].head # g.tail[q]
  BY DEF Due
<1>2. WayOf(f, cm, g, q) = Append(WayOf(e, cm, g, q), it) /\ CqAt(f, cm, g, b, q)
  BY <1>1, AppendWay
<1>3. /\ WayOf(e, cm, g, q) \in Seq(Item) /\ UnfOf(e, sm, g, q) \in Seq(Tag)
      /\ Once(WayOf(e, cm, g, q), UnfOf(e, sm, g, q), e.isp, g.out[q], q)
      /\ Known(WayOf(e, cm, g, q), g.out[q], q)
  BY <1>1, WorkSeqs DEF Works
<1>4. UnfOf(e, sm, g, q) # <<>> /\ UnfOf(e, sm, g, q)[1] = it.cid
  BY <1>1, OldestIs
<1>5. Once(WayOf(f, cm, g, q), Tail(UnfOf(e, sm, g, q)), f.isp, g.out[q], q)
  BY <1>2, <1>3, <1>4, OnceAnswer
<1>6. Known(WayOf(f, cm, g, q), g.out[q], q)
  BY <1>2, <1>3, KnownAppend DEF NextCmd
<1> QED BY <1>2, <1>5, <1>6, FetchPart

\* ... or handed to the in-storage-processing thread, ...
LEMMA GivePart ==
  ASSUME NEW e, NEW cm, NEW sm, NEW b, NEW g, Good(e, cm, sm, b, g), NEW q \in Qid,
         Due(e, sm, g, b, q), NEW f, Fetched(f, e, q), f.cqs[q] = e.cqs[q],
         f.isp = e.isp \cup {[cqid |-> q, cid |-> NextCid(e, sm, q)]}
  PROVE  CqAt(f, cm, g, b, q) /\ SqAt(f, cm, sm, g, b, q)
<1>1. Up(g.sq[q], q) /\ e.sqs[q].head # g.tail[q]
  BY DEF Due
<1>2. WayOf(f, cm, g, q) = WayOf(e, cm, g, q) /\ CqAt(f, cm, g, b, q)
  BY DEF WayOf, CqAt, Good, Inv
<1>3. /\ WayOf(e, cm, g, q) \in Seq(Item) /\ UnfOf(e, sm, g, q) \in Seq(Tag)
      /\ Once(WayOf(e, cm, g, q), UnfOf(e, sm, g, q), e.isp, g.out[q], q)
      /\ Known(WayOf(e, cm, g, q), g.out[q], q)
  BY <1>1, WorkSeqs DEF Works
<1>4. UnfOf(e, sm, g, q) # <<>> /\ UnfOf(e, sm, g, q)[1] = NextCid(e, sm, q)
  BY <1>1, OldestIs
<1>5. Once(WayOf(f, cm, g, q), Tail(UnfOf(e, sm, g, q)), f.isp, g.out[q], q)
  BY <1>2, <1>3, <1>4, OnceGive
<1> QED BY <1>2, <1>3, <1>5, FetchPart

\* ... or, where the kind of an identify command is unknown, dropped.
LEMMA DropPart ==
  ASSUME NEW e, NEW cm, NEW sm, NEW b, NEW g, Good(e, cm, sm, b, g), NEW q \in Qid,
         Due(e, sm, g, b, q), NEW f, Fetched(f, e, q), f.cqs[q] = e.cqs[q], f.isp = e.isp,
         ~Answered(NextCmd(e, sm, g, q))
  PROVE  CqAt(f, cm, g, b, q) /\ SqAt(f, cm, sm, g, b, q)
<1>1. Up(g.sq[q], q) /\ e.sqs[q].head # g.tail[q]
  BY DEF Due
<1>2. WayOf(f, cm, g, q) = WayOf(e, cm, g, q) /\ CqAt(f, cm, g, b, q)
  BY DEF WayOf, CqAt, Good, Inv
<1>3. /\ WayOf(e, cm, g, q) \in Seq(Item) /\ UnfOf(e, sm, g, q) \in Seq(Tag)
      /\ Once(WayOf(e, cm, g, q), UnfOf(e, sm, g, q), e.isp, g.out[q], q)
      /\ Known(WayOf(e, cm, g, q), g.out[q], q)
  BY <1>1, WorkSeqs DEF Works
<1>4. UnfOf(e, sm, g, q) # <<>> /\ ~Answered(g.out[q][UnfOf(e, sm, g, q)[1]])
  BY <1>1, OldestIs DEF NextCmd
<1>5. Once(WayOf(f, cm, g, q), Tail(UnfOf(e, sm, g, q)), f.isp, g.out[q], q)
  BY <1>2, <1>3, <1>4, OnceDrop
<1> QED BY <1>2, <1>3, <1>5, FetchPart

\* A queue the driver does not touch.
LEMMA OtherPart ==
  ASSUME NEW e, NEW cm, NEW sm, NEW b, NEW g, Good(e, cm, sm, b, g), NEW q \in Qid,
         NEW f, f.sqs[q] = e.sqs[q], f.cqs[q] = e.cqs[q],
         \A t \in Tag : AtIspOf(f.isp, q, t) <=> AtIspOf(e.isp, q, t)
  PROVE  CqAt(f, cm, g, b, q) /\ SqAt(f, cm, sm, g, b, q)
<1>1. CqAt(e, cm, g, b, q) /\ SqAt(e, cm, sm, g, b, q)
  BY DEF Good, Inv
<1>2. CqAt(f, cm, g, b, q)
  BY <1>1 DEF CqAt
<1>3. WayOf(f, cm, g, q) = WayOf(e, cm, g, q) /\ UnfOf(f, sm, g, q) = UnfOf(e, sm, g, q)
  BY DEF WayOf, UnfOf
<1>4. SqPart(f.sqs[q], f.cqs[q], WayOf(f, cm, g, q), UnfOf(f, sm, g, q), e.isp, g.sq[q], g.cq[q],
             g.head[q], g.tail[q], g.out[q], b, q)
  BY <1>1, <1>3 DEF SqAt
<1> QED BY <1>2, <1>4, SqIsp DEF SqAt

\* What a command on no queue leaves alone.
SameCounts(f, e) == f.iocqCount = e.iocqCount /\ f.iosqCount = e.iosqCount

LEMMA CountsKeep ==
  ASSUME NEW e, NEW f, SameMade(e, f), SameCounts(f, e), Counts(e)
  PROVE  Counts(f)
<1>1. {q \in IoQid : Made(f.cqs[q])} = {q \in IoQid : Made(e.cqs[q])}
  BY DEF SameMade
<1>2. {q \in IoQid : Made(f.sqs[q])} = {q \in IoQid : Made(e.sqs[q])}
  BY DEF SameMade
<1> QED BY <1>1, <1>2 DEF Counts, SameCounts

LEMMA AdminKeep ==
  ASSUME NEW e, NEW cm, NEW sm, NEW b, NEW g, Good(e, cm, sm, b, g),
         NEW f, f.sqs[0] = e.sqs[0], SameMade(e, f)
  PROVE  AdminPart(UnfOf(f, sm, g, 0), g.out[0], f.sqs[0].head, f, g, b)
<1>1. AdminPart(UnfOf(e, sm, g, 0), g.out[0], e.sqs[0].head, e, g, b)
  BY DEF Good, Inv
<1>2. UnfOf(f, sm, g, 0) = UnfOf(e, sm, g, 0) /\ f.sqs[0].head = e.sqs[0].head
  BY DEF UnfOf
<1>3. \A t \in Tag : AdminCmd(g.out[0][t], In(UnfOf(e, sm, g, 0), t), f, g)
  BY <1>1, AdminCmdSame DEF AdminPart
<1> QED BY <1>1, <1>2, <1>3 DEF AdminPart

\* The admin queue after a command of it was fetched.
LEMMA AdminFetch ==
  ASSUME NEW e, NEW cm, NEW sm, NEW b, NEW g, Good(e, cm, sm, b, g), Due(e, sm, g, b, 0),
         NEW f, Fetched(f, e, 0),
         \A t \in Tag \ {NextCid(e, sm, 0)} : AdminCmd(g.out[0][t], In(UnfOf(e, sm, g, 0), t), f, g),
         AdminCmd(NextCmd(e, sm, g, 0), FALSE, f, g)
  PROVE  AdminPart(UnfOf(f, sm, g, 0), g.out[0], f.sqs[0].head, f, g, b)
<1>1. 0 \in Qid /\ SqSize(0) = ASQ_SIZE /\ ASQ_SIZE \in Nat /\ ASQ_SIZE >= 2
  BY QidFacts, Sizes
<1>2. Up(g.sq[0], 0) /\ e.sqs[0].head # g.tail[0]
  BY DEF Due
<1>3. /\ e.sqs[0].head \in 0 .. ASQ_SIZE - 1 /\ UnfOf(e, sm, g, 0) \in Seq(Tag)
      /\ Works(e.sqs[0], g.tail[0], WayOf(e, cm, g, 0), UnfOf(e, sm, g, 0), e.isp, g.out[0], b, 0)
  BY <1>1, <1>2, WorkSeqs
<1>4. AdminPart(UnfOf(e, sm, g, 0), g.out[0], e.sqs[0].head, e, g, b)
  BY DEF Good, Inv
<1>5. PICK unf : unf = UnfOf(e, sm, g, 0)
  OBVIOUS
<1>6. unf \in Seq(Tag) /\ unf # <<>> /\ unf[1] = NextCid(e, sm, 0) /\ UnfInj(unf)
  BY <1>1, <1>2, <1>3, <1>5, OldestIs DEF Works, Once
<1>7. UnfOf(f, sm, g, 0) = Tail(unf)
  BY <1>1, <1>2, <1>5, FetchUnf
<1>8. \A t : In(Tail(unf), t) <=> In(unf, t) /\ unf[1] # t
  BY <1>6, UnfTail
<1>9. ASSUME NEW t \in Tag PROVE AdminCmd(g.out[0][t], In(Tail(unf), t), f, g)
  <2>1. CASE t = unf[1]
    <3>1. In(Tail(unf), t) = FALSE
      BY <1>8, <2>1 DEF In
    <3> QED BY <1>6, <2>1, <3>1 DEF NextCmd
  <2>2. CASE t # unf[1]
    <3>1. In(Tail(unf), t) = In(unf, t)
      BY <1>8, <2>2 DEF In
    <3>2. AdminCmd(g.out[0][t], In(unf, t), f, g)
      BY <1>5, <1>6, <2>2
    <3> QED BY <3>1, <3>2
  <2> QED BY <2>1, <2>2
<1>10. Before(Tail(unf), g.out[0], f.sqs[0].head, b)
  <2>1. PICK u : u = Tail(unf)
    OBVIOUS
  <2>2. \A k \in 1 .. Len(u) : k + 1 \in 1 .. Len(unf) /\ u[k] = unf[k + 1]
    BY <1>6, <2>1
  <2>3. ASSUME NEW k \in 1 .. Len(u), g.out[0][u[k]].op = "DELETE_CQ",
               NEW i \in 1 .. Len(b), NEW j \in 1 .. Len(b), i < j, IsSq(b, i, 0),
               IsCq(b, j, g.out[0][u[k]].q)
        PROVE  Off(f.sqs[0].head, b[i].value, ASQ_SIZE) < k
    <3>1. k + 1 \in 1 .. Len(unf) /\ u[k] = unf[k + 1] /\ k \in Int
      BY <2>2
    <3>2. Off(e.sqs[0].head, b[i].value, ASQ_SIZE) < k + 1
      BY <1>4, <1>5, <2>3, <3>1 DEF AdminPart, Before
    <3>3. b[i].value \in 0 .. ASQ_SIZE - 1 /\ 2 <= Off(e.sqs[0].head, b[i].value, ASQ_SIZE)
      BY <1>1, <1>3, <2>3 DEF Works, SqDoors, Due
    <3>4. PICK hd : hd = e.sqs[0].head
      OBVIOUS
    <3>5. PICK v : v = b[i].value
      OBVIOUS
    <3>6. hd \in 0 .. ASQ_SIZE - 1 /\ v \in 0 .. ASQ_SIZE - 1 /\ 2 <= Off(hd, v, ASQ_SIZE) /\ Off(hd, v, ASQ_SIZE) < k + 1
      BY <1>3, <3>2, <3>3, <3>4, <3>5
    <3>7. hd # v /\ Off(hd, v, ASQ_SIZE) \in Int
      BY <1>1, <3>6 DEF Off
    <3>8. Off(Fwd(hd, 1, ASQ_SIZE), v, ASQ_SIZE) = Off(hd, v, ASQ_SIZE) - 1
      BY <1>1, <3>6, <3>7, OffNext
    <3>9. Off(Fwd(hd, 1, ASQ_SIZE), v, ASQ_SIZE) < k
      BY <3>1, <3>6, <3>7, <3>8
    <3> QED BY <1>1, <3>4, <3>5, <3>9 DEF Fetched
  <2>4. Before(u, g.out[0], f.sqs[0].head, b)
    BY <2>3 DEF Before
  <2> QED BY <2>1, <2>4
<1> QED BY <1>4, <1>7, <1>9, <1>10 DEF AdminPart

----------------------------------------------------------------------------
(* The handlers.                                                           *)

\* f differs from e in the queues only.
SameRest(f, e) == SameCounts(f, e) /\ f.isp = e.isp /\ f.code_size = e.code_size

LEMMA FetchIs ==
  ASSUME NEW e \in Driver, NEW q \in Qid, NEW v \in Slot, e.sqs[q].size = SqSize(q),
         e.sqs[q].head \in 0 .. SqSize(q) - 1,
         NEW s, s = Fetch([e EXCEPT !.sqs[q].tail = v], q)
  PROVE  /\ s \in Driver /\ Fetched(s, e, q) /\ s.cqs = e.cqs /\ SameRest(s, e)
         /\ \A p \in Qid \ {q} : s.sqs[p] = e.sqs[p]
<1>1. /\ SqSize(q) \in Nat /\ SqSize(q) >= 2 /\ 0 .. SqSize(q) - 1 \subseteq Slot
  BY Sizes
<1>2. e.sqs \in [Qid -> SQueue] /\ e.sqs[q] \in SQueue
  BY DEF Driver
<1>3. PICK r : r = [e.sqs[q] EXCEPT !.tail = v]
  OBVIOUS
<1>4. r \in SQueue /\ r.head = e.sqs[q].head /\ r.size = e.sqs[q].size /\ r.cqid = e.sqs[q].cqid
  BY <1>2, <1>3 DEF SQueue
<1>5. PICK x : x = [e EXCEPT !.sqs = [e.sqs EXCEPT ![q] = r]]
  OBVIOUS
<1>6. [e EXCEPT !.sqs[q].tail = v] = x
  BY <1>2, <1>3, <1>5
<1>7. x \in Driver /\ x.sqs[q] = r /\ x.cqs = e.cqs /\ SameRest(x, e)
      /\ x.sqs \in [Qid -> SQueue] /\ \A p \in Qid \ {q} : x.sqs[p] = e.sqs[p]
  BY <1>2, <1>4, <1>5 DEF Driver, SameRest, SameCounts
<1>8. (r.head + 1) % r.size = Fwd(e.sqs[q].head, 1, SqSize(q))
      /\ Fwd(e.sqs[q].head, 1, SqSize(q)) \in 0 .. SqSize(q) - 1
  <2>1. PICK n : n = SqSize(q)
    OBVIOUS
  <2>2. PICK a : a = e.sqs[q].head
    OBVIOUS
  <2>3. n \in Nat /\ n >= 2 /\ a \in 0 .. n - 1 /\ 1 \in 0 .. n
    BY <1>1, <2>1, <2>2
  <2>4. (a + 1) % n = Fwd(a, 1, n) /\ Fwd(a, 1, n) \in 0 .. n - 1
    BY <2>3, ModFwd
  <2> QED BY <1>4, <2>1, <2>2, <2>4
<1>9. PICK y : y = [r EXCEPT !.head = (r.head + 1) % r.size]
  OBVIOUS
<1>10. /\ y \in SQueue /\ y.head = Fwd(e.sqs[q].head, 1, SqSize(q)) /\ y.size = r.size /\ y.cqid = r.cqid
  BY <1>1, <1>4, <1>8, <1>9 DEF SQueue
<1>11. s = [x EXCEPT !.sqs = [x.sqs EXCEPT ![q] = y]]
  BY <1>6, <1>7, <1>9 DEF Fetch
<1>12. s \in Driver /\ s.sqs[q] = y /\ s.cqs = x.cqs /\ SameRest(s, x)
       /\ \A p \in Qid \ {q} : s.sqs[p] = x.sqs[p]
  <2>1. PICK z : z = [x.sqs EXCEPT ![q] = y]
    OBVIOUS
  <2>2. z \in [Qid -> SQueue] /\ z[q] = y /\ \A p \in Qid \ {q} : z[p] = x.sqs[p]
    BY <1>7, <1>10, <2>1
  <2>3. s = [x EXCEPT !.sqs = z]
    BY <1>11, <2>1
  <2>4. s \in Driver
    BY <1>7, <2>2, <2>3 DEF Driver
  <2>5. s.sqs = z /\ s.cqs = x.cqs /\ SameRest(s, x)
    BY <1>7, <2>3 DEF Driver, SameRest, SameCounts
  <2> QED BY <2>2, <2>4, <2>5
<1>13. SameRest(s, e)
  BY <1>7, <1>12 DEF SameRest, SameCounts
<1> QED BY <1>4, <1>7, <1>10, <1>12, <1>13 DEF Fetched

\* A completion joins queue q.
Enqueued(f, s, q, it) ==
  /\ f \in Driver /\ Appended(f, s, q, it) /\ f.cqs[q] \in CQueue /\ f.sqs = s.sqs /\ SameRest(f, s)
  /\ \A p \in Qid \ {q} : f.cqs[p] = s.cqs[p]

LEMMA EnqueueIs ==
  ASSUME NEW s \in Driver, NEW q \in Qid, NEW it \in Item,
         NEW f, f = [s EXCEPT !.cqs[q].pending = Append(@, it)]
  PROVE  Enqueued(f, s, q, it)
<1>1. s.cqs \in [Qid -> CQueue] /\ s.cqs[q] \in CQueue
  BY DEF Driver
<1>2. PICK r : r = [s.cqs[q] EXCEPT !.pending = Append(s.cqs[q].pending, it)]
  OBVIOUS
<1>3. s.cqs[q].pending \in Seq(Item)
  BY <1>1 DEF CQueue, Item
<1>4. Append(s.cqs[q].pending, it) \in Seq(Item)
  BY <1>3
<1>5. r \in CQueue /\ r.pending = Append(s.cqs[q].pending, it) /\ r.cqid = s.cqs[q].cqid
      /\ r.phase = s.cqs[q].phase /\ r.size = s.cqs[q].size /\ r.head = s.cqs[q].head
      /\ r.tail = s.cqs[q].tail
  BY <1>1, <1>2, <1>4 DEF CQueue, Item
<1>6. f = [s EXCEPT !.cqs = [s.cqs EXCEPT ![q] = r]]
  BY <1>1, <1>2
<1>7. f \in Driver /\ f.cqs[q] = r /\ f.sqs = s.sqs /\ SameRest(f, s)
      /\ \A p \in Qid \ {q} : f.cqs[p] = s.cqs[p]
  <2>1. PICK z : z = [s.cqs EXCEPT ![q] = r]
    OBVIOUS
  <2>2. z \in [Qid -> CQueue] /\ z[q] = r /\ \A p \in Qid \ {q} : z[p] = s.cqs[p]
    BY <1>1, <1>5, <2>1
  <2>3. f = [s EXCEPT !.cqs = z]
    BY <1>6, <2>1
  <2>4. f \in Driver
    BY <2>2, <2>3 DEF Driver
  <2>5. f.cqs = z /\ f.sqs = s.sqs /\ SameRest(f, s)
    BY <2>3 DEF Driver, SameRest, SameCounts
  <2> QED BY <2>2, <2>4, <2>5
<1> QED BY <1>5, <1>7 DEF Enqueued, Appended

LEMMA EnqueueAdminIs ==
  ASSUME NEW s \in Driver, NEW c, c.cid \in Tag, NEW w \in Nat, NEW f, f = EnqueueAdmin(s, c, w),
         Len(s.cqs[0].pending) + 1 # s.cqs[0].size
  PROVE  Enqueued(f, s, 0, [cid |-> c.cid, cdw0 |-> w])
<1>1. PICK it : it = [cid |-> c.cid, cdw0 |-> w]
  OBVIOUS
<1>2. it \in Item
  BY <1>1 DEF Item
<1>3. f = [s EXCEPT !.cqs[0].pending = Append(@, it)]
  BY <1>1 DEF EnqueueAdmin
<1> QED BY <1>1, <1>2, <1>3, EnqueueIs, QidFacts

LEMMA EnqueueIoIs ==
  ASSUME NEW s \in Driver, NEW q \in Qid, NEW x \in Tag, NEW f, f = EnqueueIo(s, q, x),
         Len(s.cqs[q].pending) + 1 # s.cqs[q].size
  PROVE  Enqueued(f, s, q, [cid |-> x, cdw0 |-> 0])
<1>1. PICK it : it = [cid |-> x, cdw0 |-> 0]
  OBVIOUS
<1>2. it \in Item
  BY <1>1 DEF Item
<1>3. f = [s EXCEPT !.cqs[q].pending = Append(@, it)]
  BY <1>1 DEF EnqueueIo
<1> QED BY <1>1, <1>2, <1>3, EnqueueIs

\* A queue with a command to fetch.
LEMMA DueFacts ==
  ASSUME NEW e, NEW cm, NEW sm, NEW b, NEW g, Good(e, cm, sm, b, g), NEW q \in Qid, Due(e, sm, g, b, q)
  PROVE  /\ e.sqs[q].size = SqSize(q) /\ e.sqs[q].cqid = q /\ e.cqs[q].cqid = q
         /\ e.sqs[q].head \in 0 .. SqSize(q) - 1
         /\ Len(e.cqs[q].pending) + 1 # e.cqs[q].size
         /\ IF q = 0 THEN NextCmd(e, sm, g, q).op \notin {"none", "ISP", "FLUSH"}
            ELSE NextCmd(e, sm, g, q).op \in {"ISP", "FLUSH"}
         /\ NextCmd(e, sm, g, q).op = "FW_DOWNLOAD" => NextCmd(e, sm, g, q).v \in 1 .. CODE_PIECES
<1>1. Up(g.sq[q], q) /\ e.sqs[q].head # g.tail[q]
  BY DEF Due
<1>2. /\ Made(e.cqs[q]) /\ Made(e.sqs[q]) /\ e.sqs[q].head \in 0 .. SqSize(q) - 1
      /\ Known(WayOf(e, cm, g, q), g.out[q], q)
  BY <1>1, WorkSeqs DEF Works
<1>3. CqAt(e, cm, g, b, q) /\ SqAt(e, cm, sm, g, b, q)
  BY DEF Good, Inv
<1>4. e.sqs[q].size = SqSize(q) /\ e.sqs[q].cqid = q /\ e.cqs[q].cqid = q
  BY <1>2, <1>3 DEF CqAt, CqPart, SqAt, SqPart
<1>5. /\ NextCid(e, sm, q) \in Tag /\ NextCmd(e, sm, g, q) # NoCmd
      /\ ~Holds(WayOf(e, cm, g, q), NextCid(e, sm, q))
  BY <1>1, OldestIs
<1>6. Len(e.cqs[q].pending) + 1 # e.cqs[q].size
  BY <1>1, <1>5, PendingRoom DEF NextCmd
<1>7. /\ IF q = 0 THEN NextCmd(e, sm, g, q).op \notin {"none", "ISP", "FLUSH"}
         ELSE NextCmd(e, sm, g, q).op \in {"ISP", "FLUSH"}
      /\ NextCmd(e, sm, g, q).op = "FW_DOWNLOAD" => NextCmd(e, sm, g, q).v \in 1 .. CODE_PIECES
  BY <1>2, <1>5 DEF Known, NextCmd
<1> QED BY <1>2, <1>4, <1>6, <1>7

\* All parts of the new state together.
LEMMA Together ==
  ASSUME NEW e, NEW cm, NEW sm, NEW b, NEW g, Good(e, cm, sm, b, g), NEW f \in Driver, Counts(f),
         AdminPart(UnfOf(f, sm, g, 0), g.out[0], f.sqs[0].head, f, g, b),
         \A q \in Qid : CqAt(f, cm, g, b, q) /\ SqAt(f, cm, sm, g, b, q)
  PROVE  Good(f, cm, sm, b, g)
BY DEF Good, Typed, Inv

\* A command of an I/O queue.
LEMMA IoFetch ==
  ASSUME NEW e, NEW cm, NEW sm, NEW b, NEW g, Good(e, cm, sm, b, g), NEW q \in IoQid,
         Due(e, sm, g, b, q), NEW v \in Slot,
         NEW s, s = Fetch([e EXCEPT !.sqs[q].tail = v], q), NEW c, c = NextCmd(e, sm, g, q),
         NEW f, f = IoHandler(s, q, c)
  PROVE  Good(f, cm, sm, b, g) /\ Answered(c) /\ f.cqs[f.sqs[q].cqid].cqid = q
<1>1. q \in Qid /\ q # 0 /\ 0 \in Qid /\ IoQid \subseteq Qid
  BY QidFacts
<1>2. e \in Driver /\ Counts(e)
  BY DEF Good, Typed, Inv
<1>3. /\ e.sqs[q].size = SqSize(q) /\ e.sqs[q].cqid = q /\ e.cqs[q].cqid = q
      /\ e.sqs[q].head \in 0 .. SqSize(q) - 1
      /\ Len(e.cqs[q].pending) + 1 # e.cqs[q].size /\ c.op \in {"ISP", "FLUSH"}
  BY <1>1, DueFacts
<1>4. /\ s \in Driver /\ Fetched(s, e, q) /\ s.cqs = e.cqs /\ SameRest(s, e)
      /\ \A p \in Qid \ {q} : s.sqs[p] = e.sqs[p]
  BY <1>1, <1>2, <1>3, FetchIs
<1>5. NextCid(e, sm, q) \in Tag /\ c.cid = NextCid(e, sm, q)
  BY <1>1, OldestIs DEF Due
<1>6. PICK x : x = NextCid(e, sm, q)
  OBVIOUS
<1>7. s.cqs[s.sqs[q].cqid].cqid = q
  BY <1>3, <1>4 DEF Fetched
<1>8. Answered(c)
  BY <1>3 DEF Answered
<1>9. CASE c.op = "ISP"
  <2>1. f = [s EXCEPT !.isp = @ \cup {[cqid |-> q, cid |-> x]}]
    BY <1>5, <1>6, <1>7, <1>9 DEF IoHandler
  <2>2. /\ f \in Driver /\ f.sqs = s.sqs /\ f.cqs = e.cqs /\ SameCounts(f, e)
        /\ f.isp = e.isp \cup {[cqid |-> q, cid |-> x]}
    BY <1>1, <1>4, <1>5, <1>6, <2>1 DEF Driver, SameRest, SameCounts
  <2>3. Fetched(f, e, q)
    BY <1>4, <2>2 DEF Fetched
  <2>4. CqAt(f, cm, g, b, q) /\ SqAt(f, cm, sm, g, b, q)
    BY <1>1, <1>6, <2>2, <2>3, GivePart
  <2>5. ASSUME NEW p \in Qid \ {q} PROVE CqAt(f, cm, g, b, p) /\ SqAt(f, cm, sm, g, b, p)
    <3>1. \A t \in Tag : AtIspOf(f.isp, p, t) <=> AtIspOf(e.isp, p, t)
      BY <2>2 DEF AtIspOf
    <3>2. f.sqs[p] = e.sqs[p] /\ f.cqs[p] = e.cqs[p]
      BY <1>4, <2>2
    <3> QED BY <3>1, <3>2, OtherPart
  <2>6. SameMade(e, f)
    BY <1>1, <1>4, <2>2 DEF SameMade, Made, Fetched
  <2>7. f.sqs[0] = e.sqs[0]
    BY <1>1, <1>4, <2>2
  <2>8. Counts(f) /\ AdminPart(UnfOf(f, sm, g, 0), g.out[0], f.sqs[0].head, f, g, b)
    BY <1>2, <2>2, <2>6, <2>7, CountsKeep, AdminKeep
  <2>9. Good(f, cm, sm, b, g)
    BY <2>2, <2>4, <2>5, <2>8, Together
  <2>10. f.cqs[f.sqs[q].cqid].cqid = q
    BY <1>4, <1>7, <2>2
  <2> QED BY <1>8, <2>9, <2>10
<1>10. CASE c.op # "ISP"
  <2>1. f = EnqueueIo(s, q, x)
    BY <1>5, <1>6, <1>7, <1>10 DEF IoHandler
  <2>2. PICK it : it = [cid |-> x, cdw0 |-> 0]
    OBVIOUS
  <2>3. Enqueued(f, s, q, it)
    BY <1>1, <1>3, <1>4, <1>5, <1>6, <2>1, <2>2, EnqueueIoIs
  <2>4. /\ f \in Driver /\ f.cqs[q] \in CQueue /\ f.sqs = s.sqs /\ SameCounts(f, e) /\ f.isp = e.isp
        /\ \A p \in Qid \ {q} : f.cqs[p] = e.cqs[p]
    BY <1>4, <2>3 DEF Enqueued, SameRest, SameCounts
  <2>5. Fetched(f, e, q) /\ Appended(f, e, q, it)
    BY <1>4, <2>3 DEF Fetched, Enqueued, Appended
  <2>6. it \in Item /\ it.cid = x /\ Result(it.cdw0)
    BY <1>3, <1>5, <1>6, <2>2, SizeAssumption DEF Item, Result
  <2>7. CqAt(f, cm, g, b, q) /\ SqAt(f, cm, sm, g, b, q)
    BY <1>1, <1>6, <2>4, <2>5, <2>6, AnswerPart
  <2>8. ASSUME NEW p \in Qid \ {q} PROVE CqAt(f, cm, g, b, p) /\ SqAt(f, cm, sm, g, b, p)
    <3>1. \A t \in Tag : AtIspOf(f.isp, p, t) <=> AtIspOf(e.isp, p, t)
      BY <2>4
    <3>2. f.sqs[p] = e.sqs[p] /\ f.cqs[p] = e.cqs[p]
      BY <1>4, <2>4
    <3> QED BY <3>1, <3>2, OtherPart
  <2>9. SameMade(e, f)
    <3>1. ASSUME NEW p \in IoQid PROVE f.cqs[p].size = e.cqs[p].size /\ f.sqs[p].size = e.sqs[p].size
      <4>1. CASE p = q
        BY <2>5, <4>1 DEF Fetched, Appended
      <4>2. CASE p # q
        BY <1>1, <1>4, <2>4, <4>2
      <4> QED BY <4>1, <4>2
    <3> QED BY <3>1 DEF SameMade, Made
  <2>10. f.sqs[0] = e.sqs[0]
    BY <1>1, <1>4, <2>4
  <2>11. Counts(f) /\ AdminPart(UnfOf(f, sm, g, 0), g.out[0], f.sqs[0].head, f, g, b)
    BY <1>2, <2>4, <2>9, <2>10, CountsKeep, AdminKeep
  <2>12. Good(f, cm, sm, b, g)
    BY <2>4, <2>7, <2>8, <2>11, Together
  <2>13. f.cqs[f.sqs[q].cqid].cqid = q
    BY <1>3, <2>5 DEF Fetched, Appended
  <2> QED BY <1>8, <2>12, <2>13
<1> QED BY <1>9, <1>10

\* An admin command is answered: what is left is what it does to the queue
\* it names.
Answers(f, e, it) ==
  /\ f \in Driver /\ Fetched(f, e, 0) /\ Appended(f, e, 0, it) /\ f.cqs[0] \in CQueue /\ f.isp = e.isp

LEMMA AdminAnswer ==
  ASSUME NEW e, NEW cm, NEW sm, NEW b, NEW g, Good(e, cm, sm, b, g), Due(e, sm, g, b, 0),
         NEW f, NEW it \in Item, Answers(f, e, it),
         it.cid = NextCid(e, sm, 0), Result(it.cdw0), Counts(f),
         \A p \in IoQid : CqAt(f, cm, g, b, p) /\ SqAt(f, cm, sm, g, b, p),
         \A t \in Tag \ {NextCid(e, sm, 0)} : AdminCmd(g.out[0][t], In(UnfOf(e, sm, g, 0), t), f, g),
         AdminCmd(NextCmd(e, sm, g, 0), FALSE, f, g)
  PROVE  Good(f, cm, sm, b, g) /\ f.cqs[f.sqs[0].cqid].cqid = 0
<1>1. 0 \in Qid /\ IoQid = Qid \ {0}
  BY QidFacts
<1>2. CqAt(f, cm, g, b, 0) /\ SqAt(f, cm, sm, g, b, 0)
  BY <1>1, AnswerPart DEF Answers
<1>3. AdminPart(UnfOf(f, sm, g, 0), g.out[0], f.sqs[0].head, f, g, b)
  BY AdminFetch DEF Answers
<1>4. Good(f, cm, sm, b, g)
  BY <1>1, <1>2, <1>3, Together DEF Answers
<1>5. f.cqs[f.sqs[0].cqid].cqid = 0
  BY <1>1, DueFacts DEF Answers, Fetched, Appended
<1> QED BY <1>4, <1>5

\* Driver x is s but for the code that was downloaded.
LikeBut(x, s) ==
  x \in Driver /\ x.sqs = s.sqs /\ x.cqs = s.cqs /\ x.isp = s.isp /\ SameCounts(x, s)

\* The handlers of commands that are not about queues.
LEMMA MiscHandler ==
  ASSUME NEW s \in Driver, NEW c \in Command, c.op \notin QueueOps,
         c.op = "FW_DOWNLOAD" => c.v \in 1 .. CODE_PIECES
  PROVE  \/ ~Answered(c) /\ AdminHandler(s, c) = s
         \/ Answered(c) /\ \E x, w : LikeBut(x, s) /\ Result(w) /\ AdminHandler(s, c) = EnqueueAdmin(x, c, w)
<1>1. LikeBut(s, s) /\ Result(0)
  BY SizeAssumption DEF LikeBut, SameCounts, Result
<1>2. c.v \in Nat
  BY DEF Command
<1>3. c.op \notin {"CREATE_SQ", "CREATE_CQ", "DELETE_SQ", "DELETE_CQ"}
  BY DEF QueueOps
<1>4. CASE c.op = "IDENTIFY"
  <2>1. AdminHandler(s, c) = NvmeIdentify(s, c)
    BY <1>4 DEF AdminHandler
  <2> QED BY <1>1, <2>1 DEF NvmeIdentify
<1>5. CASE c.op # "IDENTIFY"
  <2>1. Answered(c)
    BY <1>5 DEF Answered
  <2>2. CASE c.op \in {"SET_QUEUES", "SET_OTHER"}
    <3>1. AdminHandler(s, c) = NvmeSetFeature(s, c)
      BY <2>2 DEF AdminHandler
    <3>2. PICK w : w = IF c.op = "SET_QUEUES" THEN Min({c.v, MAX_IO_SQCQ_PAIRS}) ELSE 0
      OBVIOUS
    <3>3. Min({c.v, MAX_IO_SQCQ_PAIRS}) \in 0 .. MAX_IO_SQCQ_PAIRS
      <4>1. c.v \in Int /\ c.v >= 0 /\ MAX_IO_SQCQ_PAIRS \in Int /\ MAX_IO_SQCQ_PAIRS >= 0
        BY <1>2, SizeAssumption
      <4>2. PICK z : z = Min({c.v, MAX_IO_SQCQ_PAIRS})
        OBVIOUS
      <4>3. z = IF c.v <= MAX_IO_SQCQ_PAIRS THEN c.v ELSE MAX_IO_SQCQ_PAIRS
        BY <4>1, <4>2, MinIs
      <4>4. z \in 0 .. MAX_IO_SQCQ_PAIRS
        BY <4>1, <4>3
      <4> QED BY <4>2, <4>4
    <3>4. Result(w)
      BY <1>1, <1>2, <3>2, <3>3, SizeAssumption DEF Result
    <3>5. AdminHandler(s, c) = EnqueueAdmin(s, c, w)
      BY <3>1, <3>2 DEF NvmeSetFeature
    <3> QED BY <1>1, <2>1, <3>4, <3>5
  <2>3. CASE c.op = "GET_FEATURES"
    <3>1. AdminHandler(s, c) = NvmeGetFeature(s, c)
      BY <2>3 DEF AdminHandler
    <3>2. Result(s.iocqCount)
      BY <2>3 DEF Result, Driver
    <3> QED BY <1>1, <2>1, <3>1, <3>2 DEF NvmeGetFeature
  <2>4. CASE c.op = "FW_DOWNLOAD"
    <3>1. AdminHandler(s, c) = NvmeFwDownload(s, c)
      BY <2>4 DEF AdminHandler
    <3>2. PICK x : x = [s EXCEPT !.code_size = c.v]
      OBVIOUS
    <3>3. LikeBut(x, s)
      <4>1. c.v \in 0 .. CODE_PIECES
        BY <2>4, SizeAssumption
      <4> QED BY <3>2, <4>1 DEF LikeBut, SameCounts, Driver
    <3>4. AdminHandler(s, c) = EnqueueAdmin(x, c, 0)
      BY <3>1, <3>2 DEF NvmeFwDownload
    <3> QED BY <1>1, <2>1, <3>3, <3>4
  <2>5. CASE c.op \notin {"SET_QUEUES", "SET_OTHER", "GET_FEATURES", "FW_DOWNLOAD"}
    <3>1. AdminHandler(s, c) = EnqueueAdmin(s, c, 0)
      BY <1>3, <1>5, <2>5 DEF AdminHandler, NvmeFwActivate, NvmeAbortCmd, NvmeUnimplementedCmd
    <3> QED BY <1>1, <2>1, <3>1
  <2> QED BY <2>2, <2>3, <2>4, <2>5
<1> QED BY <1>4, <1>5

LEMMA NoQueueCmd ==
  ASSUME NEW c, c.op \notin QueueOps, NEW u, NEW f, NEW g
  PROVE  AdminCmd(c, u, f, g)
BY DEF QueueOps, AdminCmd

\* An admin command that is not about a queue.
LEMMA MiscFetch ==
  ASSUME NEW e, NEW cm, NEW sm, NEW b, NEW g, Good(e, cm, sm, b, g), Due(e, sm, g, b, 0),
         NEW v \in Slot, NEW s, s = Fetch([e EXCEPT !.sqs[0].tail = v], 0),
         NEW c, c = NextCmd(e, sm, g, 0), c.op \notin QueueOps, NEW f, f = AdminHandler(s, c)
  PROVE  Good(f, cm, sm, b, g) /\ (Answered(c) => f.cqs[f.sqs[0].cqid].cqid = 0)
<1>1. 0 \in Qid /\ IoQid = Qid \ {0}
  BY QidFacts
<1>2. e \in Driver /\ Counts(e) /\ AdminPart(UnfOf(e, sm, g, 0), g.out[0], e.sqs[0].head, e, g, b)
  BY DEF Good, Typed, Inv
<1>3. /\ e.sqs[0].size = SqSize(0) /\ e.sqs[0].head \in 0 .. SqSize(0) - 1
      /\ Len(e.cqs[0].pending) + 1 # e.cqs[0].size
      /\ c.op = "FW_DOWNLOAD" => c.v \in 1 .. CODE_PIECES
  BY <1>1, DueFacts
<1>4. /\ s \in Driver /\ Fetched(s, e, 0) /\ s.cqs = e.cqs /\ SameRest(s, e)
      /\ \A p \in Qid \ {0} : s.sqs[p] = e.sqs[p]
  BY <1>1, <1>2, <1>3, FetchIs
<1>5. NextCid(e, sm, 0) \in Tag /\ c.cid = NextCid(e, sm, 0) /\ c \in Command
  BY <1>1, OldestIs DEF Due
<1>6. \/ ~Answered(c) /\ f = s
      \/ Answered(c) /\ \E x, w : LikeBut(x, s) /\ Result(w) /\ f = EnqueueAdmin(x, c, w)
  BY <1>3, <1>4, <1>5, MiscHandler
<1>7. ASSUME NEW z, \A p \in IoQid : z.sqs[p] = e.sqs[p] /\ z.cqs[p] = e.cqs[p], z.isp = e.isp, SameCounts(z, e)
      PROVE  /\ Counts(z) /\ \A p \in IoQid : CqAt(z, cm, g, b, p) /\ SqAt(z, cm, sm, g, b, p)
             /\ \A t \in Tag : AdminCmd(g.out[0][t], In(UnfOf(e, sm, g, 0), t), z, g)
             /\ AdminCmd(c, FALSE, z, g)
  <2>1. SameMade(e, z)
    BY <1>7 DEF SameMade
  <2>2. Counts(z)
    BY <1>2, <1>7, <2>1, CountsKeep
  <2>3. \A p \in IoQid : CqAt(z, cm, g, b, p) /\ SqAt(z, cm, sm, g, b, p)
    BY <1>1, <1>7, OtherPart
  <2>4. \A t \in Tag : AdminCmd(g.out[0][t], In(UnfOf(e, sm, g, 0), t), z, g)
    BY <1>2, <2>1, AdminCmdSame DEF AdminPart
  <2>5. AdminCmd(c, FALSE, z, g)
    BY NoQueueCmd
  <2> QED BY <2>2, <2>3, <2>4, <2>5
<1>8. CASE ~Answered(c)
  <2>1. f = s
    BY <1>6, <1>8
  <2>2. /\ Fetched(f, e, 0) /\ f.cqs = e.cqs /\ f.isp = e.isp /\ SameCounts(f, e) /\ f \in Driver
        /\ \A p \in IoQid : f.sqs[p] = e.sqs[p] /\ f.cqs[p] = e.cqs[p]
    BY <1>1, <1>4, <2>1 DEF SameRest
  <2>3. CqAt(f, cm, g, b, 0) /\ SqAt(f, cm, sm, g, b, 0)
    BY <1>1, <1>8, <2>2, DropPart
  <2>4. /\ Counts(f) /\ \A p \in IoQid : CqAt(f, cm, g, b, p) /\ SqAt(f, cm, sm, g, b, p)
        /\ \A t \in Tag : AdminCmd(g.out[0][t], In(UnfOf(e, sm, g, 0), t), f, g)
        /\ AdminCmd(c, FALSE, f, g)
    BY <1>7, <2>2
  <2>5. AdminPart(UnfOf(f, sm, g, 0), g.out[0], f.sqs[0].head, f, g, b)
    BY <2>2, <2>4, AdminFetch
  <2> QED BY <1>1, <1>8, <2>2, <2>3, <2>4, <2>5, Together
<1>9. CASE Answered(c)
  <2>1. PICK x, w : LikeBut(x, s) /\ Result(w) /\ f = EnqueueAdmin(x, c, w)
    BY <1>6, <1>9
  <2>2. PICK it : it = [cid |-> c.cid, cdw0 |-> w]
    OBVIOUS
  <2>3. w \in Nat /\ it \in Item /\ it.cid = NextCid(e, sm, 0) /\ it.cdw0 = w
    BY <1>5, <2>1, <2>2, SizeAssumption DEF Result, Item
  <2>4. x.cqs = e.cqs /\ x.sqs = s.sqs /\ x \in Driver /\ SameCounts(x, e) /\ x.isp = e.isp
    BY <1>4, <2>1 DEF LikeBut, SameRest, SameCounts
  <2>5. Enqueued(f, x, 0, it)
    BY <1>3, <1>5, <2>1, <2>2, <2>3, <2>4, EnqueueAdminIs
  <2>6. /\ f \in Driver /\ f.cqs[0] \in CQueue /\ f.sqs = s.sqs /\ SameCounts(f, e) /\ f.isp = e.isp
        /\ \A p \in IoQid : f.cqs[p] = e.cqs[p]
    BY <1>1, <2>4, <2>5 DEF Enqueued, SameRest, SameCounts
  <2>7. Fetched(f, e, 0) /\ Appended(f, e, 0, it)
    BY <1>4, <2>4, <2>5 DEF Fetched, Enqueued, Appended
  <2>8. Answers(f, e, it)
    BY <2>6, <2>7 DEF Answers
  <2>9. /\ Counts(f) /\ \A p \in IoQid : CqAt(f, cm, g, b, p) /\ SqAt(f, cm, sm, g, b, p)
        /\ \A t \in Tag : AdminCmd(g.out[0][t], In(UnfOf(e, sm, g, 0), t), f, g)
        /\ AdminCmd(c, FALSE, f, g)
    BY <1>1, <1>4, <1>7, <2>6
  <2>10. Result(it.cdw0)
    BY <2>1, <2>3
  <2> QED BY <2>3, <2>8, <2>9, <2>10, AdminAnswer
<1> QED BY <1>8, <1>9

----------------------------------------------------------------------------
(* The commands on queues.                                                 *)

LEMMA CardFacts ==
  ASSUME NEW S, S \subseteq IoQid, NEW p \in IoQid
  PROVE  /\ Cardinality(S) \in 0 .. MAX_IO_SQCQ_PAIRS
         /\ p \notin S => Cardinality(S \cup {p}) = Cardinality(S) + 1
         /\ p \in S => Cardinality(S \ {p}) = Cardinality(S) - 1
<1>1. IsFiniteSet(IoQid) /\ Cardinality(IoQid) = MAX_IO_SQCQ_PAIRS
  <2>1. MAX_IO_SQCQ_PAIRS \in Nat
    BY SizeAssumption
  <2>2. IsFiniteSet(1 .. MAX_IO_SQCQ_PAIRS) /\ Cardinality(1 .. MAX_IO_SQCQ_PAIRS)
          = IF 1 > MAX_IO_SQCQ_PAIRS THEN 0 ELSE MAX_IO_SQCQ_PAIRS - 1 + 1
    BY <2>1, FS_Interval
  <2> QED BY <2>1, <2>2 DEF IoQid
<1>2. IsFiniteSet(S) /\ Cardinality(S) <= MAX_IO_SQCQ_PAIRS
  BY <1>1, FS_Subset
<1>3. Cardinality(S) \in Nat
  BY <1>2, FS_CardinalityType
<1>4. Cardinality(S \cup {p}) = IF p \in S THEN Cardinality(S) ELSE Cardinality(S) + 1
  BY <1>2, FS_AddElement
<1>5. Cardinality(S \ {p}) = IF p \in S THEN Cardinality(S) - 1 ELSE Cardinality(S)
  BY <1>2, FS_RemoveElement
<1> QED BY <1>2, <1>3, <1>4, <1>5, SizeAssumption

\* The commands without a completion, c with identifier u among them, suit
\* the queues of driver x once c is fetched.
CmdsDone(unf, out, u, c, x, g) ==
  /\ \A t \in Tag \ {u} : AdminCmd(out[t], In(unf, t), x, g)
  /\ AdminCmd(c, FALSE, x, g)

\* The other commands, and this one, after a completion queue was created
\* or deleted, ...
LEMMA OneCq ==
  ASSUME NEW unf, NEW out, NEW hd, NEW e, NEW g, NEW b, AdminPart(unf, out, hd, e, g, b),
         NEW u \in Tag, In(unf, u), NEW c, c = out[u], c.op \in {"CREATE_CQ", "DELETE_CQ"}, NEW x,
         \A r \in IoQid \ {c.q} : Made(x.cqs[r]) = Made(e.cqs[r]),
         \A r \in IoQid : Made(x.sqs[r]) = Made(e.sqs[r]),
         Made(x.cqs[c.q]) = (c.op = "CREATE_CQ")
  PROVE  CmdsDone(unf, out, u, c, x, g)
<1>1. AdminCmd(out[u], In(unf, u), e, g)
  BY DEF AdminPart
<1>2. /\ out[u].q \in IoQid /\ (out[u].op = "CREATE_CQ" => g.cq[out[u].q] = "creating")
      /\ out[u].op = "DELETE_CQ" => g.cq[out[u].q] = "deleting"
  BY <1>1 DEF AdminCmd
<1>3. AdminCmd(c, FALSE, x, g)
  BY <1>2 DEF AdminCmd
<1>4. ASSUME NEW t \in Tag \ {u} PROVE AdminCmd(out[t], In(unf, t), x, g)
  <2>1. AdminCmd(out[t], In(unf, t), e, g)
    BY DEF AdminPart
  <2>2. \A s \in Tag : out[t].op \in QueueOps /\ out[s].op = out[t].op /\ out[s].q = out[t].q => s = t
    BY DEF AdminPart
  <2>3. ASSUME out[t].op \in {"CREATE_CQ", "DELETE_CQ"} PROVE out[t].q \in IoQid \ {out[u].q}
    <3>1. out[t].op \in QueueOps
      BY <2>3 DEF QueueOps
    <3>2. /\ out[t].q \in IoQid /\ (out[t].op = "CREATE_CQ" => g.cq[out[t].q] = "creating")
          /\ out[t].op = "DELETE_CQ" => g.cq[out[t].q] = "deleting"
      BY <2>1, <2>3 DEF AdminCmd
    <3>3. out[t].op = out[u].op => out[t].q # out[u].q
      BY <2>2, <3>1
    <3>4. out[t].op # out[u].op => out[t].q # out[u].q
      BY <1>2, <2>3, <3>2
    <3> QED BY <3>2, <3>3, <3>4
  <2>4. out[t].op = "CREATE_CQ" \/ out[t].op = "DELETE_CQ" => Made(x.cqs[out[t].q]) = Made(e.cqs[out[t].q])
    BY <2>3
  <2>5. out[t].op = "CREATE_SQ" \/ out[t].op = "DELETE_SQ" => Made(x.sqs[out[t].q]) = Made(e.sqs[out[t].q])
    BY <2>1 DEF AdminCmd
  <2> QED BY <2>1, <2>4, <2>5, Zenon DEF AdminCmd
<1> QED BY <1>3, <1>4 DEF CmdsDone

\* ... or a submission queue.
LEMMA OneSq ==
  ASSUME NEW unf, NEW out, NEW hd, NEW e, NEW g, NEW b, AdminPart(unf, out, hd, e, g, b),
         NEW u \in Tag, In(unf, u), NEW c, c = out[u], c.op \in {"CREATE_SQ", "DELETE_SQ"}, NEW x,
         \A r \in IoQid \ {c.q} : Made(x.sqs[r]) = Made(e.sqs[r]),
         \A r \in IoQid : Made(x.cqs[r]) = Made(e.cqs[r]),
         Made(x.sqs[c.q]) = (c.op = "CREATE_SQ")
  PROVE  CmdsDone(unf, out, u, c, x, g)
<1>1. AdminCmd(out[u], In(unf, u), e, g)
  BY DEF AdminPart
<1>2. /\ out[u].q \in IoQid
      /\ out[u].op = "CREATE_SQ" => g.sq[out[u].q] = "creating" /\ out[u].v = out[u].q
      /\ out[u].op = "DELETE_SQ" => g.sq[out[u].q] = "deleting"
  BY <1>1 DEF AdminCmd
<1>3. AdminCmd(c, FALSE, x, g)
  BY <1>2 DEF AdminCmd
<1>4. ASSUME NEW t \in Tag \ {u} PROVE AdminCmd(out[t], In(unf, t), x, g)
  <2>1. AdminCmd(out[t], In(unf, t), e, g)
    BY DEF AdminPart
  <2>2. \A s \in Tag : out[t].op \in QueueOps /\ out[s].op = out[t].op /\ out[s].q = out[t].q => s = t
    BY DEF AdminPart
  <2>3. ASSUME out[t].op \in {"CREATE_SQ", "DELETE_SQ"} PROVE out[t].q \in IoQid \ {out[u].q}
    <3>1. out[t].op \in QueueOps
      BY <2>3 DEF QueueOps
    <3>2. /\ out[t].q \in IoQid /\ (out[t].op = "CREATE_SQ" => g.sq[out[t].q] = "creating")
          /\ out[t].op = "DELETE_SQ" => g.sq[out[t].q] = "deleting"
      BY <2>1, <2>3 DEF AdminCmd
    <3>3. out[t].op = out[u].op => out[t].q # out[u].q
      BY <2>2, <3>1
    <3>4. out[t].op # out[u].op => out[t].q # out[u].q
      BY <1>2, <2>3, <3>2
    <3> QED BY <3>2, <3>3, <3>4
  <2>4. out[t].op = "CREATE_SQ" \/ out[t].op = "DELETE_SQ" => Made(x.sqs[out[t].q]) = Made(e.sqs[out[t].q])
    BY <2>3
  <2>5. out[t].op = "CREATE_CQ" \/ out[t].op = "DELETE_CQ" => Made(x.cqs[out[t].q]) = Made(e.cqs[out[t].q])
    BY <2>1 DEF AdminCmd
  <2> QED BY <2>1, <2>4, <2>5, Zenon DEF AdminCmd
<1> QED BY <1>3, <1>4 DEF CmdsDone

\* Driver x is e after fetching from the admin queue and changing queue p.
Touched(x, e, p) ==
  /\ x \in Driver /\ x.isp = e.isp /\ Fetched(x, e, 0) /\ x.cqs[0] = e.cqs[0]
  /\ \A r \in IoQid \ {p} : x.cqs[r] = e.cqs[r] /\ x.sqs[r] = e.sqs[r]

\* A command on queue p, from what it did to the queue.
LEMMA QueueAnswer ==
  ASSUME NEW e, NEW cm, NEW sm, NEW b, NEW g, Good(e, cm, sm, b, g), Due(e, sm, g, b, 0),
         NEW c, c = NextCmd(e, sm, g, 0), c.op \in QueueOps, NEW p \in IoQid, NEW x, Touched(x, e, p),
         Counts(x), CqAt(x, cm, g, b, p), SqAt(x, cm, sm, g, b, p),
         CmdsDone(UnfOf(e, sm, g, 0), g.out[0], NextCid(e, sm, 0), c, x, g),
         NEW f, f = EnqueueAdmin(x, c, 0)
  PROVE  Good(f, cm, sm, b, g) /\ Answered(c) /\ f.cqs[f.sqs[0].cqid].cqid = 0
<1>1. 0 \in Qid /\ IoQid = Qid \ {0}
  BY QidFacts
<1>2. Len(e.cqs[0].pending) + 1 # e.cqs[0].size
  BY <1>1, DueFacts
<1>3. NextCid(e, sm, 0) \in Tag /\ c.cid = NextCid(e, sm, 0)
  BY <1>1, OldestIs DEF Due
<1>4. PICK it : it = [cid |-> c.cid, cdw0 |-> 0]
  OBVIOUS
<1>5. it \in Item /\ it.cid = NextCid(e, sm, 0) /\ it.cdw0 = 0 /\ Result(0)
  BY <1>3, <1>4, SizeAssumption DEF Item, Result, QueueOps
<1>6. Enqueued(f, x, 0, it)
  BY <1>2, <1>3, <1>4, EnqueueAdminIs DEF Touched
<1>7. /\ f.sqs = x.sqs /\ f.isp = x.isp /\ SameCounts(f, x)
      /\ \A r \in IoQid : f.cqs[r] = x.cqs[r] /\ f.sqs[r] = x.sqs[r]
  BY <1>1, <1>6 DEF Enqueued, SameRest
<1>8. Answers(f, e, it)
  BY <1>6, <1>7 DEF Answers, Enqueued, Touched, Fetched, Appended
<1>9. SameMade(x, f)
  BY <1>7 DEF SameMade
<1>10. Counts(f)
  BY <1>7, <1>9, CountsKeep
<1>11. ASSUME NEW r \in IoQid PROVE CqAt(f, cm, g, b, r) /\ SqAt(f, cm, sm, g, b, r)
  <2>1. CASE r = p
    <3>1. f.cqs[p] = x.cqs[p] /\ f.sqs[p] = x.sqs[p]
      BY <1>7
    <3> QED BY <1>7, <2>1, <3>1 DEF CqAt, SqAt, WayOf, UnfOf
  <2>2. CASE r # p
    <3>1. f.cqs[r] = e.cqs[r] /\ f.sqs[r] = e.sqs[r] /\ f.isp = e.isp
      BY <1>7, <2>2 DEF Touched
    <3> QED BY <1>1, <3>1, OtherPart
  <2> QED BY <2>1, <2>2
<1>12. /\ \A t \in Tag \ {NextCid(e, sm, 0)} : AdminCmd(g.out[0][t], In(UnfOf(e, sm, g, 0), t), f, g)
       /\ AdminCmd(c, FALSE, f, g)
  BY <1>9, AdminCmdSame DEF CmdsDone
<1>13. Answered(c)
  BY DEF Answered, QueueOps
<1> QED BY <1>5, <1>8, <1>10, <1>11, <1>12, <1>13, AdminAnswer

\* Driver s is e after it has read doorbell v of queue q and fetched.
AfterFetch(s, e, q, v) == s = Fetch([e EXCEPT !.sqs[q].tail = v], q)

\* What is known when a command on a queue was fetched.
OnQueue(e, sm, b, g, s, c) ==
  /\ AdminPart(UnfOf(e, sm, g, 0), g.out[0], e.sqs[0].head, e, g, b)
  /\ NextCid(e, sm, 0) \in Tag /\ In(UnfOf(e, sm, g, 0), NextCid(e, sm, 0))
  /\ g.out[0][NextCid(e, sm, 0)] = c /\ AdminCmd(c, TRUE, e, g)
  /\ s \in Driver /\ Fetched(s, e, 0) /\ s.cqs = e.cqs /\ SameRest(s, e)
  /\ \A r \in IoQid : s.sqs[r] = e.sqs[r]
  /\ 0 \notin IoQid /\ IoQid \subseteq Qid /\ 0 \in Qid

LEMMA QueueCmdFacts ==
  ASSUME NEW e, NEW cm, NEW sm, NEW b, NEW g, Good(e, cm, sm, b, g), Due(e, sm, g, b, 0),
         NEW v \in Slot, NEW s, AfterFetch(s, e, 0, v),
         NEW c, c = NextCmd(e, sm, g, 0)
  PROVE  OnQueue(e, sm, b, g, s, c)
<1>1. 0 \in Qid /\ IoQid = Qid \ {0}
  BY QidFacts
<1>2. e \in Driver /\ AdminPart(UnfOf(e, sm, g, 0), g.out[0], e.sqs[0].head, e, g, b)
  BY DEF Good, Typed, Inv
<1>3. e.sqs[0].size = SqSize(0) /\ e.sqs[0].head \in 0 .. SqSize(0) - 1
  BY <1>1, DueFacts
<1>4. /\ s \in Driver /\ Fetched(s, e, 0) /\ s.cqs = e.cqs /\ SameRest(s, e)
      /\ \A p \in Qid \ {0} : s.sqs[p] = e.sqs[p]
  BY <1>1, <1>2, <1>3, FetchIs DEF AfterFetch
<1>5. NextCid(e, sm, 0) \in Tag /\ In(UnfOf(e, sm, g, 0), NextCid(e, sm, 0))
  BY <1>1, OldestIs DEF Due
<1>6. In(UnfOf(e, sm, g, 0), NextCid(e, sm, 0)) = TRUE
  BY <1>5 DEF In
<1>7. AdminCmd(c, TRUE, e, g) /\ g.out[0][NextCid(e, sm, 0)] = c
  BY <1>2, <1>5, <1>6 DEF AdminPart, NextCmd
<1> QED BY <1>1, <1>2, <1>4, <1>5, <1>7 DEF OnQueue

LEMMA CreateCqFetch ==
  ASSUME NEW e, NEW cm, NEW sm, NEW b, NEW g, Good(e, cm, sm, b, g), Due(e, sm, g, b, 0),
         NEW v \in Slot, NEW s, AfterFetch(s, e, 0, v),
         NEW c, c = NextCmd(e, sm, g, 0), c.op = "CREATE_CQ", NEW f, f = AdminHandler(s, c)
  PROVE  Good(f, cm, sm, b, g) /\ Answered(c) /\ f.cqs[f.sqs[0].cqid].cqid = 0
<1>1. /\ AdminPart(UnfOf(e, sm, g, 0), g.out[0], e.sqs[0].head, e, g, b)
      /\ NextCid(e, sm, 0) \in Tag /\ In(UnfOf(e, sm, g, 0), NextCid(e, sm, 0))
      /\ g.out[0][NextCid(e, sm, 0)] = c /\ AdminCmd(c, TRUE, e, g)
      /\ s \in Driver /\ Fetched(s, e, 0) /\ s.cqs = e.cqs /\ SameRest(s, e)
      /\ \A r \in IoQid : s.sqs[r] = e.sqs[r]
      /\ 0 \notin IoQid /\ IoQid \subseteq Qid /\ 0 \in Qid
  <2>1. OnQueue(e, sm, b, g, s, c)
    BY QueueCmdFacts
  <2> QED BY <2>1 DEF OnQueue
<1>2. PICK p : p = c.q
  OBVIOUS
<1>3. p \in IoQid /\ g.cq[p] = "creating" /\ ~Made(e.cqs[p])
  BY <1>1, <1>2 DEF AdminCmd
<1>4. PICK n : n = CqSize(p)
  OBVIOUS
<1>5. n = CQ_SIZE /\ n \in Nat /\ n >= 2 /\ 0 .. n - 1 \subseteq Slot /\ 0 \in Slot
  BY <1>1, <1>3, <1>4, Sizes DEF CqSize
<1>6. PICK y : y = [cqid |-> p, phase |-> 1, size |-> CQ_SIZE, head |-> 0, tail |-> 0, pending |-> <<>>]
  OBVIOUS
<1>7. y \in CQueue /\ Made(y)
  <2>1. <<>> \in Seq([cid: Tag, cdw0: Nat])
    OBVIOUS
  <2> QED BY <1>1, <1>3, <1>5, <1>6, <2>1 DEF CQueue, Made
<1>8. PICK S : S = {q \in IoQid : Made(e.cqs[q])}
  OBVIOUS
<1>9. /\ Cardinality(S) = e.iocqCount
      /\ Cardinality(S \cup {p}) = e.iocqCount + 1 /\ e.iocqCount + 1 \in 0 .. MAX_IO_SQCQ_PAIRS
  <2>1. S \subseteq IoQid /\ S \cup {p} \subseteq IoQid /\ p \notin S /\ Cardinality(S) = e.iocqCount
    BY <1>3, <1>8 DEF Good, Inv, Counts
  <2>2. Cardinality(S \cup {p}) = Cardinality(S) + 1
    BY <1>3, <2>1, CardFacts
  <2>3. Cardinality(S \cup {p}) \in 0 .. MAX_IO_SQCQ_PAIRS
    BY <1>3, <2>1, CardFacts
  <2> QED BY <2>1, <2>2, <2>3
<1>10. PICK z : z = [s.cqs EXCEPT ![p] = y]
  OBVIOUS
<1>11. z \in [Qid -> CQueue] /\ z[p] = y /\ \A r \in Qid \ {p} : z[r] = e.cqs[r]
  BY <1>1, <1>3, <1>7, <1>10 DEF Driver
<1>12. PICK x : x = [s EXCEPT !.cqs = z, !.iocqCount = s.iocqCount + 1]
  OBVIOUS
<1>13. s.iocqCount = e.iocqCount /\ s.iosqCount = e.iosqCount
  BY <1>1 DEF SameRest, SameCounts
<1>14. /\ x \in Driver /\ x.cqs = z /\ x.sqs = s.sqs /\ x.isp = e.isp
       /\ x.iocqCount = e.iocqCount + 1 /\ x.iosqCount = e.iosqCount
  BY <1>1, <1>9, <1>11, <1>12, <1>13 DEF Driver, SameRest
<1>15. f = EnqueueAdmin(x, c, 0)
  <2>1. x = [s EXCEPT !.cqs[c.q] = y, !.iocqCount = @ + 1]
    BY <1>2, <1>10, <1>12
  <2>2. AdminHandler(s, c) = NvmeCreateCq(s, c)
    BY DEF AdminHandler
  <2> QED BY <1>2, <1>6, <2>1, <2>2 DEF NvmeCreateCq
<1>16. Touched(x, e, p)
  BY <1>1, <1>3, <1>11, <1>14 DEF Touched, Fetched
<1>17. Counts(x)
  <2>1. {q \in IoQid : Made(x.cqs[q])} = S \cup {p}
    BY <1>1, <1>3, <1>7, <1>8, <1>11, <1>14
  <2>2. {q \in IoQid : Made(x.sqs[q])} = {q \in IoQid : Made(e.sqs[q])}
    BY <1>1, <1>14
  <2>3. e.iosqCount = Cardinality({q \in IoQid : Made(e.sqs[q])})
    BY DEF Good, Inv, Counts
  <2> QED BY <1>9, <1>14, <2>1, <2>2, <2>3 DEF Counts
<1>18. CqAt(e, cm, g, b, p) /\ SqAt(e, cm, sm, g, b, p)
  BY <1>1, <1>3 DEF Good, Inv
<1>19. g.head[p] = 0 /\ g.rung[p] = 0 /\ g.phase[p] = 1 /\ \A i \in 0 .. n - 1 : cm[p][i].phase = 0
  BY <1>1, <1>3, <1>4, <1>18 DEF CqAt, CqPart
<1>20. x.cqs[p] = y /\ x.sqs[p] = e.sqs[p]
  BY <1>1, <1>3, <1>11, <1>14
<1>21. CqAt(x, cm, g, b, p)
  <2>1. \A i \in 1 .. Len(b) : ~IsCq(b, i, p)
    BY <1>3, <1>18 DEF CqAt, CqPart
  <2>2. Heads(y, 0, 0, b, p, n)
    BY <1>5, <1>6, <2>1 DEF Heads, Off
  <2>3. Phases(y, cm[p], 0, 1, n)
    BY <1>5, <1>6, <1>19 DEF Phases
  <2>4. CqPart(y, cm[p], g.cq[p], 0, 0, 1, b, p)
    BY <1>1, <1>3, <1>4, <1>5, <1>6, <1>7, <1>19, <2>2, <2>3 DEF CqPart
  <2> QED BY <1>19, <1>20, <2>4 DEF CqAt
<1>22. SqAt(x, cm, sm, g, b, p)
  <2>1. g.sq[p] = "none" /\ ~Up(g.sq[p], p)
    BY <1>1, <1>3, <1>18 DEF SqAt, SqPart, Up
  <2>2. Quiet(e.cqs[p], e.isp, g.head[p], g.out[p], b, p)
    BY <1>18, <2>1 DEF SqAt, SqPart
  <2>3. Quiet(y, x.isp, g.head[p], g.out[p], b, p)
    BY <1>6, <1>14, <1>19, <2>2 DEF Quiet
  <2> QED BY <1>14, <1>18, <1>20, <2>1, <2>3 DEF SqAt, SqPart
<1>23. CmdsDone(UnfOf(e, sm, g, 0), g.out[0], NextCid(e, sm, 0), c, x, g)
  <2>1. \A r \in IoQid \ {p} : Made(x.cqs[r]) = Made(e.cqs[r])
    BY <1>1, <1>11, <1>14
  <2>2. \A r \in IoQid : Made(x.sqs[r]) = Made(e.sqs[r])
    BY <1>1, <1>14
  <2>3. Made(x.cqs[p]) = (c.op = "CREATE_CQ")
    BY <1>7, <1>20 DEF Made
  <2> QED BY <1>1, <1>2, <2>1, <2>2, <2>3, OneCq
<1>24. c.op \in QueueOps
  BY DEF QueueOps
<1> QED BY <1>3, <1>15, <1>16, <1>17, <1>21, <1>22, <1>23, <1>24, QueueAnswer

LEMMA DeleteCqFetch ==
  ASSUME NEW e, NEW cm, NEW sm, NEW b, NEW g, Good(e, cm, sm, b, g), Due(e, sm, g, b, 0),
         NEW v \in Slot, NEW s, AfterFetch(s, e, 0, v),
         NEW c, c = NextCmd(e, sm, g, 0), c.op = "DELETE_CQ", NEW f, f = AdminHandler(s, c)
  PROVE  Good(f, cm, sm, b, g) /\ Answered(c) /\ f.cqs[f.sqs[0].cqid].cqid = 0
<1>1. /\ AdminPart(UnfOf(e, sm, g, 0), g.out[0], e.sqs[0].head, e, g, b)
      /\ NextCid(e, sm, 0) \in Tag /\ In(UnfOf(e, sm, g, 0), NextCid(e, sm, 0))
      /\ g.out[0][NextCid(e, sm, 0)] = c /\ AdminCmd(c, TRUE, e, g)
      /\ s \in Driver /\ Fetched(s, e, 0) /\ s.cqs = e.cqs /\ SameRest(s, e)
      /\ \A r \in IoQid : s.sqs[r] = e.sqs[r]
      /\ 0 \notin IoQid /\ IoQid \subseteq Qid /\ 0 \in Qid
  <2>1. OnQueue(e, sm, b, g, s, c)
    BY QueueCmdFacts
  <2> QED BY <2>1 DEF OnQueue
<1>2. PICK p : p = c.q
  OBVIOUS
<1>3. p \in IoQid /\ g.cq[p] = "deleting" /\ Made(e.cqs[p])
  BY <1>1, <1>2 DEF AdminCmd
<1>4. e.cqs[p] \in CQueue /\ 0 \in Slot
  BY <1>1, <1>3, PartTypes, Sizes DEF Good
<1>5. PICK y : y = [e.cqs[p] EXCEPT !.cqid = 0, !.phase = 0, !.size = 0, !.head = 0]
  OBVIOUS
<1>6. y \in CQueue /\ ~Made(y) /\ y.pending = e.cqs[p].pending
  BY <1>1, <1>4, <1>5 DEF CQueue, Made
<1>7. PICK S : S = {q \in IoQid : Made(e.cqs[q])}
  OBVIOUS
<1>8. /\ Cardinality(S) = e.iocqCount
      /\ Cardinality(S \ {p}) = e.iocqCount - 1 /\ e.iocqCount - 1 \in 0 .. MAX_IO_SQCQ_PAIRS
  <2>1. S \subseteq IoQid /\ S \ {p} \subseteq IoQid /\ p \in S /\ Cardinality(S) = e.iocqCount
    BY <1>3, <1>7 DEF Good, Inv, Counts
  <2>2. Cardinality(S \ {p}) = Cardinality(S) - 1
    BY <1>3, <2>1, CardFacts
  <2>3. Cardinality(S \ {p}) \in 0 .. MAX_IO_SQCQ_PAIRS
    BY <1>3, <2>1, CardFacts
  <2> QED BY <2>1, <2>2, <2>3
<1>9. PICK z : z = [s.cqs EXCEPT ![p] = y]
  OBVIOUS
<1>10. z \in [Qid -> CQueue] /\ z[p] = y /\ \A r \in Qid \ {p} : z[r] = e.cqs[r]
  BY <1>1, <1>3, <1>6, <1>9 DEF Driver
<1>11. PICK x : x = [s EXCEPT !.cqs = z, !.iocqCount = s.iocqCount - 1]
  OBVIOUS
<1>12. s.iocqCount = e.iocqCount /\ s.iosqCount = e.iosqCount
  BY <1>1 DEF SameRest, SameCounts
<1>13. /\ x \in Driver /\ x.cqs = z /\ x.sqs = s.sqs /\ x.isp = e.isp
       /\ x.iocqCount = e.iocqCount - 1 /\ x.iosqCount = e.iosqCount
  BY <1>1, <1>8, <1>10, <1>11, <1>12 DEF Driver, SameRest
<1>14. f = EnqueueAdmin(x, c, 0)
  <2>1. x = [s EXCEPT !.cqs[c.q] = [@ EXCEPT !.cqid = 0, !.phase = 0, !.size = 0, !.head = 0],
                      !.iocqCount = @ - 1]
    BY <1>1, <1>2, <1>5, <1>9, <1>11
  <2>2. AdminHandler(s, c) = NvmeDeleteCq(s, c)
    BY DEF AdminHandler
  <2> QED BY <2>1, <2>2 DEF NvmeDeleteCq
<1>15. Touched(x, e, p)
  BY <1>1, <1>3, <1>10, <1>13 DEF Touched, Fetched
<1>16. Counts(x)
  <2>1. {q \in IoQid : Made(x.cqs[q])} = S \ {p}
    BY <1>1, <1>3, <1>6, <1>7, <1>10, <1>13
  <2>2. {q \in IoQid : Made(x.sqs[q])} = {q \in IoQid : Made(e.sqs[q])}
    BY <1>1, <1>13
  <2>3. e.iosqCount = Cardinality({q \in IoQid : Made(e.sqs[q])})
    BY DEF Good, Inv, Counts
  <2> QED BY <1>8, <1>13, <2>1, <2>2, <2>3 DEF Counts
<1>17. CqAt(e, cm, g, b, p) /\ SqAt(e, cm, sm, g, b, p)
  BY <1>1, <1>3 DEF Good, Inv
<1>18. x.cqs[p] = y /\ x.sqs[p] = e.sqs[p] /\ p # 0
  BY <1>1, <1>3, <1>10, <1>13
<1>19. g.sq[p] = "none" /\ ~Up(g.sq[p], p)
  BY <1>3, <1>17, <1>18 DEF SqAt, SqPart, Up
<1>20. Quiet(e.cqs[p], e.isp, g.head[p], g.out[p], b, p)
  BY <1>17, <1>19 DEF SqAt, SqPart
<1>21. CqAt(x, cm, g, b, p)
  <2>1. \A i \in 1 .. Len(b) : ~IsCq(b, i, p)
    BY <1>2 DEF Due
  <2>2. y.pending = <<>>
    BY <1>3, <1>6, <1>20 DEF Quiet
  <2> QED BY <1>3, <1>6, <1>18, <2>1, <2>2 DEF CqAt, CqPart
<1>22. SqAt(x, cm, sm, g, b, p)
  <2>1. Quiet(y, x.isp, g.head[p], g.out[p], b, p)
    BY <1>6, <1>13, <1>20 DEF Quiet
  <2> QED BY <1>13, <1>17, <1>18, <1>19, <2>1 DEF SqAt, SqPart
<1>23. CmdsDone(UnfOf(e, sm, g, 0), g.out[0], NextCid(e, sm, 0), c, x, g)
  <2>1. \A r \in IoQid \ {p} : Made(x.cqs[r]) = Made(e.cqs[r])
    BY <1>1, <1>10, <1>13
  <2>2. \A r \in IoQid : Made(x.sqs[r]) = Made(e.sqs[r])
    BY <1>1, <1>13
  <2>3. Made(x.cqs[p]) = (c.op = "CREATE_CQ")
    BY <1>6, <1>18 DEF Made
  <2> QED BY <1>1, <1>2, <2>1, <2>2, <2>3, OneCq
<1>24. c.op \in QueueOps
  BY DEF QueueOps
<1> QED BY <1>3, <1>14, <1>15, <1>16, <1>21, <1>22, <1>23, <1>24, QueueAnswer

LEMMA CreateSqFetch ==
  ASSUME NEW e, NEW cm, NEW sm, NEW b, NEW g, Good(e, cm, sm, b, g), Due(e, sm, g, b, 0),
         NEW v \in Slot, NEW s, AfterFetch(s, e, 0, v),
         NEW c, c = NextCmd(e, sm, g, 0), c.op = "CREATE_SQ", NEW f, f = AdminHandler(s, c)
  PROVE  Good(f, cm, sm, b, g) /\ Answered(c) /\ f.cqs[f.sqs[0].cqid].cqid = 0
<1>1. /\ AdminPart(UnfOf(e, sm, g, 0), g.out[0], e.sqs[0].head, e, g, b)
      /\ NextCid(e, sm, 0) \in Tag /\ In(UnfOf(e, sm, g, 0), NextCid(e, sm, 0))
      /\ g.out[0][NextCid(e, sm, 0)] = c /\ AdminCmd(c, TRUE, e, g)
      /\ s \in Driver /\ Fetched(s, e, 0) /\ s.cqs = e.cqs /\ SameRest(s, e)
      /\ \A r \in IoQid : s.sqs[r] = e.sqs[r]
      /\ 0 \notin IoQid /\ IoQid \subseteq Qid /\ 0 \in Qid
  <2>1. OnQueue(e, sm, b, g, s, c)
    BY QueueCmdFacts
  <2> QED BY <2>1 DEF OnQueue
<1>2. PICK p : p = c.q
  OBVIOUS
<1>3. p \in IoQid /\ g.sq[p] = "creating" /\ ~Made(e.sqs[p]) /\ c.v = p
  BY <1>1, <1>2 DEF AdminCmd
<1>4. /\ SQ_SIZE = SqSize(p) /\ SQ_SIZE \in Nat /\ SQ_SIZE >= 2 /\ 0 \in Slot /\ e.sqs[p] \in SQueue
  BY <1>1, <1>3, Sizes, PartTypes DEF SqSize, Good
<1>5. PICK y : y = [sqid |-> p, cqid |-> p, size |-> SQ_SIZE, head |-> 0, tail |-> 0]
  OBVIOUS
<1>6. y \in SQueue /\ Made(y) /\ y.head = 0 /\ y.size = SqSize(p) /\ y.cqid = p
  BY <1>1, <1>3, <1>4, <1>5 DEF SQueue, Made
<1>7. PICK S : S = {q \in IoQid : Made(e.sqs[q])}
  OBVIOUS
<1>8. /\ Cardinality(S) = e.iosqCount
      /\ Cardinality(S \cup {p}) = e.iosqCount + 1 /\ e.iosqCount + 1 \in 0 .. MAX_IO_SQCQ_PAIRS
  <2>1. S \subseteq IoQid /\ S \cup {p} \subseteq IoQid /\ p \notin S /\ Cardinality(S) = e.iosqCount
    BY <1>3, <1>7 DEF Good, Inv, Counts
  <2>2. Cardinality(S \cup {p}) = Cardinality(S) + 1
    BY <1>3, <2>1, CardFacts
  <2>3. Cardinality(S \cup {p}) \in 0 .. MAX_IO_SQCQ_PAIRS
    BY <1>3, <2>1, CardFacts
  <2> QED BY <2>1, <2>2, <2>3
<1>9. PICK z : z = [s.sqs EXCEPT ![p] = y]
  OBVIOUS
<1>10. z \in [Qid -> SQueue] /\ z[p] = y /\ \A r \in Qid \ {p} : z[r] = s.sqs[r]
  BY <1>1, <1>3, <1>6, <1>9 DEF Driver
<1>11. PICK x : x = [s EXCEPT !.sqs = z, !.iosqCount = s.iosqCount + 1]
  OBVIOUS
<1>12. s.iocqCount = e.iocqCount /\ s.iosqCount = e.iosqCount
  BY <1>1 DEF SameRest, SameCounts
<1>13. /\ x \in Driver /\ x.sqs = z /\ x.cqs = e.cqs /\ x.isp = e.isp
       /\ x.iosqCount = e.iosqCount + 1 /\ x.iocqCount = e.iocqCount
  BY <1>1, <1>8, <1>10, <1>11, <1>12 DEF Driver, SameRest
<1>14. f = EnqueueAdmin(x, c, 0)
  <2>1. x = [s EXCEPT !.sqs[c.q] = y, !.iosqCount = @ + 1]
    BY <1>1, <1>2, <1>3, <1>5, <1>9, <1>11
  <2>2. AdminHandler(s, c) = NvmeCreateSq(s, c)
    BY DEF AdminHandler
  <2> QED BY <1>2, <1>3, <1>5, <2>1, <2>2 DEF NvmeCreateSq
<1>15. Touched(x, e, p)
  BY <1>1, <1>3, <1>10, <1>13 DEF Touched, Fetched
<1>16. Counts(x)
  <2>1. {q \in IoQid : Made(x.sqs[q])} = S \cup {p}
    BY <1>1, <1>3, <1>6, <1>7, <1>10, <1>13
  <2>2. e.iocqCount = Cardinality({q \in IoQid : Made(e.cqs[q])})
    BY DEF Good, Inv, Counts
  <2> QED BY <1>8, <1>13, <2>1, <2>2 DEF Counts
<1>17. CqAt(e, cm, g, b, p) /\ SqAt(e, cm, sm, g, b, p)
  BY <1>1, <1>3 DEF Good, Inv
<1>18. x.sqs[p] = y /\ x.cqs[p] = e.cqs[p] /\ p # 0
  BY <1>1, <1>3, <1>10, <1>13
<1>19. ~Up(g.sq[p], p)
  BY <1>3, <1>18 DEF Up
<1>20. CqAt(x, cm, g, b, p)
  BY <1>17, <1>18 DEF CqAt
<1>21. SqAt(x, cm, sm, g, b, p)
  <2>1. Quiet(e.cqs[p], e.isp, g.head[p], g.out[p], b, p) /\ g.cq[p] = "live"
    BY <1>3, <1>17, <1>18, <1>19 DEF SqAt, SqPart
  <2>2. g.sq[p] = "creating" => g.tail[p] = 0
    BY <1>17, <1>18 DEF SqAt, SqPart
  <2> QED BY <1>3, <1>6, <1>13, <1>18, <1>19, <2>1, <2>2 DEF SqAt, SqPart
<1>22. CmdsDone(UnfOf(e, sm, g, 0), g.out[0], NextCid(e, sm, 0), c, x, g)
  <2>1. \A r \in IoQid \ {p} : Made(x.sqs[r]) = Made(e.sqs[r])
    BY <1>1, <1>10, <1>13
  <2>2. \A r \in IoQid : Made(x.cqs[r]) = Made(e.cqs[r])
    BY <1>1, <1>13
  <2>3. Made(x.sqs[p]) = (c.op = "CREATE_SQ")
    BY <1>6, <1>18 DEF Made
  <2> QED BY <1>1, <1>2, <2>1, <2>2, <2>3, OneSq
<1>23. c.op \in QueueOps
  BY DEF QueueOps
<1> QED BY <1>3, <1>14, <1>15, <1>16, <1>20, <1>21, <1>22, <1>23, QueueAnswer

LEMMA DeleteSqFetch ==
  ASSUME NEW e, NEW cm, NEW sm, NEW b, NEW g, Good(e, cm, sm, b, g), Due(e, sm, g, b, 0),
         NEW v \in Slot, NEW s, AfterFetch(s, e, 0, v),
         NEW c, c = NextCmd(e, sm, g, 0), c.op = "DELETE_SQ", NEW f, f = AdminHandler(s, c)
  PROVE  Good(f, cm, sm, b, g) /\ Answered(c) /\ f.cqs[f.sqs[0].cqid].cqid = 0
<1>1. /\ AdminPart(UnfOf(e, sm, g, 0), g.out[0], e.sqs[0].head, e, g, b)
      /\ NextCid(e, sm, 0) \in Tag /\ In(UnfOf(e, sm, g, 0), NextCid(e, sm, 0))
      /\ g.out[0][NextCid(e, sm, 0)] = c /\ AdminCmd(c, TRUE, e, g)
      /\ s \in Driver /\ Fetched(s, e, 0) /\ s.cqs = e.cqs /\ SameRest(s, e)
      /\ \A r \in IoQid : s.sqs[r] = e.sqs[r]
      /\ 0 \notin IoQid /\ IoQid \subseteq Qid /\ 0 \in Qid
  <2>1. OnQueue(e, sm, b, g, s, c)
    BY QueueCmdFacts
  <2> QED BY <2>1 DEF OnQueue
<1>2. PICK p : p = c.q
  OBVIOUS
<1>3. p \in IoQid /\ g.sq[p] = "deleting" /\ Made(e.sqs[p])
  BY <1>1, <1>2 DEF AdminCmd
<1>4. /\ SQ_SIZE = SqSize(p) /\ SQ_SIZE \in Nat /\ SQ_SIZE >= 2 /\ 0 \in Slot /\ e.sqs[p] \in SQueue
  BY <1>1, <1>3, Sizes, PartTypes DEF SqSize, Good
<1>5. PICK y : y = [e.sqs[p] EXCEPT !.sqid = 0, !.size = 0, !.head = 0]
  OBVIOUS
<1>6. y \in SQueue /\ ~Made(y) /\ y.head = 0
  BY <1>1, <1>3, <1>4, <1>5 DEF SQueue, Made
<1>7. PICK S : S = {q \in IoQid : Made(e.sqs[q])}
  OBVIOUS
<1>8. /\ Cardinality(S) = e.iosqCount
      /\ Cardinality(S \ {p}) = e.iosqCount - 1 /\ e.iosqCount - 1 \in 0 .. MAX_IO_SQCQ_PAIRS
  <2>1. S \subseteq IoQid /\ S \ {p} \subseteq IoQid /\ p \in S /\ Cardinality(S) = e.iosqCount
    BY <1>3, <1>7 DEF Good, Inv, Counts
  <2>2. Cardinality(S \ {p}) = Cardinality(S) - 1
    BY <1>3, <2>1, CardFacts
  <2>3. Cardinality(S \ {p}) \in 0 .. MAX_IO_SQCQ_PAIRS
    BY <1>3, <2>1, CardFacts
  <2> QED BY <2>1, <2>2, <2>3
<1>9. PICK z : z = [s.sqs EXCEPT ![p] = y]
  OBVIOUS
<1>10. z \in [Qid -> SQueue] /\ z[p] = y /\ \A r \in Qid \ {p} : z[r] = s.sqs[r]
  BY <1>1, <1>3, <1>6, <1>9 DEF Driver
<1>11. PICK x : x = [s EXCEPT !.sqs = z, !.iosqCount = s.iosqCount - 1]
  OBVIOUS
<1>12. s.iocqCount = e.iocqCount /\ s.iosqCount = e.iosqCount
  BY <1>1 DEF SameRest, SameCounts
<1>13. /\ x \in Driver /\ x.sqs = z /\ x.cqs = e.cqs /\ x.isp = e.isp
       /\ x.iosqCount = e.iosqCount - 1 /\ x.iocqCount = e.iocqCount
  BY <1>1, <1>8, <1>10, <1>11, <1>12 DEF Driver, SameRest
<1>14. f = EnqueueAdmin(x, c, 0)
  <2>1. x = [s EXCEPT !.sqs[c.q] = [@ EXCEPT !.sqid = 0, !.size = 0, !.head = 0], !.iosqCount = @ - 1]
    BY <1>1, <1>2, <1>3, <1>5, <1>9, <1>11
  <2>2. AdminHandler(s, c) = NvmeDeleteSq(s, c)
    BY DEF AdminHandler
  <2> QED BY <1>2, <1>3, <1>5, <2>1, <2>2 DEF NvmeDeleteSq
<1>15. Touched(x, e, p)
  BY <1>1, <1>3, <1>10, <1>13 DEF Touched, Fetched
<1>16. Counts(x)
  <2>1. {q \in IoQid : Made(x.sqs[q])} = S \ {p}
    BY <1>1, <1>3, <1>6, <1>7, <1>10, <1>13
  <2>2. e.iocqCount = Cardinality({q \in IoQid : Made(e.cqs[q])})
    BY DEF Good, Inv, Counts
  <2> QED BY <1>8, <1>13, <2>1, <2>2 DEF Counts
<1>17. CqAt(e, cm, g, b, p) /\ SqAt(e, cm, sm, g, b, p)
  BY <1>1, <1>3 DEF Good, Inv
<1>18. x.sqs[p] = y /\ x.cqs[p] = e.cqs[p] /\ p # 0
  BY <1>1, <1>3, <1>10, <1>13
<1>19. ~Up(g.sq[p], p)
  BY <1>3, <1>18 DEF Up
<1>20. CqAt(x, cm, g, b, p)
  BY <1>17, <1>18 DEF CqAt
<1>21. SqAt(x, cm, sm, g, b, p)
  <2>1. Quiet(e.cqs[p], e.isp, g.head[p], g.out[p], b, p) /\ g.cq[p] = "live"
    BY <1>3, <1>17, <1>18, <1>19 DEF SqAt, SqPart
  <2>2. g.sq[p] = "creating" => g.tail[p] = 0
    BY <1>17, <1>18 DEF SqAt, SqPart
  <2> QED BY <1>3, <1>6, <1>13, <1>18, <1>19, <2>1, <2>2 DEF SqAt, SqPart
<1>22. CmdsDone(UnfOf(e, sm, g, 0), g.out[0], NextCid(e, sm, 0), c, x, g)
  <2>1. \A r \in IoQid \ {p} : Made(x.sqs[r]) = Made(e.sqs[r])
    BY <1>1, <1>10, <1>13
  <2>2. \A r \in IoQid : Made(x.cqs[r]) = Made(e.cqs[r])
    BY <1>1, <1>13
  <2>3. Made(x.sqs[p]) = (c.op = "CREATE_SQ")
    BY <1>6, <1>18 DEF Made
  <2> QED BY <1>1, <1>2, <2>1, <2>2, <2>3, OneSq
<1>23. c.op \in QueueOps
  BY DEF QueueOps
<1> QED BY <1>3, <1>14, <1>15, <1>16, <1>20, <1>21, <1>22, <1>23, QueueAnswer

----------------------------------------------------------------------------
(* The steps of the driver.                                                *)

LEMMA FetchAll ==
  ASSUME NEW e, NEW cm, NEW sm, NEW b, NEW g, Good(e, cm, sm, b, g), NEW q \in Qid,
         Due(e, sm, g, b, q), NEW v \in Slot, NEW s, AfterFetch(s, e, q, v),
         NEW c, c = NextCmd(e, sm, g, q),
         NEW f, f = IF q = 0 THEN AdminHandler(s, c) ELSE IoHandler(s, q, c)
  PROVE  Good(f, cm, sm, b, g) /\ (Answered(c) => f.cqs[f.sqs[q].cqid].cqid = q)
<1>1. CASE q # 0
  <2>1. q \in IoQid /\ f = IoHandler(s, q, c)
    BY <1>1, QidFacts
  <2> QED BY <2>1, IoFetch DEF AfterFetch
<1>2. CASE q = 0
  <2>1. f = AdminHandler(s, c)
    BY <1>2
  <2>2. CASE c.op \notin QueueOps
    BY <1>2, <2>1, <2>2, MiscFetch DEF AfterFetch
  <2>3. CASE c.op = "CREATE_CQ"
    BY <1>2, <2>1, <2>3, CreateCqFetch
  <2>4. CASE c.op = "CREATE_SQ"
    BY <1>2, <2>1, <2>4, CreateSqFetch
  <2>5. CASE c.op = "DELETE_CQ"
    BY <1>2, <2>1, <2>5, DeleteCqFetch
  <2>6. CASE c.op = "DELETE_SQ"
    BY <1>2, <2>1, <2>6, DeleteSqFetch
  <2> QED BY <2>2, <2>3, <2>4, <2>5, <2>6 DEF QueueOps
<1> QED BY <1>1, <1>2

LEMMA PostToIs ==
  ASSUME NEW e \in Driver, NEW cm \in [Qid -> [Slot -> Entry]], NEW q \in Qid,
         NEW f, f = [e EXCEPT !.cqs[q] = PostCcmds(@)],
         NEW fm, fm = [cm EXCEPT ![q] = PostEntries(e.cqs[q], e.sqs[q].head, @)]
  PROVE  PostedAll(f, fm, e, cm, {q})
<1>1. e.cqs \in [Qid -> CQueue]
  BY DEF Driver
<1>2. PICK z : z = [e.cqs EXCEPT ![q] = PostCcmds(e.cqs[q])]
  OBVIOUS
<1>3. z = [p \in Qid |-> IF p \in {q} THEN PostCcmds(e.cqs[p]) ELSE e.cqs[p]]
  BY <1>1, <1>2
<1>4. f = [e EXCEPT !.cqs = z]
  BY <1>1, <1>2
<1>5. fm = [p \in Qid |-> IF p \in {q} THEN PostEntries(e.cqs[p], e.sqs[p].head, cm[p]) ELSE cm[p]]
  OBVIOUS
<1> QED BY <1>3, <1>4, <1>5 DEF PostedAll

LEMMA IInvIs == IInv <=> Good(d, cq_mem, sq_mem, db, h)
BY DEF IInv, Good, Typed, TypeOK, Entry, Door

LEMMA StepDoorSq == ASSUME IInv, CheckDoorSq PROVE IInv'
<1>1. Good(d, cq_mem, sq_mem, db, h) /\ db \in Seq(Door) /\ db # <<>>
  BY IInvIs DEF CheckDoorSq, Good, Typed
<1>2. PICK q : q = Head(db).q
  OBVIOUS
<1>3. PICK v : v = Head(db).value
  OBVIOUS
<1>4. q \in Qid /\ v \in Slot /\ Head(db).kind = "SQ"
  <2>1. Head(db) \in Door
    BY <1>1, PopIs
  <2> QED BY <1>2, <1>3, <2>1 DEF Door, CheckDoorSq
<1>5. PICK b : b = Tail(db)
  OBVIOUS
<1>6. Good(d, cq_mem, sq_mem, b, h) /\ Due(d, sq_mem, h, b, q)
  BY <1>1, <1>2, <1>4, <1>5, PopInv, PopDue
<1>7. PICK c : c = NextCmd(d, sq_mem, h, q)
  OBVIOUS
<1>8. c = h.out[q][sq_mem[q][d.sqs[q].head]]
  BY <1>7 DEF NextCmd, NextCid
<1>9. PICK s : s = Fetch([d EXCEPT !.sqs[q].tail = v], q)
  OBVIOUS
<1>10. PICK t : t = IF q = 0 THEN AdminHandler(s, c) ELSE IoHandler(s, q, c)
  OBVIOUS
<1>11. /\ db' = b /\ sq_mem' = sq_mem /\ h' = h
       /\ IF c.op = "ISP" \/ ~Answered(c) THEN d' = t /\ cq_mem' = cq_mem
          ELSE PostTo(t, t.cqs[t.sqs[q].cqid].cqid)
  BY <1>2, <1>3, <1>5, <1>8, <1>9, <1>10 DEF CheckDoorSq
<1>12. AfterFetch(s, d, q, v)
  BY <1>9 DEF AfterFetch
<1>13. Good(t, cq_mem, sq_mem, b, h) /\ (Answered(c) => t.cqs[t.sqs[q].cqid].cqid = q)
  BY <1>4, <1>6, <1>7, <1>10, <1>12, FetchAll
<1>14. CASE c.op = "ISP" \/ ~Answered(c)
  <2>1. Good(d', cq_mem', sq_mem', db', h')
    BY <1>11, <1>13, <1>14
  <2> QED BY <2>1 DEF IInv, Good, Typed, TypeOK, Entry, Door
<1>15. CASE ~(c.op = "ISP" \/ ~Answered(c))
  <2>1. PostTo(t, q)
    BY <1>11, <1>13, <1>15
  <2>2. /\ d' = [t EXCEPT !.cqs[q] = PostCcmds(@)]
        /\ cq_mem' = [cq_mem EXCEPT ![q] = PostEntries(t.cqs[q], t.sqs[q].head, @)]
    BY <2>1 DEF PostTo
  <2>3. t \in Driver /\ cq_mem \in [Qid -> [Slot -> Entry]]
    BY <1>13 DEF Good, Typed
  <2>4. PostedAll(d', cq_mem', t, cq_mem, {q})
    BY <1>4, <2>2, <2>3, PostToIs
  <2>5. Good(d', cq_mem', sq_mem, b, h)
    BY <1>13, <2>4, PostInv
  <2> QED BY <1>11, <2>5 DEF IInv, Good, Typed, TypeOK, Entry, Door
<1> QED BY <1>14, <1>15

\* The host has made room in a completion queue: the doorbell is in b.
LEMMA DoorCq ==
  ASSUME NEW b \in Seq(Door), b # <<>>, NEW cq, NEW r, NEW m, NEW st, NEW hd, NEW rung, NEW ph, NEW q,
         CqPart(cq, m, st, hd, rung, ph, b, q), Head(b).kind = "CQ", Head(b).q = q,
         r.cqid = cq.cqid, r.phase = cq.phase, r.size = cq.size, r.tail = cq.tail,
         r.head = Head(b).value
  PROVE  CqPart(r, m, st, hd, rung, ph, Tail(b), q) /\ Made(cq) /\ Head(b).value \in 0 .. CqSize(q) - 1
<1>1. /\ Len(b) \in Nat \ {0} /\ b[1] = Head(b)
      /\ \A i \in 1 .. Len(Tail(b)) : i + 1 \in 1 .. Len(b) /\ Tail(b)[i] = b[i + 1]
      /\ \A i : IsCq(Tail(b), i, q) => IsCq(b, i + 1, q)
  BY PopIs
<1>2. 1 \in 1 .. Len(b) /\ IsCq(b, 1, q)
  BY <1>1 DEF IsCq
<1>3. Made(cq) /\ Made(r)
  BY <1>2 DEF CqPart, Made
<1>4. PICK n : n = CqSize(q)
  OBVIOUS
<1>5. Heads(cq, hd, rung, b, q, n) /\ Phases(cq, m, hd, ph, n) /\ cq.size = n
  BY <1>3, <1>4 DEF CqPart
<1>6. /\ r.head \in 0 .. n - 1 /\ Off(rung, cq.tail, n) <= Off(r.head, cq.tail, n)
  BY <1>1, <1>2, <1>5 DEF Heads
<1>7. Phases(r, m, hd, ph, n)
  BY <1>5 DEF Phases
<1>8. PICK t : t = Tail(b)
  OBVIOUS
<1>9. ASSUME NEW i \in 1 .. Len(t), IsCq(t, i, q)
      PROVE  /\ t[i].value \in 0 .. n - 1
             /\ Off(t[i].value, r.tail, n) <= Off(r.head, r.tail, n)
             /\ Off(rung, r.tail, n) <= Off(t[i].value, r.tail, n)
  <2>1. i + 1 \in 1 .. Len(b) /\ 1 < i + 1 /\ IsCq(b, i + 1, q) /\ t[i] = b[i + 1]
    BY <1>1, <1>8, <1>9
  <2>2. b[i + 1].value \in 0 .. n - 1 /\ Off(rung, cq.tail, n) <= Off(b[i + 1].value, cq.tail, n)
    BY <1>5, <2>1 DEF Heads
  <2>3. Off(b[i + 1].value, cq.tail, n) <= Off(b[1].value, cq.tail, n)
    BY <1>2, <1>5, <2>1 DEF Heads
  <2> QED BY <1>1, <2>1, <2>2, <2>3
<1>10. ASSUME NEW i \in 1 .. Len(t), NEW j \in 1 .. Len(t), i < j, IsCq(t, i, q), IsCq(t, j, q)
       PROVE  Off(t[j].value, r.tail, n) <= Off(t[i].value, r.tail, n)
  <2>1. /\ i + 1 \in 1 .. Len(b) /\ j + 1 \in 1 .. Len(b) /\ i + 1 < j + 1
        /\ IsCq(b, i + 1, q) /\ IsCq(b, j + 1, q) /\ t[i] = b[i + 1] /\ t[j] = b[j + 1]
    BY <1>1, <1>8, <1>10
  <2> QED BY <1>5, <2>1 DEF Heads
<1>11. Heads(r, hd, rung, t, q, n)
  <2>1. {r.tail, r.head, hd, rung} \subseteq 0 .. n - 1 /\ Off(hd, r.tail, n) <= Off(rung, r.tail, n)
    BY <1>5, <1>6 DEF Heads
  <2> QED BY <1>6, <1>9, <1>10, <2>1 DEF Heads
<1>12. CqPart(r, m, st, hd, rung, ph, t, q)
  <2>1. q # 0 /\ st = "creating" => hd = 0 /\ rung = 0 /\ ph = 1 /\ \A i \in 0 .. n - 1 : m[i].phase = 0
    BY <1>4 DEF CqPart
  <2>2. ~(q # 0 /\ st = "none") /\ r.cqid = q
    BY <1>3 DEF CqPart
  <2> QED BY <1>3, <1>4, <1>5, <1>7, <1>11, <2>1, <2>2 DEF CqPart
<1> QED BY <1>3, <1>4, <1>6, <1>8, <1>12

\* Driver f is e after it has read a completion doorbell.
HeadRead(f, e, b) == f = [e EXCEPT !.cqs[Head(b).q].head = Head(b).value]

LEMMA DoorCqGood ==
  ASSUME NEW e, NEW cm, NEW sm, NEW b, NEW g, Good(e, cm, sm, b, g), b # <<>>,
         Head(b).kind = "CQ", NEW f, HeadRead(f, e, b)
  PROVE  Good(f, cm, sm, Tail(b), g)
<1>1. b \in Seq(Door) /\ e \in Driver /\ e.cqs \in [Qid -> CQueue]
  BY DEF Good, Typed, Driver
<1>2. PICK q : q = Head(b).q
  OBVIOUS
<1>3. PICK v : v = Head(b).value
  OBVIOUS
<1>4. q \in Qid /\ v \in Slot
  <2>1. Head(b) \in Door
    BY <1>1, PopIs
  <2> QED BY <1>2, <1>3, <2>1 DEF Door
<1>5. PICK r : r = [e.cqs[q] EXCEPT !.head = v]
  OBVIOUS
<1>6. r \in CQueue /\ r.head = v /\ r.cqid = e.cqs[q].cqid /\ r.phase = e.cqs[q].phase
      /\ r.size = e.cqs[q].size /\ r.tail = e.cqs[q].tail /\ r.pending = e.cqs[q].pending
  <2>1. PICK c : c = e.cqs[q]
    OBVIOUS
  <2>2. c \in CQueue /\ r = [c EXCEPT !.head = v]
    BY <1>1, <1>4, <1>5, <2>1
  <2>3. r \in CQueue
    BY <1>4, <2>2 DEF CQueue
  <2>4. r.head = v /\ r.cqid = c.cqid /\ r.phase = c.phase /\ r.size = c.size /\ r.tail = c.tail /\ r.pending = c.pending
    BY <2>2 DEF CQueue
  <2> QED BY <2>1, <2>3, <2>4
<1>7. PICK z : z = [e.cqs EXCEPT ![q] = r]
  OBVIOUS
<1>8. z \in [Qid -> CQueue] /\ z[q] = r /\ \A p \in Qid \ {q} : z[p] = e.cqs[p]
  BY <1>1, <1>4, <1>6, <1>7
<1>9. f = [e EXCEPT !.cqs = z]
  BY <1>1, <1>2, <1>3, <1>5, <1>7 DEF HeadRead
<1>10. f \in Driver /\ f.cqs = z /\ f.sqs = e.sqs /\ SameRest(f, e)
  BY <1>1, <1>8, <1>9 DEF Driver, SameRest, SameCounts
<1>11. Good(e, cm, sm, Tail(b), g)
  BY PopInv
<1>12. PICK t : t = Tail(b)
  OBVIOUS
<1>13. SameMade(e, f)
  <2>1. \A p \in IoQid : f.cqs[p].size = e.cqs[p].size /\ f.sqs[p] = e.sqs[p]
    BY <1>6, <1>8, <1>10, QidFacts
  <2> QED BY <2>1 DEF SameMade, Made
<1>14. Counts(f) /\ AdminPart(UnfOf(f, sm, g, 0), g.out[0], f.sqs[0].head, f, g, t)
  <2>1. Counts(e) /\ SameCounts(f, e)
    BY <1>10 DEF Good, Inv, SameRest
  <2>2. AdminPart(UnfOf(f, sm, g, 0), g.out[0], f.sqs[0].head, f, g, t)
    <3>1. Good(e, cm, sm, t, g) /\ f.sqs[0] = e.sqs[0]
      BY <1>10, <1>11, <1>12
    <3> QED BY <1>13, <3>1, AdminKeep
  <2> QED BY <1>13, <2>1, <2>2, CountsKeep
<1>15. ASSUME NEW p \in Qid PROVE CqAt(f, cm, g, t, p) /\ SqAt(f, cm, sm, g, t, p)
  <2>1. CASE p # q
    <3>1. f.sqs[p] = e.sqs[p] /\ f.cqs[p] = e.cqs[p] /\ f.isp = e.isp
      BY <1>8, <1>10, <2>1 DEF SameRest
    <3> QED BY <1>11, <1>12, <3>1, OtherPart
  <2>2. CASE p = q
    <3>1. CqAt(e, cm, g, b, q) /\ SqAt(e, cm, sm, g, t, q)
      BY <1>4, <1>11, <1>12 DEF Good, Inv
    <3>2. f.cqs[q] = r /\ f.sqs[q] = e.sqs[q] /\ f.isp = e.isp
      BY <1>8, <1>10 DEF SameRest
    <3>3. CqPart(e.cqs[q], cm[q], g.cq[q], g.head[q], g.rung[q], g.phase[q], b, q)
      BY <3>1 DEF CqAt
    <3>4. CqPart(r, cm[q], g.cq[q], g.head[q], g.rung[q], g.phase[q], t, q) /\ Made(e.cqs[q])
      BY <1>1, <1>2, <1>3, <1>6, <1>12, <3>3, DoorCq
    <3>5. WayOf(f, cm, g, q) = WayOf(e, cm, g, q) /\ UnfOf(f, sm, g, q) = UnfOf(e, sm, g, q)
      BY <1>6, <3>2 DEF WayOf, UnfOf, Way, NewOf
    <3>6. Quiet(e.cqs[q], e.isp, g.head[q], g.out[q], t, q) => Quiet(r, e.isp, g.head[q], g.out[q], t, q)
      BY <1>6, <3>4 DEF Quiet
    <3>7. SqAt(f, cm, sm, g, t, q)
      BY <3>1, <3>2, <3>5, <3>6 DEF SqAt, SqPart
    <3> QED BY <2>2, <3>2, <3>4, <3>7 DEF CqAt
  <2> QED BY <2>1, <2>2
<1> QED BY <1>10, <1>11, <1>12, <1>14, <1>15, Together

LEMMA StepDoorCq == ASSUME IInv, CheckDoorCq PROVE IInv'
<1>1. Good(d, cq_mem, sq_mem, db, h) /\ db # <<>> /\ Head(db).kind = "CQ"
  BY IInvIs DEF CheckDoorCq
<1>2. PICK s : s = [d EXCEPT !.cqs[Head(db).q].head = Head(db).value]
  OBVIOUS
<1>3. Good(s, cq_mem, sq_mem, Tail(db), h)
  BY <1>1, <1>2, DoorCqGood DEF HeadRead
<1>4. PostPolled(s) /\ db' = Tail(db) /\ sq_mem' = sq_mem /\ h' = h
  BY <1>2 DEF CheckDoorCq
<1>5. PostedAll(d', cq_mem', s, cq_mem, Polled(s))
  BY <1>4 DEF PostPolled, PostedAll
<1>6. Good(d', cq_mem', sq_mem, Tail(db), h)
  BY <1>3, <1>5, PostInv
<1> QED BY <1>4, <1>6 DEF IInv, Good, Typed, TypeOK, Entry, Door

LEMMA StepDoorIdle == ASSUME IInv, CheckDoorIdle PROVE IInv'
<1>1. Good(d, cq_mem, sq_mem, db, h)
  BY IInvIs
<1>2. PostPolled(d) /\ db' = db /\ sq_mem' = sq_mem /\ h' = h
  BY DEF CheckDoorIdle
<1>3. PostedAll(d', cq_mem', d, cq_mem, Polled(d))
  BY <1>2 DEF PostPolled, PostedAll
<1>4. Good(d', cq_mem', sq_mem, db, h)
  BY <1>1, <1>3, PostInv
<1> QED BY <1>2, <1>4 DEF IInv, Good, Typed, TypeOK, Entry, Door

\* Request r at the in-storage-processing thread is completed.
Taken(s, e, r) == s = [e EXCEPT !.isp = @ \ {r}]

LEMMA IspGood ==
  ASSUME NEW e, NEW cm, NEW sm, NEW b, NEW g, Good(e, cm, sm, b, g), NEW r \in e.isp,
         NEW s, Taken(s, e, r), NEW f, f = EnqueueIo(s, r.cqid, r.cid)
  PROVE  Good(f, cm, sm, b, g) /\ r.cqid \in Qid
<1>1. e \in Driver /\ Counts(e)
  BY DEF Good, Typed, Inv
<1>2. PICK q : q = r.cqid
  OBVIOUS
<1>3. PICK x : x = r.cid
  OBVIOUS
<1>4. q \in Qid /\ x \in Tag /\ r = [cqid |-> q, cid |-> x]
  <2>1. r \in [cqid: Qid, cid: Tag]
    BY <1>1 DEF Driver
  <2> QED BY <1>2, <1>3, <2>1
<1>5. AtIspOf(e.isp, q, x)
  BY <1>4 DEF AtIspOf
<1>6. SqAt(e, cm, sm, g, b, q)
  BY <1>4 DEF Good, Inv
<1>7. Up(g.sq[q], q)
  BY <1>4, <1>5, <1>6 DEF SqAt, SqPart, Quiet
<1>8. /\ WayOf(e, cm, g, q) \in Seq(Item) /\ UnfOf(e, sm, g, q) \in Seq(Tag)
      /\ Works(e.sqs[q], g.tail[q], WayOf(e, cm, g, q), UnfOf(e, sm, g, q), e.isp, g.out[q], b, q)
  BY <1>4, <1>7, WorkSeqs
<1>9. g.out[q][x] # NoCmd /\ ~Holds(WayOf(e, cm, g, q), x)
  BY <1>4, <1>5, <1>8 DEF Works, Once, OnePlace
<1>10. Len(e.cqs[q].pending) + 1 # e.cqs[q].size
  BY <1>4, <1>7, <1>9, PendingRoom
<1>11. s \in Driver /\ s.sqs = e.sqs /\ s.cqs = e.cqs /\ SameCounts(s, e) /\ s.isp = e.isp \ {r}
  BY <1>1 DEF Taken, Driver, SameCounts
<1>12. PICK it : it = [cid |-> x, cdw0 |-> 0]
  OBVIOUS
<1>13. it \in Item /\ it.cid = x /\ Result(it.cdw0)
  BY <1>4, <1>12, SizeAssumption DEF Item, Result
<1>14. Enqueued(f, s, q, it)
  BY <1>2, <1>3, <1>4, <1>10, <1>11, <1>12, EnqueueIoIs
<1>15. /\ f \in Driver /\ f.sqs = e.sqs /\ f.isp = e.isp \ {r} /\ SameCounts(f, e)
       /\ f.cqs[q] \in CQueue /\ Appended(f, e, q, it) /\ \A p \in Qid \ {q} : f.cqs[p] = e.cqs[p]
  BY <1>11, <1>14 DEF Enqueued, SameRest, SameCounts, Appended
<1>16. WayOf(f, cm, g, q) = Append(WayOf(e, cm, g, q), it) /\ CqAt(f, cm, g, b, q)
  BY <1>4, <1>7, <1>13, <1>15, AppendWay
<1>17. UnfOf(f, sm, g, q) = UnfOf(e, sm, g, q)
  BY <1>15 DEF UnfOf
<1>18. Works(f.sqs[q], g.tail[q], WayOf(f, cm, g, q), UnfOf(f, sm, g, q), f.isp, g.out[q], b, q)
  <2>1. Once(Append(WayOf(e, cm, g, q), it), UnfOf(e, sm, g, q), e.isp \ {[cqid |-> q, cid |-> it.cid]}, g.out[q], q)
    BY <1>5, <1>8, <1>13, OnceTake DEF Works
  <2>2. Known(Append(WayOf(e, cm, g, q), it), g.out[q], q)
    BY <1>8, <1>13, KnownAppend DEF Works
  <2>3. f.isp = e.isp \ {[cqid |-> q, cid |-> it.cid]}
    BY <1>4, <1>13, <1>15
  <2> QED BY <1>8, <1>15, <1>16, <1>17, <2>1, <2>2, <2>3 DEF Works
<1>19. SqAt(f, cm, sm, g, b, q)
  BY <1>6, <1>7, <1>15, <1>18 DEF SqAt, SqPart
<1>20. ASSUME NEW p \in Qid \ {q} PROVE CqAt(f, cm, g, b, p) /\ SqAt(f, cm, sm, g, b, p)
  <2>1. \A t \in Tag : AtIspOf(f.isp, p, t) <=> AtIspOf(e.isp, p, t)
    BY <1>4, <1>15 DEF AtIspOf
  <2>2. f.sqs[p] = e.sqs[p] /\ f.cqs[p] = e.cqs[p]
    BY <1>15
  <2> QED BY <2>1, <2>2, OtherPart
<1>21. SameMade(e, f)
  <2>1. ASSUME NEW p \in IoQid PROVE f.cqs[p].size = e.cqs[p].size /\ f.sqs[p] = e.sqs[p]
    <3>1. CASE p = q
      BY <1>15, <3>1 DEF Appended
    <3>2. CASE p # q
      BY <1>15, <3>2, QidFacts
    <3> QED BY <3>1, <3>2
  <2> QED BY <2>1 DEF SameMade, Made
<1>22. Counts(f) /\ AdminPart(UnfOf(f, sm, g, 0), g.out[0], f.sqs[0].head, f, g, b)
  BY <1>1, <1>15, <1>21, CountsKeep, AdminKeep
<1> QED BY <1>2, <1>4, <1>15, <1>16, <1>19, <1>20, <1>22, Together

LEMMA StepIsp == ASSUME IInv, IspComplete PROVE IInv'
<1>1. Good(d, cq_mem, sq_mem, db, h)
  BY IInvIs
<1>2. PICK r \in d.isp : PostTo(EnqueueIo([d EXCEPT !.isp = @ \ {r}], r.cqid, r.cid), r.cqid)
  BY DEF IspComplete
<1>3. db' = db /\ sq_mem' = sq_mem /\ h' = h
  BY DEF IspComplete
<1>4. PICK s : s = [d EXCEPT !.isp = @ \ {r}]
  OBVIOUS
<1>5. PICK t : t = EnqueueIo(s, r.cqid, r.cid)
  OBVIOUS
<1>6. Taken(s, d, r)
  BY <1>4 DEF Taken
<1>7. Good(t, cq_mem, sq_mem, db, h) /\ r.cqid \in Qid
  BY <1>1, <1>5, <1>6, IspGood
<1>8. PICK q : q = r.cqid
  OBVIOUS
<1>9. /\ d' = [t EXCEPT !.cqs[q] = PostCcmds(@)]
      /\ cq_mem' = [cq_mem EXCEPT ![q] = PostEntries(t.cqs[q], t.sqs[q].head, @)]
  BY <1>2, <1>4, <1>5, <1>8 DEF PostTo
<1>10. t \in Driver /\ cq_mem \in [Qid -> [Slot -> Entry]]
  BY <1>7 DEF Good, Typed
<1>11. PostedAll(d', cq_mem', t, cq_mem, {q})
  BY <1>7, <1>8, <1>9, <1>10, PostToIs
<1>12. Good(d', cq_mem', sq_mem, db, h)
  BY <1>7, <1>11, PostInv
<1> QED BY <1>3, <1>12 DEF IInv, Good, Typed, TypeOK, Entry, Door

----------------------------------------------------------------------------
(* The host sends a command.                                               *)

\* Host g2 is g after command c with identifier x was put into queue q.
SentBy(g2, g, q, x, c) ==
  g2 = [g EXCEPT !.tail[q] = Fwd(g.tail[q], 1, SqSize(q)), !.out[q][x] = c]
SentCell(sm2, sm, g, q, x) == sm2 = [sm EXCEPT ![q][g.tail[q]] = x]
SentDoor(g, q) == [kind |-> "SQ", q |-> q, value |-> Fwd(g.tail[q], 1, SqSize(q))]

\* g2 believes of the queues what g does.
SameView(g2, g) ==
  /\ g2.head = g.head /\ g2.rung = g.rung /\ g2.phase = g.phase /\ g2.sq = g.sq /\ g2.cq = g.cq

LEMMA SentIs ==
  ASSUME NEW g \in Host, NEW q \in Qid, NEW x \in Tag, NEW c \in Command,
         Fwd(g.tail[q], 1, SqSize(q)) \in Slot, NEW g2, SentBy(g2, g, q, x, c)
  PROVE  /\ g2 \in Host /\ SameView(g2, g) /\ g2.tail[q] = Fwd(g.tail[q], 1, SqSize(q))
         /\ g2.out[q] = [g.out[q] EXCEPT ![x] = c]
         /\ \A p \in Qid \ {q} : g2.tail[p] = g.tail[p] /\ g2.out[p] = g.out[p]
<1>1. g.tail \in [Qid -> Slot] /\ g.out \in [Qid -> [Tag -> Command \cup {NoCmd}]]
  BY DEF Host
<1>2. PICK t : t = [g.tail EXCEPT ![q] = Fwd(g.tail[q], 1, SqSize(q))]
  OBVIOUS
<1>3. PICK y : y = [g.out[q] EXCEPT ![x] = c]
  OBVIOUS
<1>4. PICK o : o = [g.out EXCEPT ![q] = y]
  OBVIOUS
<1>5. t \in [Qid -> Slot] /\ t[q] = Fwd(g.tail[q], 1, SqSize(q)) /\ \A p \in Qid \ {q} : t[p] = g.tail[p]
  BY <1>1, <1>2
<1>6. y \in [Tag -> Command \cup {NoCmd}]
  <2>1. g.out[q] \in [Tag -> Command \cup {NoCmd}]
    BY <1>1
  <2> QED BY <1>3, <2>1
<1>7. o \in [Qid -> [Tag -> Command \cup {NoCmd}]] /\ o[q] = y /\ \A p \in Qid \ {q} : o[p] = g.out[p]
  BY <1>1, <1>4, <1>6
<1>8. g2 = [g EXCEPT !.tail = t, !.out = o]
  BY <1>1, <1>2, <1>3, <1>4 DEF SentBy
<1>9. g2 \in Host
  BY <1>5, <1>7, <1>8 DEF Host
<1>10. g2.tail = t /\ g2.out = o /\ SameView(g2, g)
  BY <1>8 DEF Host, SameView
<1> QED BY <1>3, <1>5, <1>7, <1>9, <1>10

\* A submission doorbell of queue q is rung for a new command.
LEMMA DoorsPush ==
  ASSUME NEW n \in Nat, n >= 2, NEW sq, sq.head \in 0 .. n - 1, NEW tl \in 0 .. n - 1,
         Off(sq.head, tl, n) + 1 <= n - 1, NEW b \in Seq(Door), NEW q, SqDoors(sq, tl, b, q, n),
         NEW x \in Door, x.kind = "SQ", x.q = q, x.value = Fwd(tl, 1, n)
  PROVE  SqDoors(sq, Fwd(tl, 1, n), Append(b, x), q, n)
<1>1. /\ Append(b, x)[Len(b) + 1] = x /\ Len(b) \in Nat /\ Len(Append(b, x)) = Len(b) + 1
      /\ \A i \in 1 .. Len(b) : Append(b, x)[i] = b[i]
      /\ \A i : IsSq(Append(b, x), i, q) => IsSq(b, i, q) \/ i = Len(b) + 1
  BY PushIs
<1>2. PICK t : t = Append(b, x)
  OBVIOUS
<1>3. PICK v : v = Fwd(tl, 1, n)
  OBVIOUS
<1>4. v \in 0 .. n - 1 /\ Off(sq.head, v, n) = Off(sq.head, tl, n) + 1 /\ Off(sq.head, tl, n) \in 0 .. n - 1
  <2>1. 1 \in 0 .. n - 1
    OBVIOUS
  <2>2. v \in 0 .. n - 1 /\ Off(sq.head, v, n) = Off(sq.head, tl, n) + 1
    BY <1>3, <2>1, OffPush
  <2>3. Off(sq.head, tl, n) \in 0 .. n - 1
    BY DEF Off
  <2> QED BY <2>2, <2>3
<1>5. ASSUME NEW i \in 1 .. Len(t), IsSq(t, i, q), i # Len(b) + 1
      PROVE  /\ i \in 1 .. Len(b) /\ IsSq(b, i, q) /\ t[i] = b[i] /\ t[i].value \in 0 .. n - 1
             /\ 1 <= Off(sq.head, t[i].value, n)
             /\ Off(sq.head, t[i].value, n) <= Off(sq.head, tl, n) /\ Off(sq.head, t[i].value, n) \in Int
  <2>1. i \in 1 .. Len(b) /\ IsSq(b, i, q) /\ t[i] = b[i]
    BY <1>1, <1>2, <1>5
  <2>2. /\ t[i].value \in 0 .. n - 1 /\ 1 <= Off(sq.head, t[i].value, n)
        /\ Off(sq.head, t[i].value, n) <= Off(sq.head, tl, n)
    BY <2>1 DEF SqDoors
  <2>3. Off(sq.head, t[i].value, n) \in Int
    BY <2>2 DEF Off
  <2> QED BY <2>1, <2>2, <2>3
<1>6. t[Len(b) + 1].value = v
  BY <1>1, <1>2, <1>3
<1>7. ASSUME NEW i \in 1 .. Len(t), IsSq(t, i, q)
      PROVE  /\ t[i].value \in 0 .. n - 1 /\ 1 <= Off(sq.head, t[i].value, n)
             /\ Off(sq.head, t[i].value, n) <= Off(sq.head, v, n)
  <2>1. CASE i = Len(b) + 1
    BY <1>4, <1>6, <2>1
  <2>2. CASE i # Len(b) + 1
    BY <1>4, <1>5, <1>7, <2>2
  <2> QED BY <2>1, <2>2
<1>8. ASSUME NEW i \in 1 .. Len(t), NEW j \in 1 .. Len(t), i < j, IsSq(t, i, q), IsSq(t, j, q)
      PROVE  Off(sq.head, t[i].value, n) < Off(sq.head, t[j].value, n)
  <2>1. i # Len(b) + 1 /\ i \in Int /\ j \in Int
    BY <1>1, <1>2, <1>8
  <2>2. CASE j = Len(b) + 1
    BY <1>4, <1>5, <1>6, <1>8, <2>1, <2>2
  <2>3. CASE j # Len(b) + 1
    <3>1. i \in 1 .. Len(b) /\ IsSq(b, i, q) /\ t[i] = b[i] /\ j \in 1 .. Len(b) /\ IsSq(b, j, q) /\ t[j] = b[j]
      BY <1>5, <1>8, <2>1, <2>3
    <3> QED BY <1>8, <3>1 DEF SqDoors
  <2> QED BY <2>2, <2>3
<1> QED BY <1>2, <1>3, <1>7, <1>8 DEF SqDoors

\* A command the host may send to queue q.
Sendable(c, q) ==
  /\ c \in Command /\ c # NoCmd
  /\ IF q = 0 THEN c.op \notin {"none", "ISP", "FLUSH"} ELSE c.op \in {"ISP", "FLUSH"}
  /\ c.op = "FW_DOWNLOAD" => c.v \in 1 .. CODE_PIECES

LEMMA KnownSend ==
  ASSUME NEW way \in Seq(Item), NEW unf, NEW isp, NEW out \in [Tag -> Command \cup {NoCmd}], NEW q,
         Known(way, out, q), Once(way, unf, isp, out, q), NEW x \in Tag, x <= SqSize(q) - 2, out[x] = NoCmd,
         NEW c, c.cid = x, Sendable(c, q)
  PROVE  Known(way, [out EXCEPT ![x] = c], q)
<1>1. PICK o : o = [out EXCEPT ![x] = c]
  OBVIOUS
<1>2. o[x] = c /\ \A t \in Tag \ {x} : o[t] = out[t]
  BY <1>1
<1>3. ASSUME NEW t \in Tag, o[t] # NoCmd
      PROVE  /\ t <= SqSize(q) - 2 /\ o[t].cid = t
             /\ IF q = 0 THEN o[t].op \notin {"none", "ISP", "FLUSH"} ELSE o[t].op \in {"ISP", "FLUSH"}
             /\ o[t].op = "FW_DOWNLOAD" => o[t].v \in 1 .. CODE_PIECES
  <2>1. CASE t = x
    BY <1>2, <2>1 DEF Sendable
  <2>2. CASE t # x
    <3>1. o[t] = out[t]
      BY <1>2, <2>2
    <3> QED BY <1>3, <3>1 DEF Known
  <2> QED BY <2>1, <2>2
<1>4. ASSUME NEW k \in 1 .. Len(way)
      PROVE  /\ way[k].cdw0 \in 0 .. MAX_IO_SQCQ_PAIRS
  <2>1. way[k] \in Item
    OBVIOUS
  <2>2. way[k].cid \in Tag /\ Holds(way, way[k].cid)
    BY <2>1 DEF Item, Holds
  <2>3. way[k].cid # x
    BY <2>2 DEF Once, OnePlace
  <2>4. o[way[k].cid] = out[way[k].cid]
    BY <1>2, <2>2, <2>3
  <2> QED BY <2>4 DEF Known
<1> QED BY <1>1, <1>3, <1>4 DEF Known

\* No command without a completion does what c does.
Alone(out, c) == c.op \in QueueOps => \A t \in Tag : ~(out[t].op = c.op /\ out[t].q = c.q)

\* The host at queue q, which has the free identifier x for command c.
MaySend(g, q, x, c) ==
  /\ Up(g.sq[q], q) /\ x \in 0 .. SqSize(q) - 2 /\ g.out[q][x] = NoCmd
  /\ c.cid = x /\ Sendable(c, q)

\* What is so then.
SentFacts(e, sm, sm2, g, g2, q, x, c) ==
  /\ x \in Tag /\ SentDoor(g, q) \in Door /\ sm2 \in [Qid -> [Slot -> Tag]]
  /\ g2 \in Host /\ SameView(g2, g) /\ g2.tail[q] = Fwd(g.tail[q], 1, SqSize(q))
  /\ g2.tail[q] \in 0 .. SqSize(q) - 1 /\ g2.out[q] = [g.out[q] EXCEPT ![x] = c]
  /\ \A p \in Qid \ {q} : g2.tail[p] = g.tail[p] /\ g2.out[p] = g.out[p] /\ sm2[p] = sm[p]
  /\ Off(e.sqs[q].head, g.tail[q], SqSize(q)) + 1 <= SqSize(q) - 1
  /\ UnfOf(e, sm2, g2, q) = Append(UnfOf(e, sm, g, q), x)

LEMMA SendFacts ==
  ASSUME NEW e, NEW cm, NEW sm, NEW b, NEW g, Good(e, cm, sm, b, g), NEW q \in Qid, NEW x, NEW c,
         MaySend(g, q, x, c), NEW sm2, SentCell(sm2, sm, g, q, x), NEW g2, SentBy(g2, g, q, x, c)
  PROVE  SentFacts(e, sm, sm2, g, g2, q, x, c)
<1>1. /\ e.sqs[q].head \in 0 .. SqSize(q) - 1 /\ g.tail[q] \in 0 .. SqSize(q) - 1
      /\ UnfOf(e, sm, g, q) \in Seq(Tag)
      /\ Once(WayOf(e, cm, g, q), UnfOf(e, sm, g, q), e.isp, g.out[q], q)
      /\ Known(WayOf(e, cm, g, q), g.out[q], q)
  BY WorkSeqs DEF MaySend, Works
<1>2. /\ SqSize(q) \in Nat /\ SqSize(q) >= 2 /\ 0 .. SqSize(q) - 1 \subseteq Slot
      /\ 0 .. SqSize(q) - 2 \subseteq Tag
  BY Sizes
<1>3. /\ g \in Host /\ sm \in [Qid -> [Slot -> Tag]] /\ sm[q] \in [Slot -> Tag]
  BY DEF Good, Typed
<1>4. x \in Tag /\ g.out[q][x] = NoCmd /\ x \in 0 .. SqSize(q) - 2 /\ c \in Command
  BY <1>2 DEF MaySend, Sendable
<1>5. PICK sq : sq = e.sqs[q]
  OBVIOUS
<1>6. PICK tl : tl = g.tail[q]
  OBVIOUS
<1>7. PICK m : m = sm[q]
  OBVIOUS
<1>8. PICK n : n = SqSize(q)
  OBVIOUS
<1>9. /\ n \in Nat /\ n >= 2 /\ sq.head \in 0 .. n - 1 /\ tl \in 0 .. n - 1 /\ m \in [Slot -> Tag]
      /\ 0 .. n - 1 \subseteq Slot
  BY <1>1, <1>2, <1>3, <1>5, <1>6, <1>7, <1>8
<1>10. Off(sq.head, tl, n) + 1 <= n - 1
  <2>1. Len(UnfOf(e, sm, g, q)) <= n - 2
    BY <1>1, <1>4, <1>8, UnfRoom
  <2>2. Len(Unf(sq, m, tl, n)) = Off(sq.head, tl, n) /\ Off(sq.head, tl, n) \in 0 .. n - 1
    BY <1>9, UnfIs
  <2>3. UnfOf(e, sm, g, q) = Unf(sq, m, tl, n)
    BY <1>5, <1>6, <1>7, <1>8 DEF UnfOf
  <2> QED BY <1>9, <2>1, <2>2, <2>3
<1>11. Fwd(tl, 1, n) \in 0 .. n - 1
  BY <1>9 DEF Fwd
<1>12. Fwd(g.tail[q], 1, SqSize(q)) \in Slot
  BY <1>6, <1>8, <1>9, <1>11
<1>13. /\ g2 \in Host /\ SameView(g2, g) /\ g2.tail[q] = Fwd(g.tail[q], 1, SqSize(q))
       /\ g2.out[q] = [g.out[q] EXCEPT ![x] = c]
       /\ \A p \in Qid \ {q} : g2.tail[p] = g.tail[p] /\ g2.out[p] = g.out[p]
  BY <1>3, <1>4, <1>12, SentIs
<1>14. SentDoor(g, q) \in Door
  BY <1>12 DEF SentDoor, Door
<1>15. PICK m2 : m2 = [m EXCEPT ![tl] = x]
  OBVIOUS
<1>16. m2 \in [Slot -> Tag]
  BY <1>4, <1>9, <1>15
<1>17. sm2 = [sm EXCEPT ![q] = m2]
  BY <1>3, <1>6, <1>7, <1>15 DEF SentCell
<1>18. sm2 \in [Qid -> [Slot -> Tag]] /\ sm2[q] = m2 /\ \A p \in Qid \ {q} : sm2[p] = sm[p]
  BY <1>3, <1>16, <1>17
<1>19. Unf(sq, m2, Fwd(tl, 1, n), n) = Append(Unf(sq, m, tl, n), x)
  BY <1>4, <1>9, <1>10, <1>15, UnfSend
<1>20. UnfOf(e, sm2, g2, q) = Append(UnfOf(e, sm, g, q), x)
  BY <1>5, <1>6, <1>7, <1>8, <1>13, <1>18, <1>19 DEF UnfOf
<1> QED BY <1>4, <1>5, <1>6, <1>8, <1>10, <1>11, <1>13, <1>14, <1>18, <1>20 DEF SentFacts

LEMMA SendPart ==
  ASSUME NEW e, NEW cm, NEW sm, NEW b, NEW g, Good(e, cm, sm, b, g), NEW q \in Qid, NEW x, NEW c,
         MaySend(g, q, x, c), NEW sm2, SentCell(sm2, sm, g, q, x), NEW g2, SentBy(g2, g, q, x, c)
  PROVE  SqAt(e, cm, sm2, g2, Append(b, SentDoor(g, q)), q)
<1>1. /\ x \in Tag /\ SentDoor(g, q) \in Door /\ SameView(g2, g)
      /\ g2.tail[q] = Fwd(g.tail[q], 1, SqSize(q)) /\ g2.tail[q] \in 0 .. SqSize(q) - 1
      /\ g2.out[q] = [g.out[q] EXCEPT ![x] = c]
      /\ Off(e.sqs[q].head, g.tail[q], SqSize(q)) + 1 <= SqSize(q) - 1
      /\ UnfOf(e, sm2, g2, q) = Append(UnfOf(e, sm, g, q), x)
  <2>1. SentFacts(e, sm, sm2, g, g2, q, x, c)
    BY SendFacts
  <2> QED BY <2>1 DEF SentFacts
<1>2. /\ e.sqs[q].head \in 0 .. SqSize(q) - 1 /\ g.tail[q] \in 0 .. SqSize(q) - 1
      /\ UnfOf(e, sm, g, q) \in Seq(Tag) /\ WayOf(e, cm, g, q) \in Seq(Item)
      /\ SqDoors(e.sqs[q], g.tail[q], b, q, SqSize(q))
      /\ Once(WayOf(e, cm, g, q), UnfOf(e, sm, g, q), e.isp, g.out[q], q)
      /\ Known(WayOf(e, cm, g, q), g.out[q], q)
  BY WorkSeqs DEF MaySend, Works
<1>3. SqSize(q) \in Nat /\ SqSize(q) >= 2
  BY Sizes
<1>4. b \in Seq(Door) /\ g.out[q] \in [Tag -> Command \cup {NoCmd}]
  BY PartTypes DEF Good
<1>5. Up(g.sq[q], q) /\ g.out[q][x] = NoCmd /\ c.cid = x /\ Sendable(c, q) /\ c # NoCmd /\ x <= SqSize(q) - 2
  BY DEF MaySend, Sendable
<1>6. WayOf(e, cm, g2, q) = WayOf(e, cm, g, q)
  BY <1>1 DEF WayOf, SameView
<1>7. SqDoors(e.sqs[q], g2.tail[q], Append(b, SentDoor(g, q)), q, SqSize(q))
  <2>1. PICK y : y = SentDoor(g, q)
    OBVIOUS
  <2>2. y \in Door /\ y.kind = "SQ" /\ y.q = q /\ y.value = Fwd(g.tail[q], 1, SqSize(q))
    BY <1>1, <2>1 DEF SentDoor
  <2>3. PICK sq : sq = e.sqs[q]
    OBVIOUS
  <2>4. PICK tl : tl = g.tail[q]
    OBVIOUS
  <2>5. PICK n : n = SqSize(q)
    OBVIOUS
  <2>6. /\ n \in Nat /\ n >= 2 /\ sq.head \in 0 .. n - 1 /\ tl \in 0 .. n - 1
        /\ Off(sq.head, tl, n) + 1 <= n - 1 /\ SqDoors(sq, tl, b, q, n) /\ y.value = Fwd(tl, 1, n)
    BY <1>1, <1>2, <1>3, <2>2, <2>3, <2>4, <2>5
  <2>7. SqDoors(sq, Fwd(tl, 1, n), Append(b, y), q, n)
    BY <1>4, <2>2, <2>6, DoorsPush
  <2> QED BY <1>1, <2>1, <2>3, <2>4, <2>5, <2>7
<1>8. Once(WayOf(e, cm, g, q), UnfOf(e, sm2, g2, q), e.isp, g2.out[q], q)
  <2>1. PICK out : out = g.out[q]
    OBVIOUS
  <2>2. PICK unf : unf = UnfOf(e, sm, g, q)
    OBVIOUS
  <2>3. PICK way : way = WayOf(e, cm, g, q)
    OBVIOUS
  <2>4. PICK isp : isp = e.isp
    OBVIOUS
  <2>5. /\ Once(way, unf, isp, out, q) /\ way \in Seq(Item) /\ unf \in Seq(Tag)
        /\ out \in [Tag -> Command \cup {NoCmd}] /\ out[x] = NoCmd /\ x \in Tag /\ c # NoCmd
    BY <1>1, <1>2, <1>4, <1>5, <2>1, <2>2, <2>3, <2>4
  <2>6. Once(way, Append(unf, x), isp, [out EXCEPT ![x] = c], q)
    BY <2>5, OnceSend
  <2> QED BY <1>1, <2>1, <2>2, <2>3, <2>4, <2>6
<1>9. Known(WayOf(e, cm, g, q), g2.out[q], q)
  <2>1. PICK out : out = g.out[q]
    OBVIOUS
  <2>2. PICK unf : unf = UnfOf(e, sm, g, q)
    OBVIOUS
  <2>3. PICK way : way = WayOf(e, cm, g, q)
    OBVIOUS
  <2>4. PICK isp : isp = e.isp
    OBVIOUS
  <2>5. /\ way \in Seq(Item) /\ out \in [Tag -> Command \cup {NoCmd}] /\ Known(way, out, q)
        /\ Once(way, unf, isp, out, q) /\ x \in Tag /\ out[x] = NoCmd
    BY <1>1, <1>2, <1>4, <1>5, <2>1, <2>2, <2>3, <2>4
  <2>6. Known(way, [out EXCEPT ![x] = c], q)
    BY <1>5, <2>5, KnownSend
  <2> QED BY <1>1, <2>1, <2>3, <2>6
<1>10. PICK b2 : b2 = Append(b, SentDoor(g, q))
  OBVIOUS
<1>11. Works(e.sqs[q], g2.tail[q], WayOf(e, cm, g2, q), UnfOf(e, sm2, g2, q), e.isp, g2.out[q], b2, q)
  BY <1>1, <1>2, <1>6, <1>7, <1>8, <1>9, <1>10 DEF Works
<1>12. SqAt(e, cm, sm, g, b, q)
  BY DEF Good, Inv
<1>13. g2.sq[q] = g.sq[q] /\ g2.cq[q] = g.cq[q] /\ Up(g2.sq[q], q)
  BY <1>1, <1>5 DEF SameView
<1>14. /\ Made(e.sqs[q]) /\ (q # 0 => g2.sq[q] = "live") /\ (q # 0 /\ g2.sq[q] # "none" => g2.cq[q] = "live")
       /\ e.sqs[q].size = SqSize(q) /\ e.sqs[q].cqid = q
  BY <1>5, <1>12, <1>13 DEF SqAt, SqPart, Up
<1> QED BY <1>10, <1>11, <1>13, <1>14 DEF SqAt, SqPart

\* The admin queue after a command was sent to it, ...
LEMMA SendAdmin ==
  ASSUME NEW e, NEW cm, NEW sm, NEW b, NEW g, Good(e, cm, sm, b, g), NEW x, NEW c,
         MaySend(g, 0, x, c), NEW sm2, SentCell(sm2, sm, g, 0, x), NEW g2, SentBy(g2, g, 0, x, c),
         AdminCmd(c, TRUE, e, g), Alone(g.out[0], c)
  PROVE  AdminPart(UnfOf(e, sm2, g2, 0), g2.out[0], e.sqs[0].head, e, g2, Append(b, SentDoor(g, 0)))
<1>1. 0 \in Qid /\ SqSize(0) = ASQ_SIZE /\ ASQ_SIZE \in Nat /\ ASQ_SIZE >= 2
  BY QidFacts, Sizes
<1>2. /\ x \in Tag /\ SentDoor(g, 0) \in Door /\ SameView(g2, g)
      /\ g2.out[0] = [g.out[0] EXCEPT ![x] = c]
      /\ UnfOf(e, sm2, g2, 0) = Append(UnfOf(e, sm, g, 0), x)
  <2>1. SentFacts(e, sm, sm2, g, g2, 0, x, c)
    BY <1>1, SendFacts
  <2> QED BY <2>1 DEF SentFacts
<1>3. /\ e.sqs[0].head \in 0 .. ASQ_SIZE - 1 /\ g.tail[0] \in 0 .. ASQ_SIZE - 1
      /\ UnfOf(e, sm, g, 0) \in Seq(Tag) /\ SqDoors(e.sqs[0], g.tail[0], b, 0, ASQ_SIZE)
      /\ Once(WayOf(e, cm, g, 0), UnfOf(e, sm, g, 0), e.isp, g.out[0], 0)
  BY <1>1, WorkSeqs DEF MaySend, Works
<1>4. AdminPart(UnfOf(e, sm, g, 0), g.out[0], e.sqs[0].head, e, g, b)
      /\ b \in Seq(Door) /\ g.out[0] \in [Tag -> Command \cup {NoCmd}] /\ sm[0] \in [Slot -> Tag]
  BY <1>1, PartTypes DEF Good, Inv
<1>5. g.out[0][x] = NoCmd
  BY DEF MaySend
<1>6. PICK unf : unf = UnfOf(e, sm, g, 0)
  OBVIOUS
<1>7. PICK out : out = g2.out[0]
  OBVIOUS
<1>8. out[x] = c /\ \A t \in Tag \ {x} : out[t] = g.out[0][t]
  BY <1>2, <1>4, <1>7
<1>9. UnfInj(unf) /\ ~In(unf, x) /\ unf \in Seq(Tag)
  BY <1>2, <1>3, <1>5, <1>6 DEF Once, OnePlace
<1>10. \A t : In(Append(unf, x), t) <=> In(unf, t) \/ x = t
  BY <1>2, <1>9, UnfAppend
<1>11. ASSUME NEW z, NEW u, AdminCmd(z, u, e, g) PROVE AdminCmd(z, u, e, g2)
  BY <1>2, <1>11 DEF AdminCmd, SameView
<1>12. ASSUME NEW t \in Tag PROVE AdminCmd(out[t], In(Append(unf, x), t), e, g2)
  <2>1. CASE t = x
    <3>1. In(Append(unf, x), t) = TRUE
      BY <1>10, <2>1 DEF In
    <3> QED BY <1>8, <1>11, <2>1, <3>1
  <2>2. CASE t # x
    <3>1. In(Append(unf, x), t) = In(unf, t)
      BY <1>10, <2>2 DEF In
    <3>2. AdminCmd(out[t], In(unf, t), e, g)
      BY <1>4, <1>6, <1>8, <2>2 DEF AdminPart
    <3> QED BY <1>11, <3>1, <3>2
  <2> QED BY <2>1, <2>2
<1>13. ASSUME NEW t \in Tag, NEW s \in Tag, out[t].op \in QueueOps, out[s].op = out[t].op, out[s].q = out[t].q
       PROVE  s = t
  <2>1. CASE t = x
    BY <1>8, <1>13, <2>1 DEF Alone
  <2>2. CASE t # x
    <3>1. CASE s = x
      BY <1>8, <1>13, <2>2, <3>1 DEF Alone
    <3>2. CASE s # x
      BY <1>4, <1>8, <1>13, <2>2, <3>2 DEF AdminPart
    <3> QED BY <3>1, <3>2
  <2> QED BY <2>1, <2>2
<1>14. PICK b2 : b2 = Append(b, SentDoor(g, 0))
  OBVIOUS
<1>15. /\ Len(b) \in Nat /\ Len(b2) = Len(b) + 1
       /\ \A i \in 1 .. Len(b) : b2[i] = b[i]
       /\ \A i, p : IsSq(b2, i, p) => IsSq(b, i, p) \/ i = Len(b) + 1
       /\ \A i, p : IsCq(b2, i, p) => IsCq(b, i, p)
  <2>1. SentDoor(g, 0).kind # "CQ"
    BY DEF SentDoor
  <2> QED BY <1>2, <1>4, <1>14, <2>1, PushIs
<1>16. ASSUME NEW k \in 1 .. Len(Append(unf, x)), out[Append(unf, x)[k]].op = "DELETE_CQ",
              NEW i \in 1 .. Len(b2), NEW j \in 1 .. Len(b2), i < j, IsSq(b2, i, 0),
              IsCq(b2, j, out[Append(unf, x)[k]].q)
       PROVE  Off(e.sqs[0].head, b2[i].value, ASQ_SIZE) < k
  <2>1. IsCq(b, j, out[Append(unf, x)[k]].q) /\ j \in 1 .. Len(b)
    BY <1>15, <1>16 DEF IsCq
  <2>2. i \in 1 .. Len(b) /\ IsSq(b, i, 0) /\ b2[i] = b[i]
    BY <1>15, <1>16, <2>1
  <2>3. CASE k = Len(unf) + 1
    <3>1. Off(e.sqs[0].head, b[i].value, ASQ_SIZE) <= Off(e.sqs[0].head, g.tail[0], ASQ_SIZE)
          /\ b[i].value \in 0 .. ASQ_SIZE - 1
      BY <1>3, <2>2 DEF SqDoors
    <3>2. Len(unf) = Off(e.sqs[0].head, g.tail[0], ASQ_SIZE)
      <4>1. 0 .. ASQ_SIZE - 1 \subseteq Slot
        BY <1>1, Sizes
      <4>2. PICK sq : sq = e.sqs[0]
        OBVIOUS
      <4>3. PICK tl : tl = g.tail[0]
        OBVIOUS
      <4>4. PICK m : m = sm[0]
        OBVIOUS
      <4>5. unf = Unf(sq, m, tl, ASQ_SIZE)
        BY <1>1, <1>6, <4>2, <4>3, <4>4 DEF UnfOf
      <4>6. ASQ_SIZE \in Nat /\ ASQ_SIZE >= 2 /\ sq.head \in 0 .. ASQ_SIZE - 1 /\ tl \in 0 .. ASQ_SIZE - 1
            /\ m \in [Slot -> Tag]
        BY <1>1, <1>3, <1>4, <4>2, <4>3, <4>4
      <4>7. Len(unf) = Off(sq.head, tl, ASQ_SIZE)
        BY <4>1, <4>5, <4>6, UnfIs
      <4> QED BY <4>2, <4>3, <4>7
    <3>3. Off(e.sqs[0].head, b[i].value, ASQ_SIZE) \in Int
      BY <1>1, <1>3, <3>1 DEF Off
    <3>4. Len(unf) \in Nat
      BY <1>9
    <3> QED BY <2>2, <2>3, <3>1, <3>2, <3>3, <3>4
  <2>4. CASE k # Len(unf) + 1
    <3>1. k \in 1 .. Len(unf) /\ Append(unf, x)[k] = unf[k] /\ unf[k] \in Tag
      <4>1. Len(Append(unf, x)) = Len(unf) + 1 /\ Len(unf) \in Nat
        BY <1>2, <1>9
      <4>2. k \in 1 .. Len(unf)
        BY <1>16, <2>4, <4>1
      <4> QED BY <1>2, <1>9, <4>2
    <3>2. unf[k] # x
      BY <1>9, <3>1 DEF In
    <3>3. out[Append(unf, x)[k]] = g.out[0][unf[k]]
      BY <1>8, <3>1, <3>2
    <3> QED BY <1>4, <1>6, <1>16, <2>1, <2>2, <3>1, <3>3 DEF AdminPart, Before
  <2> QED BY <2>3, <2>4
<1>17. Before(Append(unf, x), out, e.sqs[0].head, b2)
  BY <1>16 DEF Before
<1> QED BY <1>2, <1>6, <1>7, <1>12, <1>13, <1>14, <1>17 DEF AdminPart

\* ... and when the command went to another queue.
LEMMA SendOther ==
  ASSUME NEW e, NEW cm, NEW sm, NEW b, NEW g, Good(e, cm, sm, b, g), NEW q \in Qid, q # 0, NEW x, NEW c,
         MaySend(g, q, x, c), NEW sm2, SentCell(sm2, sm, g, q, x), NEW g2, SentBy(g2, g, q, x, c)
  PROVE  AdminPart(UnfOf(e, sm2, g2, 0), g2.out[0], e.sqs[0].head, e, g2, Append(b, SentDoor(g, q)))
<1>1. 0 \in Qid \ {q}
  BY QidFacts
<1>2. /\ SentDoor(g, q) \in Door /\ SameView(g2, g)
      /\ g2.tail[0] = g.tail[0] /\ g2.out[0] = g.out[0] /\ sm2[0] = sm[0]
  <2>1. SentFacts(e, sm, sm2, g, g2, q, x, c)
    BY SendFacts
  <2> QED BY <1>1, <2>1 DEF SentFacts
<1>3. b \in Seq(Door)
  BY <1>1, PartTypes DEF Good
<1>4. PICK unf : unf = UnfOf(e, sm, g, 0)
  OBVIOUS
<1>5. UnfOf(e, sm2, g2, 0) = unf
  BY <1>2, <1>4 DEF UnfOf
<1>6. PICK out : out = g.out[0]
  OBVIOUS
<1>7. AdminPart(unf, out, e.sqs[0].head, e, g, b)
  BY <1>4, <1>6 DEF Good, Inv
<1>8. ASSUME NEW t \in Tag PROVE AdminCmd(out[t], In(unf, t), e, g2)
  <2>1. AdminCmd(out[t], In(unf, t), e, g)
    BY <1>7 DEF AdminPart
  <2> QED BY <1>2, <2>1 DEF AdminCmd, SameView
<1>9. PICK y : y = SentDoor(g, q)
  OBVIOUS
<1>10. y \in Door /\ y.kind = "SQ" /\ y.q = q
  BY <1>2, <1>9 DEF SentDoor
<1>11. PICK b2 : b2 = Append(b, y)
  OBVIOUS
<1>12. /\ Len(b) \in Nat /\ Len(b2) = Len(b) + 1
       /\ \A i \in 1 .. Len(b) : b2[i] = b[i]
       /\ \A i : IsSq(b2, i, 0) => IsSq(b, i, 0)
       /\ \A i, p : IsCq(b2, i, p) => IsCq(b, i, p)
  <2>1. /\ Len(b) \in Nat /\ Len(b2) = Len(b) + 1
        /\ \A i \in 1 .. Len(b) : b2[i] = b[i]
        /\ \A i, p : IsSq(b2, i, p) => IsSq(b, i, p) \/ (i = Len(b) + 1 /\ y.kind = "SQ" /\ y.q = p)
        /\ \A i, p : IsCq(b2, i, p) => IsCq(b, i, p) \/ (i = Len(b) + 1 /\ y.kind = "CQ" /\ y.q = p)
    BY <1>3, <1>10, <1>11, PushIs
  <2> QED BY <1>10, <2>1
<1>13. ASSUME NEW k \in 1 .. Len(unf), out[unf[k]].op = "DELETE_CQ",
              NEW i \in 1 .. Len(b2), NEW j \in 1 .. Len(b2), i < j, IsSq(b2, i, 0),
              IsCq(b2, j, out[unf[k]].q)
       PROVE  Off(e.sqs[0].head, b2[i].value, ASQ_SIZE) < k
  <2>1. IsSq(b, i, 0) /\ IsCq(b, j, out[unf[k]].q)
    BY <1>12, <1>13
  <2>2. i \in 1 .. Len(b) /\ j \in 1 .. Len(b) /\ b2[i] = b[i]
    BY <1>12, <2>1 DEF IsSq, IsCq
  <2> QED BY <1>7, <1>13, <2>1, <2>2 DEF AdminPart, Before
<1>14. Before(unf, out, e.sqs[0].head, b2)
  BY <1>13 DEF Before
<1>15. AdminPart(unf, out, e.sqs[0].head, e, g2, b2)
  BY <1>7, <1>8, <1>14 DEF AdminPart
<1> QED BY <1>2, <1>5, <1>6, <1>9, <1>11, <1>15

\* Sending keeps the invariant.
LEMMA SendGood ==
  ASSUME NEW e, NEW cm, NEW sm, NEW b, NEW g, Good(e, cm, sm, b, g), NEW q \in Qid, NEW x, NEW c,
         MaySend(g, q, x, c), NEW sm2, SentCell(sm2, sm, g, q, x), NEW g2, SentBy(g2, g, q, x, c),
         q = 0 => AdminCmd(c, TRUE, e, g) /\ Alone(g.out[0], c)
  PROVE  Good(e, cm, sm2, Append(b, SentDoor(g, q)), g2)
<1>1. SentFacts(e, sm, sm2, g, g2, q, x, c)
  BY SendFacts
<1>2. /\ SentDoor(g, q) \in Door /\ SameView(g2, g) /\ g2 \in Host /\ sm2 \in [Qid -> [Slot -> Tag]]
      /\ \A p \in Qid \ {q} : g2.tail[p] = g.tail[p] /\ g2.out[p] = g.out[p] /\ sm2[p] = sm[p]
  BY <1>1 DEF SentFacts
<1>3. PICK y : y = SentDoor(g, q)
  OBVIOUS
<1>4. y \in Door /\ y.kind = "SQ" /\ y.q = q
  BY <1>2, <1>3 DEF SentDoor
<1>5. b \in Seq(Door) /\ Append(b, y) \in Seq(Door)
  BY <1>4, PushIs DEF Good, Typed
<1>6. ASSUME NEW p \in Qid PROVE CqAt(e, cm, g2, Append(b, y), p)
  <2>1. CqAt(e, cm, g, b, p)
    BY DEF Good, Inv
  <2>2. ~(y.kind = "CQ" /\ y.q = p)
    BY <1>4
  <2>3. CqAt(e, cm, g, Append(b, y), p)
    BY <1>4, <1>5, <2>1, <2>2, CqPush DEF CqAt
  <2> QED BY <1>2, <2>3 DEF CqAt, SameView
<1>7. ASSUME NEW p \in Qid PROVE SqAt(e, cm, sm2, g2, Append(b, y), p)
  <2>1. CASE p = q
    BY <1>3, <2>1, SendPart
  <2>2. CASE p # q
    <3>1. SqAt(e, cm, sm, g, b, p)
      BY DEF Good, Inv
    <3>2. ~(y.kind = "SQ" /\ y.q = p)
      BY <1>4, <2>2
    <3>3. SqAt(e, cm, sm, g, Append(b, y), p)
      BY <1>4, <1>5, <3>1, <3>2, SqPush DEF SqAt
    <3>4. WayOf(e, cm, g2, p) = WayOf(e, cm, g, p) /\ UnfOf(e, sm2, g2, p) = UnfOf(e, sm, g, p)
      BY <1>2, <2>2 DEF WayOf, UnfOf, SameView
    <3> QED BY <1>2, <2>2, <3>3, <3>4 DEF SqAt, SameView
  <2> QED BY <2>1, <2>2
<1>8. AdminPart(UnfOf(e, sm2, g2, 0), g2.out[0], e.sqs[0].head, e, g2, Append(b, y))
  <2>1. CASE q = 0
    BY <1>3, <2>1, SendAdmin
  <2>2. CASE q # 0
    BY <1>3, <2>2, SendOther
  <2> QED BY <2>1, <2>2
<1>9. Counts(e) /\ Typed(e, cm, sm, b, g)
  BY DEF Good, Inv
<1>10. Typed(e, cm, sm2, Append(b, y), g2)
  BY <1>2, <1>5, <1>9 DEF Typed
<1> QED BY <1>3, <1>6, <1>7, <1>8, <1>9, <1>10 DEF Good, Inv

\* A command, and what the host has to have seen to before it sends it.
Cmd(op, on, v, x) == [op |-> op, q |-> on, v |-> v, cid |-> x]
Request(op, on, v, q, e, g) ==
  \A x \in Tag : /\ Sendable(Cmd(op, on, v, x), q)
                 /\ q = 0 => AdminCmd(Cmd(op, on, v, x), TRUE, e, g) /\ Alone(g.out[0], Cmd(op, on, v, x))

LEMMA SendStep ==
  ASSUME NEW cm, NEW g, Good(d, cm, sq_mem, db, g), NEW q \in Qid, NEW op, NEW on, NEW v,
         g.out = h.out, Up(g.sq[q], q), Request(op, on, v, q, d, g), Send(q, op, on, v, g)
  PROVE  Good(d, cm, sq_mem', db', h') /\ d' = d
<1>1. PICK n : n = SqSize(q)
  OBVIOUS
<1>2. n \in Nat /\ n >= 2 /\ g.tail[q] \in 0 .. n - 1 /\ 0 .. n - 2 \subseteq Tag
  BY <1>1, WorkSeqs, Sizes
<1>3. (g.tail[q] + 1) % SqSize(q) = Fwd(g.tail[q], 1, SqSize(q))
  <2>1. 1 \in 0 .. n
    BY <1>2
  <2> QED BY <1>1, <1>2, <2>1, ModFwd
<1>4. PICK x : x = Min(Free(q))
  OBVIOUS
<1>5. PICK c : c = Cmd(op, on, v, x)
  OBVIOUS
<1>6. /\ Free(q) # {} /\ sq_mem' = [sq_mem EXCEPT ![q][g.tail[q]] = x]
      /\ h' = [g EXCEPT !.tail[q] = Fwd(g.tail[q], 1, SqSize(q)), !.out[q][x] = c]
      /\ db' = Append(db, [kind |-> "SQ", q |-> q, value |-> Fwd(g.tail[q], 1, SqSize(q))])
      /\ d' = d
  BY <1>3, <1>4, <1>5 DEF Send, Cmd
<1>7. Free(q) \subseteq 0 .. n - 2 /\ \A t \in Free(q) : h.out[q][t] = NoCmd
  BY <1>1 DEF Free
<1>8. x \in Free(q)
  <2>1. Free(q) \subseteq Nat
    BY <1>2, <1>7
  <2> QED BY <1>4, <1>6, <2>1, LeastElement
<1>9. x \in Tag /\ x \in 0 .. SqSize(q) - 2 /\ g.out[q][x] = NoCmd
  BY <1>1, <1>2, <1>7, <1>8
<1>10. Sendable(c, q) /\ (q = 0 => AdminCmd(c, TRUE, d, g) /\ Alone(g.out[0], c))
  BY <1>5, <1>9 DEF Request
<1>11. c.cid = x
  BY <1>5 DEF Cmd
<1>12. MaySend(g, q, x, c)
  BY <1>9, <1>10, <1>11 DEF MaySend
<1>13. SentBy(h', g, q, x, c)
  BY <1>6 DEF SentBy
<1>14. SentCell(sq_mem', sq_mem, g, q, x)
  BY <1>6 DEF SentCell
<1>15. db' = Append(db, SentDoor(g, q))
  BY <1>6 DEF SentDoor
<1>16. Good(d, cm, sq_mem', Append(db, SentDoor(g, q)), h')
  BY <1>10, <1>12, <1>13, <1>14, SendGood
<1> QED BY <1>6, <1>15, <1>16

\* Host f is g save for what it believes of queue p, and its counters.
ViewBut(f, g, p) ==
  /\ f \in Host /\ f.out = g.out
  /\ \A q \in Qid \ {p} : /\ f.head[q] = g.head[q] /\ f.rung[q] = g.rung[q] /\ f.phase[q] = g.phase[q]
                          /\ f.sq[q] = g.sq[q] /\ f.cq[q] = g.cq[q] /\ f.tail[q] = g.tail[q]

LEMMA StageGood ==
  ASSUME NEW e, NEW cm, NEW sm, NEW b, NEW g, Good(e, cm, sm, b, g), NEW p \in IoQid,
         NEW f, ViewBut(f, g, p), NEW cm2 \in [Qid -> [Slot -> Entry]], \A q \in Qid \ {p} : cm2[q] = cm[q],
         CqAt(e, cm2, f, b, p), SqAt(e, cm2, sm, f, b, p),
         \A t \in Tag : AdminCmd(g.out[0][t], In(UnfOf(e, sm, g, 0), t), e, f)
  PROVE  Good(e, cm2, sm, b, f)
<1>1. 0 \in Qid \ {p} /\ p \in Qid
  BY QidFacts
<1>2. ASSUME NEW q \in Qid \ {p} PROVE CqAt(e, cm2, f, b, q) /\ SqAt(e, cm2, sm, f, b, q)
  <2>1. CqAt(e, cm, g, b, q) /\ SqAt(e, cm, sm, g, b, q)
    BY DEF Good, Inv
  <2>2. CqAt(e, cm2, f, b, q)
    BY <2>1 DEF CqAt, ViewBut
  <2>3. WayOf(e, cm2, f, q) = WayOf(e, cm, g, q) /\ UnfOf(e, sm, f, q) = UnfOf(e, sm, g, q)
    BY DEF WayOf, UnfOf, ViewBut
  <2>4. SqAt(e, cm2, sm, f, b, q)
    BY <2>1, <2>3 DEF SqAt, ViewBut
  <2> QED BY <2>2, <2>4
<1>3. \A q \in Qid : CqAt(e, cm2, f, b, q) /\ SqAt(e, cm2, sm, f, b, q)
  BY <1>2
<1>4. UnfOf(e, sm, f, 0) = UnfOf(e, sm, g, 0) /\ f.out = g.out /\ f \in Host
  BY <1>1 DEF UnfOf, ViewBut
<1>5. AdminPart(UnfOf(e, sm, g, 0), g.out[0], e.sqs[0].head, e, g, b) /\ Counts(e)
  BY DEF Good, Inv
<1>6. AdminPart(UnfOf(e, sm, g, 0), g.out[0], e.sqs[0].head, e, f, b)
  BY <1>5 DEF AdminPart
<1>7. Typed(e, cm2, sm, b, f)
  BY <1>4 DEF Good, Typed
<1> QED BY <1>3, <1>4, <1>5, <1>6, <1>7 DEF Good, Inv

\* No command that creates or deletes queue p is without a completion.
CqFree(out, p) == \A t \in Tag : out[t].op \in {"CREATE_CQ", "DELETE_CQ"} => out[t].q # p
SqFree(out, p) == \A t \in Tag : out[t].op \in {"CREATE_SQ", "DELETE_SQ"} => out[t].q # p

LEMMA Settled ==
  ASSUME NEW e, NEW cm, NEW sm, NEW b, NEW g, Good(e, cm, sm, b, g), NEW p
  PROVE  /\ g.cq[p] \in {"none", "live"} => CqFree(g.out[0], p)
         /\ g.sq[p] \in {"none", "live"} => SqFree(g.out[0], p)
<1>1. \A t \in Tag : AdminCmd(g.out[0][t], In(UnfOf(e, sm, g, 0), t), e, g)
  BY DEF Good, Inv, AdminPart
<1>2. ASSUME NEW t \in Tag, g.out[0][t].op \in {"CREATE_CQ", "DELETE_CQ"}, g.out[0][t].q = p
      PROVE  g.cq[p] \notin {"none", "live"}
  BY <1>1, <1>2 DEF AdminCmd
<1>3. ASSUME NEW t \in Tag, g.out[0][t].op \in {"CREATE_SQ", "DELETE_SQ"}, g.out[0][t].q = p
      PROVE  g.sq[p] \notin {"none", "live"}
  BY <1>1, <1>3 DEF AdminCmd
<1> QED BY <1>2, <1>3 DEF CqFree, SqFree

LEMMA AdminCqFree ==
  ASSUME NEW e, NEW g, NEW f, NEW p, NEW out, CqFree(out, p), NEW t \in Tag, NEW u, AdminCmd(out[t], u, e, g),
         \A q \in Qid : f.sq[q] = g.sq[q], \A q \in Qid \ {p} : f.cq[q] = g.cq[q]
  PROVE  AdminCmd(out[t], u, e, f)
<1>1. IoQid \subseteq Qid
  BY QidFacts
<1> QED BY <1>1 DEF AdminCmd, CqFree

LEMMA AdminSqFree ==
  ASSUME NEW e, NEW g, NEW f, NEW p, NEW out, SqFree(out, p), NEW t \in Tag, NEW u, AdminCmd(out[t], u, e, g),
         \A q \in Qid : f.cq[q] = g.cq[q], \A q \in Qid \ {p} : f.sq[q] = g.sq[q]
  PROVE  AdminCmd(out[t], u, e, f)
<1>1. IoQid \subseteq Qid
  BY QidFacts
<1> QED BY <1>1 DEF AdminCmd, SqFree

\* A command of the host's on queue p.
LEMMA RequestCq ==
  ASSUME NEW e, NEW g, NEW p \in IoQid, NEW op \in {"CREATE_CQ", "DELETE_CQ"}, CqFree(g.out[0], p),
         op = "CREATE_CQ" => g.cq[p] = "creating" /\ ~Made(e.cqs[p]),
         op = "DELETE_CQ" => g.cq[p] = "deleting" /\ Made(e.cqs[p])
  PROVE  Request(op, p, 0, 0, e, g)
<1>1. p \in Qid
  BY QidFacts
<1>2. ASSUME NEW x \in Tag
      PROVE  /\ Sendable(Cmd(op, p, 0, x), 0) /\ AdminCmd(Cmd(op, p, 0, x), TRUE, e, g)
             /\ Alone(g.out[0], Cmd(op, p, 0, x))
  <2>1. PICK c : c = Cmd(op, p, 0, x)
    OBVIOUS
  <2>2. c.op = op /\ c.q = p /\ c.v = 0 /\ c.cid = x /\ c \in Command
    <3>1. op \in Ops /\ 0 \in Nat
      BY <1>1 DEF Ops, QueueOps
    <3>2. Cmd(op, p, 0, x) \in Command
      BY <1>1, <3>1 DEF Cmd, Command
    <3>3. c.op = op /\ c.q = p /\ c.v = 0 /\ c.cid = x
      BY <2>1 DEF Cmd
    <3> QED BY <2>1, <3>2, <3>3
  <2>3. c # NoCmd /\ NoCmd.op = "none"
    BY <2>2 DEF NoCmd
  <2>4. Sendable(c, 0)
    BY <2>2, <2>3 DEF Sendable
  <2>5. AdminCmd(c, TRUE, e, g)
    <3>1. c.op = "CREATE_CQ" => Made(e.cqs[c.q]) = FALSE
      BY <2>2
    <3>2. c.op = "DELETE_CQ" => Made(e.cqs[c.q]) = TRUE
      BY <2>2 DEF Made
    <3> QED BY <2>2, <3>1, <3>2 DEF AdminCmd
  <2>6. Alone(g.out[0], c)
    BY <2>2 DEF Alone, CqFree, QueueOps
  <2> QED BY <2>1, <2>4, <2>5, <2>6
<1> QED BY <1>2 DEF Request

LEMMA RequestSq ==
  ASSUME NEW e, NEW g, NEW p \in IoQid, NEW op \in {"CREATE_SQ", "DELETE_SQ"}, SqFree(g.out[0], p), NEW v \in {0, p},
         op = "CREATE_SQ" => v = p /\ g.sq[p] = "creating" /\ ~Made(e.sqs[p]),
         op = "DELETE_SQ" => g.sq[p] = "deleting" /\ Made(e.sqs[p])
  PROVE  Request(op, p, v, 0, e, g)
<1>1. p \in Qid /\ v \in Nat
  BY QidFacts DEF IoQid
<1>2. ASSUME NEW x \in Tag
      PROVE  /\ Sendable(Cmd(op, p, v, x), 0) /\ AdminCmd(Cmd(op, p, v, x), TRUE, e, g)
             /\ Alone(g.out[0], Cmd(op, p, v, x))
  <2>1. PICK c : c = Cmd(op, p, v, x)
    OBVIOUS
  <2>2. c.op = op /\ c.q = p /\ c.v = v /\ c.cid = x /\ c \in Command
    <3>1. op \in Ops /\ v \in Nat
      BY <1>1 DEF Ops, QueueOps
    <3>2. Cmd(op, p, v, x) \in Command
      BY <1>1, <3>1 DEF Cmd, Command
    <3>3. c.op = op /\ c.q = p /\ c.v = v /\ c.cid = x
      BY <2>1 DEF Cmd
    <3> QED BY <2>1, <3>2, <3>3
  <2>3. c # NoCmd /\ NoCmd.op = "none"
    BY <2>2 DEF NoCmd
  <2>4. Sendable(c, 0)
    BY <2>2, <2>3 DEF Sendable
  <2>5. AdminCmd(c, TRUE, e, g)
    <3>1. c.op = "CREATE_SQ" => Made(e.sqs[c.q]) = FALSE
      BY <2>2
    <3>2. c.op = "DELETE_SQ" => Made(e.sqs[c.q]) = TRUE
      BY <2>2 DEF Made
    <3> QED BY <2>2, <3>1, <3>2 DEF AdminCmd
  <2>6. Alone(g.out[0], c)
    BY <2>2 DEF Alone, SqFree, QueueOps
  <2> QED BY <2>1, <2>4, <2>5, <2>6
<1> QED BY <1>2 DEF Request

\* The host before it sends a command on queue p.
CreatingCq(f, g, p) ==
  f = [g EXCEPT !.nq = @ + 1, !.cq[p] = "creating", !.head[p] = 0, !.phase[p] = 1, !.rung[p] = 0]
CreatingSq(f, g, p) == f = [g EXCEPT !.nq = @ + 1, !.sq[p] = "creating", !.tail[p] = 0, !.sqhd[p] = 0]
DeletingSq(f, g, p) == f = [g EXCEPT !.nq = @ + 1, !.sq[p] = "deleting"]
DeletingCq(f, g, p) == f = [g EXCEPT !.nq = @ + 1, !.cq[p] = "deleting"]
Blanked(cm2, cm, p) == cm2 = [cm EXCEPT ![p] = [i \in Slot |-> Blank]]

LEMMA CreatingCqIs ==
  ASSUME NEW g \in Host, NEW p \in Qid, g.nq < MaxQueueCmds, NEW f, CreatingCq(f, g, p)
  PROVE  /\ ViewBut(f, g, p) /\ f.sq = g.sq /\ f.tail = g.tail
         /\ f.cq[p] = "creating" /\ f.head[p] = 0 /\ f.phase[p] = 1 /\ f.rung[p] = 0
<1>1. /\ g.cq \in [Qid -> QState] /\ g.head \in [Qid -> Slot] /\ g.phase \in [Qid -> {0, 1}]
      /\ g.rung \in [Qid -> Slot] /\ g.nq \in 0 .. MaxQueueCmds
  BY DEF Host
<1>2. g.nq + 1 \in 0 .. MaxQueueCmds
  BY <1>1, CommandAssumption
<1>3. 0 \in Slot
  BY Sizes
<1>4. PICK c : c = [g.cq EXCEPT ![p] = "creating"]
  OBVIOUS
<1>5. PICK a : a = [g.head EXCEPT ![p] = 0]
  OBVIOUS
<1>6. PICK s : s = [g.phase EXCEPT ![p] = 1]
  OBVIOUS
<1>7. PICK r : r = [g.rung EXCEPT ![p] = 0]
  OBVIOUS
<1>8. c \in [Qid -> QState] /\ c[p] = "creating" /\ \A q \in Qid \ {p} : c[q] = g.cq[q]
  BY <1>1, <1>4 DEF QState
<1>9. a \in [Qid -> Slot] /\ a[p] = 0 /\ \A q \in Qid \ {p} : a[q] = g.head[q]
  BY <1>1, <1>3, <1>5
<1>10. s \in [Qid -> {0, 1}] /\ s[p] = 1 /\ \A q \in Qid \ {p} : s[q] = g.phase[q]
  BY <1>1, <1>6
<1>11. r \in [Qid -> Slot] /\ r[p] = 0 /\ \A q \in Qid \ {p} : r[q] = g.rung[q]
  BY <1>1, <1>3, <1>7
<1>12. f = [g EXCEPT !.nq = g.nq + 1, !.cq = c, !.head = a, !.phase = s, !.rung = r]
  BY <1>4, <1>5, <1>6, <1>7 DEF CreatingCq, Host
<1>13. f \in Host
  BY <1>2, <1>8, <1>9, <1>10, <1>11, <1>12 DEF Host
<1>14. /\ f.cq = c /\ f.head = a /\ f.phase = s /\ f.rung = r
       /\ f.sq = g.sq /\ f.tail = g.tail /\ f.out = g.out
  BY <1>12 DEF Host
<1> QED BY <1>8, <1>9, <1>10, <1>11, <1>13, <1>14 DEF ViewBut

LEMMA CreatingSqIs ==
  ASSUME NEW g \in Host, NEW p \in Qid, g.nq < MaxQueueCmds, NEW f, CreatingSq(f, g, p)
  PROVE  /\ ViewBut(f, g, p) /\ f.cq = g.cq /\ f.head = g.head /\ f.phase = g.phase /\ f.rung = g.rung
         /\ f.sq[p] = "creating" /\ f.tail[p] = 0
<1>1. /\ g.sq \in [Qid -> QState] /\ g.tail \in [Qid -> Slot] /\ g.sqhd \in [Qid -> Slot]
      /\ g.nq \in 0 .. MaxQueueCmds
  BY DEF Host
<1>2. g.nq + 1 \in 0 .. MaxQueueCmds
  BY <1>1, CommandAssumption
<1>3. 0 \in Slot
  BY Sizes
<1>4. PICK c : c = [g.sq EXCEPT ![p] = "creating"]
  OBVIOUS
<1>5. PICK a : a = [g.tail EXCEPT ![p] = 0]
  OBVIOUS
<1>6. PICK s : s = [g.sqhd EXCEPT ![p] = 0]
  OBVIOUS
<1>8. c \in [Qid -> QState] /\ c[p] = "creating" /\ \A q \in Qid \ {p} : c[q] = g.sq[q]
  BY <1>1, <1>4 DEF QState
<1>9. a \in [Qid -> Slot] /\ a[p] = 0 /\ \A q \in Qid \ {p} : a[q] = g.tail[q]
  BY <1>1, <1>3, <1>5
<1>10. s \in [Qid -> Slot]
  BY <1>1, <1>3, <1>6
<1>12. f = [g EXCEPT !.nq = g.nq + 1, !.sq = c, !.tail = a, !.sqhd = s]
  BY <1>4, <1>5, <1>6 DEF CreatingSq, Host
<1>13. f \in Host
  BY <1>2, <1>8, <1>9, <1>10, <1>12 DEF Host
<1>14. /\ f.sq = c /\ f.tail = a /\ f.cq = g.cq /\ f.head = g.head /\ f.phase = g.phase
       /\ f.rung = g.rung /\ f.out = g.out
  BY <1>12 DEF Host
<1> QED BY <1>8, <1>9, <1>13, <1>14 DEF ViewBut

LEMMA DeletingSqIs ==
  ASSUME NEW g \in Host, NEW p \in Qid, g.nq < MaxQueueCmds, NEW f, DeletingSq(f, g, p)
  PROVE  /\ ViewBut(f, g, p) /\ f.cq = g.cq /\ f.head = g.head /\ f.phase = g.phase /\ f.rung = g.rung
         /\ f.tail = g.tail /\ f.sq[p] = "deleting"
<1>1. g.sq \in [Qid -> QState] /\ g.nq \in 0 .. MaxQueueCmds
  BY DEF Host
<1>2. g.nq + 1 \in 0 .. MaxQueueCmds
  BY <1>1, CommandAssumption
<1>4. PICK c : c = [g.sq EXCEPT ![p] = "deleting"]
  OBVIOUS
<1>8. c \in [Qid -> QState] /\ c[p] = "deleting" /\ \A q \in Qid \ {p} : c[q] = g.sq[q]
  BY <1>1, <1>4 DEF QState
<1>12. f = [g EXCEPT !.nq = g.nq + 1, !.sq = c]
  BY <1>4 DEF DeletingSq, Host
<1>13. f \in Host
  BY <1>2, <1>8, <1>12 DEF Host
<1>14. /\ f.sq = c /\ f.tail = g.tail /\ f.cq = g.cq /\ f.head = g.head /\ f.phase = g.phase
       /\ f.rung = g.rung /\ f.out = g.out
  BY <1>12 DEF Host
<1> QED BY <1>8, <1>13, <1>14 DEF ViewBut

LEMMA DeletingCqIs ==
  ASSUME NEW g \in Host, NEW p \in Qid, g.nq < MaxQueueCmds, NEW f, DeletingCq(f, g, p)
  PROVE  /\ ViewBut(f, g, p) /\ f.sq = g.sq /\ f.head = g.head /\ f.phase = g.phase /\ f.rung = g.rung
         /\ f.tail = g.tail /\ f.cq[p] = "deleting"
<1>1. g.cq \in [Qid -> QState] /\ g.nq \in 0 .. MaxQueueCmds
  BY DEF Host
<1>2. g.nq + 1 \in 0 .. MaxQueueCmds
  BY <1>1, CommandAssumption
<1>4. PICK c : c = [g.cq EXCEPT ![p] = "deleting"]
  OBVIOUS
<1>8. c \in [Qid -> QState] /\ c[p] = "deleting" /\ \A q \in Qid \ {p} : c[q] = g.cq[q]
  BY <1>1, <1>4 DEF QState
<1>12. f = [g EXCEPT !.nq = g.nq + 1, !.cq = c]
  BY <1>4 DEF DeletingCq, Host
<1>13. f \in Host
  BY <1>2, <1>8, <1>12 DEF Host
<1>14. /\ f.cq = c /\ f.tail = g.tail /\ f.sq = g.sq /\ f.head = g.head /\ f.phase = g.phase
       /\ f.rung = g.rung /\ f.out = g.out
  BY <1>12 DEF Host
<1> QED BY <1>8, <1>13, <1>14 DEF ViewBut

\* A host that is about to create completion queue p, whose entries are new.
LEMMA CreateCqStage ==
  ASSUME NEW e, NEW cm, NEW sm, NEW b, NEW g, Good(e, cm, sm, b, g), NEW p \in IoQid,
         g.cq[p] = "none", g.nq < MaxQueueCmds, NEW f, CreatingCq(f, g, p),
         NEW cm2, Blanked(cm2, cm, p)
  PROVE  Good(e, cm2, sm, b, f) /\ Request("CREATE_CQ", p, 0, 0, e, f) /\ f.out = g.out
<1>1. p \in Qid /\ p # 0 /\ 0 .. CqSize(p) - 1 \subseteq Slot
  BY QidFacts, Sizes
<1>2. g \in Host /\ cm \in [Qid -> [Slot -> Entry]]
  BY DEF Good, Typed
<1>3. /\ ViewBut(f, g, p) /\ f.sq = g.sq /\ f.tail = g.tail
      /\ f.cq[p] = "creating" /\ f.head[p] = 0 /\ f.phase[p] = 1 /\ f.rung[p] = 0
  BY <1>1, <1>2, CreatingCqIs
<1>4. PICK m : m = [i \in Slot |-> Blank]
  OBVIOUS
<1>5. m \in [Slot -> Entry] /\ \A i \in Slot : m[i].phase = 0
  <2>1. 0 \in Tag /\ 0 \in Slot /\ 0 \in 0 .. MAX_IO_SQCQ_PAIRS
    BY <1>1, Sizes, SizeAssumption
  <2>2. Blank \in Entry /\ Blank.phase = 0
    BY <2>1 DEF Blank, Entry
  <2> QED BY <1>4, <2>2
<1>6. cm2 \in [Qid -> [Slot -> Entry]] /\ cm2[p] = m /\ \A q \in Qid \ {p} : cm2[q] = cm[q]
  BY <1>1, <1>2, <1>4, <1>5 DEF Blanked
<1>7. CqAt(e, cm, g, b, p) /\ SqAt(e, cm, sm, g, b, p)
  BY <1>1 DEF Good, Inv
<1>8. ~Made(e.cqs[p]) /\ e.cqs[p].pending = <<>> /\ \A i \in 1 .. Len(b) : ~IsCq(b, i, p)
  BY <1>1, <1>7 DEF CqAt, CqPart
<1>9. CqAt(e, cm2, f, b, p)
  BY <1>1, <1>3, <1>5, <1>6, <1>8 DEF CqAt, CqPart
<1>10. g.sq[p] = "none" /\ ~Made(e.sqs[p]) /\ e.sqs[p].head = 0
       /\ Quiet(e.cqs[p], e.isp, g.head[p], g.out[p], b, p)
  BY <1>1, <1>7 DEF SqAt, SqPart, Up
<1>11. Quiet(e.cqs[p], e.isp, f.head[p], f.out[p], b, p)
  BY <1>3, <1>8, <1>10 DEF Quiet, ViewBut
<1>12. SqAt(e, cm2, sm, f, b, p)
  BY <1>1, <1>3, <1>10, <1>11 DEF SqAt, SqPart, Up
<1>13. CqFree(g.out[0], p)
  BY Settled
<1>14. f.out = g.out /\ \A q \in Qid \ {p} : f.cq[q] = g.cq[q]
  BY <1>3 DEF ViewBut
<1>15. ASSUME NEW t \in Tag PROVE AdminCmd(g.out[0][t], In(UnfOf(e, sm, g, 0), t), e, f)
  <2>1. AdminCmd(g.out[0][t], In(UnfOf(e, sm, g, 0), t), e, g)
    BY DEF Good, Inv, AdminPart
  <2> QED BY <1>3, <1>13, <1>14, <2>1, AdminCqFree
<1>16. Good(e, cm2, sm, b, f)
  BY <1>3, <1>6, <1>9, <1>12, <1>15, StageGood
<1>17. Request("CREATE_CQ", p, 0, 0, e, f)
  <2>1. CqFree(f.out[0], p)
    BY <1>13, <1>14
  <2> QED BY <1>3, <1>8, <2>1, RequestCq
<1> QED BY <1>14, <1>16, <1>17

\* A host that is about to create submission queue p, ...
LEMMA CreateSqStage ==
  ASSUME NEW e, NEW cm, NEW sm, NEW b, NEW g, Good(e, cm, sm, b, g), NEW p \in IoQid,
         g.cq[p] = "live", g.sq[p] = "none", g.nq < MaxQueueCmds, NEW f, CreatingSq(f, g, p)
  PROVE  Good(e, cm, sm, b, f) /\ Request("CREATE_SQ", p, p, 0, e, f) /\ f.out = g.out
<1>1. p \in Qid /\ p # 0
  BY QidFacts
<1>2. g \in Host /\ cm \in [Qid -> [Slot -> Entry]]
  BY DEF Good, Typed
<1>3. /\ ViewBut(f, g, p) /\ f.cq = g.cq /\ f.head = g.head /\ f.phase = g.phase /\ f.rung = g.rung
      /\ f.sq[p] = "creating" /\ f.tail[p] = 0
  BY <1>1, <1>2, CreatingSqIs
<1>4. CqAt(e, cm, g, b, p) /\ SqAt(e, cm, sm, g, b, p)
  BY <1>1 DEF Good, Inv
<1>5. CqAt(e, cm, f, b, p)
  BY <1>3, <1>4 DEF CqAt
<1>6. /\ ~Made(e.sqs[p]) /\ e.sqs[p].head = 0
      /\ Quiet(e.cqs[p], e.isp, g.head[p], g.out[p], b, p)
  BY <1>1, <1>4 DEF SqAt, SqPart, Up
<1>7. f.out = g.out /\ \A q \in Qid \ {p} : f.sq[q] = g.sq[q]
  BY <1>3 DEF ViewBut
<1>8. SqAt(e, cm, sm, f, b, p)
  BY <1>1, <1>3, <1>6, <1>7 DEF SqAt, SqPart, Up
<1>9. SqFree(g.out[0], p)
  BY Settled
<1>10. ASSUME NEW t \in Tag PROVE AdminCmd(g.out[0][t], In(UnfOf(e, sm, g, 0), t), e, f)
  <2>1. AdminCmd(g.out[0][t], In(UnfOf(e, sm, g, 0), t), e, g)
    BY DEF Good, Inv, AdminPart
  <2> QED BY <1>3, <1>7, <1>9, <2>1, AdminSqFree
<1>11. Good(e, cm, sm, b, f)
  BY <1>2, <1>3, <1>5, <1>8, <1>10, StageGood
<1>12. Request("CREATE_SQ", p, p, 0, e, f)
  <2>1. SqFree(f.out[0], p)
    BY <1>7, <1>9
  <2> QED BY <1>3, <1>6, <2>1, RequestSq
<1> QED BY <1>7, <1>11, <1>12

\* ... to delete it, ...
LEMMA DeleteCqStage ==
  ASSUME NEW e, NEW cm, NEW sm, NEW b, NEW g, Good(e, cm, sm, b, g), NEW p \in IoQid,
         g.cq[p] = "live", g.sq[p] = "none", g.nq < MaxQueueCmds, NEW f, DeletingCq(f, g, p)
  PROVE  Good(e, cm, sm, b, f) /\ Request("DELETE_CQ", p, 0, 0, e, f) /\ f.out = g.out
<1>1. p \in Qid /\ p # 0
  BY QidFacts
<1>2. g \in Host /\ cm \in [Qid -> [Slot -> Entry]]
  BY DEF Good, Typed
<1>3. /\ ViewBut(f, g, p) /\ f.sq = g.sq /\ f.head = g.head /\ f.phase = g.phase /\ f.rung = g.rung
      /\ f.tail = g.tail /\ f.cq[p] = "deleting"
  BY <1>1, <1>2, DeletingCqIs
<1>4. CqAt(e, cm, g, b, p) /\ SqAt(e, cm, sm, g, b, p)
  BY <1>1 DEF Good, Inv
<1>5. CqAt(e, cm, f, b, p) /\ Made(e.cqs[p])
  BY <1>1, <1>3, <1>4 DEF CqAt, CqPart
<1>6. /\ ~Made(e.sqs[p]) /\ e.sqs[p].head = 0
      /\ Quiet(e.cqs[p], e.isp, g.head[p], g.out[p], b, p)
  BY <1>1, <1>4 DEF SqAt, SqPart, Up
<1>7. f.out = g.out /\ \A q \in Qid \ {p} : f.cq[q] = g.cq[q]
  BY <1>3 DEF ViewBut
<1>8. SqAt(e, cm, sm, f, b, p)
  BY <1>1, <1>3, <1>6, <1>7 DEF SqAt, SqPart, Up
<1>9. CqFree(g.out[0], p)
  BY Settled
<1>10. ASSUME NEW t \in Tag PROVE AdminCmd(g.out[0][t], In(UnfOf(e, sm, g, 0), t), e, f)
  <2>1. AdminCmd(g.out[0][t], In(UnfOf(e, sm, g, 0), t), e, g)
    BY DEF Good, Inv, AdminPart
  <2> QED BY <1>3, <1>7, <1>9, <2>1, AdminCqFree
<1>11. Good(e, cm, sm, b, f)
  BY <1>2, <1>3, <1>5, <1>8, <1>10, StageGood
<1>12. Request("DELETE_CQ", p, 0, 0, e, f)
  <2>1. CqFree(f.out[0], p)
    BY <1>7, <1>9
  <2> QED BY <1>3, <1>5, <2>1, RequestCq
<1> QED BY <1>7, <1>11, <1>12

\* ... and to delete its submission queue: nothing of it is under way.
LEMMA IdleQuiet ==
  ASSUME NEW e, NEW cm, NEW sm, NEW b, NEW g, Good(e, cm, sm, b, g), NEW p \in Qid, Up(g.sq[p], p),
         \A t \in 0 .. SqSize(p) - 2 : g.out[p][t] = NoCmd
  PROVE  Quiet(e.cqs[p], e.isp, g.head[p], g.out[p], b, p)
<1>1. /\ e.cqs[p].tail \in 0 .. CqSize(p) - 1 /\ g.head[p] \in 0 .. CqSize(p) - 1
      /\ e.sqs[p].head \in 0 .. SqSize(p) - 1 /\ g.tail[p] \in 0 .. SqSize(p) - 1
      /\ WayOf(e, cm, g, p) \in Seq(Item) /\ UnfOf(e, sm, g, p) \in Seq(Tag)
      /\ Works(e.sqs[p], g.tail[p], WayOf(e, cm, g, p), UnfOf(e, sm, g, p), e.isp, g.out[p], b, p)
  BY WorkSeqs
<1>2. PICK way : way = WayOf(e, cm, g, p)
  OBVIOUS
<1>3. PICK unf : unf = UnfOf(e, sm, g, p)
  OBVIOUS
<1>4. /\ SqDoors(e.sqs[p], g.tail[p], b, p, SqSize(p)) /\ way \in Seq(Item) /\ unf \in Seq(Tag)
      /\ Once(way, unf, e.isp, g.out[p], p) /\ Known(way, g.out[p], p)
  BY <1>1, <1>2, <1>3 DEF Works
<1>5. /\ SqSize(p) \in Nat /\ SqSize(p) >= 2 /\ CqSize(p) \in Nat /\ CqSize(p) >= 2 /\ Tag \subseteq Nat
      /\ 0 .. SqSize(p) - 1 \subseteq Slot /\ 0 .. CqSize(p) - 1 \subseteq Slot
  BY Sizes
<1>6. ASSUME NEW t \in Tag PROVE g.out[p][t] = NoCmd
  <2>1. SUFFICES ASSUME g.out[p][t] # NoCmd PROVE FALSE
    OBVIOUS
  <2>2. t <= SqSize(p) - 2
    BY <1>4, <2>1 DEF Known
  <2>3. t \in 0 .. SqSize(p) - 2
    BY <1>5, <2>2
  <2> QED BY <2>1, <2>3
<1>7. \A t \in Tag : ~Holds(way, t) /\ ~In(unf, t) /\ ~AtIspOf(e.isp, p, t)
  BY <1>4, <1>6 DEF Once, OnePlace
<1>8. way = <<>>
  <2>1. SUFFICES ASSUME way # <<>> PROVE FALSE
    OBVIOUS
  <2>2. 1 \in 1 .. Len(way) /\ way[1] \in Item
    BY <1>4, <2>1
  <2>3. way[1].cid \in Tag /\ Holds(way, way[1].cid)
    BY <2>2 DEF Item, Holds
  <2> QED BY <1>7, <2>3
<1>9. unf = <<>>
  <2>1. SUFFICES ASSUME unf # <<>> PROVE FALSE
    OBVIOUS
  <2>2. 1 \in 1 .. Len(unf) /\ unf[1] \in Tag
    BY <1>4, <2>1
  <2>3. In(unf, unf[1])
    BY <2>2 DEF In
  <2> QED BY <1>7, <2>2, <2>3
<1>10. e.cqs[p] \in CQueue /\ cm[p] \in [Slot -> Entry] /\ sm[p] \in [Slot -> Tag]
  BY PartTypes DEF Good
<1>11. e.cqs[p].tail = g.head[p] /\ e.cqs[p].pending = <<>>
  <2>1. PICK cq : cq = e.cqs[p]
    OBVIOUS
  <2>2. PICK hd : hd = g.head[p]
    OBVIOUS
  <2>3. PICK m : m = cm[p]
    OBVIOUS
  <2>4. PICK n : n = CqSize(p)
    OBVIOUS
  <2>5. Way(cq, m, hd, n) = <<>> <=> cq.tail = hd /\ cq.pending = <<>>
    <3>1. n \in Nat /\ n >= 2 /\ cq.tail \in 0 .. n - 1 /\ hd \in 0 .. n - 1
      BY <1>1, <1>5, <2>1, <2>2, <2>4
    <3>2. cq \in CQueue /\ m \in [Slot -> Entry] /\ 0 .. n - 1 \subseteq Slot
      BY <1>5, <1>10, <2>1, <2>3, <2>4
    <3> QED BY <3>1, <3>2, WayEmpty
  <2> QED BY <1>2, <1>8, <2>1, <2>2, <2>3, <2>4, <2>5 DEF WayOf
<1>12. e.sqs[p].head = g.tail[p]
  <2>1. PICK sq : sq = e.sqs[p]
    OBVIOUS
  <2>2. PICK tl : tl = g.tail[p]
    OBVIOUS
  <2>3. PICK m : m = sm[p]
    OBVIOUS
  <2>4. PICK n : n = SqSize(p)
    OBVIOUS
  <2>5. /\ n \in Nat /\ n >= 2 /\ sq.head \in 0 .. n - 1 /\ tl \in 0 .. n - 1 /\ m \in [Slot -> Tag]
        /\ 0 .. n - 1 \subseteq Slot
    BY <1>1, <1>5, <1>10, <2>1, <2>2, <2>3, <2>4
  <2>6. Unf(sq, m, tl, n) = <<>> <=> sq.head = tl
    <3>1. n \in Nat /\ n >= 2 /\ sq.head \in 0 .. n - 1 /\ tl \in 0 .. n - 1
      BY <2>5
    <3>2. m \in [Slot -> Tag] /\ 0 .. n - 1 \subseteq Slot
      BY <2>5
    <3> QED BY <3>1, <3>2, UnfEmpty
  <2> QED BY <1>3, <1>9, <2>1, <2>2, <2>3, <2>4, <2>6 DEF UnfOf
<1>13. ASSUME NEW i \in 1 .. Len(b), IsSq(b, i, p) PROVE FALSE
  <2>1. 1 <= Off(e.sqs[p].head, b[i].value, SqSize(p)) /\ b[i].value \in 0 .. SqSize(p) - 1
        /\ Off(e.sqs[p].head, b[i].value, SqSize(p)) <= Off(e.sqs[p].head, g.tail[p], SqSize(p))
    BY <1>4, <1>13 DEF SqDoors
  <2>2. Off(e.sqs[p].head, g.tail[p], SqSize(p)) = 0
    BY <1>1, <1>12 DEF Off
  <2>3. Off(e.sqs[p].head, b[i].value, SqSize(p)) \in Int
    <3>1. PICK z \in Int : z = b[i].value
      BY <1>5, <2>1
    <3>2. PICK n \in Int : n = SqSize(p)
      BY <1>5
    <3>3. PICK y \in Int : y = e.sqs[p].head
      BY <1>1, <1>5
    <3>4. Off(y, z, n) \in Int
      BY OffInt
    <3> QED BY <3>1, <3>2, <3>3, <3>4
  <2> QED BY <2>1, <2>2, <2>3
<1> QED BY <1>6, <1>7, <1>11, <1>13 DEF Quiet

LEMMA DeleteSqStage ==
  ASSUME NEW e, NEW cm, NEW sm, NEW b, NEW g, Good(e, cm, sm, b, g), NEW p \in IoQid,
         g.sq[p] = "live", \A t \in 0 .. SqSize(p) - 2 : g.out[p][t] = NoCmd,
         g.nq < MaxQueueCmds, NEW f, DeletingSq(f, g, p)
  PROVE  Good(e, cm, sm, b, f) /\ Request("DELETE_SQ", p, 0, 0, e, f) /\ f.out = g.out
<1>1. p \in Qid /\ p # 0 /\ Up(g.sq[p], p)
  BY QidFacts DEF Up
<1>2. g \in Host /\ cm \in [Qid -> [Slot -> Entry]]
  BY DEF Good, Typed
<1>3. /\ ViewBut(f, g, p) /\ f.cq = g.cq /\ f.head = g.head /\ f.phase = g.phase /\ f.rung = g.rung
      /\ f.tail = g.tail /\ f.sq[p] = "deleting"
  BY <1>1, <1>2, DeletingSqIs
<1>4. CqAt(e, cm, g, b, p) /\ SqAt(e, cm, sm, g, b, p)
  BY <1>1 DEF Good, Inv
<1>5. CqAt(e, cm, f, b, p)
  BY <1>3, <1>4 DEF CqAt
<1>6. /\ Made(e.sqs[p]) /\ e.sqs[p].size = SqSize(p) /\ e.sqs[p].cqid = p /\ g.cq[p] = "live"
  BY <1>1, <1>4 DEF SqAt, SqPart
<1>7. Quiet(e.cqs[p], e.isp, g.head[p], g.out[p], b, p)
  BY <1>1, IdleQuiet
<1>8. f.out = g.out /\ \A q \in Qid \ {p} : f.sq[q] = g.sq[q]
  BY <1>3 DEF ViewBut
<1>9. SqAt(e, cm, sm, f, b, p)
  BY <1>1, <1>3, <1>6, <1>7, <1>8 DEF SqAt, SqPart, Up
<1>10. SqFree(g.out[0], p)
  BY Settled
<1>11. ASSUME NEW t \in Tag PROVE AdminCmd(g.out[0][t], In(UnfOf(e, sm, g, 0), t), e, f)
  <2>1. AdminCmd(g.out[0][t], In(UnfOf(e, sm, g, 0), t), e, g)
    BY DEF Good, Inv, AdminPart
  <2> QED BY <1>3, <1>8, <1>10, <2>1, AdminSqFree
<1>12. Good(e, cm, sm, b, f)
  BY <1>2, <1>3, <1>5, <1>9, <1>11, StageGood
<1>13. Request("DELETE_SQ", p, 0, 0, e, f)
  <2>1. SqFree(f.out[0], p)
    BY <1>8, <1>10
  <2> QED BY <1>3, <1>6, <2>1, RequestSq
<1> QED BY <1>8, <1>12, <1>13

\* A host whose counters differ.
LEMMA CountersGood ==
  ASSUME NEW e, NEW cm, NEW sm, NEW b, NEW g, Good(e, cm, sm, b, g), NEW f \in Host,
         SameView(f, g), f.tail = g.tail, f.out = g.out
  PROVE  Good(e, cm, sm, b, f)
<1>1. \A q \in Qid : WayOf(e, cm, f, q) = WayOf(e, cm, g, q) /\ UnfOf(e, sm, f, q) = UnfOf(e, sm, g, q)
  BY DEF WayOf, UnfOf, SameView
<1>2. ASSUME NEW q \in Qid PROVE CqAt(e, cm, f, b, q) /\ SqAt(e, cm, sm, f, b, q)
  <2>1. CqAt(e, cm, g, b, q) /\ SqAt(e, cm, sm, g, b, q)
    BY DEF Good, Inv
  <2>2. CqAt(e, cm, f, b, q)
    BY <2>1 DEF CqAt, SameView
  <2>3. SqAt(e, cm, sm, f, b, q)
    BY <1>1, <2>1 DEF SqAt, SameView
  <2> QED BY <2>2, <2>3
<1>3. AdminPart(UnfOf(e, sm, g, 0), g.out[0], e.sqs[0].head, e, g, b) /\ Counts(e)
  BY DEF Good, Inv
<1>4. ASSUME NEW t \in Tag PROVE AdminCmd(g.out[0][t], In(UnfOf(e, sm, g, 0), t), e, f)
  <2>1. AdminCmd(g.out[0][t], In(UnfOf(e, sm, g, 0), t), e, g)
    BY <1>3 DEF AdminPart
  <2> QED BY <2>1 DEF AdminCmd, SameView
<1>5. AdminPart(UnfOf(e, sm, g, 0), g.out[0], e.sqs[0].head, e, f, b)
  BY <1>3, <1>4 DEF AdminPart
<1>6. UnfOf(e, sm, f, 0) = UnfOf(e, sm, g, 0)
  BY <1>1, QidFacts
<1>7. Typed(e, cm, sm, b, f)
  BY DEF Good, Typed
<1> QED BY <1>2, <1>3, <1>5, <1>6, <1>7 DEF Good, Inv

LEMMA StepCreateCq == ASSUME IInv, NEW p \in IoQid, CreateCq(p) PROVE IInv'
<1>1. Good(d, cq_mem, sq_mem, db, h)
  BY IInvIs
<1>2. h.cq[p] = "none" /\ h.nq < MaxQueueCmds
  BY DEF CreateCq
<1>3. PICK g : g = [h EXCEPT !.nq = @ + 1, !.cq[p] = "creating",
                             !.head[p] = 0, !.phase[p] = 1, !.rung[p] = 0]
  OBVIOUS
<1>4. Send(0, "CREATE_CQ", p, 0, g) /\ cq_mem' = [cq_mem EXCEPT ![p] = [i \in Slot |-> Blank]]
  BY <1>3 DEF CreateCq
<1>5. CreatingCq(g, h, p) /\ Blanked(cq_mem', cq_mem, p)
  BY <1>3, <1>4 DEF CreatingCq, Blanked
<1>6. Good(d, cq_mem', sq_mem, db, g) /\ Request("CREATE_CQ", p, 0, 0, d, g) /\ g.out = h.out
  BY <1>1, <1>2, <1>5, CreateCqStage
<1>7. 0 \in Qid /\ Up(g.sq[0], 0)
  BY QidFacts DEF Up
<1>8. Good(d, cq_mem', sq_mem', db', h') /\ d' = d
  BY <1>4, <1>6, <1>7, SendStep
<1> QED BY <1>8 DEF IInv, Good, Typed, TypeOK, Entry, Door

LEMMA StepCreateSq == ASSUME IInv, NEW p \in IoQid, CreateSq(p) PROVE IInv'
<1>1. Good(d, cq_mem, sq_mem, db, h)
  BY IInvIs
<1>2. h.cq[p] = "live" /\ h.sq[p] = "none" /\ h.nq < MaxQueueCmds
  BY DEF CreateSq
<1>3. PICK g : g = [h EXCEPT !.nq = @ + 1, !.sq[p] = "creating", !.tail[p] = 0, !.sqhd[p] = 0]
  OBVIOUS
<1>4. Send(0, "CREATE_SQ", p, p, g) /\ cq_mem' = cq_mem
  BY <1>3 DEF CreateSq
<1>5. CreatingSq(g, h, p)
  BY <1>3 DEF CreatingSq
<1>6. Good(d, cq_mem, sq_mem, db, g) /\ Request("CREATE_SQ", p, p, 0, d, g) /\ g.out = h.out
  BY <1>1, <1>2, <1>5, CreateSqStage
<1>7. 0 \in Qid /\ Up(g.sq[0], 0)
  BY QidFacts DEF Up
<1>8. Good(d, cq_mem, sq_mem', db', h') /\ d' = d
  BY <1>4, <1>6, <1>7, SendStep
<1> QED BY <1>4, <1>8 DEF IInv, Good, Typed, TypeOK, Entry, Door

LEMMA StepDeleteSq == ASSUME IInv, NEW p \in IoQid, DeleteSq(p) PROVE IInv'
<1>1. Good(d, cq_mem, sq_mem, db, h)
  BY IInvIs
<1>2. h.sq[p] = "live" /\ h.nq < MaxQueueCmds
  BY DEF DeleteSq
<1>3. \A t \in 0 .. SqSize(p) - 2 : h.out[p][t] = NoCmd
  BY DEF DeleteSq, Idle, Free
<1>4. PICK g : g = [h EXCEPT !.nq = @ + 1, !.sq[p] = "deleting"]
  OBVIOUS
<1>5. Send(0, "DELETE_SQ", p, 0, g) /\ cq_mem' = cq_mem
  BY <1>4 DEF DeleteSq
<1>6. DeletingSq(g, h, p)
  BY <1>4 DEF DeletingSq
<1>7. Good(d, cq_mem, sq_mem, db, g) /\ Request("DELETE_SQ", p, 0, 0, d, g) /\ g.out = h.out
  BY <1>1, <1>2, <1>3, <1>6, DeleteSqStage
<1>8. 0 \in Qid /\ Up(g.sq[0], 0)
  BY QidFacts DEF Up
<1>9. Good(d, cq_mem, sq_mem', db', h') /\ d' = d
  BY <1>5, <1>7, <1>8, SendStep
<1> QED BY <1>5, <1>9 DEF IInv, Good, Typed, TypeOK, Entry, Door

LEMMA StepDeleteCq == ASSUME IInv, NEW p \in IoQid, DeleteCq(p) PROVE IInv'
<1>1. Good(d, cq_mem, sq_mem, db, h)
  BY IInvIs
<1>2. h.cq[p] = "live" /\ h.sq[p] = "none" /\ h.nq < MaxQueueCmds
  BY DEF DeleteCq
<1>3. PICK g : g = [h EXCEPT !.nq = @ + 1, !.cq[p] = "deleting"]
  OBVIOUS
<1>4. Send(0, "DELETE_CQ", p, 0, g) /\ cq_mem' = cq_mem
  BY <1>3 DEF DeleteCq
<1>5. DeletingCq(g, h, p)
  BY <1>3 DEF DeletingCq
<1>6. Good(d, cq_mem, sq_mem, db, g) /\ Request("DELETE_CQ", p, 0, 0, d, g) /\ g.out = h.out
  BY <1>1, <1>2, <1>5, DeleteCqStage
<1>7. 0 \in Qid /\ Up(g.sq[0], 0)
  BY QidFacts DEF Up
<1>8. Good(d, cq_mem, sq_mem', db', h') /\ d' = d
  BY <1>4, <1>6, <1>7, SendStep
<1> QED BY <1>4, <1>8 DEF IInv, Good, Typed, TypeOK, Entry, Door

LEMMA StepSendMisc == ASSUME IInv, NEW c \in MiscCmds, SendMisc(c) PROVE IInv'
<1>1. Good(d, cq_mem, sq_mem, db, h)
  BY IInvIs
<1>2. PICK g : g = [h EXCEPT !.nmisc = @ + 1]
  OBVIOUS
<1>3. Send(0, c.op, 0, c.v, g) /\ cq_mem' = cq_mem /\ h.nmisc < MaxMisc
  BY <1>2 DEF SendMisc
<1>4. h \in Host
  BY <1>1 DEF Good, Typed
<1>5. /\ g \in Host /\ SameView(g, h) /\ g.tail = h.tail /\ g.out = h.out
  <2>1. h.nmisc + 1 \in 0 .. MaxMisc
    BY <1>3, <1>4, CommandAssumption DEF Host
  <2>2. g \in Host
    BY <1>2, <1>4, <2>1 DEF Host
  <2>3. SameView(g, h) /\ g.tail = h.tail /\ g.out = h.out
    BY <1>2, <1>4 DEF Host, SameView
  <2> QED BY <2>2, <2>3
<1>6. Good(d, cq_mem, sq_mem, db, g)
  BY <1>1, <1>5, CountersGood
<1>7. 0 \in Qid /\ Up(g.sq[0], 0)
  BY QidFacts DEF Up
<1>8. Request(c.op, 0, c.v, 0, d, g)
  <2>1. /\ c.v \in Nat /\ c.op \notin QueueOps \cup {"none", "ISP", "FLUSH"}
        /\ c.op = "FW_DOWNLOAD" => c.v \in 1 .. CODE_PIECES
    BY CommandAssumption
  <2>2. ASSUME NEW x \in Tag
        PROVE  /\ Sendable(Cmd(c.op, 0, c.v, x), 0) /\ AdminCmd(Cmd(c.op, 0, c.v, x), TRUE, d, g)
               /\ Alone(g.out[0], Cmd(c.op, 0, c.v, x))
    <3>1. PICK z : z = Cmd(c.op, 0, c.v, x)
      OBVIOUS
    <3>2. c.op \in Ops
      BY DEF Ops
    <3>3. Cmd(c.op, 0, c.v, x) \in Command
      BY <1>7, <2>1, <3>2 DEF Cmd, Command
    <3>4. z.op = c.op /\ z.q = 0 /\ z.v = c.v /\ z.cid = x
      BY <3>1 DEF Cmd
    <3>5. z # NoCmd
      BY <2>1, <3>4 DEF NoCmd
    <3>6. Sendable(z, 0)
      BY <2>1, <3>1, <3>3, <3>4, <3>5 DEF Sendable
    <3>7. AdminCmd(z, TRUE, d, g) /\ Alone(g.out[0], z)
      BY <2>1, <3>4 DEF AdminCmd, Alone, QueueOps
    <3> QED BY <3>1, <3>6, <3>7
  <2> QED BY <2>2 DEF Request
<1>9. Good(d, cq_mem, sq_mem', db', h') /\ d' = d
  BY <1>3, <1>5, <1>6, <1>7, <1>8, SendStep
<1> QED BY <1>3, <1>9 DEF IInv, Good, Typed, TypeOK, Entry, Door

LEMMA StepSendIo == ASSUME IInv, NEW p \in IoQid, NEW op \in {"FLUSH", "ISP"}, SendIo(p, op) PROVE IInv'
<1>1. Good(d, cq_mem, sq_mem, db, h)
  BY IInvIs
<1>2. PICK g : g = [h EXCEPT !.nio = @ + 1]
  OBVIOUS
<1>3. Send(p, op, 0, 0, g) /\ cq_mem' = cq_mem /\ h.nio < MaxIo /\ h.sq[p] = "live"
  BY <1>2 DEF SendIo
<1>4. h \in Host
  BY <1>1 DEF Good, Typed
<1>5. /\ g \in Host /\ SameView(g, h) /\ g.tail = h.tail /\ g.out = h.out
  <2>1. h.nio + 1 \in 0 .. MaxIo
    BY <1>3, <1>4, CommandAssumption DEF Host
  <2>2. g \in Host
    BY <1>2, <1>4, <2>1 DEF Host
  <2>3. SameView(g, h) /\ g.tail = h.tail /\ g.out = h.out
    BY <1>2, <1>4 DEF Host, SameView
  <2> QED BY <2>2, <2>3
<1>6. Good(d, cq_mem, sq_mem, db, g)
  BY <1>1, <1>5, CountersGood
<1>7. p \in Qid /\ p # 0 /\ Up(g.sq[p], p) /\ 0 \in Qid
  BY <1>3, <1>5, QidFacts DEF Up, SameView
<1>8. Request(op, 0, 0, p, d, g)
  <2>1. ASSUME NEW x \in Tag PROVE Sendable(Cmd(op, 0, 0, x), p)
    <3>1. PICK z : z = Cmd(op, 0, 0, x)
      OBVIOUS
    <3>2. op \in Ops /\ 0 \in Nat
      BY DEF Ops
    <3>3. Cmd(op, 0, 0, x) \in Command
      BY <1>7, <3>2 DEF Cmd, Command
    <3>4. z.op = op /\ z.q = 0 /\ z.v = 0 /\ z.cid = x
      BY <3>1 DEF Cmd
    <3>5. z # NoCmd
      BY <3>4 DEF NoCmd
    <3>6. Sendable(z, p)
      BY <1>7, <3>1, <3>3, <3>4, <3>5 DEF Sendable
    <3> QED BY <3>1, <3>6
  <2> QED BY <1>7, <2>1 DEF Request
<1>9. Good(d, cq_mem, sq_mem', db', h') /\ d' = d
  BY <1>3, <1>5, <1>6, <1>7, <1>8, SendStep
<1> QED BY <1>3, <1>9 DEF IInv, Good, Typed, TypeOK, Entry, Door

----------------------------------------------------------------------------
(* The host rings for what it has taken.                                   *)

\* The doorbell with the host's place hd is the newest.
LEMMA HeadsRing ==
  ASSUME NEW n \in Nat, n >= 2, NEW cq, NEW hd, NEW rung, NEW b \in Seq(Door), NEW q,
         Heads(cq, hd, rung, b, q, n), NEW y \in Door, y.value = hd
  PROVE  Heads(cq, hd, hd, Append(b, y), q, n)
<1>1. /\ Len(b) \in Nat /\ Len(Append(b, y)) = Len(b) + 1 /\ Append(b, y)[Len(b) + 1] = y
      /\ \A i \in 1 .. Len(b) : Append(b, y)[i] = b[i]
      /\ \A i : IsCq(Append(b, y), i, q) => IsCq(b, i, q) \/ i = Len(b) + 1
  <2>1. /\ Len(b) \in Nat /\ Len(Append(b, y)) = Len(b) + 1 /\ Append(b, y)[Len(b) + 1] = y
        /\ \A i \in 1 .. Len(b) : Append(b, y)[i] = b[i]
        /\ \A i, p : IsCq(Append(b, y), i, p) =>
             IsCq(b, i, p) \/ (i = Len(b) + 1 /\ y.kind = "CQ" /\ y.q = p)
    BY PushIs
  <2> QED BY <2>1
<1>2. PICK t : t = Append(b, y)
  OBVIOUS
<1>3. {cq.tail, cq.head, hd, rung} \subseteq 0 .. n - 1
  BY DEF Heads
<1>4. /\ Off(hd, cq.tail, n) \in Int /\ Off(rung, cq.tail, n) \in Int /\ Off(cq.head, cq.tail, n) \in Int
  <2>1. cq.tail \in Int /\ cq.head \in Int /\ hd \in Int /\ rung \in Int
    BY <1>3
  <2>2. Off(hd, cq.tail, n) \in Int
    BY <2>1 DEF Off
  <2>3. Off(rung, cq.tail, n) \in Int
    BY <2>1 DEF Off
  <2>4. Off(cq.head, cq.tail, n) \in Int
    BY <2>1 DEF Off
  <2> QED BY <2>2, <2>3, <2>4
<1>5. Off(hd, cq.tail, n) <= Off(cq.head, cq.tail, n)
  BY <1>4 DEF Heads
<1>6. ASSUME NEW i \in 1 .. Len(t), IsCq(t, i, q)
      PROVE  /\ t[i].value \in 0 .. n - 1
             /\ Off(t[i].value, cq.tail, n) <= Off(cq.head, cq.tail, n)
             /\ Off(hd, cq.tail, n) <= Off(t[i].value, cq.tail, n)
  <2>1. CASE i = Len(b) + 1
    BY <1>1, <1>2, <1>3, <1>4, <1>5, <2>1
  <2>2. CASE i # Len(b) + 1
    <3>1. IsCq(b, i, q) /\ i \in 1 .. Len(b) /\ t[i] = b[i]
      BY <1>1, <1>2, <1>6, <2>2
    <3>2. /\ b[i].value \in 0 .. n - 1 /\ Off(b[i].value, cq.tail, n) <= Off(cq.head, cq.tail, n)
          /\ Off(rung, cq.tail, n) <= Off(b[i].value, cq.tail, n)
          /\ Off(hd, cq.tail, n) <= Off(rung, cq.tail, n)
      BY <3>1 DEF Heads
    <3>3. Off(b[i].value, cq.tail, n) \in Int
      <4>1. PICK z \in Int : z = b[i].value
        BY <3>2
      <4>2. PICK w \in Int : w = cq.tail
        BY <1>3
      <4>3. n \in Int
        OBVIOUS
      <4>4. Off(z, w, n) \in Int
        BY <4>3, OffInt
      <4> QED BY <4>1, <4>2, <4>4
    <3> QED BY <1>4, <3>1, <3>2, <3>3
  <2> QED BY <2>1, <2>2
<1>7. ASSUME NEW i \in 1 .. Len(t), NEW j \in 1 .. Len(t), i < j, IsCq(t, i, q), IsCq(t, j, q)
      PROVE  Off(t[j].value, cq.tail, n) <= Off(t[i].value, cq.tail, n)
  <2>1. i # Len(b) + 1
    BY <1>1, <1>2, <1>7
  <2>2. CASE j = Len(b) + 1
    <3>1. t[j].value = hd
      BY <1>1, <1>2, <2>2
    <3> QED BY <1>6, <1>7, <3>1
  <2>3. CASE j # Len(b) + 1
    <3>1. /\ IsCq(b, i, q) /\ i \in 1 .. Len(b) /\ t[i] = b[i]
          /\ IsCq(b, j, q) /\ j \in 1 .. Len(b) /\ t[j] = b[j]
      BY <1>1, <1>2, <1>7, <2>1, <2>3
    <3> QED BY <1>7, <3>1 DEF Heads
  <2> QED BY <2>2, <2>3
<1>8. Off(hd, cq.tail, n) <= Off(hd, cq.tail, n)
  BY <1>4
<1> QED BY <1>2, <1>3, <1>5, <1>6, <1>7, <1>8 DEF Heads

Rung(f, g, q) == f = [g EXCEPT !.rung[q] = g.head[q]]
RingDoor(g, q) == [kind |-> "CQ", q |-> q, value |-> g.head[q]]

LEMMA RingGood ==
  ASSUME NEW e, NEW cm, NEW sm, NEW b, NEW g, Good(e, cm, sm, b, g), NEW q \in Qid,
         q = 0 \/ g.cq[q] = "live", NEW f, Rung(f, g, q)
  PROVE  Good(e, cm, sm, Append(b, RingDoor(g, q)), f)
<1>1. /\ g \in Host /\ b \in Seq(Door) /\ g.rung \in [Qid -> Slot] /\ g.head[q] \in Slot
  BY DEF Good, Typed, Host
<1>2. PICK y : y = RingDoor(g, q)
  OBVIOUS
<1>3. y \in Door /\ y.kind = "CQ" /\ y.q = q /\ y.value = g.head[q]
  BY <1>1, <1>2 DEF RingDoor, Door
<1>4. PICK r : r = [g.rung EXCEPT ![q] = g.head[q]]
  OBVIOUS
<1>5. r \in [Qid -> Slot] /\ r[q] = g.head[q] /\ \A p \in Qid \ {q} : r[p] = g.rung[p]
  BY <1>1, <1>4
<1>6. f = [g EXCEPT !.rung = r]
  BY <1>1, <1>4 DEF Rung, Host
<1>7. f \in Host
  BY <1>1, <1>5, <1>6 DEF Host
<1>8. /\ f.rung = r /\ f.head = g.head /\ f.phase = g.phase /\ f.sq = g.sq /\ f.cq = g.cq
      /\ f.tail = g.tail /\ f.out = g.out
  BY <1>1, <1>6 DEF Host
<1>9. PICK b2 : b2 = Append(b, y)
  OBVIOUS
<1>10. ASSUME NEW p \in Qid PROVE CqAt(e, cm, f, b2, p)
  <2>1. CqAt(e, cm, g, b, p)
    BY DEF Good, Inv
  <2>2. CASE p # q
    <3>1. ~(y.kind = "CQ" /\ y.q = p)
      BY <1>3, <2>2
    <3>2. CqAt(e, cm, g, b2, p)
      BY <1>1, <1>3, <1>9, <2>1, <3>1, CqPush DEF CqAt
    <3> QED BY <1>5, <1>8, <2>2, <3>2 DEF CqAt
  <2>3. CASE p = q
    <3>1. PICK cq : cq = e.cqs[q]
      OBVIOUS
    <3>2. PICK n : n = CqSize(q)
      OBVIOUS
    <3>3. /\ Made(cq) /\ cq.size = n /\ cq.cqid = q /\ Heads(cq, g.head[q], g.rung[q], b, q, n)
          /\ Phases(cq, cm[q], g.head[q], g.phase[q], n)
      BY <2>1, <2>3, <3>1, <3>2 DEF CqAt, CqPart
    <3>4. n \in Nat /\ n >= 2
      BY <3>2, Sizes
    <3>5. Heads(cq, g.head[q], g.head[q], b2, q, n)
      BY <1>1, <1>3, <1>9, <3>3, <3>4, HeadsRing
    <3>6. CqPart(cq, cm[q], g.cq[q], g.head[q], g.head[q], g.phase[q], b2, q)
      BY <3>2, <3>3, <3>5 DEF CqPart
    <3> QED BY <1>5, <1>8, <2>3, <3>1, <3>6 DEF CqAt
  <2> QED BY <2>2, <2>3
<1>11. ASSUME NEW p \in Qid PROVE SqAt(e, cm, sm, f, b2, p)
  <2>1. SqAt(e, cm, sm, g, b, p)
    BY DEF Good, Inv
  <2>2. ~(y.kind = "SQ" /\ y.q = p)
    BY <1>3
  <2>3. SqAt(e, cm, sm, g, b2, p)
    BY <1>1, <1>3, <1>9, <2>1, <2>2, SqPush DEF SqAt
  <2>4. WayOf(e, cm, f, p) = WayOf(e, cm, g, p) /\ UnfOf(e, sm, f, p) = UnfOf(e, sm, g, p)
    BY <1>8 DEF WayOf, UnfOf
  <2> QED BY <1>8, <2>3, <2>4 DEF SqAt
<1>12. PICK unf : unf = UnfOf(e, sm, g, 0)
  OBVIOUS
<1>13. PICK out : out = g.out[0]
  OBVIOUS
<1>14. AdminPart(unf, out, e.sqs[0].head, e, g, b) /\ Counts(e)
  BY <1>12, <1>13 DEF Good, Inv
<1>15. unf \in Seq(Tag)
  <2>1. 0 \in Qid /\ Up(g.sq[0], 0)
    BY QidFacts DEF Up
  <2> QED BY <1>12, <2>1, WorkSeqs
<1>16. ASSUME NEW t \in Tag PROVE AdminCmd(out[t], In(unf, t), e, f)
  <2>1. AdminCmd(out[t], In(unf, t), e, g)
    BY <1>14 DEF AdminPart
  <2> QED BY <1>8, <2>1 DEF AdminCmd
<1>17. /\ Len(b) \in Nat /\ Len(b2) = Len(b) + 1
       /\ \A i \in 1 .. Len(b) : b2[i] = b[i]
       /\ \A i : IsSq(b2, i, 0) => IsSq(b, i, 0)
       /\ \A i, p : IsCq(b2, i, p) => IsCq(b, i, p) \/ p = q
  <2>1. /\ Len(b) \in Nat /\ Len(b2) = Len(b) + 1
        /\ \A i \in 1 .. Len(b) : b2[i] = b[i]
        /\ \A i, p : IsSq(b2, i, p) => IsSq(b, i, p) \/ (i = Len(b) + 1 /\ y.kind = "SQ" /\ y.q = p)
        /\ \A i, p : IsCq(b2, i, p) => IsCq(b, i, p) \/ (i = Len(b) + 1 /\ y.kind = "CQ" /\ y.q = p)
    BY <1>1, <1>3, <1>9, PushIs
  <2> QED BY <1>3, <2>1
<1>18. ASSUME NEW k \in 1 .. Len(unf), out[unf[k]].op = "DELETE_CQ",
              NEW i \in 1 .. Len(b2), NEW j \in 1 .. Len(b2), i < j, IsSq(b2, i, 0),
              IsCq(b2, j, out[unf[k]].q)
       PROVE  Off(e.sqs[0].head, b2[i].value, ASQ_SIZE) < k
  <2>1. unf[k] \in Tag
    BY <1>15
  <2>2. AdminCmd(out[unf[k]], In(unf, unf[k]), e, g)
    BY <1>14, <2>1 DEF AdminPart
  <2>3. out[unf[k]].q \in IoQid /\ g.cq[out[unf[k]].q] = "deleting"
    BY <1>18, <2>2 DEF AdminCmd
  <2>4. out[unf[k]].q # q
    BY <2>3, QidFacts
  <2>5. IsSq(b, i, 0) /\ IsCq(b, j, out[unf[k]].q)
    BY <1>17, <1>18, <2>4
  <2>6. i \in 1 .. Len(b) /\ j \in 1 .. Len(b) /\ b2[i] = b[i]
    BY <1>17, <2>5 DEF IsSq, IsCq
  <2> QED BY <1>14, <1>18, <2>5, <2>6 DEF AdminPart, Before
<1>19. Before(unf, out, e.sqs[0].head, b2)
  BY <1>18 DEF Before
<1>20. AdminPart(unf, out, e.sqs[0].head, e, f, b2)
  BY <1>14, <1>16, <1>19 DEF AdminPart
<1>21. UnfOf(e, sm, f, 0) = unf /\ f.out[0] = out
  BY <1>8, <1>12, <1>13 DEF UnfOf
<1>22. b2 \in Seq(Door)
  BY <1>1, <1>3, <1>9
<1>23. Typed(e, cm, sm, b2, f)
  BY <1>7, <1>22 DEF Good, Typed
<1> QED BY <1>2, <1>9, <1>10, <1>11, <1>14, <1>20, <1>21, <1>23 DEF Good, Inv

LEMMA StepRingCq == ASSUME IInv, NEW q \in Qid, RingCq(q) PROVE IInv'
<1>1. Good(d, cq_mem, sq_mem, db, h)
  BY IInvIs
<1>2. Rung(h', h, q) /\ db' = Append(db, RingDoor(h, q)) /\ (q = 0 \/ h.cq[q] = "live")
  BY DEF RingCq, Rung, RingDoor
<1>3. d' = d /\ cq_mem' = cq_mem /\ sq_mem' = sq_mem
  BY DEF RingCq
<1>4. Good(d, cq_mem, sq_mem, db', h')
  BY <1>1, <1>2, RingGood
<1> QED BY <1>3, <1>4 DEF IInv, Good, Typed, TypeOK, Entry, Door

----------------------------------------------------------------------------
(* The host takes a completion.                                            *)

LEMMA KnownConsume ==
  ASSUME NEW way \in Seq(Item), way # <<>>, WayInj(way), NEW out \in [Tag -> Command \cup {NoCmd}],
         NEW q, Known(way, out, q)
  PROVE  Known(Tail(way), [out EXCEPT ![way[1].cid] = NoCmd], q)
<1>1. PICK x : x = way[1].cid
  OBVIOUS
<1>2. PICK o : o = [out EXCEPT ![x] = NoCmd]
  OBVIOUS
<1>3. Len(way) \in Nat /\ Len(way) >= 1 /\ way[1] \in Item
  BY EmptySeq
<1>4. x \in Tag
  BY <1>1, <1>3 DEF Item
<1>5. o[x] = NoCmd /\ \A t \in Tag \ {x} : o[t] = out[t]
  BY <1>2, <1>4
<1>6. ASSUME NEW t \in Tag, o[t] # NoCmd
      PROVE  /\ t <= SqSize(q) - 2 /\ o[t].cid = t
             /\ IF q = 0 THEN o[t].op \notin {"none", "ISP", "FLUSH"} ELSE o[t].op \in {"ISP", "FLUSH"}
             /\ o[t].op = "FW_DOWNLOAD" => o[t].v \in 1 .. CODE_PIECES
  <2>1. o[t] = out[t]
    BY <1>5, <1>6
  <2> QED BY <1>6, <2>1 DEF Known
<1>7. PICK w : w = Tail(way)
  OBVIOUS
<1>8. Len(w) = Len(way) - 1 /\ \A k \in 1 .. Len(w) : w[k] = way[k + 1]
  BY <1>3, <1>7
<1>9. ASSUME NEW k \in 1 .. Len(w)
      PROVE  /\ w[k].cdw0 \in 0 .. MAX_IO_SQCQ_PAIRS
  <2>1. PICK l : l = k + 1
    OBVIOUS
  <2>2. l \in 1 .. Len(way) /\ l # 1 /\ 1 \in 1 .. Len(way) /\ w[k] = way[l]
    BY <1>3, <1>8, <2>1
  <2>3. way[l].cid # x
    BY <1>1, <2>2 DEF WayInj
  <2>4. way[l] \in Item
    BY <2>2
  <2>5. way[l].cid \in Tag
    BY <2>4 DEF Item
  <2>6. o[way[l].cid] = out[way[l].cid]
    BY <1>5, <2>3, <2>5
  <2> QED BY <2>2, <2>6 DEF Known
<1>10. Known(w, o, q)
  BY <1>6, <1>9 DEF Known
<1> QED BY <1>1, <1>2, <1>7, <1>10

\* The host's place moves on by one.
LEMMA ConsumeHeads ==
  ASSUME NEW n \in Nat, n >= 2, NEW cq, NEW hd, NEW rung, NEW b, NEW q,
         Heads(cq, hd, rung, b, q, n), hd # cq.tail
  PROVE  Heads(cq, Fwd(hd, 1, n), rung, b, q, n)
<1>1. cq.tail \in 0 .. n - 1 /\ hd \in 0 .. n - 1 /\ rung \in 0 .. n - 1 /\ cq.head \in 0 .. n - 1
  BY DEF Heads
<1>2. PICK v : v = Fwd(hd, 1, n)
  OBVIOUS
<1>3. v \in 0 .. n - 1 /\ Off(v, cq.tail, n) = Off(hd, cq.tail, n) - 1
  BY <1>1, <1>2, OffNext
<1>4. Off(hd, cq.tail, n) \in Int
  BY <1>1 DEF Off
<1>5. Off(rung, cq.tail, n) \in Int
  BY <1>1 DEF Off
<1>6. Off(hd, cq.tail, n) <= Off(rung, cq.tail, n)
  BY DEF Heads
<1>7. Off(v, cq.tail, n) <= Off(rung, cq.tail, n)
  BY <1>3, <1>4, <1>5, <1>6
<1>8. {cq.tail, cq.head, v, rung} \subseteq 0 .. n - 1
  BY <1>1, <1>3
<1> QED BY <1>2, <1>7, <1>8 DEF Heads

LEMMA ConsumePhases ==
  ASSUME NEW n \in Nat, n >= 2, NEW cq, cq.tail \in 0 .. n - 1, cq.phase \in {0, 1}, NEW hd \in 0 .. n - 1,
         hd # cq.tail, NEW m, NEW ph, Phases(cq, m, hd, ph, n)
  PROVE  Phases(cq, m, Fwd(hd, 1, n), IF hd + 1 = n THEN 1 - ph ELSE ph, n)
<1>1. ph = IF hd <= cq.tail THEN cq.phase ELSE 1 - cq.phase
  BY DEF Phases
<1>2. (IF hd + 1 = n THEN 1 - ph ELSE ph) = IF Fwd(hd, 1, n) <= cq.tail THEN cq.phase ELSE 1 - cq.phase
  <2>1. CASE hd + 1 = n
    <3>1. Fwd(hd, 1, n) = 0 /\ ~(hd <= cq.tail)
      BY <2>1 DEF Fwd
    <3> QED BY <1>1, <2>1, <3>1
  <2>2. CASE hd + 1 # n
    <3>1. Fwd(hd, 1, n) = hd + 1 /\ (hd <= cq.tail <=> hd + 1 <= cq.tail)
      BY <2>2 DEF Fwd
    <3> QED BY <1>1, <2>2, <3>1
  <2> QED BY <2>1, <2>2
<1>3. \A i \in 0 .. n - 1 : m[i].phase = IF i < cq.tail THEN cq.phase ELSE 1 - cq.phase
  BY DEF Phases
<1> QED BY <1>2, <1>3 DEF Phases

\* An entry that looks new is new.
LEMMA NewIsNew ==
  ASSUME NEW n \in Nat, NEW cq, cq.tail \in 0 .. n - 1, cq.phase \in {0, 1}, NEW hd \in 0 .. n - 1,
         NEW m, NEW ph, Phases(cq, m, hd, ph, n), m[hd].phase = ph
  PROVE  hd # cq.tail
<1>1. m[hd].phase = IF hd < cq.tail THEN cq.phase ELSE 1 - cq.phase
  BY DEF Phases
<1>2. ph = IF hd <= cq.tail THEN cq.phase ELSE 1 - cq.phase
  BY DEF Phases
<1>3. SUFFICES ASSUME hd = cq.tail PROVE FALSE
  OBVIOUS
<1>4. ~(hd < cq.tail) /\ hd <= cq.tail
  BY <1>3
<1>5. cq.phase = 1 - cq.phase
  BY <1>1, <1>2, <1>4
<1> QED BY <1>5

\* Host g at completion queue q has the new entry y.
Sees(cm, g, q, y) == (q = 0 \/ g.cq[q] = "live") /\ y = cm[q][g.head[q]] /\ y.phase = g.phase[q]

\* Then the entry is the oldest completion of a command the host waits for.
LEMMA SeenFacts ==
  ASSUME NEW e, NEW cm, NEW sm, NEW b, NEW g, Good(e, cm, sm, b, g), NEW q \in Qid, NEW y, Sees(cm, g, q, y)
  PROVE  /\ Up(g.sq[q], q) /\ Made(e.cqs[q]) /\ g.head[q] # e.cqs[q].tail
         /\ y \in Entry /\ y.cid \in Tag /\ g.out[q][y.cid] # NoCmd
         /\ WayOf(e, cm, g, q) # <<>> /\ WayOf(e, cm, g, q)[1].cid = y.cid
         /\ y.cdw0 \in 0 .. MAX_IO_SQCQ_PAIRS
         /\ Way(e.cqs[q], cm[q], Fwd(g.head[q], 1, CqSize(q)), CqSize(q)) = Tail(WayOf(e, cm, g, q))
         /\ ~In(UnfOf(e, sm, g, q), y.cid)
<1>1. CqAt(e, cm, g, b, q) /\ SqAt(e, cm, sm, g, b, q)
  BY DEF Good, Inv
<1>2. e.cqs[q] \in CQueue /\ cm[q] \in [Slot -> Entry] /\ g.head[q] \in Slot
  BY PartTypes DEF Good
<1>3. PICK cq : cq = e.cqs[q]
  OBVIOUS
<1>4. PICK m : m = cm[q]
  OBVIOUS
<1>5. PICK hd : hd = g.head[q]
  OBVIOUS
<1>6. PICK n : n = CqSize(q)
  OBVIOUS
<1>7. n \in Nat /\ n >= 2 /\ 0 .. n - 1 \subseteq Slot
  BY <1>6, Sizes
<1>8. Made(cq) /\ Heads(cq, hd, g.rung[q], b, q, n) /\ Phases(cq, m, hd, g.phase[q], n)
  BY <1>1, <1>3, <1>4, <1>5, <1>6 DEF CqAt, CqPart, Sees
<1>9. cq \in CQueue /\ m \in [Slot -> Entry] /\ cq.phase \in {0, 1} /\ cq.tail \in 0 .. n - 1 /\ hd \in 0 .. n - 1
  <2>1. cq.tail \in 0 .. n - 1 /\ hd \in 0 .. n - 1
    BY <1>8 DEF Heads
  <2> QED BY <1>2, <1>3, <1>4, <2>1 DEF CQueue
<1>10. y = m[hd] /\ m[hd].phase = g.phase[q]
  BY <1>4, <1>5 DEF Sees
<1>11. hd # cq.tail
  BY <1>7, <1>8, <1>9, <1>10, NewIsNew
<1>12. Up(g.sq[q], q)
  <2>1. SUFFICES ASSUME ~Up(g.sq[q], q) PROVE FALSE
    OBVIOUS
  <2>2. Quiet(cq, e.isp, hd, g.out[q], b, q)
    BY <1>1, <1>3, <1>5, <2>1 DEF SqAt, SqPart
  <2> QED BY <1>8, <1>11, <2>2 DEF Quiet
<1>13. /\ Way(cq, m, hd, n) # <<>> /\ Way(cq, m, Fwd(hd, 1, n), n) = Tail(Way(cq, m, hd, n))
       /\ Way(cq, m, hd, n)[1].cid = m[hd].cid /\ Way(cq, m, hd, n)[1].cdw0 = m[hd].cdw0
  BY <1>7, <1>9, <1>11, WayConsume
<1>14. PICK way : way = WayOf(e, cm, g, q)
  OBVIOUS
<1>15. way = Way(cq, m, hd, n)
  BY <1>3, <1>4, <1>5, <1>6, <1>14 DEF WayOf
<1>16. PICK unf : unf = UnfOf(e, sm, g, q)
  OBVIOUS
<1>17. way \in Seq(Item) /\ Once(way, unf, e.isp, g.out[q], q) /\ Known(way, g.out[q], q)
  BY <1>12, <1>14, <1>16, WorkSeqs DEF Works
<1>18. y \in Entry
  BY <1>7, <1>9, <1>10
<1>19. y.cid \in Tag
  BY <1>18 DEF Entry
<1>20. 1 \in 1 .. Len(way) /\ way[1].cid = y.cid /\ way[1].cdw0 = y.cdw0
  BY <1>10, <1>13, <1>15, <1>17
<1>21. Holds(way, y.cid)
  BY <1>20 DEF Holds
<1>22. g.out[q][y.cid] # NoCmd /\ ~In(unf, y.cid)
  BY <1>17, <1>19, <1>21 DEF Once, OnePlace
<1>23. /\ y.cdw0 \in 0 .. MAX_IO_SQCQ_PAIRS
  BY <1>17, <1>20 DEF Known
<1>24. Made(e.cqs[q]) /\ g.head[q] # e.cqs[q].tail
  BY <1>3, <1>5, <1>8, <1>11
<1>25. WayOf(e, cm, g, q) # <<>> /\ WayOf(e, cm, g, q)[1].cid = y.cid
  BY <1>13, <1>14, <1>15, <1>20
<1>26. Way(e.cqs[q], cm[q], Fwd(g.head[q], 1, CqSize(q)), CqSize(q)) = Tail(WayOf(e, cm, g, q))
  BY <1>3, <1>4, <1>5, <1>6, <1>13, <1>14, <1>15
<1> QED BY <1>12, <1>16, <1>18, <1>19, <1>22, <1>23, <1>24, <1>25, <1>26

Taking(f, g, q, y) ==
  f = [g EXCEPT !.head[q] = Fwd(g.head[q], 1, CqSize(q)),
                !.phase[q] = IF g.head[q] + 1 = CqSize(q) THEN 1 - @ ELSE @,
                !.sqhd[q] = y.sqhd, !.out[q][y.cid] = NoCmd]

\* Host f is g after it took entry y.
TookFacts(f, g, q, y) ==
  /\ f \in Host /\ f.sq = g.sq /\ f.cq = g.cq /\ f.tail = g.tail /\ f.rung = g.rung
  /\ f.head[q] = Fwd(g.head[q], 1, CqSize(q))
  /\ f.phase[q] = IF g.head[q] + 1 = CqSize(q) THEN 1 - g.phase[q] ELSE g.phase[q]
  /\ f.out[q] = [g.out[q] EXCEPT ![y.cid] = NoCmd]
  /\ \A p \in Qid \ {q} : f.head[p] = g.head[p] /\ f.phase[p] = g.phase[p] /\ f.out[p] = g.out[p]

LEMMA TakingIs ==
  ASSUME NEW g \in Host, NEW q \in Qid, NEW y \in Entry, Fwd(g.head[q], 1, CqSize(q)) \in Slot,
         NEW f, Taking(f, g, q, y)
  PROVE  TookFacts(f, g, q, y)
<1>1. /\ g.head \in [Qid -> Slot] /\ g.phase \in [Qid -> {0, 1}] /\ g.sqhd \in [Qid -> Slot]
      /\ g.out \in [Qid -> [Tag -> Command \cup {NoCmd}]] /\ y.sqhd \in Slot /\ y.cid \in Tag
  BY DEF Host, Entry
<1>2. PICK a : a = [g.head EXCEPT ![q] = Fwd(g.head[q], 1, CqSize(q))]
  OBVIOUS
<1>3. PICK v : v = IF g.head[q] + 1 = CqSize(q) THEN 1 - g.phase[q] ELSE g.phase[q]
  OBVIOUS
<1>4. PICK s : s = [g.phase EXCEPT ![q] = v]
  OBVIOUS
<1>5. PICK r : r = [g.sqhd EXCEPT ![q] = y.sqhd]
  OBVIOUS
<1>6. PICK z : z = [g.out[q] EXCEPT ![y.cid] = NoCmd]
  OBVIOUS
<1>7. PICK o : o = [g.out EXCEPT ![q] = z]
  OBVIOUS
<1>8. a \in [Qid -> Slot] /\ a[q] = Fwd(g.head[q], 1, CqSize(q)) /\ \A p \in Qid \ {q} : a[p] = g.head[p]
  BY <1>1, <1>2
<1>9. s \in [Qid -> {0, 1}] /\ s[q] = v /\ \A p \in Qid \ {q} : s[p] = g.phase[p]
  <2>1. g.phase[q] \in {0, 1}
    BY <1>1
  <2>2. v \in {0, 1}
    BY <1>3, <2>1
  <2> QED BY <1>1, <1>4, <2>2
<1>10. r \in [Qid -> Slot]
  BY <1>1, <1>5
<1>11. z \in [Tag -> Command \cup {NoCmd}]
  <2>1. g.out[q] \in [Tag -> Command \cup {NoCmd}]
    BY <1>1
  <2> QED BY <1>6, <2>1
<1>12. o \in [Qid -> [Tag -> Command \cup {NoCmd}]] /\ o[q] = z /\ \A p \in Qid \ {q} : o[p] = g.out[p]
  BY <1>1, <1>7, <1>11
<1>13. f = [g EXCEPT !.head = a, !.phase = s, !.sqhd = r, !.out = o]
  BY <1>1, <1>2, <1>3, <1>4, <1>5, <1>6, <1>7 DEF Taking
<1>14. f \in Host
  BY <1>8, <1>9, <1>10, <1>12, <1>13 DEF Host
<1>15. /\ f.head = a /\ f.phase = s /\ f.out = o /\ f.sq = g.sq /\ f.cq = g.cq
       /\ f.tail = g.tail /\ f.rung = g.rung
  BY <1>13 DEF Host
<1> QED BY <1>3, <1>6, <1>8, <1>9, <1>12, <1>14, <1>15 DEF TookFacts

\* The queue the entry was taken from, ...
LEMMA TakePart ==
  ASSUME NEW e, NEW cm, NEW sm, NEW b, NEW g, Good(e, cm, sm, b, g), NEW q \in Qid, NEW y, Sees(cm, g, q, y),
         NEW f, TookFacts(f, g, q, y)
  PROVE  CqAt(e, cm, f, b, q) /\ SqAt(e, cm, sm, f, b, q)
<1>1. /\ Up(g.sq[q], q) /\ Made(e.cqs[q]) /\ g.head[q] # e.cqs[q].tail
      /\ y \in Entry /\ y.cid \in Tag
      /\ WayOf(e, cm, g, q) # <<>> /\ WayOf(e, cm, g, q)[1].cid = y.cid
      /\ Way(e.cqs[q], cm[q], Fwd(g.head[q], 1, CqSize(q)), CqSize(q)) = Tail(WayOf(e, cm, g, q))
  BY SeenFacts
<1>2. PICK cq : cq = e.cqs[q]
  OBVIOUS
<1>3. PICK m : m = cm[q]
  OBVIOUS
<1>4. PICK hd : hd = g.head[q]
  OBVIOUS
<1>5. PICK n : n = CqSize(q)
  OBVIOUS
<1>6. n \in Nat /\ n >= 2
  BY <1>5, Sizes
<1>7. CqAt(e, cm, g, b, q) /\ SqAt(e, cm, sm, g, b, q)
  BY DEF Good, Inv
<1>8. /\ Made(cq) /\ cq.size = n /\ cq.cqid = q /\ Heads(cq, hd, g.rung[q], b, q, n)
      /\ Phases(cq, m, hd, g.phase[q], n)
  BY <1>1, <1>2, <1>3, <1>4, <1>5, <1>7 DEF CqAt, CqPart
<1>9. cq.phase \in {0, 1} /\ cq.tail \in 0 .. n - 1 /\ hd \in 0 .. n - 1 /\ hd # cq.tail
  <2>1. cq \in CQueue
    BY <1>2, PartTypes DEF Good
  <2>2. cq.tail \in 0 .. n - 1 /\ hd \in 0 .. n - 1
    BY <1>8 DEF Heads
  <2> QED BY <1>1, <1>2, <1>4, <2>1, <2>2 DEF CQueue
<1>10. PICK v : v = Fwd(hd, 1, n)
  OBVIOUS
<1>11. PICK ph : ph = IF hd + 1 = n THEN 1 - g.phase[q] ELSE g.phase[q]
  OBVIOUS
<1>12. Heads(cq, v, g.rung[q], b, q, n)
  BY <1>6, <1>8, <1>9, <1>10, ConsumeHeads
<1>13. Phases(cq, m, v, ph, n)
  BY <1>6, <1>8, <1>9, <1>10, <1>11, ConsumePhases
<1>14. /\ f.head[q] = v /\ f.phase[q] = ph /\ f.rung[q] = g.rung[q] /\ f.cq[q] = g.cq[q]
       /\ f.sq[q] = g.sq[q] /\ f.tail[q] = g.tail[q]
  BY <1>4, <1>5, <1>10, <1>11 DEF TookFacts
<1>15. q = 0 \/ g.cq[q] = "live"
  BY DEF Sees
<1>16. CqPart(cq, m, g.cq[q], v, g.rung[q], ph, b, q)
  BY <1>5, <1>8, <1>12, <1>13, <1>15 DEF CqPart
<1>17. CqAt(e, cm, f, b, q)
  BY <1>2, <1>3, <1>14, <1>16 DEF CqAt
<1>18. PICK way : way = WayOf(e, cm, g, q)
  OBVIOUS
<1>19. PICK unf : unf = UnfOf(e, sm, g, q)
  OBVIOUS
<1>20. PICK out : out = g.out[q]
  OBVIOUS
<1>21. /\ {e.sqs[q].head, g.tail[q]} \subseteq 0 .. SqSize(q) - 1
       /\ SqDoors(e.sqs[q], g.tail[q], b, q, SqSize(q)) /\ way \in Seq(Item) /\ unf \in Seq(Tag)
       /\ Once(way, unf, e.isp, out, q) /\ Known(way, out, q)
  BY <1>1, <1>18, <1>19, <1>20, WorkSeqs DEF Works
<1>22. out \in [Tag -> Command \cup {NoCmd}] /\ way # <<>> /\ way[1].cid = y.cid /\ WayInj(way)
  <2>1. out \in [Tag -> Command \cup {NoCmd}]
    BY <1>20, PartTypes DEF Good
  <2> QED BY <1>1, <1>18, <1>21, <2>1 DEF Once
<1>23. Once(Tail(way), unf, e.isp, [out EXCEPT ![way[1].cid] = NoCmd], q)
  <2>1. PICK isp : isp = e.isp
    OBVIOUS
  <2>2. Once(way, unf, isp, out, q)
    BY <1>21, <2>1
  <2>3. Once(Tail(way), unf, isp, [out EXCEPT ![way[1].cid] = NoCmd], q)
    BY <1>21, <1>22, <2>2, OnceConsume
  <2> QED BY <2>1, <2>3
<1>24. Known(Tail(way), [out EXCEPT ![way[1].cid] = NoCmd], q)
  BY <1>21, <1>22, KnownConsume
<1>25. f.out[q] = [out EXCEPT ![way[1].cid] = NoCmd]
  BY <1>20, <1>22 DEF TookFacts
<1>26. WayOf(e, cm, f, q) = Tail(way)
  BY <1>1, <1>4, <1>5, <1>10, <1>14, <1>18 DEF WayOf
<1>27. UnfOf(e, sm, f, q) = unf
  BY <1>14, <1>19 DEF UnfOf
<1>28. Works(e.sqs[q], f.tail[q], WayOf(e, cm, f, q), UnfOf(e, sm, f, q), e.isp, f.out[q], b, q)
  BY <1>14, <1>21, <1>23, <1>24, <1>25, <1>26, <1>27 DEF Works
<1>29. SqAt(e, cm, sm, f, b, q)
  <2>1. /\ Made(e.sqs[q]) /\ (q # 0 => g.sq[q] = "live") /\ (q # 0 => g.cq[q] = "live")
        /\ e.sqs[q].size = SqSize(q) /\ e.sqs[q].cqid = q
    BY <1>1, <1>7, <1>15 DEF SqAt, SqPart, Up
  <2>2. Up(f.sq[q], q)
    BY <1>1, <1>14
  <2> QED BY <1>14, <1>28, <2>1, <2>2 DEF SqAt, SqPart
<1> QED BY <1>17, <1>29

\* ... and the admin queue.
LEMMA TakeAdmin ==
  ASSUME NEW e, NEW cm, NEW sm, NEW b, NEW g, Good(e, cm, sm, b, g), NEW q \in Qid, NEW y, Sees(cm, g, q, y),
         NEW f, TookFacts(f, g, q, y)
  PROVE  AdminPart(UnfOf(e, sm, f, 0), f.out[0], e.sqs[0].head, e, f, b)
<1>1. 0 \in Qid
  BY QidFacts
<1>2. PICK unf : unf = UnfOf(e, sm, g, 0)
  OBVIOUS
<1>3. PICK out : out = g.out[0]
  OBVIOUS
<1>4. PICK o : o = f.out[0]
  OBVIOUS
<1>5. AdminPart(unf, out, e.sqs[0].head, e, g, b)
  BY <1>2, <1>3 DEF Good, Inv
<1>6. unf \in Seq(Tag) /\ out \in [Tag -> Command \cup {NoCmd}]
  <2>1. Up(g.sq[0], 0)
    BY DEF Up
  <2>2. unf \in Seq(Tag)
    BY <1>1, <1>2, <2>1, WorkSeqs
  <2>3. out \in [Tag -> Command \cup {NoCmd}]
    BY <1>1, <1>3, PartTypes DEF Good
  <2> QED BY <2>2, <2>3
<1>7. /\ \A t \in Tag : o[t] = out[t] \/ (o[t] = NoCmd /\ ~In(unf, t))
  <2>1. CASE q = 0
    <3>1. y.cid \in Tag /\ ~In(unf, y.cid)
      BY <1>2, <2>1, SeenFacts
    <3>2. o = [out EXCEPT ![y.cid] = NoCmd]
      BY <1>3, <1>4, <2>1 DEF TookFacts
    <3> QED BY <1>6, <3>1, <3>2
  <2>2. CASE q # 0
    <3>1. o = out
      BY <1>1, <1>3, <1>4, <2>2 DEF TookFacts
    <3> QED BY <3>1
  <2> QED BY <2>1, <2>2
<1>8. NoCmd.op = "none"
  BY DEF NoCmd
<1>9. f.cq = g.cq /\ f.sq = g.sq /\ f.tail = g.tail
  BY DEF TookFacts
<1>10. ASSUME NEW t \in Tag PROVE AdminCmd(o[t], In(unf, t), e, f)
  <2>1. CASE o[t] = out[t]
    <3>1. AdminCmd(out[t], In(unf, t), e, g)
      BY <1>5 DEF AdminPart
    <3> QED BY <1>9, <2>1, <3>1 DEF AdminCmd
  <2>2. CASE o[t] = NoCmd
    BY <1>8, <2>2 DEF AdminCmd
  <2> QED BY <1>7, <2>1, <2>2
<1>11. ASSUME NEW t \in Tag, NEW s \in Tag, o[t].op \in QueueOps, o[s].op = o[t].op, o[s].q = o[t].q
       PROVE  s = t
  <2>1. "none" \notin QueueOps
    BY DEF QueueOps
  <2>2. o[t] = out[t] /\ o[s] = out[s]
    BY <1>7, <1>8, <1>11, <2>1
  <2> QED BY <1>5, <1>11, <2>2 DEF AdminPart
<1>12. ASSUME NEW k \in 1 .. Len(unf), o[unf[k]].op = "DELETE_CQ",
              NEW i \in 1 .. Len(b), NEW j \in 1 .. Len(b), i < j, IsSq(b, i, 0), IsCq(b, j, o[unf[k]].q)
       PROVE  Off(e.sqs[0].head, b[i].value, ASQ_SIZE) < k
  <2>1. unf[k] \in Tag /\ In(unf, unf[k])
    BY <1>6 DEF In
  <2>2. o[unf[k]] = out[unf[k]]
    BY <1>7, <2>1
  <2> QED BY <1>5, <1>12, <2>2 DEF AdminPart, Before
<1>13. Before(unf, o, e.sqs[0].head, b)
  BY <1>12 DEF Before
<1>14. AdminPart(unf, o, e.sqs[0].head, e, f, b)
  BY <1>10, <1>11, <1>13 DEF AdminPart
<1>15. UnfOf(e, sm, f, 0) = unf
  BY <1>2, <1>9 DEF UnfOf
<1> QED BY <1>4, <1>14, <1>15

LEMMA TakeGood ==
  ASSUME NEW e, NEW cm, NEW sm, NEW b, NEW g, Good(e, cm, sm, b, g), NEW q \in Qid, NEW y, Sees(cm, g, q, y),
         NEW f, Taking(f, g, q, y)
  PROVE  Good(e, cm, sm, b, f) /\ TookFacts(f, g, q, y)
<1>1. y \in Entry /\ g \in Host
  BY SeenFacts DEF Good, Typed
<1>2. Fwd(g.head[q], 1, CqSize(q)) \in Slot
  <2>1. CqSize(q) \in Nat /\ CqSize(q) >= 2 /\ 0 .. CqSize(q) - 1 \subseteq Slot
    BY Sizes
  <2>2. g.head[q] \in 0 .. CqSize(q) - 1
    BY SeenFacts, WorkSeqs
  <2>3. Fwd(g.head[q], 1, CqSize(q)) \in 0 .. CqSize(q) - 1
    BY <2>1, <2>2 DEF Fwd
  <2> QED BY <2>1, <2>3
<1>3. TookFacts(f, g, q, y)
  BY <1>1, <1>2, TakingIs
<1>4. ASSUME NEW p \in Qid PROVE CqAt(e, cm, f, b, p) /\ SqAt(e, cm, sm, f, b, p)
  <2>1. CASE p = q
    BY <1>3, <2>1, TakePart
  <2>2. CASE p # q
    <3>1. CqAt(e, cm, g, b, p) /\ SqAt(e, cm, sm, g, b, p)
      BY DEF Good, Inv
    <3>2. /\ f.head[p] = g.head[p] /\ f.phase[p] = g.phase[p] /\ f.out[p] = g.out[p]
          /\ f.rung = g.rung /\ f.cq = g.cq /\ f.sq = g.sq /\ f.tail = g.tail
      BY <1>3, <2>2 DEF TookFacts
    <3>3. CqAt(e, cm, f, b, p)
      BY <3>1, <3>2 DEF CqAt
    <3>4. WayOf(e, cm, f, p) = WayOf(e, cm, g, p) /\ UnfOf(e, sm, f, p) = UnfOf(e, sm, g, p)
      BY <3>2 DEF WayOf, UnfOf
    <3>5. SqAt(e, cm, sm, f, b, p)
      BY <3>1, <3>2, <3>4 DEF SqAt
    <3> QED BY <3>3, <3>5
  <2> QED BY <2>1, <2>2
<1>5. AdminPart(UnfOf(e, sm, f, 0), f.out[0], e.sqs[0].head, e, f, b)
  BY <1>3, TakeAdmin
<1>6. Counts(e) /\ Typed(e, cm, sm, b, g)
  BY DEF Good, Inv
<1>7. Typed(e, cm, sm, b, f)
  BY <1>3, <1>6 DEF Typed, TookFacts
<1> QED BY <1>3, <1>4, <1>5, <1>6, <1>7 DEF Good, Inv

\* What a completed command tells the host is so.
CqNow(f, g, p, st) == f = [g EXCEPT !.cq[p] = st]
SqNow(f, g, p, st) == f = [g EXCEPT !.sq[p] = st]

LEMMA CqNowIs ==
  ASSUME NEW g \in Host, NEW p \in Qid, NEW st \in QState, NEW f, CqNow(f, g, p, st)
  PROVE  /\ ViewBut(f, g, p) /\ f.sq = g.sq /\ f.head = g.head /\ f.phase = g.phase /\ f.rung = g.rung
         /\ f.tail = g.tail /\ f.cq[p] = st
<1>1. g.cq \in [Qid -> QState]
  BY DEF Host
<1>2. PICK c : c = [g.cq EXCEPT ![p] = st]
  OBVIOUS
<1>3. c \in [Qid -> QState] /\ c[p] = st /\ \A q \in Qid \ {p} : c[q] = g.cq[q]
  BY <1>1, <1>2
<1>4. f = [g EXCEPT !.cq = c]
  BY <1>2 DEF CqNow, Host
<1>5. f \in Host
  BY <1>3, <1>4 DEF Host
<1>6. /\ f.cq = c /\ f.tail = g.tail /\ f.sq = g.sq /\ f.head = g.head /\ f.phase = g.phase
      /\ f.rung = g.rung /\ f.out = g.out
  BY <1>4 DEF Host
<1> QED BY <1>3, <1>5, <1>6 DEF ViewBut

LEMMA SqNowIs ==
  ASSUME NEW g \in Host, NEW p \in Qid, NEW st \in QState, NEW f, SqNow(f, g, p, st)
  PROVE  /\ ViewBut(f, g, p) /\ f.cq = g.cq /\ f.head = g.head /\ f.phase = g.phase /\ f.rung = g.rung
         /\ f.tail = g.tail /\ f.sq[p] = st
<1>1. g.sq \in [Qid -> QState]
  BY DEF Host
<1>2. PICK c : c = [g.sq EXCEPT ![p] = st]
  OBVIOUS
<1>3. c \in [Qid -> QState] /\ c[p] = st /\ \A q \in Qid \ {p} : c[q] = g.sq[q]
  BY <1>1, <1>2
<1>4. f = [g EXCEPT !.sq = c]
  BY <1>2 DEF SqNow, Host
<1>5. f \in Host
  BY <1>3, <1>4 DEF Host
<1>6. /\ f.sq = c /\ f.tail = g.tail /\ f.cq = g.cq /\ f.head = g.head /\ f.phase = g.phase
      /\ f.rung = g.rung /\ f.out = g.out
  BY <1>4 DEF Host
<1> QED BY <1>3, <1>5, <1>6 DEF ViewBut

\* No other command on the queue is without a completion.
LEMMA AloneFree ==
  ASSUME NEW e, NEW cm, NEW sm, NEW b, NEW g, Good(e, cm, sm, b, g), NEW c, AdminCmd(c, FALSE, e, g),
         Alone(g.out[0], c)
  PROVE  /\ c.op \in {"CREATE_CQ", "DELETE_CQ"} => CqFree(g.out[0], c.q)
         /\ c.op \in {"CREATE_SQ", "DELETE_SQ"} => SqFree(g.out[0], c.q)
<1>1. \A t \in Tag : AdminCmd(g.out[0][t], In(UnfOf(e, sm, g, 0), t), e, g)
  BY DEF Good, Inv, AdminPart
<1>2. ASSUME c.op \in {"CREATE_CQ", "DELETE_CQ"}, NEW t \in Tag,
             g.out[0][t].op \in {"CREATE_CQ", "DELETE_CQ"}, g.out[0][t].q = c.q
      PROVE  FALSE
  <2>1. g.out[0][t].op # c.op
    BY <1>2 DEF Alone, QueueOps
  <2> QED BY <1>1, <1>2, <2>1 DEF AdminCmd
<1>3. ASSUME c.op \in {"CREATE_SQ", "DELETE_SQ"}, NEW t \in Tag,
             g.out[0][t].op \in {"CREATE_SQ", "DELETE_SQ"}, g.out[0][t].q = c.q
      PROVE  FALSE
  <2>1. g.out[0][t].op # c.op
    BY <1>3 DEF Alone, QueueOps
  <2> QED BY <1>1, <1>3, <2>1 DEF AdminCmd
<1> QED BY <1>2, <1>3 DEF CqFree, SqFree

LEMMA LearnCq ==
  ASSUME NEW e, NEW cm, NEW sm, NEW b, NEW g, Good(e, cm, sm, b, g), NEW c, AdminCmd(c, FALSE, e, g),
         Alone(g.out[0], c), c.op \in {"CREATE_CQ", "DELETE_CQ"},
         NEW f, CqNow(f, g, c.q, IF c.op = "CREATE_CQ" THEN "live" ELSE "none")
  PROVE  Good(e, cm, sm, b, f)
<1>1. PICK p : p = c.q
  OBVIOUS
<1>2. PICK st : st = IF c.op = "CREATE_CQ" THEN "live" ELSE "none"
  OBVIOUS
<1>3. p \in IoQid /\ g.cq[p] \in {"creating", "deleting"} /\ (st = "live" => Made(e.cqs[p]))
      /\ (st = "none" => ~Made(e.cqs[p]))
  BY <1>1, <1>2 DEF AdminCmd
<1>4. p \in Qid /\ p # 0 /\ st \in QState /\ st \in {"live", "none"}
  BY <1>2, <1>3, QidFacts DEF QState
<1>5. g \in Host /\ cm \in [Qid -> [Slot -> Entry]]
  BY DEF Good, Typed
<1>6. CqNow(f, g, p, st)
  BY <1>1, <1>2
<1>7. /\ ViewBut(f, g, p) /\ f.sq = g.sq /\ f.head = g.head /\ f.phase = g.phase /\ f.rung = g.rung
      /\ f.tail = g.tail /\ f.cq[p] = st
  BY <1>4, <1>5, <1>6, CqNowIs
<1>8. CqAt(e, cm, g, b, p) /\ SqAt(e, cm, sm, g, b, p)
  BY <1>4 DEF Good, Inv
<1>9. CqAt(e, cm, f, b, p)
  BY <1>3, <1>4, <1>7, <1>8 DEF CqAt, CqPart
<1>10. f.out = g.out /\ \A q \in Qid \ {p} : f.cq[q] = g.cq[q]
  BY <1>7 DEF ViewBut
<1>11. /\ g.sq[p] = "none" /\ ~Made(e.sqs[p]) /\ e.sqs[p].head = 0
       /\ Quiet(e.cqs[p], e.isp, g.head[p], g.out[p], b, p)
  BY <1>3, <1>4, <1>8 DEF SqAt, SqPart, Up
<1>12. SqAt(e, cm, sm, f, b, p)
  BY <1>4, <1>7, <1>10, <1>11 DEF SqAt, SqPart, Up
<1>13. CqFree(g.out[0], p)
  BY <1>1, AloneFree
<1>14. ASSUME NEW t \in Tag PROVE AdminCmd(g.out[0][t], In(UnfOf(e, sm, g, 0), t), e, f)
  <2>1. AdminCmd(g.out[0][t], In(UnfOf(e, sm, g, 0), t), e, g)
    BY DEF Good, Inv, AdminPart
  <2> QED BY <1>7, <1>10, <1>13, <2>1, AdminCqFree
<1> QED BY <1>3, <1>5, <1>7, <1>9, <1>12, <1>14, StageGood

\* A submission queue that has just been created is empty.
LEMMA FreshWorks ==
  ASSUME NEW e, NEW cm, NEW sm, NEW b, NEW g, Typed(e, cm, sm, b, g), NEW p \in Qid, CqAt(e, cm, g, b, p),
         Quiet(e.cqs[p], e.isp, g.head[p], g.out[p], b, p), Made(e.cqs[p]),
         e.sqs[p].head = 0, g.tail[p] = 0
  PROVE  Works(e.sqs[p], g.tail[p], WayOf(e, cm, g, p), UnfOf(e, sm, g, p), e.isp, g.out[p], b, p)
<1>1. e.cqs[p].tail = g.head[p] /\ e.cqs[p].pending = <<>>
  BY DEF Quiet
<1>2. /\ SqSize(p) \in Nat /\ SqSize(p) >= 2 /\ CqSize(p) \in Nat /\ CqSize(p) >= 2
      /\ 0 .. SqSize(p) - 1 \subseteq Slot /\ 0 .. CqSize(p) - 1 \subseteq Slot
  BY Sizes
<1>3. e.cqs[p] \in CQueue /\ cm[p] \in [Slot -> Entry] /\ sm[p] \in [Slot -> Tag]
  BY PartTypes
<1>4. e.cqs[p].tail \in 0 .. CqSize(p) - 1
  <2>1. Heads(e.cqs[p], g.head[p], g.rung[p], b, p, CqSize(p))
    BY DEF CqAt, CqPart
  <2> QED BY <2>1 DEF Heads
<1>5. WayOf(e, cm, g, p) = <<>>
  <2>1. PICK cq : cq = e.cqs[p]
    OBVIOUS
  <2>2. PICK hd : hd = g.head[p]
    OBVIOUS
  <2>3. PICK m : m = cm[p]
    OBVIOUS
  <2>4. PICK n : n = CqSize(p)
    OBVIOUS
  <2>5. /\ cq \in CQueue /\ n \in Nat /\ n >= 2 /\ cq.tail \in 0 .. n - 1 /\ hd \in 0 .. n - 1
        /\ m \in [Slot -> Entry] /\ 0 .. n - 1 \subseteq Slot /\ cq.tail = hd /\ cq.pending = <<>>
    BY <1>1, <1>2, <1>3, <1>4, <2>1, <2>2, <2>3, <2>4
  <2>6. Way(cq, m, hd, n) = <<>>
    BY <2>5, WayEmpty
  <2> QED BY <2>1, <2>2, <2>3, <2>4, <2>6 DEF WayOf
<1>6. UnfOf(e, sm, g, p) = <<>>
  <2>1. PICK sq : sq = e.sqs[p]
    OBVIOUS
  <2>2. PICK tl : tl = g.tail[p]
    OBVIOUS
  <2>3. PICK m : m = sm[p]
    OBVIOUS
  <2>4. PICK n : n = SqSize(p)
    OBVIOUS
  <2>5. /\ n \in Nat /\ n >= 2 /\ sq.head \in 0 .. n - 1 /\ tl \in 0 .. n - 1
        /\ m \in [Slot -> Tag] /\ 0 .. n - 1 \subseteq Slot /\ sq.head = tl
    BY <1>2, <1>3, <2>1, <2>2, <2>3, <2>4
  <2>6. Unf(sq, m, tl, n) = <<>>
    BY <2>5, UnfIs
  <2> QED BY <2>1, <2>2, <2>3, <2>4, <2>6 DEF UnfOf
<1>7. \A t : ~Holds(<<>>, t) /\ ~In(<<>>, t)
  BY DEF Holds, In
<1>8. WayInj(<<>>) /\ UnfInj(<<>>)
  BY DEF WayInj, UnfInj
<1>9. /\ \A t \in Tag : g.out[p][t] = NoCmd /\ ~AtIspOf(e.isp, p, t)
      /\ \A i \in 1 .. Len(b) : ~IsSq(b, i, p)
  BY DEF Quiet
<1>10. Once(<<>>, <<>>, e.isp, g.out[p], p)
  BY <1>7, <1>8, <1>9 DEF Once, OnePlace
<1>11. Known(<<>>, g.out[p], p)
  BY <1>9 DEF Known
<1>12. SqDoors(e.sqs[p], g.tail[p], b, p, SqSize(p))
  BY <1>9 DEF SqDoors
<1>13. {e.sqs[p].head, g.tail[p]} \subseteq 0 .. SqSize(p) - 1
  BY <1>2
<1> QED BY <1>5, <1>6, <1>10, <1>11, <1>12, <1>13 DEF Works

LEMMA LearnSq ==
  ASSUME NEW e, NEW cm, NEW sm, NEW b, NEW g, Good(e, cm, sm, b, g), NEW c, AdminCmd(c, FALSE, e, g),
         Alone(g.out[0], c), c.op \in {"CREATE_SQ", "DELETE_SQ"},
         NEW f, SqNow(f, g, c.q, IF c.op = "CREATE_SQ" THEN "live" ELSE "none")
  PROVE  Good(e, cm, sm, b, f)
<1>1. PICK p : p = c.q
  OBVIOUS
<1>2. PICK st : st = IF c.op = "CREATE_SQ" THEN "live" ELSE "none"
  OBVIOUS
<1>3. p \in IoQid /\ g.sq[p] \in {"creating", "deleting"} /\ (st = "live" => Made(e.sqs[p]) /\ g.sq[p] = "creating")
      /\ (st = "none" => ~Made(e.sqs[p]))
  BY <1>1, <1>2 DEF AdminCmd
<1>4. p \in Qid /\ p # 0 /\ st \in QState /\ st \in {"live", "none"}
  BY <1>2, <1>3, QidFacts DEF QState
<1>5. g \in Host /\ cm \in [Qid -> [Slot -> Entry]]
  BY DEF Good, Typed
<1>6. SqNow(f, g, p, st)
  BY <1>1, <1>2
<1>7. /\ ViewBut(f, g, p) /\ f.cq = g.cq /\ f.head = g.head /\ f.phase = g.phase /\ f.rung = g.rung
      /\ f.tail = g.tail /\ f.sq[p] = st
  BY <1>4, <1>5, <1>6, SqNowIs
<1>8. CqAt(e, cm, g, b, p) /\ SqAt(e, cm, sm, g, b, p)
  BY <1>4 DEF Good, Inv
<1>9. CqAt(e, cm, f, b, p)
  BY <1>7, <1>8 DEF CqAt
<1>10. f.out = g.out /\ \A q \in Qid \ {p} : f.sq[q] = g.sq[q]
  BY <1>7 DEF ViewBut
<1>11. /\ g.cq[p] = "live" /\ (Made(e.sqs[p]) => e.sqs[p].size = SqSize(p) /\ e.sqs[p].cqid = p)
       /\ (~Made(e.sqs[p]) => e.sqs[p].head = 0)
       /\ (g.sq[p] = "creating" => e.sqs[p].head = 0 /\ g.tail[p] = 0)
       /\ Quiet(e.cqs[p], e.isp, g.head[p], g.out[p], b, p)
  BY <1>3, <1>4, <1>8 DEF SqAt, SqPart, Up
<1>12. WayOf(e, cm, f, p) = WayOf(e, cm, g, p) /\ UnfOf(e, sm, f, p) = UnfOf(e, sm, g, p)
  BY <1>7 DEF WayOf, UnfOf
<1>13. SqAt(e, cm, sm, f, b, p)
  <2>1. CASE st = "live"
    <3>1. Made(e.cqs[p])
      BY <1>8, <1>11 DEF CqAt, CqPart
    <3>2. Works(e.sqs[p], g.tail[p], WayOf(e, cm, g, p), UnfOf(e, sm, g, p), e.isp, g.out[p], b, p)
      BY <1>3, <1>4, <1>8, <1>11, <2>1, <3>1, FreshWorks DEF Good
    <3>3. Up(f.sq[p], p) /\ Made(e.sqs[p])
      BY <1>3, <1>7, <2>1 DEF Up
    <3> QED BY <1>7, <1>10, <1>11, <1>12, <2>1, <3>2, <3>3 DEF SqAt, SqPart
  <2>2. CASE st = "none"
    <3>1. ~Up(f.sq[p], p) /\ ~Made(e.sqs[p])
      BY <1>3, <1>4, <1>7, <2>2 DEF Up
    <3> QED BY <1>7, <1>10, <1>11, <2>2, <3>1 DEF SqAt, SqPart
  <2> QED BY <1>4, <2>1, <2>2
<1>14. SqFree(g.out[0], p)
  BY <1>1, AloneFree
<1>15. ASSUME NEW t \in Tag PROVE AdminCmd(g.out[0][t], In(UnfOf(e, sm, g, 0), t), e, f)
  <2>1. AdminCmd(g.out[0][t], In(UnfOf(e, sm, g, 0), t), e, g)
    BY DEF Good, Inv, AdminPart
  <2> QED BY <1>7, <1>10, <1>14, <2>1, AdminSqFree
<1> QED BY <1>3, <1>5, <1>7, <1>9, <1>13, <1>15, StageGood

LEMMA LearnGood ==
  ASSUME NEW e, NEW cm, NEW sm, NEW b, NEW g, Good(e, cm, sm, b, g), NEW c, AdminCmd(c, FALSE, e, g),
         Alone(g.out[0], c), NEW w, Result(w), NEW f, f = Learn(g, c, w)
  PROVE  Good(e, cm, sm, b, f)
<1>1. g \in Host
  BY DEF Good, Typed
<1>2. CASE c.op = "SET_QUEUES"
  <2>1. f = [g EXCEPT !.granted = w + 1]
    BY <1>2 DEF Learn
  <2>2. w + 1 \in 0 .. MAX_IO_SQCQ_PAIRS + 1
    BY SizeAssumption DEF Result
  <2>3. f \in Host
    BY <1>1, <2>1, <2>2 DEF Host
  <2>4. SameView(f, g) /\ f.tail = g.tail /\ f.out = g.out
    BY <1>1, <2>1 DEF Host, SameView
  <2> QED BY <2>3, <2>4, CountersGood
<1>3. CASE c.op \in {"CREATE_CQ", "DELETE_CQ"}
  <2>1. CqNow(f, g, c.q, IF c.op = "CREATE_CQ" THEN "live" ELSE "none")
    BY <1>3 DEF Learn, CqNow
  <2> QED BY <1>3, <2>1, LearnCq
<1>4. CASE c.op \in {"CREATE_SQ", "DELETE_SQ"}
  <2>1. SqNow(f, g, c.q, IF c.op = "CREATE_SQ" THEN "live" ELSE "none")
    BY <1>4 DEF Learn, SqNow
  <2> QED BY <1>4, <2>1, LearnSq
<1>5. CASE c.op \notin QueueOps \cup {"SET_QUEUES"}
  <2>1. f = g
    BY <1>5 DEF Learn, QueueOps
  <2> QED BY <2>1
<1> QED BY <1>2, <1>3, <1>4, <1>5 DEF QueueOps

LEMMA StepConsume == ASSUME IInv, NEW q \in Qid, Consume(q) PROVE IInv'
<1>1. Good(d, cq_mem, sq_mem, db, h)
  BY IInvIs
<1>2. PICK y : y = cq_mem[q][h.head[q]]
  OBVIOUS
<1>3. Sees(cq_mem, h, q, y)
  BY <1>2 DEF Consume, Sees
<1>4. /\ Up(h.sq[q], q) /\ y \in Entry /\ y.cid \in Tag /\ h.out[q][y.cid] # NoCmd
      /\ y.cdw0 \in 0 .. MAX_IO_SQCQ_PAIRS
      /\ ~In(UnfOf(d, sq_mem, h, q), y.cid)
  BY <1>1, <1>3, SeenFacts
<1>5. (h.head[q] + 1) % CqSize(q) = Fwd(h.head[q], 1, CqSize(q))
  <2>1. PICK n : n = CqSize(q)
    OBVIOUS
  <2>2. n \in Nat /\ n >= 2 /\ h.head[q] \in 0 .. n - 1
    BY <1>1, <1>4, <2>1, WorkSeqs, Sizes
  <2>3. 1 \in 0 .. n
    BY <2>2
  <2>4. (h.head[q] + 1) % n = Fwd(h.head[q], 1, n)
    BY <2>2, <2>3, ModFwd
  <2> QED BY <2>1, <2>4
<1>6. PICK g : g = [h EXCEPT !.head[q] = (@ + 1) % CqSize(q),
                             !.phase[q] = IF h.head[q] + 1 = CqSize(q) THEN 1 - @ ELSE @,
                             !.sqhd[q] = y.sqhd,
                             !.out[q][y.cid] = NoCmd]
  OBVIOUS
<1>7. PICK c : c = h.out[q][y.cid]
  OBVIOUS
<1>8. h' = Learn(g, c, y.cdw0)
  BY <1>2, <1>6, <1>7 DEF Consume
<1>9. Taking(g, h, q, y)
  BY <1>5, <1>6 DEF Taking
<1>10. Good(d, cq_mem, sq_mem, db, g) /\ TookFacts(g, h, q, y)
  BY <1>1, <1>3, <1>9, TakeGood
<1>11. Result(y.cdw0)
  BY <1>4, <1>7 DEF Result
<1>12. AdminCmd(c, FALSE, d, g) /\ Alone(g.out[0], c)
  <2>1. CASE q = 0
    <3>1. PICK unf : unf = UnfOf(d, sq_mem, h, 0)
      OBVIOUS
    <3>2. PICK out : out = h.out[0]
      OBVIOUS
    <3>3. AdminPart(unf, out, d.sqs[0].head, d, h, db)
      BY <1>1, <3>1, <3>2 DEF Good, Inv
    <3>4. AdminCmd(c, In(unf, y.cid), d, h)
      BY <1>4, <1>7, <2>1, <3>2, <3>3 DEF AdminPart
    <3>5. In(unf, y.cid) = FALSE
      BY <1>4, <2>1, <3>1
    <3>6. g.cq = h.cq /\ g.sq = h.sq /\ g.out[0] = [out EXCEPT ![y.cid] = NoCmd]
      BY <1>10, <2>1, <3>2 DEF TookFacts
    <3>7. AdminCmd(c, FALSE, d, h)
      BY <3>4, <3>5
    <3>8. AdminCmd(c, FALSE, d, g)
      BY <3>6, <3>7 DEF AdminCmd
    <3>9. out \in [Tag -> Command \cup {NoCmd}]
      BY <1>1, <3>2, QidFacts, PartTypes DEF Good
    <3>10. g.out[0][y.cid] = NoCmd /\ \A t \in Tag \ {y.cid} : g.out[0][t] = out[t]
      BY <1>4, <3>6, <3>9
    <3>11. ASSUME c.op \in QueueOps, NEW t \in Tag, g.out[0][t].op = c.op, g.out[0][t].q = c.q PROVE FALSE
      <4>1. NoCmd.op \notin QueueOps
        BY DEF NoCmd, QueueOps
      <4>2. t # y.cid
        BY <3>10, <3>11, <4>1
      <4>3. out[t].op = c.op /\ out[t].q = c.q /\ c = out[y.cid]
        BY <1>7, <2>1, <3>2, <3>10, <3>11, <4>2
      <4> QED BY <1>4, <3>3, <3>11, <4>2, <4>3 DEF AdminPart
    <3>12. Alone(g.out[0], c)
      BY <3>11 DEF Alone
    <3> QED BY <3>8, <3>12
  <2>2. CASE q # 0
    <3>1. Known(WayOf(d, cq_mem, h, q), h.out[q], q)
      BY <1>1, <1>4, WorkSeqs DEF Works
    <3>2. c.op \in {"ISP", "FLUSH"}
      BY <1>4, <1>7, <2>2, <3>1 DEF Known
    <3>3. AdminCmd(c, FALSE, d, g)
      BY <3>2 DEF AdminCmd
    <3>4. Alone(g.out[0], c)
      BY <3>2 DEF Alone, QueueOps
    <3> QED BY <3>3, <3>4
  <2> QED BY <2>1, <2>2
<1>13. Good(d, cq_mem, sq_mem, db, h')
  BY <1>8, <1>10, <1>11, <1>12, LearnGood
<1>14. d' = d /\ cq_mem' = cq_mem /\ sq_mem' = sq_mem /\ db' = db
  BY DEF Consume
<1> QED BY <1>13, <1>14 DEF IInv, Good, Typed, TypeOK, Entry, Door

----------------------------------------------------------------------------
(* The invariant, and what follows from it.                                *)

LEMMA InitInv == Init => IInv
<1> SUFFICES ASSUME Init PROVE Good(d, cq_mem, sq_mem, db, h)
  BY IInvIs
<1>1. /\ 0 \in Slot /\ 0 \in Tag /\ 0 \in Qid /\ 0 \in 0 .. MAX_IO_SQCQ_PAIRS /\ 0 \in 0 .. CODE_PIECES
      /\ ASQ_SIZE \in Nat /\ ASQ_SIZE >= 2 /\ ACQ_SIZE \in Nat /\ ACQ_SIZE >= 2
  <2>1. 0 \in Qid /\ SqSize(0) = ASQ_SIZE /\ CqSize(0) = ACQ_SIZE
    BY QidFacts DEF CqSize
  <2>2. 0 \in Slot /\ 0 \in Tag /\ SqSize(0) \in Nat /\ SqSize(0) >= 2 /\ CqSize(0) \in Nat /\ CqSize(0) >= 2
    BY <2>1, Sizes
  <2> QED BY <2>1, <2>2, SizeAssumption
<1>2. ASSUME NEW q \in Qid
      PROVE  /\ d.sqs[q] = [sqid |-> 0, cqid |-> 0, head |-> 0, tail |-> 0,
                            size |-> IF q = 0 THEN ASQ_SIZE ELSE 0]
             /\ d.cqs[q] = [cqid |-> 0, head |-> 0, tail |-> 0, pending |-> <<>>,
                            phase |-> IF q = 0 THEN 1 ELSE 0, size |-> IF q = 0 THEN ACQ_SIZE ELSE 0]
             /\ cq_mem[q] = [i \in Slot |-> Blank] /\ sq_mem[q] = [i \in Slot |-> 0]
             /\ h.tail[q] = 0 /\ h.head[q] = 0 /\ h.phase[q] = 1 /\ h.rung[q] = 0
             /\ h.sq[q] = "none" /\ h.cq[q] = "none" /\ h.out[q] = [t \in Tag |-> NoCmd]
  BY DEF Init
<1>2a. ASSUME NEW q \in Qid
       PROVE  /\ d.sqs[q].sqid = 0 /\ d.sqs[q].cqid = 0 /\ d.sqs[q].head = 0 /\ d.sqs[q].tail = 0
              /\ d.sqs[q].size = IF q = 0 THEN ASQ_SIZE ELSE 0
              /\ d.cqs[q].cqid = 0 /\ d.cqs[q].head = 0 /\ d.cqs[q].tail = 0 /\ d.cqs[q].pending = <<>>
              /\ d.cqs[q].phase = IF q = 0 THEN 1 ELSE 0
              /\ d.cqs[q].size = IF q = 0 THEN ACQ_SIZE ELSE 0
              /\ h.tail[q] = 0 /\ h.head[q] = 0 /\ h.phase[q] = 1 /\ h.rung[q] = 0
              /\ h.sq[q] = "none" /\ h.cq[q] = "none" /\ \A t \in Tag : h.out[q][t] = NoCmd
  <2>1. d.sqs[q] = [sqid |-> 0, cqid |-> 0, head |-> 0, tail |-> 0,
                    size |-> IF q = 0 THEN ASQ_SIZE ELSE 0]
    BY <1>2
  <2>2. d.cqs[q] = [cqid |-> 0, head |-> 0, tail |-> 0, pending |-> <<>>,
                    phase |-> IF q = 0 THEN 1 ELSE 0, size |-> IF q = 0 THEN ACQ_SIZE ELSE 0]
    BY <1>2
  <2>3. /\ h.tail[q] = 0 /\ h.head[q] = 0 /\ h.phase[q] = 1 /\ h.rung[q] = 0
        /\ h.sq[q] = "none" /\ h.cq[q] = "none" /\ h.out[q] = [t \in Tag |-> NoCmd]
    BY <1>2
  <2> QED BY <2>1, <2>2, <2>3
<1>3. db = <<>> /\ d.isp = {} /\ d.iosqCount = 0 /\ d.iocqCount = 0
  BY DEF Init
<1>4. d \in Driver
  <2>1. \A q \in Qid : d.sqs[q] \in SQueue
    BY <1>1, <1>2 DEF SQueue
  <2>2. \A q \in Qid : d.cqs[q] \in CQueue
    <3>1. <<>> \in Seq([cid: Tag, cdw0: Nat])
      OBVIOUS
    <3>2. ASSUME NEW q \in Qid PROVE d.cqs[q] \in CQueue
      <4>1. PICK z : z = IF q = 0 THEN 1 ELSE 0
        OBVIOUS
      <4>2. PICK n : n = IF q = 0 THEN ACQ_SIZE ELSE 0
        OBVIOUS
      <4>3. d.cqs[q] = [cqid |-> 0, head |-> 0, tail |-> 0, pending |-> <<>>, phase |-> z, size |-> n]
        BY <1>2, <4>1, <4>2
      <4>4. z \in {0, 1} /\ n \in {0, ACQ_SIZE, CQ_SIZE}
        BY <4>1, <4>2
      <4> QED BY <1>1, <3>1, <4>3, <4>4 DEF CQueue
    <3> QED BY <3>2
  <2>3. PICK s : s = d.sqs
    OBVIOUS
  <2>4. PICK c : c = d.cqs
    OBVIOUS
  <2>5. s \in [Qid -> SQueue]
    <3>1. s = [q \in Qid |-> s[q]]
      BY <2>3 DEF Init
    <3> QED BY <2>1, <2>3, <3>1
  <2>6. c \in [Qid -> CQueue]
    <3>1. c = [q \in Qid |-> c[q]]
      BY <2>4 DEF Init
    <3> QED BY <2>2, <2>4, <3>1
  <2>7. d = [sqs |-> s, cqs |-> c, iosqCount |-> 0, iocqCount |-> 0, code_size |-> 0, isp |-> {}]
    BY <2>3, <2>4 DEF Init
  <2> QED BY <1>1, <2>5, <2>6, <2>7 DEF Driver
<1>5. h \in Host
  <2>1. 0 \in 0 .. MAX_IO_SQCQ_PAIRS + 1
    BY SizeAssumption
  <2> QED BY <1>1, <2>1, CommandAssumption DEF Init, Host, QState
<1>6. /\ cq_mem \in [Qid -> [Slot -> Entry]] /\ sq_mem \in [Qid -> [Slot -> Tag]] /\ db \in Seq(Door)
  <2>1. Blank \in Entry
    BY <1>1 DEF Blank, Entry
  <2> QED BY <1>1, <2>1 DEF Init
<1>7. Typed(d, cq_mem, sq_mem, db, h)
  BY <1>4, <1>5, <1>6 DEF Typed
<1>8. Len(db) = 0
  BY <1>3
<1>9. ASSUME NEW q \in IoQid PROVE ~Made(d.cqs[q]) /\ ~Made(d.sqs[q])
  BY <1>2a, QidFacts DEF Made
<1>10. Made(d.cqs[0]) /\ Made(d.sqs[0])
  <2>1. d.cqs[0].size = ACQ_SIZE /\ d.sqs[0].size = ASQ_SIZE
    BY <1>1, <1>2a
  <2> QED BY <1>1, <2>1 DEF Made
<1>11. Counts(d)
  <2>1. {q \in IoQid : Made(d.cqs[q])} = {} /\ {q \in IoQid : Made(d.sqs[q])} = {}
    BY <1>9
  <2> QED BY <1>3, <2>1, FS_EmptySet DEF Counts
<1>12. ASSUME NEW q \in Qid PROVE CqAt(d, cq_mem, h, db, q)
  <2>1. CASE q = 0
    <3>1. PICK cq : cq = d.cqs[0]
      OBVIOUS
    <3>2. /\ cq.tail = 0 /\ cq.head = 0 /\ cq.phase = 1 /\ cq.size = ACQ_SIZE /\ cq.cqid = 0
      BY <1>1, <1>2, <3>1
    <3>3. CqSize(0) = ACQ_SIZE
      BY DEF CqSize
    <3>4. Off(0, 0, ACQ_SIZE) = 0
      BY DEF Off
    <3>5. 0 \in 0 .. ACQ_SIZE - 1
      BY <1>1
    <3>6. Heads(cq, 0, 0, db, 0, ACQ_SIZE)
      BY <1>8, <3>2, <3>4, <3>5 DEF Heads, IsCq
    <3>7. \A i \in 0 .. ACQ_SIZE - 1 : cq_mem[0][i].phase = 0
      <4>1. 0 .. ACQ_SIZE - 1 \subseteq Slot
        BY <1>1, <3>3, Sizes
      <4>2. Blank.phase = 0
        BY DEF Blank
      <4> QED BY <1>1, <1>2, <4>1, <4>2
    <3>8. Phases(cq, cq_mem[0], 0, 1, ACQ_SIZE)
      BY <3>2, <3>7 DEF Phases
    <3> QED BY <1>1, <1>2, <1>10, <2>1, <3>1, <3>2, <3>3, <3>6, <3>8 DEF CqAt, CqPart
  <2>2. CASE q # 0
    <3>1. ~Made(d.cqs[q])
      BY <1>9, <2>2, QidFacts
    <3>2. d.cqs[q].pending = <<>> /\ h.cq[q] = "none"
      BY <1>2a
    <3> QED BY <1>8, <2>2, <3>1, <3>2 DEF CqAt, CqPart, IsCq
  <2> QED BY <2>1, <2>2
<1>13. ASSUME NEW q \in Qid PROVE Quiet(d.cqs[q], d.isp, h.head[q], h.out[q], db, q)
  <2>1. d.cqs[q].tail = h.head[q] /\ d.cqs[q].pending = <<>>
    BY <1>2a
  <2>2. \A t \in Tag : h.out[q][t] = NoCmd
    BY <1>2a
  <2> QED BY <1>3, <1>8, <2>1, <2>2 DEF Quiet, IsSq, AtIspOf
<1>14. ASSUME NEW q \in Qid PROVE SqAt(d, cq_mem, sq_mem, h, db, q)
  <2>1. CASE q = 0
    <3>1. d.sqs[0].head = 0 /\ h.tail[0] = 0 /\ d.sqs[0].size = ASQ_SIZE /\ d.sqs[0].cqid = 0
      BY <1>1, <1>2
    <3>2. Works(d.sqs[0], h.tail[0], WayOf(d, cq_mem, h, 0), UnfOf(d, sq_mem, h, 0), d.isp, h.out[0], db, 0)
      BY <1>1, <1>7, <1>10, <1>12, <1>13, <3>1, FreshWorks
    <3>3. Up(h.sq[0], 0) /\ SqSize(0) = ASQ_SIZE
      BY QidFacts DEF Up
    <3> QED BY <1>10, <2>1, <3>1, <3>2, <3>3 DEF SqAt, SqPart
  <2>2. CASE q # 0
    <3>1. ~Made(d.sqs[q]) /\ d.sqs[q].head = 0 /\ h.sq[q] = "none"
      BY <1>9, <1>2a, <2>2, QidFacts
    <3>2. ~Up(h.sq[q], q)
      BY <2>2, <3>1 DEF Up
    <3> QED BY <1>13, <2>2, <3>1, <3>2 DEF SqAt, SqPart
  <2> QED BY <2>1, <2>2
<1>15. AdminPart(UnfOf(d, sq_mem, h, 0), h.out[0], d.sqs[0].head, d, h, db)
  <2>1. \A t \in Tag : h.out[0][t] = NoCmd
    BY <1>1, <1>2
  <2>2. NoCmd.op = "none"
    BY DEF NoCmd
  <2>3. \A t \in Tag : AdminCmd(h.out[0][t], In(UnfOf(d, sq_mem, h, 0), t), d, h)
    BY <2>1, <2>2 DEF AdminCmd
  <2>4. \A t \in Tag : h.out[0][t].op \notin QueueOps
    BY <2>1, <2>2 DEF QueueOps
  <2>5. Before(UnfOf(d, sq_mem, h, 0), h.out[0], d.sqs[0].head, db)
    BY <1>8 DEF Before
  <2> QED BY <2>3, <2>4, <2>5 DEF AdminPart
<1> QED BY <1>7, <1>11, <1>12, <1>14, <1>15 DEF Good, Inv

LEMMA NextInv == IInv /\ [Next]_vars => IInv'
<1> SUFFICES ASSUME IInv, [Next]_vars PROVE IInv'
  OBVIOUS
<1>1. CASE CheckDoorSq
  BY <1>1, StepDoorSq
<1>2. CASE CheckDoorCq
  BY <1>2, StepDoorCq
<1>3. CASE CheckDoorIdle
  BY <1>3, StepDoorIdle
<1>4. CASE IspComplete
  BY <1>4, StepIsp
<1>5. ASSUME NEW c \in MiscCmds, SendMisc(c) PROVE IInv'
  BY <1>5, StepSendMisc
<1>6. ASSUME NEW p \in IoQid, CreateCq(p) PROVE IInv'
  BY <1>6, StepCreateCq
<1>7. ASSUME NEW p \in IoQid, CreateSq(p) PROVE IInv'
  BY <1>7, StepCreateSq
<1>8. ASSUME NEW p \in IoQid, DeleteSq(p) PROVE IInv'
  BY <1>8, StepDeleteSq
<1>9. ASSUME NEW p \in IoQid, DeleteCq(p) PROVE IInv'
  BY <1>9, StepDeleteCq
<1>10. ASSUME NEW p \in IoQid, NEW op \in {"FLUSH", "ISP"}, SendIo(p, op) PROVE IInv'
  BY <1>10, StepSendIo
<1>11. ASSUME NEW q \in Qid, Consume(q) PROVE IInv'
  BY <1>11, StepConsume
<1>12. ASSUME NEW q \in Qid, RingCq(q) PROVE IInv'
  BY <1>12, StepRingCq
<1>13. CASE UNCHANGED vars
  BY <1>13, IInvIs DEF vars, IInv, TypeOK
<1> QED BY <1>1, <1>2, <1>3, <1>4, <1>5, <1>6, <1>7, <1>8, <1>9, <1>10, <1>11, <1>12, <1>13 DEF Next

\* Two sequences of different commands without a common one.
LEMMA Joined ==
  ASSUME NEW u \in Seq(Tag), NEW v \in Seq(Tag), UnfInj(u), UnfInj(v), \A t : ~(In(u, t) /\ In(v, t))
  PROVE  /\ u \o v \in Seq(Tag) /\ UnfInj(u \o v)
         /\ \A t : In(u \o v, t) <=> In(u, t) \/ In(v, t)
<1>1. PICK w : w = u \o v
  OBVIOUS
<1>2. /\ w \in Seq(Tag) /\ Len(u) \in Nat /\ Len(v) \in Nat /\ Len(w) = Len(u) + Len(v)
  BY <1>1
<1>3. \A k \in 1 .. Len(u) : w[k] = u[k]
  BY <1>1
<1>4. \A k \in 1 .. Len(v) : w[Len(u) + k] = v[k]
  BY <1>1
<1>5. ASSUME NEW k \in 1 .. Len(w)
      PROVE  \/ k \in 1 .. Len(u) /\ w[k] = u[k]
             \/ k - Len(u) \in 1 .. Len(v) /\ w[k] = v[k - Len(u)]
  <2>1. CASE k <= Len(u)
    BY <1>2, <1>3, <2>1
  <2>2. CASE k > Len(u)
    <3>1. PICK j : j = k - Len(u)
      OBVIOUS
    <3>2. j \in 1 .. Len(v) /\ Len(u) + j = k
      BY <1>2, <2>2, <3>1
    <3> QED BY <1>4, <3>1, <3>2
  <2> QED BY <1>2, <2>1, <2>2
<1>6. ASSUME NEW t PROVE In(w, t) <=> In(u, t) \/ In(v, t)
  <2>1. ASSUME In(w, t) PROVE In(u, t) \/ In(v, t)
    BY <1>5, <2>1 DEF In
  <2>2. ASSUME In(u, t) PROVE In(w, t)
    <3>1. PICK k \in 1 .. Len(u) : u[k] = t
      BY <2>2 DEF In
    <3>2. k \in 1 .. Len(w) /\ w[k] = t
      BY <1>2, <1>3, <3>1
    <3> QED BY <3>2 DEF In
  <2>3. ASSUME In(v, t) PROVE In(w, t)
    <3>1. PICK k \in 1 .. Len(v) : v[k] = t
      BY <2>3 DEF In
    <3>2. Len(u) + k \in 1 .. Len(w) /\ w[Len(u) + k] = t
      BY <1>2, <1>4, <3>1
    <3> QED BY <3>2 DEF In
  <2> QED BY <2>1, <2>2, <2>3
<1>7. ASSUME NEW k \in 1 .. Len(w), NEW l \in 1 .. Len(w), w[k] = w[l] PROVE k = l
  <2>1. CASE k \in 1 .. Len(u) /\ w[k] = u[k]
    <3>1. CASE l \in 1 .. Len(u) /\ w[l] = u[l]
      BY <1>7, <2>1, <3>1 DEF UnfInj
    <3>2. CASE l - Len(u) \in 1 .. Len(v) /\ w[l] = v[l - Len(u)]
      BY <1>7, <2>1, <3>2 DEF In
    <3> QED BY <1>5, <3>1, <3>2
  <2>2. CASE k - Len(u) \in 1 .. Len(v) /\ w[k] = v[k - Len(u)]
    <3>1. CASE l \in 1 .. Len(u) /\ w[l] = u[l]
      BY <1>7, <2>2, <3>1 DEF In
    <3>2. CASE l - Len(u) \in 1 .. Len(v) /\ w[l] = v[l - Len(u)]
      <4>1. k - Len(u) = l - Len(u)
        BY <1>7, <2>2, <3>2 DEF UnfInj
      <4> QED BY <1>2, <4>1
    <3> QED BY <1>5, <3>1, <3>2
  <2> QED BY <1>5, <2>1, <2>2
<1> QED BY <1>1, <1>2, <1>6, <1>7 DEF UnfInj

\* The places of EveryCommandOnce are those of the invariant.
LEMMA UnfetchedIs ==
  ASSUME IInv, NEW q \in Qid, Up(h.sq[q], q)
  PROVE  Unfetched(q) = UnfOf(d, sq_mem, h, q)
<1>1. Good(d, cq_mem, sq_mem, db, h)
  BY IInvIs
<1>2. PICK a : a = d.sqs[q].head
  OBVIOUS
<1>3. PICK tl : tl = h.tail[q]
  OBVIOUS
<1>4. PICK n : n = SqSize(q)
  OBVIOUS
<1>5. n \in Nat /\ n >= 2 /\ a \in 0 .. n - 1 /\ tl \in 0 .. n - 1
  BY <1>1, <1>2, <1>3, <1>4, WorkSeqs, Sizes
<1>6. (tl - a) % n = Off(a, tl, n) /\ Off(a, tl, n) \in 0 .. n - 1
  BY <1>5, ModOff
<1>7. ASSUME NEW k \in 1 .. Off(a, tl, n) PROVE (a + k - 1) % n = Fwd(a, k - 1, n)
  <2>1. k - 1 \in 0 .. n /\ a + k - 1 = a + (k - 1)
    BY <1>5, <1>6
  <2>2. (a + (k - 1)) % n = Fwd(a, k - 1, n)
    BY <1>5, <2>1, ModFwd
  <2> QED BY <2>1, <2>2
<1>8. Unfetched(q) = [k \in 1 .. (tl - a) % n |-> sq_mem[q][(a + k - 1) % n]]
  BY <1>2, <1>3, <1>4 DEF Unfetched
<1>9. UnfOf(d, sq_mem, h, q) = [k \in 1 .. Off(a, tl, n) |-> sq_mem[q][Fwd(a, k - 1, n)]]
  BY <1>2, <1>3, <1>4 DEF UnfOf, Unf
<1> QED BY <1>6, <1>7, <1>8, <1>9

\* The commands of way are those of new, then those of pend.
Parts(way, new, pend) ==
  /\ new \in Seq(Tag) /\ pend \in Seq(Tag) /\ Len(way) = Len(new) + Len(pend)
  /\ \A k \in 1 .. Len(new) : new[k] = way[k].cid
  /\ \A k \in 1 .. Len(pend) : pend[k] = way[Len(new) + k].cid

LEMMA NewIs ==
  ASSUME IInv, NEW q \in Qid, Up(h.sq[q], q)
  PROVE  /\ Parts(WayOf(d, cq_mem, h, q), NewEntries(q), PendingCids(q))
         /\ \A i \in DOMAIN NewEntries(q) :
              LET slot == h.head[q] + i - 1
              IN cq_mem[q][slot % CqSize(q)].phase
                   = IF slot >= CqSize(q) THEN 1 - h.phase[q] ELSE h.phase[q]
<1>1. Good(d, cq_mem, sq_mem, db, h)
  BY IInvIs
<1>2. PICK cq : cq = d.cqs[q]
  OBVIOUS
<1>3. PICK hd : hd = h.head[q]
  OBVIOUS
<1>4. PICK m : m = cq_mem[q]
  OBVIOUS
<1>5. PICK n : n = CqSize(q)
  OBVIOUS
<1>6. /\ n \in Nat /\ n >= 2 /\ 0 .. n - 1 \subseteq Slot /\ cq.tail \in 0 .. n - 1 /\ hd \in 0 .. n - 1
      /\ Made(cq)
  <2>1. CqSize(q) \in Nat /\ CqSize(q) >= 2 /\ 0 .. CqSize(q) - 1 \subseteq Slot
    BY Sizes
  <2>2. d.cqs[q].tail \in 0 .. CqSize(q) - 1 /\ h.head[q] \in 0 .. CqSize(q) - 1 /\ Made(d.cqs[q])
    BY <1>1, WorkSeqs
  <2> QED BY <1>2, <1>3, <1>5, <2>1, <2>2
<1>7. cq \in CQueue /\ m \in [Slot -> Entry] /\ cq.pending \in Seq(Item)
  BY <1>1, <1>2, <1>4, PartTypes DEF Good
<1>8. PICK l : l = NewOf(cq, hd, n)
  OBVIOUS
<1>9. PICK way : way = Way(cq, m, hd, n)
  OBVIOUS
<1>10. /\ l \in 0 .. n - 1 /\ way \in Seq(Item) /\ Len(way) = l + Len(cq.pending)
       /\ \A k \in 1 .. l : Fwd(hd, k - 1, n) \in 0 .. n - 1 /\ way[k].cid = m[Fwd(hd, k - 1, n)].cid
       /\ \A k \in 1 .. Len(cq.pending) : way[l + k] = cq.pending[k]
  BY <1>6, <1>7, <1>8, <1>9, WayIs
<1>11. (cq.tail - hd) % n = l /\ l = Off(hd, cq.tail, n)
  BY <1>6, <1>8, ModOff DEF NewOf
<1>12. ASSUME NEW k \in 1 .. l PROVE (hd + k - 1) % n = Fwd(hd, k - 1, n)
  <2>1. k - 1 \in 0 .. n /\ hd + k - 1 = hd + (k - 1)
    BY <1>6, <1>10
  <2>2. (hd + (k - 1)) % n = Fwd(hd, k - 1, n)
    BY <1>6, <2>1, ModFwd
  <2> QED BY <2>1, <2>2
<1>13. PICK new : new = NewEntries(q)
  OBVIOUS
<1>14. new = [k \in 1 .. l |-> m[(hd + k - 1) % n].cid]
  BY <1>2, <1>3, <1>4, <1>5, <1>11, <1>13 DEF NewEntries
<1>15. \A k \in 1 .. l : new[k] = way[k].cid /\ new[k] \in Tag
  <2>1. ASSUME NEW k \in 1 .. l PROVE new[k] = way[k].cid /\ new[k] \in Tag
    <3>1. new[k] = way[k].cid
      BY <1>10, <1>12, <1>14
    <3>2. k \in 1 .. Len(way)
      BY <1>7, <1>10
    <3>3. way[k] \in Item
      BY <1>10, <3>2
    <3> QED BY <3>1, <3>3 DEF Item
  <2> QED BY <2>1
<1>16. new \in Seq(Tag) /\ Len(new) = l
  <2>1. l \in Nat /\ new = [k \in 1 .. l |-> new[k]]
    BY <1>10, <1>14
  <2> QED BY <1>15, <2>1
<1>17. PICK pend : pend = PendingCids(q)
  OBVIOUS
<1>18. DOMAIN cq.pending = 1 .. Len(cq.pending) /\ Len(cq.pending) \in Nat
  BY <1>7
<1>19. pend = [k \in 1 .. Len(cq.pending) |-> cq.pending[k].cid]
  BY <1>2, <1>17, <1>18 DEF PendingCids
<1>20. \A k \in 1 .. Len(cq.pending) : pend[k] = way[l + k].cid /\ pend[k] \in Tag
  <2>1. ASSUME NEW k \in 1 .. Len(cq.pending) PROVE pend[k] = way[l + k].cid /\ pend[k] \in Tag
    <3>1. pend[k] = cq.pending[k].cid /\ way[l + k] = cq.pending[k]
      BY <1>10, <1>19
    <3>2. cq.pending[k] \in Item
      BY <1>7
    <3> QED BY <3>1, <3>2 DEF Item
  <2> QED BY <2>1
<1>21. pend \in Seq(Tag) /\ Len(pend) = Len(cq.pending)
  <2>1. PICK z : z = Len(cq.pending)
    OBVIOUS
  <2>2. z \in Nat /\ pend = [k \in 1 .. z |-> pend[k]]
    BY <1>18, <1>19, <2>1
  <2>3. \A k \in 1 .. z : pend[k] \in Tag
    BY <1>20, <2>1
  <2>4. pend \in Seq(Tag) /\ Len(pend) = z
    BY <2>2, <2>3
  <2> QED BY <2>1, <2>4
<1>22. Parts(way, new, pend)
  BY <1>10, <1>15, <1>16, <1>20, <1>21 DEF Parts
<1>23. way = WayOf(d, cq_mem, h, q)
  BY <1>2, <1>3, <1>4, <1>5, <1>9 DEF WayOf
<1>24. PICK ph : ph = h.phase[q]
  OBVIOUS
<1>25. Phases(cq, m, hd, ph, n) /\ cq.phase \in {0, 1}
  <2>1. CqAt(d, cq_mem, h, db, q)
    BY <1>1 DEF Good, Inv
  <2>2. Phases(cq, m, hd, ph, n)
    BY <1>2, <1>3, <1>4, <1>5, <1>6, <1>24, <2>1 DEF CqAt, CqPart
  <2> QED BY <1>7, <2>2 DEF CQueue
<1>26. ASSUME NEW i \in 1 .. l
       PROVE  m[(hd + i - 1) % n].phase = IF hd + i - 1 >= n THEN 1 - ph ELSE ph
  <2>1. PICK j : j = Fwd(hd, i - 1, n)
    OBVIOUS
  <2>2. (hd + i - 1) % n = j /\ j \in 0 .. n - 1
    BY <1>10, <1>12, <2>1
  <2>3. m[j].phase = IF j < cq.tail THEN cq.phase ELSE 1 - cq.phase
    BY <1>25, <2>2 DEF Phases
  <2>4. ph = IF hd <= cq.tail THEN cq.phase ELSE 1 - cq.phase
    BY <1>25 DEF Phases
  <2>5. IF hd + i - 1 >= n THEN j < cq.tail /\ ~(hd <= cq.tail) ELSE j < cq.tail <=> hd <= cq.tail
    <3>1. PICK tl : tl = cq.tail
      OBVIOUS
    <3>2. /\ n \in Nat /\ tl \in 0 .. n - 1 /\ hd \in 0 .. n - 1 /\ i \in Int /\ 1 <= i /\ i <= l
          /\ l = IF hd <= tl THEN tl - hd ELSE tl - hd + n
          /\ j = IF hd + (i - 1) < n THEN hd + (i - 1) ELSE hd + (i - 1) - n
      BY <1>6, <1>10, <1>11, <2>1, <3>1 DEF Off, Fwd
    <3>3. CASE hd <= tl
      BY <3>1, <3>2, <3>3
    <3>4. CASE ~(hd <= tl)
      BY <3>1, <3>2, <3>4
    <3> QED BY <3>3, <3>4
  <2>6. CASE hd + i - 1 >= n
    BY <1>25, <2>2, <2>3, <2>4, <2>5, <2>6
  <2>7. CASE ~(hd + i - 1 >= n)
    BY <1>25, <2>2, <2>3, <2>4, <2>5, <2>7
  <2> QED BY <2>6, <2>7
<1>27. DOMAIN NewEntries(q) = 1 .. l
  BY <1>13, <1>14
<1>28. \A i \in DOMAIN NewEntries(q) :
         LET slot == h.head[q] + i - 1
         IN cq_mem[q][slot % CqSize(q)].phase
              = IF slot >= CqSize(q) THEN 1 - h.phase[q] ELSE h.phase[q]
  BY <1>3, <1>4, <1>5, <1>24, <1>26, <1>27
<1> QED BY <1>13, <1>17, <1>22, <1>23, <1>28

LEMMA PartsAre ==
  ASSUME NEW way \in Seq(Item), WayInj(way), NEW new, NEW pend, Parts(way, new, pend)
  PROVE  /\ UnfInj(new) /\ UnfInj(pend) /\ \A t : ~(In(pend, t) /\ In(new, t))
         /\ \A t : Holds(way, t) <=> In(pend, t) \/ In(new, t)
<1>1. /\ Len(new) \in Nat /\ Len(pend) \in Nat /\ Len(way) = Len(new) + Len(pend)
      /\ \A k \in 1 .. Len(new) : k \in 1 .. Len(way) /\ new[k] = way[k].cid
      /\ \A k \in 1 .. Len(pend) : Len(new) + k \in 1 .. Len(way) /\ pend[k] = way[Len(new) + k].cid
  BY DEF Parts
<1>2. ASSUME NEW k \in 1 .. Len(new), NEW j \in 1 .. Len(new), new[k] = new[j] PROVE k = j
  BY <1>1, <1>2 DEF WayInj
<1>3. ASSUME NEW k \in 1 .. Len(pend), NEW j \in 1 .. Len(pend), pend[k] = pend[j] PROVE k = j
  <2>1. PICK a : a = Len(new) + k
    OBVIOUS
  <2>2. PICK c : c = Len(new) + j
    OBVIOUS
  <2>3. a \in 1 .. Len(way) /\ c \in 1 .. Len(way) /\ way[a].cid = way[c].cid
    BY <1>1, <1>3, <2>1, <2>2
  <2>4. a = c
    BY <2>3 DEF WayInj
  <2> QED BY <1>1, <2>1, <2>2, <2>4
<1>4. ASSUME NEW k \in 1 .. Len(pend), NEW j \in 1 .. Len(new), pend[k] = new[j] PROVE FALSE
  <2>1. Len(new) + k = j
    BY <1>1, <1>4 DEF WayInj
  <2> QED BY <1>1, <2>1
<1>5. ASSUME NEW t, Holds(way, t) PROVE In(pend, t) \/ In(new, t)
  <2>1. PICK k \in 1 .. Len(way) : way[k].cid = t
    BY <1>5 DEF Holds
  <2>2. CASE k <= Len(new)
    <3>1. k \in 1 .. Len(new) /\ new[k] = t
      BY <1>1, <2>1, <2>2
    <3> QED BY <3>1 DEF In
  <2>3. CASE k > Len(new)
    <3>1. PICK j : j = k - Len(new)
      OBVIOUS
    <3>2. j \in 1 .. Len(pend) /\ Len(new) + j = k
      BY <1>1, <2>3, <3>1
    <3>3. pend[j] = t
      BY <1>1, <2>1, <3>2
    <3> QED BY <3>2, <3>3 DEF In
  <2> QED BY <1>1, <2>2, <2>3
<1>6. ASSUME NEW t, In(pend, t) \/ In(new, t) PROVE Holds(way, t)
  BY <1>1, <1>6 DEF In, Holds
<1> QED BY <1>2, <1>3, <1>4, <1>5, <1>6 DEF UnfInj, In

LEMMA OnceFollows == IInv => EveryCommandOnce
<1> SUFFICES ASSUME IInv PROVE EveryCommandOnce
  OBVIOUS
<1>1. Good(d, cq_mem, sq_mem, db, h)
  BY IInvIs
<1>2. ASSUME NEW q \in Qid, q = 0 \/ h.sq[q] = "live"
      PROVE  LET somewhere == Unfetched(q) \o PendingCids(q) \o NewEntries(q)
                 out == {t \in Tag : h.out[q][t] # NoCmd}
                 unanswered == {t \in out : ~Answered(h.out[q][t])}
             IN /\ IsInjective(somewhere)
                /\ Range(somewhere) \cap AtIsp(q) = {}
                /\ out \ unanswered \subseteq Range(somewhere) \cup AtIsp(q)
                /\ Range(somewhere) \cup AtIsp(q) \subseteq out
                /\ \A i \in DOMAIN NewEntries(q) :
                     LET slot == h.head[q] + i - 1
                     IN cq_mem[q][slot % CqSize(q)].phase
                          = IF slot >= CqSize(q) THEN 1 - h.phase[q] ELSE h.phase[q]
  <2>1. Up(h.sq[q], q)
    BY <1>2 DEF Up
  <2>2. PICK way : way = WayOf(d, cq_mem, h, q)
    OBVIOUS
  <2>3. PICK unf : unf = Unfetched(q)
    OBVIOUS
  <2>4. PICK new : new = NewEntries(q)
    OBVIOUS
  <2>5. PICK pend : pend = PendingCids(q)
    OBVIOUS
  <2>6. unf = UnfOf(d, sq_mem, h, q)
    BY <2>1, <2>3, UnfetchedIs
  <2>7. /\ way \in Seq(Item) /\ unf \in Seq(Tag) /\ Once(way, unf, d.isp, h.out[q], q)
    BY <1>1, <2>1, <2>2, <2>6, WorkSeqs DEF Works
  <2>8. Parts(way, new, pend)
    BY <2>1, <2>2, <2>4, <2>5, NewIs
  <2>9. /\ WayInj(way) /\ UnfInj(unf)
        /\ \A t \in Tag : OnePlace(way, unf, d.isp, h.out[q], q, t)
    BY <2>7 DEF Once
  <2>10. /\ UnfInj(new) /\ UnfInj(pend) /\ \A t : ~(In(pend, t) /\ In(new, t))
         /\ \A t : Holds(way, t) <=> In(pend, t) \/ In(new, t)
    BY <2>7, <2>8, <2>9, PartsAre
  <2>11. new \in Seq(Tag) /\ pend \in Seq(Tag)
    BY <2>8 DEF Parts
  <2>12. \A s \in Seq(Tag) : \A t : In(s, t) => t \in Tag
    BY DEF In
  <2>13. ASSUME NEW t, In(unf, t) PROVE ~In(pend, t) /\ ~In(new, t)
    <3>1. t \in Tag
      BY <2>7, <2>12, <2>13
    <3>2. ~Holds(way, t)
      BY <2>9, <2>13, <3>1 DEF OnePlace
    <3> QED BY <2>10, <3>2
  <2>14. PICK u : u = unf \o pend
    OBVIOUS
  <2>15. u \in Seq(Tag) /\ UnfInj(u) /\ \A t : In(u, t) <=> In(unf, t) \/ In(pend, t)
    BY <2>7, <2>9, <2>10, <2>11, <2>13, <2>14, Joined
  <2>16. PICK all : all = u \o new
    OBVIOUS
  <2>17. all \in Seq(Tag) /\ UnfInj(all) /\ \A t : In(all, t) <=> In(u, t) \/ In(new, t)
    <3>1. \A t : ~(In(u, t) /\ In(new, t))
      BY <2>10, <2>13, <2>15
    <3> QED BY <2>10, <2>11, <2>15, <2>16, <3>1, Joined
  <2>18. DOMAIN all = 1 .. Len(all)
    BY <2>17
  <2>19. IsInjective(all)
    BY <2>17, <2>18 DEF IsInjective, UnfInj
  <2>20. \A t : t \in Range(all) <=> In(all, t)
    BY <2>18 DEF Range, In
  <2>21. \A t : t \in Range(all) <=> In(unf, t) \/ Holds(way, t)
    BY <2>10, <2>15, <2>17, <2>20
  <2>22. Range(all) \subseteq Tag
    BY <2>12, <2>17, <2>20
  <2>23. ASSUME NEW t PROVE t \in AtIsp(q) <=> t \in Tag /\ AtIspOf(d.isp, q, t)
    <3>1. d.isp \subseteq [cqid: Qid, cid: Tag]
      BY <1>1 DEF Good, Typed, Driver
    <3>2. ASSUME t \in AtIsp(q) PROVE t \in Tag /\ AtIspOf(d.isp, q, t)
      <4>1. PICK r \in d.isp : r.cqid = q /\ r.cid = t
        BY <3>2 DEF AtIsp
      <4>2. r \in [cqid: Qid, cid: Tag]
        BY <3>1
      <4>3. r = [cqid |-> q, cid |-> t] /\ t \in Tag
        BY <4>1, <4>2
      <4> QED BY <4>3 DEF AtIspOf
    <3>3. ASSUME AtIspOf(d.isp, q, t) PROVE t \in AtIsp(q)
      <4>1. PICK r : r = [cqid |-> q, cid |-> t]
        OBVIOUS
      <4>2. r \in d.isp /\ r.cqid = q /\ r.cid = t
        BY <3>3, <4>1 DEF AtIspOf
      <4> QED BY <4>2 DEF AtIsp
    <3> QED BY <3>2, <3>3
  <2>24. ASSUME NEW t \in Tag
         PROVE  /\ ~(t \in Range(all) /\ t \in AtIsp(q))
                /\ t \in Range(all) \/ t \in AtIsp(q) => h.out[q][t] # NoCmd
                /\ h.out[q][t] # NoCmd /\ Answered(h.out[q][t]) => t \in Range(all) \/ t \in AtIsp(q)
    <3>1. OnePlace(way, unf, d.isp, h.out[q], q, t)
      BY <2>9
    <3>2. t \in AtIsp(q) <=> AtIspOf(d.isp, q, t)
      BY <2>23
    <3> QED BY <2>21, <3>1, <3>2 DEF OnePlace
  <2>25. all = Unfetched(q) \o PendingCids(q) \o NewEntries(q)
    BY <2>3, <2>4, <2>5, <2>14, <2>16
  <2>26. PICK out : out = {t \in Tag : h.out[q][t] # NoCmd}
    OBVIOUS
  <2>27. Range(all) \cap AtIsp(q) = {}
    BY <2>22, <2>24
  <2>28. out \ {t \in out : ~Answered(h.out[q][t])} \subseteq Range(all) \cup AtIsp(q)
    BY <2>24, <2>26
  <2>29. Range(all) \cup AtIsp(q) \subseteq out
    BY <2>22, <2>23, <2>24, <2>26
  <2>30. \A i \in DOMAIN NewEntries(q) :
           LET slot == h.head[q] + i - 1
           IN cq_mem[q][slot % CqSize(q)].phase
                = IF slot >= CqSize(q) THEN 1 - h.phase[q] ELSE h.phase[q]
    BY <2>1, NewIs
  <2> QED BY <2>19, <2>25, <2>26, <2>27, <2>28, <2>29, <2>30
<1> QED BY <1>2 DEF EveryCommandOnce

\* Whatever queues the host creates, deletes and creates again, the driver's
\* indices, counts of queues and rings of pending completions stay in their
\* ranges.
THEOREM TypeCorrect == Spec => []TypeOK
<1>1. Spec => []IInv
  BY InitInv, NextInv, PTL DEF Spec
<1>2. IInv => TypeOK
  BY DEF IInv
<1> QED BY <1>1, <1>2, PTL

\* No command of the admin queue or of a live I/O queue is lost, answered
\* twice or answered to another queue, and the entries whose phase makes the
\* host take them for new are the ones the driver has posted.
THEOREM CommandsCorrect == Spec => []EveryCommandOnce
<1>1. Spec => []IInv
  BY InitInv, NextInv, PTL DEF Spec
<1> QED BY <1>1, OnceFollows, PTL

=============================================================================
