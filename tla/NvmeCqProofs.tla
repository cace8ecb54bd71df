---------------------------- MODULE NvmeCqProofs ----------------------------
(***************************************************************************)
(* Completions of the NVMe driver reach the host once each, for every size *)
(* of the queues, if the completion queue is at least as large as the      *)
(* submission queue.                                                       *)
(*                                                                         *)
(* The driver knows the host's place in the completion queue only through  *)
(* the doorbells it has read: all such places, the one it works with, the  *)
(* ones in db, the one last rung and the true one, are ordered by how far  *)
(* they are behind the tail. What the host has not seen is one sequence,   *)
(* first the entries posted and then the ones pending; posting does not    *)
(* change it.                                                              *)
(***************************************************************************)
EXTENDS NvmeIoProofs, FunctionTheorems

\* How far entry x is behind entry y of the completion queue.
Behind(x, y) == IF y >= x THEN y - x ELSE y - x + CQ_SIZE

\* Entries posted that the host has not seen; the i-th of the queue from the
\* host's place on, and the phase the host will expect in it.
PostedIn(e) == Behind(host_head, e.cq_tail)
Place(i) == Wrap(host_head + i, CQ_SIZE)
PhaseAt(i) == IF host_head + i < CQ_SIZE THEN host_phase ELSE 1 - host_phase

Late(e, x) == Behind(x, e.cq_tail)

HeadsOrdered(e, b) ==
  /\ Late(e, e.cq_head) >= Late(e, rung) /\ Late(e, rung) >= Late(e, host_head)
  /\ \A i \in 1 .. Len(b) : b[i].kind = "CQ" =>
       /\ Late(e, e.cq_head) >= Late(e, b[i].value) /\ Late(e, b[i].value) >= Late(e, rung)
       /\ \A j \in 1 .. Len(b) : j > i /\ b[j].kind = "CQ" =>
            Late(e, b[i].value) >= Late(e, b[j].value)

Phases(e) ==
  /\ \A i \in 0 .. CQ_SIZE - 1 : (e.cq_mem[Place(i)].phase = PhaseAt(i)) <=> i < PostedIn(e)
  /\ e.cq_phase = PhaseAt(PostedIn(e))

Unseen(e, i) ==
  IF i < PostedIn(e) THEN e.cq_mem[Place(i)].cid ELSE e.pending[i - PostedIn(e) + 1]
Total(e) == PostedIn(e) + Len(e.pending)

\* What the host has not seen is a sequence without repetition.
EachOnce(e, set) ==
  /\ \A i \in 0 .. Total(e) - 1 : Unseen(e, i) \in set
  /\ \A i, j \in 0 .. Total(e) - 1 : Unseen(e, i) = Unseen(e, j) => i = j
  /\ \A c \in set : \E i \in 0 .. Total(e) - 1 : Unseen(e, i) = c

CInv ==
  /\ HeadsOrdered(d, db) /\ Phases(d) /\ EachOnce(d, d.done \cap outstanding)
  /\ Cardinality(outstanding) <= SQ_SIZE - 1

----------------------------------------------------------------------------
(* The ring.                                                               *)

LEMMA WrapMod ==
  ASSUME NEW n \in Nat, n >= 2, NEW i \in 0 .. 2 * n - 1
  PROVE  i % n = Wrap(i, n) /\ Wrap(i, n) \in 0 .. n - 1
<1>1. CASE i < n
  BY <1>1 DEF Wrap
<1>2. CASE i >= n
  <2>1. i % n = i - n
    BY <1>2
  <2> QED BY <1>2, <2>1 DEF Wrap
<1> QED BY <1>1, <1>2

LEMMA BehindIs ==
  ASSUME NEW x \in 0 .. CQ_SIZE - 1, NEW y \in 0 .. CQ_SIZE - 1
  PROVE  (y + CQ_SIZE - x) % CQ_SIZE = Behind(x, y) /\ Behind(x, y) \in 0 .. CQ_SIZE - 1
<1>1. y + CQ_SIZE - x \in 0 .. 2 * CQ_SIZE - 1
  BY Sizes
<1>2. Wrap(y + CQ_SIZE - x, CQ_SIZE) = Behind(x, y)
  BY Sizes DEF Wrap, Behind
<1> QED BY <1>1, <1>2, WrapMod, Sizes

\* Entries at different distances from the host's place are different.
LEMMA PlaceOnce ==
  ASSUME host_head \in 0 .. CQ_SIZE - 1,
         NEW i \in 0 .. CQ_SIZE - 1, NEW j \in 0 .. CQ_SIZE - 1
  PROVE  Place(i) \in 0 .. CQ_SIZE - 1 /\ (Place(i) = Place(j) => i = j)
  BY Sizes DEF Place, Wrap

LEMMA EntryOf ==
  ASSUME host_head \in 0 .. CQ_SIZE - 1, NEW s \in 0 .. CQ_SIZE - 1
  PROVE  Behind(host_head, s) \in 0 .. CQ_SIZE - 1 /\ Place(Behind(host_head, s)) = s
  BY Sizes DEF Place, Wrap, Behind

\* j entries after the tail of e is j entries after all that is posted.
LEMMA AfterTail ==
  ASSUME host_head \in 0 .. CQ_SIZE - 1, NEW e, e.cq_tail \in 0 .. CQ_SIZE - 1,
         NEW j \in Nat, PostedIn(e) + j <= CQ_SIZE - 1
  PROVE  /\ PostedIn(e) \in 0 .. CQ_SIZE - 1
         /\ (e.cq_tail + j) % CQ_SIZE = Place(PostedIn(e) + j)
         /\ (e.cq_tail + j) % CQ_SIZE \in 0 .. CQ_SIZE - 1
         /\ Phases(e) /\ host_phase \in {0, 1} => PhaseAfter(e, j) = PhaseAt(PostedIn(e) + j)
<1> DEFINE t == e.cq_tail
           m == PostedIn(e)
           h == host_head
<1>1. t \in 0 .. CQ_SIZE - 1 /\ h \in 0 .. CQ_SIZE - 1
  OBVIOUS
<1>2. m = (IF t >= h THEN t - h ELSE t - h + CQ_SIZE) /\ m + j <= CQ_SIZE - 1
  BY DEF PostedIn, Behind
<1> HIDE DEF t, m, h
<1>3. m \in 0 .. CQ_SIZE - 1 /\ t + j \in 0 .. 2 * CQ_SIZE - 1
  BY <1>1, <1>2, Sizes
<1>4. (t + j) % CQ_SIZE = Wrap(t + j, CQ_SIZE) /\ Wrap(t + j, CQ_SIZE) \in 0 .. CQ_SIZE - 1
  BY <1>3, WrapMod, Sizes
<1>5. Wrap(t + j, CQ_SIZE) = Wrap(h + (m + j), CQ_SIZE)
  BY <1>1, <1>2, <1>3, Sizes DEF Wrap
<1>6. ASSUME Phases(e), host_phase \in {0, 1} PROVE PhaseAfter(e, j) = PhaseAt(m + j)
  <2>1. e.cq_phase = IF h + m < CQ_SIZE THEN host_phase ELSE 1 - host_phase
    BY <1>6 DEF Phases, PhaseAt, m, h
  <2>2. PhaseAfter(e, j) = IF t + j >= CQ_SIZE THEN 1 - e.cq_phase ELSE e.cq_phase
    BY DEF PhaseAfter, t
  <2>3. PhaseAt(m + j) = IF h + (m + j) < CQ_SIZE THEN host_phase ELSE 1 - host_phase
    BY DEF PhaseAt, h
  <2>4. CASE t >= h
    BY <1>1, <1>2, <1>3, <1>6, <2>1, <2>2, <2>3, <2>4, Sizes
  <2>5. CASE t < h
    BY <1>1, <1>2, <1>3, <1>6, <2>1, <2>2, <2>3, <2>5, Sizes
  <2> QED BY <1>1, <2>4, <2>5, Sizes
<1> QED BY <1>3, <1>4, <1>5, <1>6 DEF t, m, h, Place

----------------------------------------------------------------------------
(* post_io_ccmds moves completions from the pending queue to the host's.   *)

\* p is y with k completions posted.
Posts(p, y, k) ==
  /\ k \in Nat /\ p.cq_head = y.cq_head
  /\ \A x \in 0 .. CQ_SIZE - 1 : Late(y, x) <= Late(y, y.cq_head) => Late(p, x) = Late(y, x) + k
  /\ Phases(p) /\ Total(p) = Total(y)
  /\ \A i \in 0 .. Total(y) - 1 : Unseen(p, i) = Unseen(y, i)

LEMMA Posting ==
  ASSUME host_head \in 0 .. CQ_SIZE - 1, host_phase \in {0, 1}, NEW y \in Driver,
         Late(y, y.cq_head) >= Late(y, host_head), Phases(y)
  PROVE  Posts(PostCcmds(y), y, Fit(y))
<1> DEFINE k == Fit(y)
           m == PostedIn(y)
           at(i) == (y.cq_tail + i) % CQ_SIZE
           mem == [s \in 0 .. CQ_SIZE - 1 |->
                    IF \E i \in 0 .. k - 1 : at(i) = s
                    THEN LET i == CHOOSE i \in 0 .. k - 1 : at(i) = s
                         IN  [cid |-> y.pending[i + 1], phase |-> PhaseAfter(y, i)]
                    ELSE y.cq_mem[s]]
           rest == SubSeq(y.pending, k + 1, Len(y.pending))
           tail == at(k)
           ph == PhaseAfter(y, k)
           p == [y EXCEPT !.cq_mem = mem, !.cq_tail = tail, !.cq_phase = ph, !.pending = rest]
<1>1. PostCcmds(y) = p
  BY DEF PostCcmds, Fit
<1>2. /\ y.cq_tail \in 0 .. CQ_SIZE - 1 /\ y.cq_head \in 0 .. CQ_SIZE - 1
      /\ y.pending \in Seq(Cid) /\ Len(y.pending) \in Nat
      /\ k \in Nat /\ k <= Len(y.pending) /\ k <= CqRoom(y) /\ CqRoom(y) \in Nat
  <2>1. /\ y.pending \in Seq(Cid) /\ Len(y.pending) \in Nat
        /\ CqRoom(y) \in 0 .. CQ_SIZE - 1
        /\ k \in 0 .. CQ_SIZE - 1 /\ k <= Len(y.pending)
    BY FitIs
  <2>2. k <= CqRoom(y)
    <3> HIDE DEF CqRoom
    <3> QED BY <2>1, Sizes, SMT DEF Fit
  <2>3. y.cq_tail \in 0 .. CQ_SIZE - 1 /\ y.cq_head \in 0 .. CQ_SIZE - 1
    BY DEF Driver
  <2> HIDE DEF CqRoom, k
  <2> QED BY <2>1, <2>2, <2>3, Sizes
<1>3. /\ CqRoom(y) = CQ_SIZE - 1 - Late(y, y.cq_head) /\ Late(y, y.cq_head) \in 0 .. CQ_SIZE - 1
      /\ m = Late(y, host_head) /\ m \in 0 .. CQ_SIZE - 1
  BY <1>2, BehindIs DEF CqRoom, Late, PostedIn
<1>4. m + k <= CQ_SIZE - 1
  <2> HIDE DEF m, k, CqRoom
  <2> QED BY <1>2, <1>3, Sizes
<1>5. ASSUME NEW j \in 0 .. k
      PROVE  at(j) = Place(m + j) /\ at(j) \in 0 .. CQ_SIZE - 1 /\ PhaseAfter(y, j) = PhaseAt(m + j)
  <2>1. j \in Nat /\ m + j <= CQ_SIZE - 1
    <3> HIDE DEF m, k, at
    <3> QED BY <1>2, <1>3, <1>4, Sizes
  <2> QED BY <1>2, <2>1, AfterTail
<1>6. /\ p.cq_mem = mem /\ p.cq_tail = tail /\ p.cq_phase = ph /\ p.pending = rest
      /\ p.cq_head = y.cq_head
  <2> HIDE DEF mem, tail, ph, rest
  <2> QED BY DEF Driver
<1>7. ASSUME NEW i \in 0 .. CQ_SIZE - 1
      PROVE  /\ i \in m .. m + k - 1 => mem[Place(i)] = [cid |-> y.pending[i - m + 1], phase |-> PhaseAt(i)]
             /\ i \notin m .. m + k - 1 => mem[Place(i)] = y.cq_mem[Place(i)]
  <2>1. \A j \in 0 .. k - 1 : at(j) = Place(i) => i = m + j
    <3> TAKE j \in 0 .. k - 1
    <3>1. j \in 0 .. k /\ m + j \in 0 .. CQ_SIZE - 1
      <4> HIDE DEF m, k, at
      <4> QED BY <1>2, <1>3, <1>4, Sizes
    <3>2. at(j) = Place(m + j)
      BY <1>5, <3>1
    <3> HIDE DEF m, k, at
    <3> QED BY <3>1, <3>2, PlaceOnce
  <2>2. Place(i) \in 0 .. CQ_SIZE - 1
    BY PlaceOnce
  <2>3. ASSUME i \in m .. m + k - 1
        PROVE  mem[Place(i)] = [cid |-> y.pending[i - m + 1], phase |-> PhaseAt(i)]
    <3> DEFINE j == i - m
    <3>1. j \in 0 .. k - 1 /\ j \in 0 .. k /\ m + j = i
      <4> HIDE DEF m, k
      <4> QED BY <1>2, <1>3, <2>3
    <3>2. at(j) = Place(i) /\ PhaseAfter(y, j) = PhaseAt(i)
      BY <1>5, <3>1
    <3>3. \A x \in 0 .. k - 1 : at(x) = Place(i) => x = j
      <4>1. m \in Int /\ i \in Int /\ \A x \in 0 .. k - 1 : x \in Int
        <5> HIDE DEF m, k
        <5> QED BY <1>2, <1>3, Sizes
      <4> HIDE DEF m, k, at
      <4> QED BY <2>1, <4>1
    <3> HIDE DEF j, m, k, at
    <3>4. (CHOOSE x \in 0 .. k - 1 : at(x) = Place(i)) = j
      BY <3>1, <3>2, <3>3
    <3>5. mem[Place(i)] = [cid |-> y.pending[j + 1], phase |-> PhaseAfter(y, j)]
      BY <2>2, <3>1, <3>2, <3>4
    <3> QED BY <3>2, <3>5 DEF j
  <2>4. ASSUME i \notin m .. m + k - 1
        PROVE  mem[Place(i)] = y.cq_mem[Place(i)]
    <3>1. ~\E x \in 0 .. k - 1 : at(x) = Place(i)
      <4>1. \A x \in 0 .. k - 1 : m + x \in m .. m + k - 1
        <5> HIDE DEF m, k
        <5> QED BY <1>2, <1>3, Sizes
      <4> HIDE DEF m, k, at
      <4> QED BY <2>1, <2>4, <4>1
    <3> HIDE DEF m, k, at
    <3> QED BY <2>2, <3>1
  <2> QED BY <2>3, <2>4
<1>8. k \in 0 .. k
  <2> HIDE DEF k
  <2> QED BY <1>2
<1>9. tail = Place(m + k) /\ tail \in 0 .. CQ_SIZE - 1 /\ ph = PhaseAt(m + k)
  BY <1>5, <1>8
<1>10. /\ \A i \in 1 .. Len(y.pending) - k : rest[i] = y.pending[i + k]
       /\ Len(rest) = Len(y.pending) - k
  <2> HIDE DEF k
  <2> QED BY <1>2
<1> HIDE DEF mem, tail, ph, rest, p, k, m, at
<1>11. PostedIn(p) = m + k
  <2>1. m + k \in 0 .. CQ_SIZE - 1
    BY <1>2, <1>3, <1>4, Sizes
  <2> QED BY <1>6, <1>9, <2>1, Sizes DEF PostedIn, Behind, Place, Wrap
<1>12. ASSUME NEW x \in 0 .. CQ_SIZE - 1, Late(y, x) <= Late(y, y.cq_head)
       PROVE  Late(p, x) = Late(y, x) + k
  <2> DEFINE t == y.cq_tail
  <2>1. Late(y, x) = Behind(x, t) /\ Late(p, x) = Behind(x, tail)
    BY <1>6 DEF Late
  <2>2. Behind(x, t) \in 0 .. CQ_SIZE - 1 /\ Behind(x, t) + k <= CQ_SIZE - 1
    <3>1. Behind(x, t) \in 0 .. CQ_SIZE - 1
      BY <1>2, BehindIs
    <3> DEFINE a == Behind(x, t)
               b == Late(y, y.cq_head)
               r == CqRoom(y)
    <3>2. /\ a \in 0 .. CQ_SIZE - 1 /\ b \in 0 .. CQ_SIZE - 1 /\ a <= b /\ r = CQ_SIZE - 1 - b
          /\ k <= r /\ k \in Nat
      BY <1>2, <1>3, <1>12, <2>1, <3>1
    <3> HIDE DEF a, b, r
    <3>3. a + k <= CQ_SIZE - 1
      BY <3>2, Sizes
    <3> QED BY <3>1, <3>3 DEF a
  <2>3. tail = Wrap(t + k, CQ_SIZE)
    <3>1. t \in 0 .. CQ_SIZE - 1 /\ m = IF t >= host_head THEN t - host_head ELSE t - host_head + CQ_SIZE
      BY <1>2 DEF m, PostedIn, Behind
    <3> HIDE DEF t
    <3> QED BY <1>2, <1>3, <1>4, <1>9, <3>1, Sizes DEF Place, Wrap
  <2>4. t \in 0 .. CQ_SIZE - 1
    BY <1>2
  <2> HIDE DEF t
  <2>5. Behind(x, Wrap(t + k, CQ_SIZE)) = Behind(x, t) + k
    BY <1>2, <2>2, <2>4, Sizes DEF Behind, Wrap
  <2> QED BY <2>1, <2>3, <2>5 DEF t
<1>13. Phases(p)
  <2>1. ASSUME NEW i \in 0 .. CQ_SIZE - 1
        PROVE  (p.cq_mem[Place(i)].phase = PhaseAt(i)) <=> i < m + k
    <3>1. (y.cq_mem[Place(i)].phase = PhaseAt(i)) <=> i < m
      BY DEF Phases, m
    <3>2. CASE i \in m .. m + k - 1
      <4>1. p.cq_mem[Place(i)].phase = PhaseAt(i)
        <5>1. mem[Place(i)] = [cid |-> y.pending[i - m + 1], phase |-> PhaseAt(i)]
          BY <1>7, <3>2
        <5>2. mem[Place(i)].phase = PhaseAt(i)
          BY <5>1
        <5> QED BY <1>6, <5>2
      <4>2. i < m + k
        BY <1>2, <1>3, <3>2
      <4> QED BY <4>1, <4>2
    <3>3. CASE i \notin m .. m + k - 1
      <4>1. p.cq_mem[Place(i)] = y.cq_mem[Place(i)]
        BY <1>6, <1>7, <3>3
      <4>2. i < m + k <=> i < m
        BY <1>2, <1>3, <3>3
      <4> QED BY <3>1, <4>1, <4>2
    <3> QED BY <3>2, <3>3
  <2> QED BY <1>6, <1>9, <1>11, <2>1 DEF Phases
<1>14. Total(p) = Total(y)
  BY <1>2, <1>3, <1>6, <1>10, <1>11 DEF Total, m
<1>15. ASSUME NEW i \in 0 .. Total(y) - 1
       PROVE  Unseen(p, i) = Unseen(y, i)
  <2>1. i \in Int /\ i >= 0 /\ i < m + Len(y.pending) /\ m = PostedIn(y)
    BY <1>2, <1>3 DEF Total, m
  <2>2. CASE i < m
    <3>1. i < m + k /\ i \in 0 .. CQ_SIZE - 1 /\ i \notin m .. m + k - 1
      BY <1>2, <1>3, <2>1, <2>2, Sizes
    <3> QED BY <1>6, <1>7, <1>11, <2>1, <2>2, <3>1 DEF Unseen
  <2>3. CASE i >= m /\ i < m + k
    <3>1. ~(i < m) /\ i \in 0 .. CQ_SIZE - 1 /\ i \in m .. m + k - 1
      BY <1>2, <1>3, <1>4, <2>1, <2>3, Sizes
    <3>2. p.cq_mem[Place(i)].cid = y.pending[i - m + 1]
      <4>1. mem[Place(i)] = [cid |-> y.pending[i - m + 1], phase |-> PhaseAt(i)]
        BY <1>7, <3>1
      <4>2. mem[Place(i)].cid = y.pending[i - m + 1]
        BY <4>1
      <4> QED BY <1>6, <4>2
    <3> QED BY <1>11, <2>1, <2>3, <3>1, <3>2 DEF Unseen
  <2>4. CASE i >= m + k
    <3>1. ~(i < m) /\ ~(i < m + k) /\ i - (m + k) + 1 \in 1 .. Len(y.pending) - k
      BY <1>2, <1>3, <2>1, <2>4, SMTT(30)
    <3>2. rest[i - (m + k) + 1] = y.pending[i - (m + k) + 1 + k]
      BY <1>10, <3>1
    <3>3. i - (m + k) + 1 + k = i - m + 1
      BY <1>2, <1>3, <2>1
    <3> QED BY <1>6, <1>11, <2>1, <3>1, <3>2, <3>3 DEF Unseen
  <2> QED BY <1>2, <1>3, <2>1, <2>2, <2>3, <2>4
<1> QED BY <1>1, <1>2, <1>6, <1>12, <1>13, <1>14, <1>15 DEF Posts, k

----------------------------------------------------------------------------
(* Posting and completing keep the order of the host's places and the      *)
(* sequence of what the host has not seen.                                 *)

\* The part of the invariant that depends on the driver's queues.
CqInv(e, b, S) == HeadsOrdered(e, b) /\ Phases(e) /\ EachOnce(e, S)

\* b is a queue of doorbells.
Doorbells(b) ==
  b \in Seq(Door) /\ \A i \in 1 .. Len(b) : b[i].kind = "CQ" => b[i].value \in 0 .. CQ_SIZE - 1

LEMMA HostTypes ==
  ASSUME TInv
  PROVE  /\ host_head \in 0 .. CQ_SIZE - 1 /\ rung \in 0 .. CQ_SIZE - 1
         /\ host_phase \in {0, 1} /\ Doorbells(db) /\ d \in Driver
  BY DEF TInv, TypeOK, MoreTypes, Doorbells

LEMMA TotalType ==
  ASSUME TInv, NEW e \in Driver
  PROVE  /\ PostedIn(e) \in 0 .. CQ_SIZE - 1 /\ Len(e.pending) \in Nat /\ Total(e) \in Nat
         /\ e.cq_tail \in 0 .. CQ_SIZE - 1 /\ e.cq_head \in 0 .. CQ_SIZE - 1
         /\ \A x \in 0 .. CQ_SIZE - 1 : Late(e, x) \in Int
<1>1. /\ e.cq_tail \in 0 .. CQ_SIZE - 1 /\ e.cq_head \in 0 .. CQ_SIZE - 1 /\ e.pending \in Seq(Cid)
  BY DEF Driver
<1>2. host_head \in 0 .. CQ_SIZE - 1
  BY HostTypes
<1>3. PostedIn(e) \in 0 .. CQ_SIZE - 1 /\ Len(e.pending) \in Nat
  <2>1. PostedIn(e) \in 0 .. CQ_SIZE - 1
    BY <1>1, <1>2, BehindIs DEF PostedIn
  <2>2. Len(e.pending) \in Nat
    BY <1>1
  <2> QED BY <2>1, <2>2
<1>4. \A x \in 0 .. CQ_SIZE - 1 : Late(e, x) \in Int
  <2> TAKE x \in 0 .. CQ_SIZE - 1
  <2>1. Behind(x, e.cq_tail) \in 0 .. CQ_SIZE - 1
    BY <1>1, BehindIs
  <2> QED BY <2>1, Sizes DEF Late
<1> QED BY <1>1, <1>3, <1>4, Sizes DEF Total

LEMMA SameCqSame ==
  ASSUME NEW p, NEW e, SameCq(p, e), NEW b, NEW S
  PROVE  CqInv(p, b, S) <=> CqInv(e, b, S)
<1>1. \A i : Unseen(p, i) = Unseen(e, i)
  BY DEF SameCq, Unseen, PostedIn
<1>2. Total(p) = Total(e) /\ PostedIn(p) = PostedIn(e)
  BY DEF SameCq, Total, PostedIn
<1>3. EachOnce(p, S) <=> EachOnce(e, S)
  BY <1>1, <1>2 DEF EachOnce
<1>4. Phases(p) <=> Phases(e)
  BY <1>2 DEF Phases, SameCq
<1>5. HeadsOrdered(p, b) <=> HeadsOrdered(e, b)
  BY DEF HeadsOrdered, Late, SameCq
<1> QED BY <1>3, <1>4, <1>5 DEF CqInv

LEMMA PostingKeeps ==
  ASSUME TInv, NEW y \in Driver, NEW b, Doorbells(b), NEW S, CqInv(y, b, S)
  PROVE  CqInv(PostCcmds(y), b, S)
<1> DEFINE p == PostCcmds(y)
           k == Fit(y)
<1>1. HeadsOrdered(y, b) /\ Phases(y) /\ EachOnce(y, S)
  BY DEF CqInv
<1>2. /\ host_head \in 0 .. CQ_SIZE - 1 /\ rung \in 0 .. CQ_SIZE - 1 /\ host_phase \in {0, 1}
  BY HostTypes
<1>3. y.cq_head \in 0 .. CQ_SIZE - 1 /\ \A x \in 0 .. CQ_SIZE - 1 : Late(y, x) \in Int
  BY TotalType
<1>4. Posts(p, y, k)
  <2>1. Late(y, y.cq_head) >= Late(y, host_head)
    BY <1>1, <1>2, <1>3 DEF HeadsOrdered
  <2> QED BY <1>1, <1>2, <2>1, Posting
<1> HIDE DEF p, k
<1>5. /\ k \in Nat /\ p.cq_head = y.cq_head
      /\ \A x \in 0 .. CQ_SIZE - 1 : Late(y, x) <= Late(y, y.cq_head) => Late(p, x) = Late(y, x) + k
  BY <1>4 DEF Posts
<1>6. HeadsOrdered(p, b)
  <2>1. /\ Late(p, p.cq_head) = Late(y, y.cq_head) + k
        /\ Late(p, rung) = Late(y, rung) + k /\ Late(p, host_head) = Late(y, host_head) + k
    BY <1>1, <1>2, <1>3, <1>5 DEF HeadsOrdered
  <2>2. ASSUME NEW i \in 1 .. Len(b), b[i].kind = "CQ"
        PROVE  b[i].value \in 0 .. CQ_SIZE - 1 /\ Late(p, b[i].value) = Late(y, b[i].value) + k
    <3>1. b[i].value \in 0 .. CQ_SIZE - 1 /\ Late(y, b[i].value) <= Late(y, y.cq_head)
      BY <1>1, <1>3, <2>2 DEF HeadsOrdered, Doorbells
    <3> QED BY <1>5, <3>1
  <2>3. /\ Late(p, p.cq_head) >= Late(p, rung) /\ Late(p, rung) >= Late(p, host_head)
    BY <1>1, <1>2, <1>3, <1>5, <2>1 DEF HeadsOrdered
  <2>4. ASSUME NEW i \in 1 .. Len(b), b[i].kind = "CQ"
        PROVE  /\ Late(p, p.cq_head) >= Late(p, b[i].value) /\ Late(p, b[i].value) >= Late(p, rung)
               /\ \A j \in 1 .. Len(b) : j > i /\ b[j].kind = "CQ" =>
                    Late(p, b[i].value) >= Late(p, b[j].value)
    <3>1. /\ Late(y, y.cq_head) >= Late(y, b[i].value) /\ Late(y, b[i].value) >= Late(y, rung)
          /\ \A j \in 1 .. Len(b) : j > i /\ b[j].kind = "CQ" =>
               Late(y, b[i].value) >= Late(y, b[j].value)
      BY <1>1, <2>4 DEF HeadsOrdered
    <3> DEFINE v == Late(y, b[i].value)
    <3>2. /\ v \in Int /\ Late(p, b[i].value) = v + k
          /\ Late(y, y.cq_head) \in Int /\ Late(y, rung) \in Int
      BY <1>2, <1>3, <2>2, <2>4
    <3>3. ASSUME NEW j \in 1 .. Len(b), j > i, b[j].kind = "CQ"
          PROVE  Late(p, b[i].value) >= Late(p, b[j].value)
      <4>1. /\ Late(y, b[j].value) \in Int /\ Late(p, b[j].value) = Late(y, b[j].value) + k
            /\ v >= Late(y, b[j].value)
        BY <1>3, <2>2, <3>1, <3>3
      <4> HIDE DEF v
      <4> QED BY <1>5, <3>2, <4>1
    <3>4. Late(p, p.cq_head) >= Late(p, b[i].value) /\ Late(p, b[i].value) >= Late(p, rung)
      <4>1. Late(y, y.cq_head) >= v /\ v >= Late(y, rung)
        BY <3>1
      <4> HIDE DEF v
      <4> QED BY <1>5, <2>1, <3>2, <4>1
    <3> QED BY <3>3, <3>4
  <2> QED BY <2>3, <2>4 DEF HeadsOrdered
<1>7. EachOnce(p, S)
  <2>1. Total(p) = Total(y) /\ \A i \in 0 .. Total(y) - 1 : Unseen(p, i) = Unseen(y, i)
    BY <1>4 DEF Posts
  <2> QED BY <1>1, <2>1 DEF EachOnce
<1>8. Phases(p)
  BY <1>4 DEF Posts
<1> QED BY <1>6, <1>7, <1>8 DEF CqInv, p

\* What the host has not seen is counted by the two queues.
LEMMA CountIs ==
  ASSUME NEW e, NEW S, Total(e) \in Nat, EachOnce(e, S)
  PROVE  IsFiniteSet(S) /\ Cardinality(S) = Total(e)
<1> DEFINE I == 0 .. Total(e) - 1
           g == [i \in I |-> Unseen(e, i)]
<1>1. g \in [I -> S] /\ (\A i, j \in I : g[i] = g[j] => i = j) /\ \A c \in S : \E i \in I : g[i] = c
  BY DEF EachOnce
<1>2. IsFiniteSet(I) /\ Cardinality(I) = Total(e)
  <2> DEFINE t == Total(e) - 1
  <2>1. t \in Int /\ 0 \in Int /\ t >= -1 /\ Total(e) = t + 1
    OBVIOUS
  <2> HIDE DEF t
  <2>2. IsFiniteSet(0 .. t) /\ Cardinality(0 .. t) = IF 0 > t THEN 0 ELSE t - 0 + 1
    BY <2>1, FS_Interval
  <2>3. IsFiniteSet(0 .. t) /\ Cardinality(0 .. t) = t + 1
    BY <2>1, <2>2
  <2> QED BY <2>1, <2>3 DEF t
<1> HIDE DEF I, g
<1>3. g \in Bijection(I, S)
  BY <1>1, Fun_IsBij
<1>4. ExistsBijection(I, S)
  BY <1>3 DEF ExistsBijection
<1> QED BY <1>2, <1>4, FS_Bijection

\* enqueue_io_ccmd with room in the pending queue: one more to be seen.
LEMMA EnqueueAdds ==
  ASSUME TInv, NEW y \in Driver, NEW c \in Cid, NEW b, Doorbells(b), NEW S, CqInv(y, b, S),
         c \notin S, Total(y) < CQ_SIZE - 1
  PROVE  CqInv(EnqueueCcmd(y, c), b, S \cup {c})
<1> DEFINE q == Append(y.pending, c)
           n == y.done \cup {c}
           a == [y EXCEPT !.pending = q, !.done = n]
<1>1. /\ PostedIn(y) \in 0 .. CQ_SIZE - 1 /\ Len(y.pending) \in Nat /\ Total(y) \in Nat
      /\ Total(y) = PostedIn(y) + Len(y.pending) /\ y.pending \in Seq(Cid)
  BY TotalType DEF Total, Driver
<1>2. Len(y.pending) # CQ_SIZE - 1
  BY <1>1, Sizes
<1>3. EnqueueCcmd(y, c) = PostCcmds(a)
  BY <1>2 DEF EnqueueCcmd
<1>4. /\ q \in Seq(Cid) /\ Len(q) = Len(y.pending) + 1 /\ q[Len(y.pending) + 1] = c
      /\ \A i \in 1 .. Len(y.pending) : q[i] = y.pending[i]
      /\ n \in SUBSET Cid
  BY <1>1 DEF Driver
<1> HIDE DEF q, n
<1>5. a \in Driver
  BY <1>4 DEF Driver
<1>6. /\ a.cq_head = y.cq_head /\ a.cq_tail = y.cq_tail /\ a.cq_phase = y.cq_phase
      /\ a.cq_mem = y.cq_mem /\ a.pending = q
  BY DEF Driver
<1> HIDE DEF a
<1>7. HeadsOrdered(a, b)
  BY <1>6 DEF CqInv, HeadsOrdered, Late
<1>8. Phases(a) /\ PostedIn(a) = PostedIn(y)
  BY <1>6 DEF CqInv, Phases, PostedIn
<1>9. Total(a) = Total(y) + 1
  BY <1>1, <1>4, <1>6, <1>8 DEF Total
<1>10. ASSUME NEW i \in 0 .. Total(y) - 1 PROVE Unseen(a, i) = Unseen(y, i)
  <2>1. CASE i < PostedIn(y)
    BY <1>6, <1>8, <2>1 DEF Unseen
  <2>2. CASE ~(i < PostedIn(y))
    <3>1. i - PostedIn(y) + 1 \in 1 .. Len(y.pending)
      BY <1>1, <2>2
    <3>2. q[i - PostedIn(y) + 1] = y.pending[i - PostedIn(y) + 1]
      BY <1>4, <3>1
    <3> QED BY <1>6, <1>8, <2>2, <3>2 DEF Unseen
  <2> QED BY <2>1, <2>2
<1>11. Unseen(a, Total(y)) = c
  <2>1. ~(Total(y) < PostedIn(y)) /\ Total(y) - PostedIn(y) + 1 = Len(y.pending) + 1
    BY <1>1
  <2> QED BY <1>4, <1>6, <1>8, <2>1 DEF Unseen
<1>12. EachOnce(a, S \cup {c})
  <2> DEFINE T == Total(y)
             u(i) == Unseen(a, i)
  <2>1. /\ \A i \in 0 .. T - 1 : u(i) \in S
        /\ \A i, j \in 0 .. T - 1 : u(i) = u(j) => i = j
        /\ \A x \in S : \E i \in 0 .. T - 1 : u(i) = x
    BY <1>10 DEF CqInv, EachOnce
  <2>2. T \in Nat /\ u(T) = c /\ Total(a) = T + 1
    BY <1>1, <1>9, <1>11
  <2> HIDE DEF T, u
  <2>3. /\ T \in 0 .. (T + 1) - 1 /\ \A i \in 0 .. (T + 1) - 1 : i \in 0 .. T - 1 \/ i = T
        /\ \A i \in 0 .. T - 1 : i \in 0 .. (T + 1) - 1
    BY <2>2
  <2>4. /\ \A i \in 0 .. (T + 1) - 1 : u(i) \in S \cup {c}
        /\ \A i, j \in 0 .. (T + 1) - 1 : u(i) = u(j) => i = j
        /\ \A x \in S \cup {c} : \E i \in 0 .. (T + 1) - 1 : u(i) = x
    BY <2>1, <2>2, <2>3, Zenon
  <2> QED BY <2>2, <2>4 DEF EachOnce, u
<1>13. CqInv(a, b, S \cup {c})
  BY <1>7, <1>8, <1>12 DEF CqInv
<1> QED BY <1>3, <1>5, <1>13, PostingKeeps

----------------------------------------------------------------------------
(* The steps of the driver and of the FTL.                                 *)

\* Nothing of the host changes in them.
LEMMA DriverStep ==
  ASSUME UNCHANGED <<host_head, host_phase, rung, outstanding>>,
         CqInv(d', db', d'.done \cap outstanding), Cardinality(outstanding) <= SQ_SIZE - 1
  PROVE  CInv'
<1>1. HeadsOrdered(d, db)'
  BY DEF CqInv, HeadsOrdered, Late, Behind
<1>2. Phases(d)'
  BY DEF CqInv, Phases, PostedIn, Place, PhaseAt, Behind
<1>3. /\ Total(d)' = Total(d') /\ PostedIn(d)' = PostedIn(d')
      /\ \A i : Unseen(d, i)' = Unseen(d', i)
  BY DEF Total, Unseen, PostedIn, Place, Behind
<1>4. EachOnce(d, d.done \cap outstanding)'
  BY <1>3 DEF CqInv, EachOnce
<1> QED BY <1>1, <1>2, <1>4 DEF CInv

\* check_door_bell reads a doorbell that is not the completion queue's.
LEMMA OrderedTail ==
  ASSUME NEW e, NEW b, Doorbells(b), b # <<>>, HeadsOrdered(e, b)
  PROVE  /\ HeadsOrdered(e, Tail(b)) /\ Doorbells(Tail(b))
         /\ \A i \in 1 .. Len(Tail(b)) : i + 1 \in 1 .. Len(b) /\ i + 1 > 1 /\ Tail(b)[i] = b[i + 1]
         /\ 1 \in 1 .. Len(b) /\ Head(b) = b[1]
<1>1. /\ b \in Seq(Door) /\ Len(b) \in Nat /\ Len(Tail(b)) = Len(b) - 1 /\ Tail(b) \in Seq(Door)
      /\ Len(b) >= 1 /\ Head(b) = b[1] /\ \A i \in 1 .. Len(Tail(b)) : Tail(b)[i] = b[i + 1]
  BY DEF Doorbells
<1>2. \A i \in 1 .. Len(Tail(b)) : i + 1 \in 1 .. Len(b) /\ i + 1 > 1
  BY <1>1
<1>3. \A i, j \in 1 .. Len(Tail(b)) : j > i => j + 1 > i + 1
  BY <1>1
<1>4. HeadsOrdered(e, Tail(b))
  BY <1>1, <1>2, <1>3 DEF HeadsOrdered
<1>5. Doorbells(Tail(b))
  BY <1>1, <1>2 DEF Doorbells
<1> QED BY <1>1, <1>2, <1>4, <1>5

LEMMA QuietCq ==
  ASSUME TInv, CInv, UNCHANGED <<host_head, host_phase, rung, outstanding>>,
         SameCq(d', d), d'.done = d.done, db' = db \/ (db # <<>> /\ db' = Tail(db))
  PROVE  CInv'
<1>1. HeadsOrdered(d, db') /\ Phases(d) /\ EachOnce(d, d.done \cap outstanding)
  BY HostTypes, OrderedTail DEF CInv
<1>2. CqInv(d, db', d.done \cap outstanding)
  BY <1>1 DEF CqInv
<1>3. CqInv(d', db', d'.done \cap outstanding)
  BY <1>2, SameCqSame
<1> QED BY <1>3, DriverStep DEF CInv

\* A command is completed: there is room, because it was outstanding too.
LEMMA FinishKeeps ==
  ASSUME SQ_SIZE <= CQ_SIZE, TInv, CInv, NEW c \in Cid, c \in outstanding, c \notin d.done,
         Finishes(d', d, c), UNCHANGED <<host_head, host_phase, rung, outstanding>>,
         db' = db \/ (db # <<>> /\ db' = Tail(db))
  PROVE  CInv'
<1> DEFINE S == d.done \cap outstanding
<1>1. PICK y \in Driver : SameCq(y, d) /\ y.done = d.done /\ SameCq(d', EnqueueCcmd(y, c))
  BY DEF Finishes
<1>2. HeadsOrdered(d, db') /\ Phases(d) /\ EachOnce(d, S) /\ Doorbells(db')
  <2>1. HeadsOrdered(d, db) /\ Phases(d) /\ EachOnce(d, S) /\ Doorbells(db)
    BY HostTypes DEF CInv
  <2>2. HeadsOrdered(d, db') /\ Doorbells(db')
    <3>1. CASE db' = db
      BY <2>1, <3>1
    <3>2. CASE db # <<>> /\ db' = Tail(db)
      BY <2>1, <3>2, OrderedTail
    <3> QED BY <3>1, <3>2
  <2> QED BY <2>1, <2>2
<1>3. CqInv(y, db', S)
  <2>1. CqInv(d, db', S)
    BY <1>2 DEF CqInv
  <2> HIDE DEF S
  <2> QED BY <1>1, <2>1, SameCqSame
<1>4. Total(y) \in Nat
  BY TotalType
<1>5. Total(y) < CQ_SIZE - 1
  <2>1. IsFiniteSet(S) /\ Cardinality(S) = Total(y)
    BY <1>3, <1>4, CountIs DEF CqInv
  <2>2. c \notin S /\ S \cup {c} \subseteq outstanding
    OBVIOUS
  <2>3. IsFiniteSet(outstanding)
    <3>1. IsFiniteSet(1 .. MaxCmds)
      BY Sizes, FS_Interval
    <3> QED BY <3>1, FS_Subset DEF TInv, TypeOK, Cid
  <2> HIDE DEF S
  <2>4. Cardinality(S \cup {c}) = Total(y) + 1
    BY <2>1, <2>2, FS_AddElement
  <2>5. Cardinality(S \cup {c}) <= Cardinality(outstanding)
    BY <2>2, <2>3, FS_Subset
  <2>6. Cardinality(outstanding) \in Nat /\ Cardinality(outstanding) <= SQ_SIZE - 1
    BY <2>3, FS_CardinalityType DEF CInv
  <2> QED BY <1>4, <2>4, <2>5, <2>6, Sizes
<1>6. CqInv(EnqueueCcmd(y, c), db', S \cup {c})
  BY <1>2, <1>3, <1>5, EnqueueAdds
<1>7. CqInv(d', db', S \cup {c})
  BY <1>1, <1>6, SameCqSame
<1>8. d'.done \cap outstanding = S \cup {c}
  BY DEF Finishes
<1> QED BY <1>7, <1>8, DriverStep DEF CInv

\* Pending completions are posted, the host's place being h.
LEMMA PollsKeep ==
  ASSUME TInv, CInv, NEW h \in 0 .. CQ_SIZE - 1, Polls(d', d, h),
         UNCHANGED <<host_head, host_phase, rung, outstanding>>,
         \/ h = d.cq_head /\ db' = db
         \/ db # <<>> /\ db' = Tail(db) /\ Head(db).kind = "CQ" /\ h = Head(db).value
  PROVE  CInv'
<1> DEFINE S == d.done \cap outstanding
<1>1. PICK y \in Driver :
        /\ y.cq_head = h /\ y.cq_tail = d.cq_tail /\ y.cq_phase = d.cq_phase
        /\ y.cq_mem = d.cq_mem /\ y.pending = d.pending /\ y.done = d.done
        /\ SameCq(d', PostCcmds(y))
  BY DEF Polls
<1>2. HeadsOrdered(d, db) /\ Phases(d) /\ EachOnce(d, S) /\ Doorbells(db)
  BY HostTypes DEF CInv
<1>3. HeadsOrdered(y, db') /\ Doorbells(db')
  <2>1. CASE h = d.cq_head /\ db' = db
    BY <1>1, <1>2, <2>1 DEF HeadsOrdered, Late
  <2>2. CASE db # <<>> /\ db' = Tail(db) /\ Head(db).kind = "CQ" /\ h = Head(db).value
    <3>1. /\ HeadsOrdered(d, db') /\ Doorbells(db')
          /\ \A i \in 1 .. Len(db') : i + 1 \in 1 .. Len(db) /\ i + 1 > 1 /\ db'[i] = db[i + 1]
          /\ 1 \in 1 .. Len(db) /\ Head(db) = db[1]
      BY <1>2, <2>2, OrderedTail
    <3>2. /\ Late(d, h) >= Late(d, rung)
          /\ \A i \in 1 .. Len(db') : db'[i].kind = "CQ" => Late(d, h) >= Late(d, db'[i].value)
      BY <1>2, <2>2, <3>1 DEF HeadsOrdered
    <3>3. \A x : Late(y, x) = Late(d, x)
      BY <1>1 DEF Late
    <3> QED BY <1>1, <3>1, <3>2, <3>3 DEF HeadsOrdered
  <2> QED BY <2>1, <2>2
<1>4. Phases(y)
  BY <1>1, <1>2 DEF Phases, PostedIn
<1>5. EachOnce(y, S)
  <2>1. Total(y) = Total(d) /\ \A i : Unseen(y, i) = Unseen(d, i)
    BY <1>1 DEF Total, Unseen, PostedIn
  <2> QED BY <1>2, <2>1 DEF EachOnce
<1>6. CqInv(PostCcmds(y), db', S)
  BY <1>3, <1>4, <1>5, PostingKeeps DEF CqInv
<1>7. CqInv(d', db', S)
  BY <1>1, <1>6, SameCqSame
<1>8. d'.done = d.done
  BY DEF Polls
<1> QED BY <1>7, <1>8, DriverStep DEF CInv

LEMMA DriverKeeps ==
  ASSUME SQ_SIZE <= CQ_SIZE, IInv, CInv, CheckDoor \/ Completed \/ Ftl
  PROVE  CInv'
<1>1. PICK f \in Nat : FInv(f)
  BY DEF IInv
<1>2. TInv /\ OnlyDone(d) /\ Submitted(f) /\ OneAtATime(f) /\ d \in Driver
  BY <1>1 DEF IInv, FInv, TInv, TypeOK
<1>3. /\ UNCHANGED <<host_head, host_phase, rung, outstanding>>
      /\ db' = db \/ (db # <<>> /\ db' = Tail(db))
  BY DEF CheckDoor, CheckDoorSq, CheckDoorCq, CheckDoorIdle, Completed, CompletedRead,
         CompletedWbc, Ftl, FtlTake, FtlRead, FtlProgram, hostVars
<1>4. ASSUME SameCq(d', d), d'.done = d.done PROVE CInv'
  BY <1>2, <1>3, <1>4, QuietCq
<1>5. ASSUME NEW c \in Cid, c \in outstanding, c \notin d.done, Finishes(d', d, c) PROVE CInv'
  BY <1>2, <1>3, <1>5, FinishKeeps
<1>6. CASE CheckDoorSq
  <2>1. f + 1 \in 1 .. Len(sent) /\ Dispatched(d', d, f + 1)
    BY <1>1, <1>2, <1>6, NextCommand, FetchEffect
  <2>2. f + 1 \in Cid /\ f + 1 \in outstanding /\ f + 1 \notin d.done
    <3>1. f + 1 \in Cid
      BY <1>2, <2>1, SentCommand
    <3>2. f + 1 \in f + 1 .. Len(sent) /\ f + 1 \notin 1 .. f
      BY <2>1
    <3> QED BY <1>2, <3>1, <3>2 DEF Submitted
  <2>3. (SameCq(d', d) /\ d'.done = d.done) \/ Finishes(d', d, f + 1)
    BY <2>1 DEF Dispatched, ReadStarts, WriteStarts, CommandEnds, Ignored
  <2> QED BY <1>4, <1>5, <2>2, <2>3
<1>7. CASE CheckDoorCq
  <2>1. Head(db).value \in 0 .. CQ_SIZE - 1 /\ Polls(d', d, Head(db).value)
    BY <1>2, <1>7, CqDoorEffect
  <2>2. db # <<>> /\ db' = Tail(db) /\ Head(db).kind = "CQ"
    BY <1>7 DEF CheckDoorCq
  <2> QED BY <1>2, <1>3, <2>1, <2>2, PollsKeep
<1>8. CASE CheckDoorIdle
  <2>1. d.cq_head \in 0 .. CQ_SIZE - 1 /\ Polls(d', d, d.cq_head)
    BY <1>2, <1>8, IdleEffect
  <2>2. db' = db
    BY <1>8 DEF CheckDoorIdle
  <2> QED BY <1>2, <1>3, <2>1, <2>2, PollsKeep
<1>9. CASE CompletedRead
  <2>1. Reading(f) /\ f \in Cid /\ Finishes(d', d, f)
    BY <1>2, <1>9, ReadEffect
  <2> QED BY <1>5, <2>1 DEF Reading
<1>10. CASE CompletedWbc
  BY <1>2, <1>4, <1>10, WbcEffect
<1>11. CASE Ftl
  <2>1. SameCq(d', d) /\ d'.done = d.done
    BY <1>2, <1>11 DEF Ftl, FtlTake, FtlRead, FtlProgram, Driver, SameCq
  <2> QED BY <1>4, <2>1
<1> QED BY <1>6, <1>7, <1>8, <1>9, <1>10, <1>11 DEF CheckDoor, Completed

----------------------------------------------------------------------------
(* The steps of the host.                                                  *)

LEMMA DoorAppended ==
  ASSUME TInv, NEW x, x \in Door, db' = Append(db, x)
  PROVE  /\ Len(db) \in Nat /\ Len(db') = Len(db) + 1 /\ db'[Len(db) + 1] = x
         /\ \A i \in 1 .. Len(db) : db'[i] = db[i]
         /\ \A i \in 1 .. Len(db') : i \in 1 .. Len(db) \/ i = Len(db) + 1
         /\ \A i \in 1 .. Len(db) : ~(i > Len(db) + 1) /\ ~(i > i)
<1>1. db \in Seq(Door) /\ Len(db) \in Nat
  BY DEF TInv, MoreTypes
<1> QED BY <1>1

LEMMA SubmitCq ==
  ASSUME IInv, CInv, NEW c \in HostCmds, Submit(c)
  PROVE  CInv'
<1> DEFINE x == [kind |-> "SQ", value |-> sq_tail']
           n == Len(sent)
<1>1. TInv /\ HeadsOrdered(d, db) /\ Phases(d) /\ EachOnce(d, d.done \cap outstanding)
  BY DEF IInv, CInv
<1>2. /\ db' = Append(db, x) /\ outstanding' = outstanding \cup {n + 1}
      /\ Cardinality(outstanding) < SQ_SIZE - 1
      /\ UNCHANGED <<host_head, host_phase, rung, d>>
  BY DEF Submit
<1>3. n \in Nat /\ d.done \subseteq 1 .. n
  BY <1>1 DEF TInv, TypeOK, MoreTypes
<1>4. x \in Door /\ x.kind # "CQ"
  <2>1. sq_tail \in Int /\ SQ_SIZE \in Nat /\ SQ_SIZE > 0
    BY <1>1, Sizes DEF TInv, TypeOK
  <2>2. sq_tail' \in Nat
    BY <2>1 DEF Submit
  <2> QED BY <2>2 DEF Door
<1> HIDE DEF x
<1>5. /\ Len(db) \in Nat /\ Len(db') = Len(db) + 1 /\ db'[Len(db) + 1] = x
      /\ \A i \in 1 .. Len(db) : db'[i] = db[i]
      /\ \A i \in 1 .. Len(db') : i \in 1 .. Len(db) \/ i = Len(db) + 1
  BY <1>1, <1>2, <1>4, DoorAppended
<1>6. HeadsOrdered(d', db')
  <2>1. \A i \in 1 .. Len(db') : db'[i].kind = "CQ" => i \in 1 .. Len(db) /\ db'[i] = db[i]
    BY <1>4, <1>5
  <2> QED BY <1>1, <1>2, <2>1 DEF HeadsOrdered
<1>7. d'.done \cap outstanding' = d.done \cap outstanding
  <2>1. n + 1 \notin 1 .. n
    BY <1>3
  <2> QED BY <1>2, <1>3, <2>1
<1>8. Cardinality(outstanding') <= SQ_SIZE - 1
  <2>1. IsFiniteSet(outstanding)
    <3>1. IsFiniteSet(1 .. MaxCmds)
      BY Sizes, FS_Interval
    <3> QED BY <1>1, <3>1, FS_Subset DEF TInv, TypeOK, Cid
  <2>2. Cardinality(outstanding) \in Nat
    BY <2>1, FS_CardinalityType
  <2>3. Cardinality(outstanding') <= Cardinality(outstanding) + 1
    <3>1. Cardinality(outstanding \cup {n + 1}) =
            IF n + 1 \in outstanding THEN Cardinality(outstanding) ELSE Cardinality(outstanding) + 1
      BY <2>1, FS_AddElement
    <3> QED BY <1>2, <2>2, <3>1
  <2>4. Cardinality(outstanding') \in Nat
    BY <1>2, <2>1, FS_AddElement, FS_CardinalityType
  <2> QED BY <1>2, <2>2, <2>3, <2>4, Sizes
<1>9. HeadsOrdered(d, db)'
  BY <1>2, <1>6 DEF HeadsOrdered, Late, Behind
<1>10. Phases(d)'
  BY <1>1, <1>2 DEF Phases, PostedIn, Place, PhaseAt, Behind
<1>11. /\ Total(d)' = Total(d) /\ \A i : Unseen(d, i)' = Unseen(d, i)
  BY <1>2 DEF Total, Unseen, PostedIn, Place, Behind
<1>12. EachOnce(d, d.done \cap outstanding)'
  BY <1>1, <1>7, <1>11 DEF EachOnce
<1> QED BY <1>8, <1>9, <1>10, <1>12 DEF CInv

LEMMA RingCqCq ==
  ASSUME IInv, CInv, RingCq
  PROVE  CInv'
<1> DEFINE x == [kind |-> "CQ", value |-> host_head]
<1>1. TInv /\ HeadsOrdered(d, db) /\ Phases(d) /\ EachOnce(d, d.done \cap outstanding)
  BY DEF IInv, CInv
<1>2. /\ db' = Append(db, x) /\ rung' = host_head
      /\ UNCHANGED <<host_head, host_phase, outstanding, d>>
  BY DEF RingCq
<1>3. host_head \in 0 .. CQ_SIZE - 1 /\ rung \in 0 .. CQ_SIZE - 1 /\ Doorbells(db) /\ d \in Driver
  BY <1>1, HostTypes
<1>4. x \in Door /\ x.value = host_head
  <2>1. host_head \in Nat
    BY <1>3, Sizes
  <2> QED BY <2>1 DEF Door
<1> HIDE DEF x
<1>5. /\ Len(db) \in Nat /\ Len(db') = Len(db) + 1 /\ db'[Len(db) + 1] = x
      /\ \A i \in 1 .. Len(db) : db'[i] = db[i]
      /\ \A i \in 1 .. Len(db') : i \in 1 .. Len(db) \/ i = Len(db) + 1
      /\ \A i \in 1 .. Len(db) : ~(i > Len(db) + 1) /\ ~(i > i)
  BY <1>1, <1>2, <1>4, DoorAppended
<1> DEFINE L(v) == Late(d, v)
<1>6. \A v \in 0 .. CQ_SIZE - 1 : L(v) \in Int
  BY <1>1, <1>3, TotalType
<1>7. L(d.cq_head) \in Int /\ L(rung) \in Int /\ L(host_head) \in Int
  BY <1>1, <1>3, <1>6, TotalType
<1>8. L(d.cq_head) >= L(rung) /\ L(rung) >= L(host_head)
  BY <1>1 DEF HeadsOrdered
<1>9. ASSUME NEW i \in 1 .. Len(db), db[i].kind = "CQ"
      PROVE  /\ L(d.cq_head) >= L(db[i].value) /\ L(db[i].value) >= L(host_head)
             /\ \A j \in 1 .. Len(db) : j > i /\ db[j].kind = "CQ" => L(db[i].value) >= L(db[j].value)
  <2>1. /\ L(d.cq_head) >= L(db[i].value) /\ L(db[i].value) >= L(rung)
        /\ \A j \in 1 .. Len(db) : j > i /\ db[j].kind = "CQ" => L(db[i].value) >= L(db[j].value)
    BY <1>1, <1>9 DEF HeadsOrdered
  <2>2. L(db[i].value) \in Int
    BY <1>3, <1>6, <1>9 DEF Doorbells
  <2> HIDE DEF L
  <2> QED BY <1>7, <1>8, <2>1, <2>2
<1>10. \A v : Late(d, v)' = Late(d', v) /\ Late(d', v) = L(v)
  BY <1>2 DEF Late, Behind
<1> HIDE DEF L
<1>11. L(d.cq_head) >= L(host_head) /\ L(host_head) >= L(host_head) /\ Len(db) + 1 \in 1 .. Len(db')
  BY <1>5, <1>7, <1>8
<1>12. ASSUME NEW i \in 1 .. Len(db'), db'[i].kind = "CQ"
       PROVE  /\ L(d.cq_head) >= L(db'[i].value) /\ L(db'[i].value) >= L(host_head)
              /\ \A j \in 1 .. Len(db') : j > i /\ db'[j].kind = "CQ" =>
                   L(db'[i].value) >= L(db'[j].value)
  <2>1. CASE i = Len(db) + 1
    <3>1. db'[i].value = host_head
      BY <1>4, <1>5, <2>1
    <3>2. \A j \in 1 .. Len(db') : ~(j > i)
      BY <1>5, <2>1
    <3> QED BY <1>11, <3>1, <3>2
  <2>2. CASE i \in 1 .. Len(db)
    <3>1. db'[i] = db[i]
      BY <1>5, <2>2
    <3>2. /\ L(d.cq_head) >= L(db[i].value) /\ L(db[i].value) >= L(host_head)
          /\ \A j \in 1 .. Len(db) : j > i /\ db[j].kind = "CQ" => L(db[i].value) >= L(db[j].value)
      BY <1>9, <1>12, <2>2, <3>1
    <3>3. ASSUME NEW j \in 1 .. Len(db'), j > i, db'[j].kind = "CQ"
          PROVE  L(db[i].value) >= L(db'[j].value)
      <4>1. CASE j = Len(db) + 1
        BY <1>4, <1>5, <3>2, <4>1
      <4>2. CASE j \in 1 .. Len(db)
        BY <1>5, <3>2, <3>3, <4>2
      <4> QED BY <1>5, <4>1, <4>2
    <3> QED BY <3>1, <3>2, <3>3
  <2> QED BY <1>5, <2>1, <2>2
<1>13. HeadsOrdered(d, db)'
  <2>1. d' = d /\ \A v : Late(d, v)' = L(v)
    BY <1>2, <1>10
  <2>2. /\ L(d'.cq_head) >= L(rung') /\ L(rung') >= L(host_head')
        /\ \A i \in 1 .. Len(db') : db'[i].kind = "CQ" =>
             /\ L(d'.cq_head) >= L(db'[i].value) /\ L(db'[i].value) >= L(rung')
             /\ \A j \in 1 .. Len(db') : j > i /\ db'[j].kind = "CQ" =>
                  L(db'[i].value) >= L(db'[j].value)
    BY <1>2, <1>11, <1>12
  <2> QED BY <2>1, <2>2 DEF HeadsOrdered
<1>14. Phases(d)'
  BY <1>1, <1>2 DEF Phases, PostedIn, Place, PhaseAt, Behind
<1>15. /\ Total(d)' = Total(d) /\ \A i : Unseen(d, i)' = Unseen(d, i)
  BY <1>2 DEF Total, Unseen, PostedIn, Place, Behind
<1>16. EachOnce(d, d.done \cap outstanding)'
  BY <1>1, <1>2, <1>15 DEF EachOnce
<1> QED BY <1>2, <1>13, <1>14, <1>16 DEF CInv

\* The host takes the first entry it has not seen; its next place, seen from
\* there, is every later entry's place less one.
LEMMA ConsumeCq ==
  ASSUME IInv, CInv, Consume
  PROVE  CInv'
<1> DEFINE m == PostedIn(d)
           u(i) == Unseen(d, i)
           S == d.done \cap outstanding
           h == host_head
           t == d.cq_tail
<1>1. TInv /\ HeadsOrdered(d, db) /\ Phases(d) /\ EachOnce(d, S)
  BY DEF IInv, CInv
<1>2. /\ h \in 0 .. CQ_SIZE - 1 /\ rung \in 0 .. CQ_SIZE - 1 /\ host_phase \in {0, 1}
      /\ Doorbells(db) /\ d \in Driver /\ t \in 0 .. CQ_SIZE - 1
      /\ m \in 0 .. CQ_SIZE - 1 /\ Total(d) \in Nat /\ Len(d.pending) \in Nat
  BY <1>1, HostTypes, TotalType
<1>3. /\ d.cq_mem[h].phase = host_phase /\ outstanding' = outstanding \ {d.cq_mem[h].cid}
      /\ host_head' = Wrap(h + 1, CQ_SIZE) /\ host_head' \in 0 .. CQ_SIZE - 1
      /\ host_phase' = (IF h + 1 = CQ_SIZE THEN 1 - host_phase ELSE host_phase)
      /\ UNCHANGED <<rung, db, d>>
  BY <1>2, WrapIs, Sizes DEF Consume, CqeReady
<1>4. Place(0) = h /\ PhaseAt(0) = host_phase /\ 0 \in 0 .. CQ_SIZE - 1
  BY <1>2, Sizes DEF Place, PhaseAt, Wrap
<1>5. m >= 1 /\ u(0) = d.cq_mem[h].cid
  <2>1. (d.cq_mem[Place(0)].phase = PhaseAt(0)) <=> 0 < m
    BY <1>1, <1>4 DEF Phases
  <2>2. 0 < m
    BY <1>3, <1>4, <2>1
  <2>3. u(0) = d.cq_mem[h].cid
    BY <1>4, <2>2 DEF Unseen
  <2> HIDE DEF m, u
  <2> QED BY <1>2, <2>2, <2>3
<1>6. m = (IF t >= h THEN t - h ELSE t - h + CQ_SIZE)
  BY DEF PostedIn, Behind
<1>7. PostedIn(d)' = m - 1
  <2>1. PostedIn(d)' = IF t >= host_head' THEN t - host_head' ELSE t - host_head' + CQ_SIZE
    BY <1>3 DEF PostedIn, Behind
  <2> HIDE DEF m, t, h, u
  <2> QED BY <1>2, <1>3, <1>5, <1>6, <2>1, Sizes DEF Wrap
<1>8. ASSUME NEW i \in 0 .. CQ_SIZE - 2
      PROVE  Place(i)' = Place(i + 1) /\ PhaseAt(i)' = PhaseAt(i + 1)
  <2>1. Place(i)' = Wrap(host_head' + i, CQ_SIZE) /\ Place(i + 1) = Wrap(h + (i + 1), CQ_SIZE)
    BY DEF Place, Wrap
  <2>2. /\ PhaseAt(i)' = (IF host_head' + i < CQ_SIZE THEN host_phase' ELSE 1 - host_phase')
        /\ PhaseAt(i + 1) = (IF h + (i + 1) < CQ_SIZE THEN host_phase ELSE 1 - host_phase)
    BY DEF PhaseAt
  <2> HIDE DEF h, m, u, t
  <2>3. Wrap(host_head' + i, CQ_SIZE) = Wrap(h + (i + 1), CQ_SIZE)
    BY <1>2, <1>3, Sizes DEF Wrap
  <2>4. CASE h + 1 = CQ_SIZE
    BY <1>2, <1>3, <2>1, <2>2, <2>3, <2>4, Sizes DEF Wrap
  <2>5. CASE h + 1 # CQ_SIZE
    BY <1>2, <1>3, <2>1, <2>2, <2>3, <2>5, Sizes DEF Wrap
  <2> QED BY <2>4, <2>5
<1>9. Place(CQ_SIZE - 1)' = h /\ PhaseAt(CQ_SIZE - 1)' # host_phase
  <2>1. Place(CQ_SIZE - 1)' = Wrap(host_head' + (CQ_SIZE - 1), CQ_SIZE)
    BY DEF Place, Wrap
  <2>2. PhaseAt(CQ_SIZE - 1)' = IF host_head' + (CQ_SIZE - 1) < CQ_SIZE THEN host_phase' ELSE 1 - host_phase'
    BY DEF PhaseAt
  <2> HIDE DEF h, m, u, t
  <2>3. CASE h + 1 = CQ_SIZE
    BY <1>2, <1>3, <2>1, <2>2, <2>3, Sizes DEF Wrap
  <2>4. CASE h + 1 # CQ_SIZE
    BY <1>2, <1>3, <2>1, <2>2, <2>4, Sizes DEF Wrap
  <2> QED BY <2>3, <2>4
<1>10. Phases(d)'
  <2>1. ASSUME NEW i \in 0 .. CQ_SIZE - 1
        PROVE  (d.cq_mem[Place(i)'].phase = PhaseAt(i)') <=> i < m - 1
    <3>1. CASE i = CQ_SIZE - 1
      <4>1. d.cq_mem[Place(i)'].phase # PhaseAt(i)'
        BY <1>3, <1>9, <3>1
      <4>2. ~(i < m - 1)
        <5> HIDE DEF m
        <5> QED BY <1>2, <3>1, Sizes
      <4> QED BY <4>1, <4>2
    <3>2. CASE i # CQ_SIZE - 1
      <4>1. i \in 0 .. CQ_SIZE - 2 /\ i + 1 \in 0 .. CQ_SIZE - 1
        BY <3>2, Sizes
      <4>2. (d.cq_mem[Place(i + 1)].phase = PhaseAt(i + 1)) <=> i + 1 < m
        BY <1>1, <4>1 DEF Phases
      <4>3. Place(i)' = Place(i + 1) /\ PhaseAt(i)' = PhaseAt(i + 1)
        BY <1>8, <4>1
      <4>4. i + 1 < m <=> i < m - 1
        <5> HIDE DEF m
        <5> QED BY <1>2, <4>1
      <4> QED BY <4>2, <4>3, <4>4
    <3> QED BY <3>1, <3>2
  <2>2. d.cq_phase = IF host_head' + (m - 1) < CQ_SIZE THEN host_phase' ELSE 1 - host_phase'
    <3>1. d.cq_phase = IF h + m < CQ_SIZE THEN host_phase ELSE 1 - host_phase
      BY <1>1 DEF Phases, PhaseAt
    <3> HIDE DEF h, m, u, t
    <3>2. CASE h + 1 = CQ_SIZE
      BY <1>2, <1>3, <1>5, <3>1, <3>2, Sizes DEF Wrap
    <3>3. CASE h + 1 # CQ_SIZE
      BY <1>2, <1>3, <1>5, <3>1, <3>3, Sizes DEF Wrap
    <3> QED BY <3>2, <3>3
  <2>3. PhaseAt(PostedIn(d))' = IF host_head' + (m - 1) < CQ_SIZE THEN host_phase' ELSE 1 - host_phase'
    BY <1>7 DEF PhaseAt
  <2>4. \A i \in 0 .. CQ_SIZE - 1 :
          (d'.cq_mem[Place(i)'].phase = PhaseAt(i)') <=> i < PostedIn(d)'
    BY <1>3, <1>7, <2>1
  <2>5. d'.cq_phase = PhaseAt(PostedIn(d))'
    BY <1>3, <2>2, <2>3
  <2> QED BY <2>4, <2>5 DEF Phases
<1>11. Total(d)' = Total(d) - 1
  <2>1. Total(d)' = PostedIn(d)' + Len(d.pending) /\ Total(d) = m + Len(d.pending)
    BY <1>3 DEF Total
  <2> HIDE DEF m, u
  <2> QED BY <1>2, <1>7, <2>1, Sizes
<1>12. ASSUME NEW i \in 0 .. Total(d) - 2
       PROVE  Unseen(d, i)' = u(i + 1)
  <2>1. i \in Int /\ i >= 0 /\ m \in Int
    <3> HIDE DEF m, u
    <3> QED BY <1>2
  <2>2. Unseen(d, i)' = IF i < m - 1 THEN d.cq_mem[Place(i)'].cid ELSE d.pending[i - (m - 1) + 1]
    BY <1>3, <1>7 DEF Unseen
  <2> DEFINE k == i + 1
  <2>3. k \in Int /\ (k < m <=> i < m - 1) /\ k - m + 1 = i - (m - 1) + 1
    <3> HIDE DEF m, u
    <3> QED BY <2>1
  <2>4. i < m - 1 => i \in 0 .. CQ_SIZE - 2
    <3> HIDE DEF m, u
    <3> QED BY <1>2, <2>1, Sizes
  <2>5. i < m - 1 => Place(i)' = Place(k)
    BY <1>8, <2>4
  <2> HIDE DEF k
  <2>6. u(k) = IF k < m THEN d.cq_mem[Place(k)].cid ELSE d.pending[k - m + 1]
    BY DEF Unseen
  <2>7. Unseen(d, i)' = u(k)
    <3> HIDE DEF m, u
    <3> QED BY <2>2, <2>3, <2>5, <2>6
  <2> QED BY <2>7 DEF k
<1>13. EachOnce(d, d.done \cap outstanding)'
  <2> DEFINE T == Total(d)
             v(i) == Unseen(d, i)'
             R == S \ {u(0)}
  <2>1. /\ \A i \in 0 .. T - 1 : u(i) \in S
        /\ \A i, j \in 0 .. T - 1 : u(i) = u(j) => i = j
        /\ \A x \in S : \E i \in 0 .. T - 1 : u(i) = x
    BY <1>1 DEF EachOnce
  <2>2. T \in Nat /\ T >= 1 /\ \A i \in 0 .. T - 2 : v(i) = u(i + 1)
    <3>1. T = m + Len(d.pending)
      BY DEF Total
    <3>2. T \in Nat /\ \A i \in 0 .. T - 2 : v(i) = u(i + 1)
      BY <1>2, <1>12
    <3> HIDE DEF m, u, T, v
    <3> QED BY <1>2, <1>5, <3>1, <3>2
  <2>3. d'.done \cap outstanding' = R
    BY <1>3, <1>5
  <2>4. Total(d)' - 1 = T - 2
    <3> HIDE DEF T
    <3> QED BY <1>11, <2>2 DEF T
  <2> HIDE DEF T, u, S
  <2>5. /\ \A i \in 0 .. T - 2 : i + 1 \in 0 .. T - 1 /\ i + 1 # 0
        /\ \A i, j \in 0 .. T - 2 : i + 1 = j + 1 => i = j
        /\ 0 \in 0 .. T - 1
        /\ \A i \in 0 .. T - 1 : i # 0 => i - 1 \in 0 .. T - 2 /\ i - 1 + 1 = i
    BY <2>2
  <2> HIDE DEF v
  <2>6. ASSUME NEW i \in 0 .. T - 2 PROVE v(i) \in R
    BY <2>1, <2>2, <2>5
  <2>7. ASSUME NEW i \in 0 .. T - 2, NEW j \in 0 .. T - 2, v(i) = v(j) PROVE i = j
    BY <2>1, <2>2, <2>5, <2>7
  <2>8. ASSUME NEW x \in R PROVE \E i \in 0 .. T - 2 : v(i) = x
    <3>1. PICK i \in 0 .. T - 1 : u(i) = x
      BY <2>1
    <3>2. i # 0
      BY <3>1
    <3> QED BY <2>2, <2>5, <3>1, <3>2
  <2> QED BY <2>3, <2>4, <2>6, <2>7, <2>8 DEF EachOnce, v
<1>14. HeadsOrdered(d, db)'
  <2>1. \A x : Late(d, x)' = Late(d', x) /\ Late(d', x) = Late(d, x)
    BY <1>3 DEF Late, Behind
  <2>2. Late(d, host_head') = m - 1 /\ Late(d, host_head) = m
    <3>1. Late(d, host_head') = Behind(host_head', t) /\ Late(d, host_head) = m
      BY DEF Late, PostedIn
    <3>2. PostedIn(d)' = Behind(host_head', t)
      BY <1>3 DEF PostedIn, Behind
    <3> QED BY <1>7, <3>1, <3>2
  <2>3. Late(d, rung) >= Late(d, host_head')
    <3>1. Late(d, rung) \in Int /\ Late(d, rung) >= Late(d, host_head)
      BY <1>1, <1>2, TotalType DEF HeadsOrdered
    <3> HIDE DEF m, u, t, h
    <3> QED BY <1>2, <2>2, <3>1
  <2>4. Late(d, host_head)' = Late(d, host_head')
    BY <1>3 DEF Late, Behind
  <2> QED BY <1>1, <1>3, <2>1, <2>3, <2>4 DEF HeadsOrdered
<1>15. Cardinality(outstanding') <= SQ_SIZE - 1
  <2>1. IsFiniteSet(outstanding)
    <3>1. IsFiniteSet(1 .. MaxCmds)
      BY Sizes, FS_Interval
    <3> QED BY <1>1, <3>1, FS_Subset DEF TInv, TypeOK, Cid
  <2>2. outstanding' \in SUBSET outstanding
    BY <1>3
  <2>3. /\ Cardinality(outstanding') <= Cardinality(outstanding)
        /\ Cardinality(outstanding') \in Nat /\ Cardinality(outstanding) \in Nat
    BY <2>1, <2>2, FS_Subset, FS_CardinalityType
  <2> QED BY <2>3, Sizes DEF CInv
<1> QED BY <1>10, <1>13, <1>14, <1>15 DEF CInv

----------------------------------------------------------------------------
(* The invariant, and what it says of every behaviour.                     *)

LEMMA InitCInv == Init => CInv
<1> SUFFICES ASSUME Init PROVE CInv
  OBVIOUS
<1>1. /\ host_head = 0 /\ host_phase = 1 /\ rung = 0 /\ outstanding = {} /\ db = <<>>
      /\ d.cq_head = 0 /\ d.cq_tail = 0 /\ d.cq_phase = 1 /\ d.pending = <<>>
      /\ d.cq_mem = [i \in 0 .. CQ_SIZE - 1 |-> [cid |-> 0, phase |-> 0]]
  BY DEF Init
<1>2. PostedIn(d) = 0 /\ Len(db) = 0 /\ Len(d.pending) = 0
  BY <1>1, Sizes DEF PostedIn, Behind
<1>3. HeadsOrdered(d, db)
  <2>1. Late(d, d.cq_head) = 0 /\ Late(d, rung) = 0 /\ Late(d, host_head) = 0
    BY <1>1, Sizes DEF Late, Behind
  <2> QED BY <1>2, <2>1 DEF HeadsOrdered
<1>4. Phases(d)
  <2>1. ASSUME NEW i \in 0 .. CQ_SIZE - 1
        PROVE  Place(i) = i /\ PhaseAt(i) = 1 /\ d.cq_mem[i].phase = 0 /\ ~(i < 0)
    BY <1>1, Sizes DEF Place, PhaseAt, Wrap
  <2>2. PhaseAt(0) = 1
    BY <1>1, Sizes DEF PhaseAt
  <2> QED BY <1>1, <1>2, <2>1, <2>2 DEF Phases
<1>5. EachOnce(d, d.done \cap outstanding)
  <2>1. Total(d) = 0
    BY <1>2 DEF Total
  <2>2. 0 .. Total(d) - 1 = {}
    BY <2>1
  <2> QED BY <1>1, <2>2 DEF EachOnce
<1>6. Cardinality(outstanding) <= SQ_SIZE - 1
  BY <1>1, FS_EmptySet, Sizes
<1> QED BY <1>3, <1>4, <1>5, <1>6 DEF CInv

LEMMA NextCInv ==
  ASSUME SQ_SIZE <= CQ_SIZE, IInv, CInv, [Next]_vars
  PROVE  CInv'
<1>1. CASE CheckDoor \/ Completed \/ Ftl
  BY <1>1, DriverKeeps
<1>2. CASE \E c \in HostCmds : Submit(c)
  BY <1>2, SubmitCq
<1>3. CASE Consume
  BY <1>3, ConsumeCq
<1>4. CASE RingCq
  BY <1>4, RingCqCq
<1>5. CASE RequestShutdown \/ UNCHANGED vars
  <2>1. UNCHANGED <<host_head, host_phase, rung, outstanding, d, db>>
    BY <1>5 DEF RequestShutdown, vars, hostVars
  <2>2. SameCq(d', d) /\ d'.done = d.done /\ TInv
    BY <2>1 DEF SameCq, IInv
  <2> QED BY <2>1, <2>2, QuietCq
<1> QED BY <1>1, <1>2, <1>3, <1>4, <1>5 DEF Next, Host

LEMMA CInvExact ==
  ASSUME IInv, CInv
  PROVE  CompletionsExact
<1> DEFINE posted == (d.cq_tail + CQ_SIZE - host_head) % CQ_SIZE
           New(i) == d.cq_mem[(host_head + i) % CQ_SIZE]
           ph(i) == IF host_head + i < CQ_SIZE THEN host_phase ELSE 1 - host_phase
           m == PostedIn(d)
           S == d.done \cap outstanding
<1>1. /\ host_head \in 0 .. CQ_SIZE - 1 /\ d.cq_tail \in 0 .. CQ_SIZE - 1 /\ host_phase \in {0, 1}
      /\ m \in 0 .. CQ_SIZE - 1 /\ Len(d.pending) \in Nat /\ Total(d) \in Nat
      /\ Total(d) = m + Len(d.pending) /\ Phases(d) /\ EachOnce(d, S)
  BY HostTypes, TotalType DEF IInv, CInv, Total
<1>2. posted = m
  BY <1>1, BehindIs DEF PostedIn
<1>3. ASSUME NEW i \in 0 .. CQ_SIZE - 1
      PROVE  New(i) = d.cq_mem[Place(i)] /\ ph(i) = PhaseAt(i) /\ (New(i).phase = ph(i) <=> i < m)
  <2>1. host_head + i \in 0 .. 2 * CQ_SIZE - 1
    BY <1>1, Sizes
  <2>2. (host_head + i) % CQ_SIZE = Place(i)
    BY <2>1, WrapMod, Sizes DEF Place
  <2>3. ph(i) = PhaseAt(i)
    BY DEF PhaseAt
  <2> QED BY <1>1, <2>2, <2>3 DEF Phases
<1>4. \A i \in 0 .. m - 1 : i \in 0 .. CQ_SIZE - 1 /\ i < m
  <2> HIDE DEF m
  <2> QED BY <1>1, Sizes
<1>5. S = {New(i).cid : i \in 0 .. m - 1} \cup {d.pending[i] : i \in DOMAIN d.pending}
  <2> DEFINE A == {New(i).cid : i \in 0 .. m - 1}
             B == {d.pending[i] : i \in DOMAIN d.pending}
  <2>1. DOMAIN d.pending = 1 .. Len(d.pending)
    <3>1. d.pending \in Seq(Cid)
      BY HostTypes DEF IInv, Driver
    <3> QED BY <3>1
  <2>2. /\ \A i \in 0 .. Total(d) - 1 : Unseen(d, i) \in S
        /\ \A c \in S : \E i \in 0 .. Total(d) - 1 : Unseen(d, i) = c
    BY <1>1 DEF EachOnce
  <2>3. \A i \in 0 .. m - 1 : i \in 0 .. Total(d) - 1 /\ Unseen(d, i) = New(i).cid
    <3>1. \A i \in 0 .. m - 1 : i \in 0 .. Total(d) - 1
      <4> HIDE DEF m
      <4> QED BY <1>1
    <3>2. \A i \in 0 .. m - 1 : Unseen(d, i) = d.cq_mem[Place(i)].cid
      BY <1>4 DEF Unseen
    <3> HIDE DEF m, New
    <3> QED BY <1>3, <1>4, <3>1, <3>2
  <2>4. \A i \in 1 .. Len(d.pending) :
          m + i - 1 \in 0 .. Total(d) - 1 /\ Unseen(d, m + i - 1) = d.pending[i]
    <3> TAKE i \in 1 .. Len(d.pending)
    <3> DEFINE k == m + i - 1
    <3>1. k \in 0 .. Total(d) - 1 /\ ~(k < m) /\ k - m + 1 = i
      <4> HIDE DEF m
      <4> QED BY <1>1
    <3>2. Unseen(d, k) = IF k < m THEN d.cq_mem[Place(k)].cid ELSE d.pending[k - m + 1]
      <4> HIDE DEF k
      <4> QED BY DEF Unseen
    <3> HIDE DEF m
    <3> QED BY <3>1, <3>2
  <2>5. ASSUME NEW i \in 0 .. Total(d) - 1
        PROVE  i \in 0 .. m - 1 \/ \E j \in 1 .. Len(d.pending) : i = m + j - 1
    <3> HIDE DEF m
    <3>1. CASE i < m
      BY <1>1, <3>1
    <3>2. CASE ~(i < m)
      <4> DEFINE j == i - m + 1
      <4>1. j \in 1 .. Len(d.pending) /\ i = m + j - 1
        BY <1>1, <3>2
      <4> HIDE DEF j
      <4> QED BY <4>1
    <3> QED BY <3>1, <3>2
  <2> HIDE DEF m, S, New
  <2>6. A \cup B \subseteq S
    BY <2>1, <2>2, <2>3, <2>4
  <2>7. S \subseteq A \cup B
    <3> SUFFICES ASSUME NEW c \in S PROVE c \in A \cup B
      OBVIOUS
    <3>1. PICK i \in 0 .. Total(d) - 1 : Unseen(d, i) = c
      BY <2>2
    <3>2. CASE i \in 0 .. m - 1
      BY <2>3, <3>1, <3>2
    <3>3. CASE \E j \in 1 .. Len(d.pending) : i = m + j - 1
      BY <2>1, <2>4, <3>1, <3>3
    <3> QED BY <2>5, <3>2, <3>3
  <2> QED BY <2>6, <2>7
<1>6. Cardinality(S) = m + Len(d.pending)
  BY <1>1, CountIs
<1>7. m < CQ_SIZE /\ m \in 0 .. CQ_SIZE - 1 /\ ~(m < m)
  <2> HIDE DEF m
  <2> QED BY <1>1, Sizes
<1>8. (\A i \in 0 .. m - 1 : New(i).phase = ph(i)) /\ New(m).phase # ph(m)
  <2> HIDE DEF m, New, ph
  <2> QED BY <1>3, <1>4, <1>7
<1>9. CompletionsExact <=>
        /\ \A i \in 0 .. posted - 1 : New(i).phase = ph(i)
        /\ posted < CQ_SIZE /\ New(posted).phase # ph(posted)
        /\ S = {New(i).cid : i \in 0 .. posted - 1} \cup {d.pending[i] : i \in DOMAIN d.pending}
        /\ Cardinality(S) = posted + Len(d.pending)
  BY DEF CompletionsExact
<1> HIDE DEF posted, New, ph, m, S
<1> QED BY <1>2, <1>5, <1>6, <1>7, <1>8, <1>9

\* Every completed command the host has not seen is in exactly one place, the
\* pending queue or an entry of the host's queue whose phase the host will
\* recognise: enqueue_io_ccmd never finds its queue full, post_io_ccmds never
\* overwrites an entry, and the phase bit is right in every turn of the ring,
\* however late the doorbells are read. This needs a completion queue at
\* least as large as the submission queue: with a smaller one
\* enqueue_io_ccmd drops completions.
THEOREM CompletionsCorrect ==
  ASSUME SQ_SIZE <= CQ_SIZE
  PROVE  Spec => []CompletionsExact
<1>1. IInv /\ CInv /\ [Next]_vars => CInv'
  BY NextCInv
<1>2. IInv /\ CInv => CompletionsExact
  BY CInvExact
<1> QED BY <1>1, <1>2, Invariance, InitCInv, PTL DEF Spec
=============================================================================
