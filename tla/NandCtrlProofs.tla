--------------------------- MODULE NandCtrlProofs ---------------------------
(***************************************************************************)
(* A flash operation, from the registers the driver writes to the events   *)
(* of the controller, for any geometry, any batch of pages and any order   *)
(* of the events: the count the driver polls is exact, no command sleeps,  *)
(* the pool of read operations is never corrupted, and a call of the NAND  *)
(* layer moves exactly the pages it was given (NandOps).                   *)
(***************************************************************************)
EXTENDS NandCtrl, FiniteSetTheorems, SequenceTheorems, WellFoundedInduction, TLAPS

\* The controller's state.
Ctrl == [chn: [Channel -> NC_Channel], chip: [Channel -> [Chip -> NC_Chip]],
         toggle: BOOLEAN, current_chn: Channel \cup {None}]

\* The operators below take the firmware's state f, a channel's state ch, the
\* state cs of its chips and the image img, so that they speak of a state in
\* the middle of a step as well.

\* The page the firmware is at; the page is on channel c; the first of its
\* two commands is sent and the second is not.
At(f) == (f.k \div 6) + 1
On(f, c) == f.pc = "issue" /\ f.pages # <<>> /\ f.pages[At(f)].chn = c
Half(f, c) == On(f, c) /\ f.k % 6 >= 3
Sent(f) == 2 * (f.k \div 6) + (IF f.k % 6 >= 3 THEN 1 ELSE 0)

\* The two commands of page p.
NandCmd(f, p) == [op |-> CmdPhaseOp(f.kind), chip |-> f.pages[p].chip,
                  addr |-> AddressCycle(f.pages[p]), ram_ptr |-> None]
DataCmd(f, p) == [op |-> DmaPhaseOp(f.kind), chip |-> f.pages[p].chip,
                  addr |-> 0, ram_ptr |-> p]

\* What the registers of channel c hold in the middle of a page.
Regs(f, c) ==
  LET ph == f.k % 6
      pg == f.pages[At(f)]
  IN IF On(f, c)
     THEN [op |-> NoOp, chip |-> IF ph \in {1, 2, 4, 5} THEN pg.chip ELSE None,
           addr |-> IF ph = 2 THEN AddressCycle(pg) ELSE 0,
           ram_ptr |-> IF ph = 5 THEN At(f) ELSE None]
     ELSE NewCommand

FwPart(f) ==
  /\ Len(f.pages) <= MAX_PAGES
  /\ f.kind = NoOp <=> f.pc \in {"off", "idle"}
  /\ f.pc \in {"off", "idle"} => f.pages = <<>> /\ f.k = 0
  /\ f.pc = "issue" => (f.pages = <<>> /\ f.k = 0) \/ f.k < 6 * Len(f.pages)
  /\ f.pc = "poll" => f.k = 6 * Len(f.pages) /\ f.pages # <<>>
  /\ f.pc # "poll" => f.ichn = 0
  /\ f.ichn = 0 => f.cmdStatus = 0

\* Page p is on channel c and both of its commands were sent.
Mine(f, c, p) == p \in 1 .. Len(f.pages) /\ f.pages[p].chn = c /\ 6 * p <= f.k

\* The first command of page p was executed: the page is in the register of
\* its chip, or the chip waits for the data to program.
Primed(cs, f, img, c, p) ==
  LET pg == f.pages[p] IN
  IF f.kind = "READ"
  THEN cs[pg.chip].reg = img[ImgPage(c, pg.chip, AddressCycle(pg))]
  ELSE cs[pg.chip].pending /\ cs[pg.chip].addr = AddressCycle(pg)

DmaPart(ch, cs, f, img, c) ==
  IF ch.wait_dma
  THEN /\ Mine(f, c, ch.ram_ptr) /\ ch.dma_chip = f.pages[ch.ram_ptr].chip
       /\ Primed(cs, f, img, c, ch.ram_ptr) /\ ~cs[ch.dma_chip].busy
       /\ ch.read_dma = (f.kind = "PROGRAM") /\ ch.write_dma = (f.kind = "READ")
  ELSE ch.ram_ptr = None /\ ch.dma_chip = None /\ ~ch.read_dma /\ ~ch.write_dma

\* A command in the waiting room is the second one of a page, behind the
\* first, or in front when that was executed; or it is a first one, before
\* the second, or at the end when that is not sent.
Cell(ch, cs, f, img, c, j) ==
  LET p == ch.room[j].ram_ptr IN
  IF p = None
  THEN /\ j < Len(ch.room) => ch.room[j + 1].ram_ptr # None
       /\ j = Len(ch.room) => Half(f, c) /\ ch.room[j] = NandCmd(f, At(f))
  ELSE /\ Mine(f, c, p) /\ ch.room[j] = DataCmd(f, p)
       /\ j > 1 => ch.room[j - 1] = NandCmd(f, p)
       /\ j = 1 => ~ch.wait_dma /\ Primed(cs, f, img, c, p)

RoomPart(ch, cs, f, img, c) ==
  /\ \A j \in 1 .. Len(ch.room) : Cell(ch, cs, f, img, c, j)
  /\ \A j, l \in 1 .. Len(ch.room) :
       j < l /\ ch.room[j].ram_ptr # None /\ ch.room[l].ram_ptr # None =>
         ch.room[j].ram_ptr < ch.room[l].ram_ptr
  /\ ch.wait_dma => \A j \in 1 .. Len(ch.room) :
       ch.room[j].ram_ptr # None => ch.ram_ptr < ch.room[j].ram_ptr
  /\ Half(f, c) => IF ch.room = <<>> THEN ~ch.wait_dma /\ Primed(cs, f, img, c, At(f))
                   ELSE ch.room[Len(ch.room)].ram_ptr = None
  /\ Len(ch.room) <= Sent(f)

Timed(cs) == {k \in Chip : cs[k].events > 0}
CountPart(ch, cs) ==
  /\ ch.active = Cardinality(Timed(cs)) + (IF ch.wait_dma THEN 1 ELSE 0)
  /\ \A k \in Chip : cs[k].events = (IF cs[k].busy THEN 1 ELSE 0)
\* A chip is busy with a page of this operation.
BusyPart(cs, f, c) ==
  \A k \in Chip : cs[k].busy =>
    \E p \in 1 .. Len(f.pages) : f.pages[p].chn = c /\ f.pages[p].chip = k

ChnInv(ch, cs, f, img, c) ==
  /\ DmaPart(ch, cs, f, img, c) /\ RoomPart(ch, cs, f, img, c)
  /\ CountPart(ch, cs) /\ BusyPart(cs, f, c)

Awake(ch, cs) == ch.room # <<>> => ch.wait_dma \/ cs[ch.room[1].chip].busy

\* The DMA engine works for a channel that waits, and for one if any does.
Engine(s) ==
  /\ s.current_chn # None => s.chn[s.current_chn].wait_dma
  /\ \A c \in Channel : s.chn[c].wait_dma => s.current_chn # None

\* Half of a status loop that has counted nothing.
PollPart ==
  fw.pc = "poll" /\ fw.ichn = 1 /\ fw.cmdStatus = 0 =>
    nc.chn[0].room = <<>> /\ nc.chn[0].active = 0

\* The ring of read operations never changes but for its two indices.
PoolPart ==
  /\ free_rops.objs = InitRops.objs
  /\ fw.kind # "READ" => free_rops.tail = free_rops.head
  /\ fw.kind = "READ" => /\ free_rops.head = (free_rops.tail + 1) % MAX_OPS
                         /\ fw.obj = free_rops.tail + 1

FilePart == fw.pc # "off" /\ ~shm => file = image

\* The controller's state s fits the firmware's.
CtrlPart(s, f, img) ==
  /\ s \in Ctrl /\ Engine(s)
  /\ \A c \in Channel :
       /\ s.chn[c].new_cmd = Regs(f, c)
       /\ ChnInv(s.chn[c], s.chip[c], f, img, c)
       /\ Awake(s.chn[c], s.chip[c])

IInv ==
  /\ TypeOK
  /\ FwPart(fw) /\ CtrlPart(nc, fw, image)
  /\ PollPart /\ PoolPart /\ FilePart
----------------------------------------------------------------------------
(* Numbers.                                                                *)

\* A set of natural numbers has a least one.
LEMMA LeastElement ==
  ASSUME NEW S, S \subseteq Nat, S # {}
  PROVE  \E m \in S : \A k \in S : m <= k
<1>. DEFINE R == OpToRel(<, Nat)
<1>1. \E x \in S : \A y \in S : <<y, x>> \notin R
  <2>1. IsWellFoundedOn(R, Nat)
    BY NatLessThanWellFounded
  <2>. HIDE DEF R
  <2>. QED BY <2>1, WFMin
<1>2. \A x, y \in Nat : <<y, x>> \in R <=> y < x
  BY DEF OpToRel
<1>. HIDE DEF R
<1>3. PICK m \in S : \A y \in S : <<y, m>> \notin R
  BY <1>1
<1>4. \A k \in S : m <= k
  <2>. TAKE k \in S
  <2>1. m \in Nat /\ k \in Nat /\ ~(k < m)
    BY <1>2, <1>3
  <2>. QED BY <2>1
<1>. QED BY <1>4

\* A number is one quotient and one remainder.
LEMMA MixedRadix ==
  ASSUME NEW w \in Nat, NEW a \in Nat, NEW b \in Nat, NEW x \in 0 .. w - 1, NEW y \in 0 .. w - 1,
         a * w + x = b * w + y
  PROVE  a = b /\ x = y
<1>1. ASSUME NEW u \in Nat, NEW v \in Nat, u < v, NEW i \in 0 .. w - 1, NEW j \in 0 .. w - 1
      PROVE  u * w + i < v * w + j
  <2>1. PICK d \in Nat : v = u + 1 + d
    <3>1. v - u - 1 \in Nat /\ v = u + 1 + (v - u - 1)
      BY <1>1
    <3>. QED BY <3>1
  <2>2. v * w = u * w + w + d * w
    BY <2>1
  <2>3. d * w \in Nat /\ u * w \in Nat
    OBVIOUS
  <2>. QED BY <2>2, <2>3
<1>2. ~(a < b)
  BY <1>1
<1>3. ~(b < a)
  BY <1>1
<1>4. a = b
  BY <1>2, <1>3
<1>. QED BY <1>4

LEMMA Geometry ==
  /\ CHIPS \in Nat /\ CHIPS > 0
  /\ BLOCKS \in Nat /\ BLOCKS > 0 /\ BLOCKS <= 65536
  /\ PAGES \in Nat /\ PAGES > 0 /\ PAGES <= 65536
BY GeometryAssumption

\* The chip takes the address apart as the driver put it together.
LEMMA RowOf ==
  ASSUME NEW p \in Ppa
  PROVE  /\ AddressCycle(p) \in Nat
         /\ row_page(AddressCycle(p)) = p.page
         /\ row_block(AddressCycle(p)) = p.block
<1>1. p.page \in Nat /\ p.page < 65536 /\ p.block \in Nat
  BY Geometry DEF Ppa
<1>. DEFINE a == p.page + 65536 * p.block
<1>2. a \in Nat /\ a % 65536 = p.page /\ a \div 65536 = p.block
  BY <1>1
<1>. QED BY <1>2 DEF AddressCycle, row_page, row_block, SHORT

\* A physical page as one number in four digits, below the pages there are.
Digits(p) == ((p.chn * CHIPS + p.chip) * BLOCKS + p.block) * PAGES + p.page

LEMMA DigitsInImage ==
  ASSUME NEW p \in Ppa
  PROVE  Digits(p) \in 0 .. 2 * CHIPS * BLOCKS * PAGES - 1
<1>1. /\ p.chn \in 0 .. 1 /\ p.chip \in 0 .. CHIPS - 1 /\ p.block \in 0 .. BLOCKS - 1
      /\ p.page \in 0 .. PAGES - 1
  BY DEF Ppa, Channel, Chip
<1>. DEFINE A == p.chn * CHIPS + p.chip
            B == A * BLOCKS + p.block
            D == B * PAGES + p.page
<1>2. A \in 0 .. 2 * CHIPS - 1
  BY <1>1, Geometry
<1>3. B \in 0 .. 2 * CHIPS * BLOCKS - 1
  <2>. HIDE DEF A
  <2>1. A * BLOCKS >= 0 /\ A * BLOCKS \in Int
    BY <1>2, Geometry
  <2>2. (2 * CHIPS - A) * BLOCKS >= BLOCKS
    <3>. DEFINE z == 2 * CHIPS - A - 1
    <3>1. z \in Nat /\ 2 * CHIPS - A = z + 1
      BY <1>2, Geometry
    <3>. HIDE DEF z
    <3>2. (z + 1) * BLOCKS = z * BLOCKS + BLOCKS /\ z * BLOCKS >= 0
      BY <3>1, Geometry
    <3>. QED BY <3>1, <3>2, Geometry
  <2>3. (2 * CHIPS - A) * BLOCKS = 2 * CHIPS * BLOCKS - A * BLOCKS
    BY <1>2, Geometry
  <2>4. 2 * CHIPS * BLOCKS \in Int
    BY Geometry
  <2>. QED BY <1>1, <2>1, <2>2, <2>3, <2>4, Geometry
<1>4. D \in 0 .. 2 * CHIPS * BLOCKS * PAGES - 1
  <2>. DEFINE M == 2 * CHIPS * BLOCKS
  <2>0. M \in Nat
    BY Geometry
  <2>. HIDE DEF B, M
  <2>1. B * PAGES >= 0 /\ B * PAGES \in Int /\ B \in 0 .. M - 1
    BY <1>3, <2>0, Geometry DEF M
  <2>2. (M - B) * PAGES >= PAGES
    <3>. DEFINE z == M - B - 1
    <3>1. z \in Nat /\ M - B = z + 1
      BY <2>1, <2>0
    <3>. HIDE DEF z
    <3>2. (z + 1) * PAGES = z * PAGES + PAGES /\ z * PAGES >= 0
      BY <3>1, Geometry
    <3>. QED BY <3>1, <3>2, Geometry
  <2>3. (M - B) * PAGES = M * PAGES - B * PAGES
    BY <2>1, <2>0, Geometry
  <2>4. M * PAGES \in Int
    BY <2>0, Geometry
  <2>5. D \in 0 .. M * PAGES - 1
    BY <1>1, <2>1, <2>2, <2>3, <2>4, Geometry
  <2>. QED BY <2>5 DEF M
<1>. QED BY <1>4 DEF Digits

\* The 32-bit offset does not wrap, so that is the page of the image.
LEMMA ImgPageIs ==
  ASSUME NEW p \in Ppa
  PROVE  ImgPage(p.chn, p.chip, AddressCycle(p)) = Digits(p)
<1>1. /\ p.chn \in Nat /\ p.chip \in Nat /\ p.block \in Nat /\ p.page \in Nat
  BY Geometry DEF Ppa, Channel, Chip
<1>. DEFINE c == p.chn  k == p.chip  b == p.block  g == p.page
            off == c * CHIPS * BLOCKS * PAGES + k * BLOCKS * PAGES + b * PAGES + g
<1>2. off = ((c * CHIPS + k) * BLOCKS + b) * PAGES + g
  <2>. HIDE DEF c, k, b, g
  <2>1. c \in Nat /\ k \in Nat /\ b \in Nat /\ g \in Nat
    BY <1>1 DEF c, k, b, g
  <2>. QED BY <2>1, Geometry
<1>3. off = Digits(p)
  BY <1>2 DEF Digits
<1>4. off % IMG_WRAP = off
  <2>1. off \in 0 .. 2 * CHIPS * BLOCKS * PAGES - 1
    BY <1>3, DigitsInImage
  <2>. DEFINE M == 2 * CHIPS * BLOCKS * PAGES
  <2>2. M \in Int /\ M <= IMG_WRAP /\ IMG_WRAP \in Nat \ {0}
    BY Geometry, ImageAssumption
  <2>. HIDE DEF off, M
  <2>3. off \in 0 .. M - 1
    BY <2>1 DEF M
  <2>. QED BY <2>2, <2>3
<1>5. ImgPage(p.chn, p.chip, AddressCycle(p)) = off % IMG_WRAP
  BY RowOf DEF ImgPage
<1>. QED BY <1>3, <1>4, <1>5

\* Two physical pages are two pages of the image, and none is outside.
LEMMA ImgPageOnce ==
  ASSUME NEW p \in Ppa, NEW q \in Ppa,
         ImgPage(p.chn, p.chip, AddressCycle(p)) = ImgPage(q.chn, q.chip, AddressCycle(q))
  PROVE  p = q
<1>. DEFINE P1 == p.chn * CHIPS + p.chip  Q1 == q.chn * CHIPS + q.chip
            P2 == P1 * BLOCKS + p.block   Q2 == Q1 * BLOCKS + q.block
<1>1. /\ p.chn \in Nat /\ p.chip \in 0 .. CHIPS - 1 /\ p.block \in 0 .. BLOCKS - 1 /\ p.page \in 0 .. PAGES - 1
      /\ q.chn \in Nat /\ q.chip \in 0 .. CHIPS - 1 /\ q.block \in 0 .. BLOCKS - 1 /\ q.page \in 0 .. PAGES - 1
  BY DEF Ppa, Channel, Chip
<1>2. P1 \in Nat /\ Q1 \in Nat
  BY <1>1, Geometry
<1>3. P2 \in Nat /\ Q2 \in Nat
  <2>. HIDE DEF P1, Q1
  <2>. QED BY <1>1, <1>2, Geometry
<1>4. P2 * PAGES + p.page = Q2 * PAGES + q.page
  BY ImgPageIs DEF Digits
<1>5. P2 = Q2 /\ p.page = q.page
  <2>. HIDE DEF P2, Q2
  <2>. QED BY <1>1, <1>3, <1>4, MixedRadix, Geometry
<1>6. P1 = Q1 /\ p.block = q.block
  <2>1. P1 * BLOCKS + p.block = Q1 * BLOCKS + q.block
    BY <1>5
  <2>. HIDE DEF P1, Q1
  <2>. QED BY <1>1, <1>2, <2>1, MixedRadix, Geometry
<1>7. p.chn = q.chn /\ p.chip = q.chip
  BY <1>1, <1>6, MixedRadix, Geometry
<1>. QED BY <1>5, <1>6, <1>7 DEF Ppa

LEMMA ImgPageType ==
  ASSUME NEW p \in Ppa
  PROVE  ImgPage(p.chn, p.chip, AddressCycle(p)) \in ImgPages
BY ImgPageIs, DigitsInImage DEF ImgPages

----------------------------------------------------------------------------
(* The waiting room.                                                       *)

\* The steps process_waiting_room_cmd takes on channel c of state s.
IsRun(run, s, c, m) ==
  run = [i \in 0 .. m |-> IF i = 0 THEN s ELSE ProcessFront(run[i - 1], c)]

LEMMA RunExists ==
  ASSUME NEW s, NEW c, NEW m \in Nat
  PROVE  \E run : IsRun(run, s, c, m)
<1>. DEFINE Bad == {i \in Nat : ~\E run : IsRun(run, s, c, i)}
<1>1. SUFFICES ASSUME Bad # {} PROVE FALSE
  OBVIOUS
<1>2. PICK i \in Bad : \A k \in Bad : i <= k
  BY <1>1, LeastElement
<1>3. CASE i = 0
  <2>. DEFINE r == [j \in 0 .. 0 |-> s]
  <2>1. IsRun(r, s, c, 0)
    BY DEF IsRun
  <2>. QED BY <2>1, <1>2, <1>3
<1>4. CASE i # 0
  <2>1. i - 1 \in Nat /\ i - 1 \notin Bad
    BY <1>2, <1>4
  <2>2. PICK r : IsRun(r, s, c, i - 1)
    BY <2>1
  <2>. DEFINE q == [j \in 0 .. i |-> IF j = i THEN ProcessFront(r[i - 1], c) ELSE r[j]]
  <2>3. ASSUME NEW j \in 0 .. i
        PROVE  q[j] = IF j = 0 THEN s ELSE ProcessFront(q[j - 1], c)
    <3>1. CASE j = i
      BY <3>1, <1>4, <2>1
    <3>2. CASE j # i
      <4>1. j \in 0 .. i - 1 /\ (j # 0 => j - 1 \in 0 .. i - 1 /\ j - 1 # i /\ j - 1 \in 0 .. i)
        BY <3>2, <2>1
      <4>2. r[j] = IF j = 0 THEN s ELSE ProcessFront(r[j - 1], c)
        BY <4>1, <2>2 DEF IsRun
      <4>. QED BY <4>1, <4>2, <3>2
    <3>. QED BY <3>1, <3>2
  <2>4. q = [j \in 0 .. i |-> IF j = 0 THEN s ELSE ProcessFront(q[j - 1], c)]
    BY <2>3
  <2>. HIDE DEF q
  <2>5. IsRun(q, s, c, i)
    BY <2>4 DEF IsRun
  <2>. QED BY <2>5, <1>2
<1>. QED BY <1>3, <1>4

\* ProcessRoom is the end of that run.
LEMMA ProcessRoomIs ==
  ASSUME NEW s, NEW c, Len(s.chn[c].room) \in Nat
  PROVE  \E run : /\ IsRun(run, s, c, Len(s.chn[c].room))
                  /\ ProcessRoom(s, c) = run[Len(s.chn[c].room)]
<1>. DEFINE m == Len(s.chn[c].room)
            r == CHOOSE run : run = [i \in 0 .. m |-> IF i = 0 THEN s ELSE ProcessFront(run[i - 1], c)]
<1>1. ProcessRoom(s, c) = r[m]
  BY DEF ProcessRoom
<1>2. \E run : run = [i \in 0 .. m |-> IF i = 0 THEN s ELSE ProcessFront(run[i - 1], c)]
  <2>1. \E run : IsRun(run, s, c, m)
    BY RunExists
  <2>. QED BY <2>1 DEF IsRun
<1>3. r = [i \in 0 .. m |-> IF i = 0 THEN s ELSE ProcessFront(r[i - 1], c)]
  BY <1>2
<1>. HIDE DEF r
<1>. QED BY <1>1, <1>3 DEF IsRun


LEMMA CtrlFields ==
  ASSUME NEW s \in Ctrl, NEW c \in Channel
  PROVE  /\ s.chn[c] \in NC_Channel /\ s.chip[c] \in [Chip -> NC_Chip]
         /\ s.current_chn \in Channel \cup {None} /\ s.toggle \in BOOLEAN
BY DEF Ctrl

\* A state with new values for channel c and for its chips.
Put(s, c, ch, cs) == [s EXCEPT !.chn = [s.chn EXCEPT ![c] = ch], !.chip = [s.chip EXCEPT ![c] = cs]]

LEMMA PutIs ==
  ASSUME NEW s \in Ctrl, NEW c \in Channel, NEW ch \in NC_Channel, NEW cs \in [Chip -> NC_Chip]
  PROVE  LET t == Put(s, c, ch, cs)
         IN /\ t \in Ctrl
            /\ t.chn[c] = ch /\ t.chip[c] = cs
            /\ t.current_chn = s.current_chn /\ t.toggle = s.toggle
            /\ \A x \in Channel \ {c} : t.chn[x] = s.chn[x] /\ t.chip[x] = s.chip[x]
BY DEF Ctrl, Put

\* uint8_t arithmetic. The bound has a name of its own, as the provers
\* would list the elements of a range between two literals.
LEMMA U8Range ==
  ASSUME NEW a
  PROVE  a \in U8 <=> a \in Int /\ 0 <= a /\ a <= 255
<1>. DEFINE m == 255
<1>1. U8 = 0 .. m
  BY DEF U8
<1>2. m \in Int /\ (\A x \in Int : x <= m <=> x <= 255)
  BY SMT
<1>. HIDE DEF m
<1>3. a \in 0 .. m <=> a \in Int /\ 0 <= a /\ a <= m
  BY <1>2, SMT
<1>. QED BY <1>1, <1>2, <1>3

LEMMA Wraps ==
  ASSUME NEW a \in Int
  PROVE  a % 256 \in U8
<1>. DEFINE r == a % 256
<1>1. r \in Int /\ 0 <= r /\ r <= 255
  OBVIOUS
<1>. HIDE DEF r
<1>2. r \in U8
  BY <1>1, U8Range
<1>. QED BY <1>2 DEF r

\* Two states of a channel with one state of the DMA.
SameDma(new, ch) ==
  /\ new.wait_dma = ch.wait_dma /\ new.read_dma = ch.read_dma /\ new.write_dma = ch.write_dma
  /\ new.ram_ptr = ch.ram_ptr /\ new.dma_chip = ch.dma_chip

\* Only channel c differs, and of its chips only k.
OnlyChip(t, s, c, k) ==
  /\ t \in Ctrl /\ t.current_chn = s.current_chn
  /\ \A x \in Channel \ {c} : t.chn[x] = s.chn[x] /\ t.chip[x] = s.chip[x]
  /\ \A x \in Chip \ {k} : t.chip[c][x] = s.chip[c][x]

\* What reading page a of chip k does.
AfterRead(t, s, c, k, a) ==
  /\ OnlyChip(t, s, c, k)
  /\ t.chip[c][k].busy /\ t.chip[c][k].events = s.chip[c][k].events + 1
  /\ t.chip[c][k].reg = image[ImgPage(c, k, a)]
  /\ t.chn[c].active = (s.chn[c].active + 1) % 256
  /\ t.chn[c].room = s.chn[c].room /\ t.chn[c].new_cmd = s.chn[c].new_cmd
  /\ SameDma(t.chn[c], s.chn[c])

\* What executing a command of channel c does.
LEMMA ReadIs ==
  ASSUME NEW s \in Ctrl, NEW c \in Channel, NEW cmd \in Command, cmd.chip \in Chip,
         image[ImgPage(c, cmd.chip, cmd.addr)] \in Data
  PROVE  AfterRead(DoRead(s, c, cmd), s, c, cmd.chip, cmd.addr)
<1>. DEFINE t == DoRead(s, c, cmd)
            k == cmd.chip
            ch == s.chn[c]
            cs == s.chip[c]
            cp == cs[k]
            d == image[ImgPage(c, k, cmd.addr)]
            newch == [ch EXCEPT !.active = (ch.active + 1) % 256]
            newcp == [cp EXCEPT !.busy = TRUE, !.addr = cmd.addr, !.events = cp.events + 1, !.reg = d]
            newcs == [cs EXCEPT ![k] = newcp]
<1>1. ch \in NC_Channel /\ cs \in [Chip -> NC_Chip] /\ cp \in NC_Chip
  BY CtrlFields
<1>2. newch \in NC_Channel
  <2>1. (ch.active + 1) % 256 \in U8
    <3>1. ch.active \in U8
      BY <1>1 DEF NC_Channel
    <3>. QED BY <3>1, Wraps, U8Range
  <2>. QED BY <1>1, <2>1 DEF NC_Channel
<1>3. newcp \in NC_Chip
  <2>1. d \in Data /\ cmd.addr \in Nat /\ cp.events + 1 \in Nat
    BY <1>1 DEF NC_Chip, Command
  <2>. HIDE DEF d, cp
  <2>. QED BY <1>1, <2>1 DEF NC_Chip
<1>4. t = Put(s, c, newch, newcs)
  BY DEF Ctrl, DoRead, Put
<1>5. newcs \in [Chip -> NC_Chip] /\ newcs[k] = newcp /\ \A x \in Chip \ {k} : newcs[x] = cs[x]
  <2>. HIDE DEF newcp
  <2>. QED BY <1>1, <1>3
<1>6. /\ newch.active = (ch.active + 1) % 256
      /\ newch.room = ch.room /\ newch.new_cmd = ch.new_cmd
      /\ newch.wait_dma = ch.wait_dma /\ newch.read_dma = ch.read_dma
      /\ newch.write_dma = ch.write_dma /\ newch.ram_ptr = ch.ram_ptr
      /\ newch.dma_chip = ch.dma_chip
  BY <1>1 DEF NC_Channel
<1>7. newcp.busy /\ newcp.events = cp.events + 1 /\ newcp.reg = d
  BY <1>1 DEF NC_Chip
<1>8. /\ t \in Ctrl /\ t.chn[c] = newch /\ t.chip[c] = newcs /\ t.current_chn = s.current_chn
      /\ \A x \in Channel \ {c} : t.chn[x] = s.chn[x] /\ t.chip[x] = s.chip[x]
  <2>. HIDE DEF newch, newcs, t
  <2>. QED BY <1>2, <1>4, <1>5, PutIs
<1>. HIDE DEF newch, newcp, newcs, t, d
<1>9. /\ t \in Ctrl /\ t.current_chn = s.current_chn
      /\ \A x \in Channel \ {c} : t.chn[x] = s.chn[x] /\ t.chip[x] = s.chip[x]
      /\ \A x \in Chip \ {k} : t.chip[c][x] = s.chip[c][x]
      /\ t.chip[c][k].busy /\ t.chip[c][k].events = s.chip[c][k].events + 1
      /\ t.chip[c][k].reg = d
      /\ t.chn[c].active = (ch.active + 1) % 256
      /\ t.chn[c].room = ch.room /\ t.chn[c].new_cmd = ch.new_cmd
      /\ t.chn[c].wait_dma = ch.wait_dma /\ t.chn[c].read_dma = ch.read_dma
      /\ t.chn[c].write_dma = ch.write_dma /\ t.chn[c].ram_ptr = ch.ram_ptr
      /\ t.chn[c].dma_chip = ch.dma_chip
  BY <1>5, <1>6, <1>7, <1>8
<1>. QED BY <1>9 DEF t, d, AfterRead, OnlyChip, SameDma

LEMMA ProgramIs ==
  ASSUME NEW s \in Ctrl, NEW c \in Channel, NEW cmd \in Command, cmd.chip \in Chip
  PROVE  LET cp == s.chip[c][cmd.chip]
             newcs == [s.chip[c] EXCEPT ![cmd.chip] = [cp EXCEPT !.addr = cmd.addr, !.pending = TRUE]]
         IN /\ StartProgram(s, c, cmd) = Put(s, c, s.chn[c], newcs)
            /\ newcs \in [Chip -> NC_Chip]
<1>. DEFINE cp == s.chip[c][cmd.chip]
            newcp == [cp EXCEPT !.addr = cmd.addr, !.pending = TRUE]
            newcs == [s.chip[c] EXCEPT ![cmd.chip] = newcp]
<1>1. s.chip[c] \in [Chip -> NC_Chip] /\ cp \in NC_Chip
  BY CtrlFields
<1>2. newcp \in NC_Chip
  BY <1>1 DEF NC_Chip, Command
<1>3. StartProgram(s, c, cmd) = Put(s, c, s.chn[c], newcs)
  BY DEF Ctrl, StartProgram, Put
<1>. QED BY <1>1, <1>2, <1>3

LEMMA RunDmaIs ==
  ASSUME NEW s \in Ctrl
  PROVE  LET t == RunDma(s)
         IN /\ t \in Ctrl /\ t.chn = s.chn /\ t.chip = s.chip
            /\ \/ t.current_chn = s.current_chn /\ \A x \in Channel : ~s.chn[x].wait_dma
               \/ t.current_chn \in Channel /\ s.chn[t.current_chn].wait_dma
<1>. DEFINE first == IF s.toggle THEN 0 ELSE 1
            cur == IF s.chn[first].wait_dma THEN first
                   ELSE IF s.chn[1 - first].wait_dma THEN 1 - first ELSE s.current_chn
<1>1. first \in Channel /\ 1 - first \in Channel /\ Channel = {first, 1 - first}
  BY DEF Channel
<1>2. s.current_chn \in Channel \cup {None}
  BY DEF Ctrl
<1>3. /\ cur \in Channel \cup {None}
      /\ \/ cur = s.current_chn /\ \A x \in Channel : ~s.chn[x].wait_dma
         \/ cur \in Channel /\ s.chn[cur].wait_dma
  BY <1>1, <1>2
<1>4. RunDma(s) = [s EXCEPT !.toggle = ~s.toggle, !.current_chn = cur]
  BY DEF RunDma
<1>. HIDE DEF cur, first
<1>5. /\ RunDma(s) \in Ctrl /\ RunDma(s).chn = s.chn /\ RunDma(s).chip = s.chip
      /\ RunDma(s).current_chn = cur
  BY <1>3, <1>4 DEF Ctrl
<1>. QED BY <1>3, <1>5

LEMMA StartDmaIs ==
  ASSUME NEW s \in Ctrl, NEW c \in Channel, NEW cmd \in Command
  PROVE  LET t == StartDma(s, c, cmd)
             ch == s.chn[c]
             newch == [ch EXCEPT !.active = (ch.active + 1) % 256, !.wait_dma = TRUE,
                             !.read_dma = ch.read_dma \/ cmd.op = "READ_DMA",
                             !.write_dma = ch.write_dma \/ cmd.op = "WRITE_DMA",
                             !.ram_ptr = cmd.ram_ptr, !.dma_chip = cmd.chip]
         IN /\ t \in Ctrl /\ newch \in NC_Channel
            /\ t.chn = [s.chn EXCEPT ![c] = newch] /\ t.chip = s.chip
            /\ t.current_chn \in Channel
            /\ t.current_chn = s.current_chn \/ t.chn[t.current_chn].wait_dma
<1>. DEFINE ch == s.chn[c]
            newch == [ch EXCEPT !.active = (ch.active + 1) % 256, !.wait_dma = TRUE,
                              !.read_dma = ch.read_dma \/ cmd.op = "READ_DMA",
                              !.write_dma = ch.write_dma \/ cmd.op = "WRITE_DMA",
                              !.ram_ptr = cmd.ram_ptr, !.dma_chip = cmd.chip]
            u == [s EXCEPT !.chn[c] = newch]
<1>1. StartDma(s, c, cmd) = ProcessDma(u)
  BY DEF StartDma
<1>2. ch \in NC_Channel
  BY CtrlFields
<1>3. newch.wait_dma
  BY <1>2 DEF NC_Channel
<1>4. newch \in NC_Channel
  <2>1. (ch.active + 1) % 256 \in U8
    <3>1. ch.active \in U8
      BY <1>2 DEF NC_Channel
    <3>. QED BY <3>1, Wraps, U8Range
  <2>. DEFINE a == (ch.active + 1) % 256
              rd == ch.read_dma \/ cmd.op = "READ_DMA"
              wd == ch.write_dma \/ cmd.op = "WRITE_DMA"
  <2>2. a \in U8 /\ rd \in BOOLEAN /\ wd \in BOOLEAN
    BY <2>1
  <2>3. cmd.ram_ptr \in Buf \cup {None} /\ cmd.chip \in Chip \cup {None}
    BY DEF Command
  <2>. HIDE DEF a, rd, wd, ch
  <2>4. [ch EXCEPT !.active = a, !.wait_dma = TRUE, !.read_dma = rd, !.write_dma = wd,
                   !.ram_ptr = cmd.ram_ptr, !.dma_chip = cmd.chip] \in NC_Channel
    BY <1>2, <2>2, <2>3 DEF NC_Channel
  <2>. QED BY <2>4 DEF a, rd, wd
<1>. HIDE DEF newch
<1>5. /\ u \in Ctrl /\ u.current_chn = s.current_chn /\ u.chip = s.chip
      /\ u.current_chn \in Channel \cup {None}
      /\ u.chn = [s.chn EXCEPT ![c] = newch] /\ u.chn[c] = newch
  BY <1>4 DEF Ctrl
<1>. HIDE DEF u
<1>6. CASE u.current_chn # None
  <2>1. StartDma(s, c, cmd) = u
    BY <1>1, <1>6 DEF ProcessDma
  <2>2. u.current_chn \in Channel
    BY <1>5, <1>6
  <2>. QED BY <2>1, <2>2, <1>4, <1>5 DEF newch
<1>7. CASE u.current_chn = None
  <2>1. StartDma(s, c, cmd) = RunDma(u)
    BY <1>1, <1>7 DEF ProcessDma
  <2>2. /\ RunDma(u) \in Ctrl /\ RunDma(u).chn = u.chn /\ RunDma(u).chip = u.chip
        /\ \/ \A x \in Channel : ~u.chn[x].wait_dma
           \/ RunDma(u).current_chn \in Channel /\ u.chn[RunDma(u).current_chn].wait_dma
    BY <1>5, RunDmaIs
  <2>3. RunDma(u).current_chn \in Channel /\ u.chn[RunDma(u).current_chn].wait_dma
    BY <2>2, <1>5, <1>3
  <2>. QED BY <2>1, <2>2, <2>3, <1>4, <1>5 DEF newch
<1>. QED BY <1>6, <1>7


\* The front command of a room and the page it is for.
LEMMA Front ==
  ASSUME NEW f \in Firmware, FwPart(f), NEW c \in Channel, NEW ch \in NC_Channel, NEW cs, NEW img,
         RoomPart(ch, cs, f, img, c), ch.room # <<>>
  PROVE  LET cmd == ch.room[1]
         IN /\ f.kind \in Kinds /\ cmd \in Command
            /\ \E p \in 1 .. Len(f.pages) :
                 /\ f.pages[p] \in Ppa /\ f.pages[p].chn = c /\ cmd.chip = f.pages[p].chip
                 /\ \/ /\ cmd = DataCmd(f, p) /\ Mine(f, c, p)
                       /\ ~ch.wait_dma /\ Primed(cs, f, img, c, p)
                    \/ /\ cmd = NandCmd(f, p)
                       /\ Len(ch.room) > 1 => ch.room[2].ram_ptr = p
                       /\ Len(ch.room) = 1 => Half(f, c) /\ p = At(f)
<1>. DEFINE cmd == ch.room[1]
<1>1. ch.room \in Seq(Command) /\ Len(ch.room) \in Nat /\ Len(ch.room) >= 1
  BY DEF NC_Channel
<1>2. cmd \in Command
  BY <1>1
<1>3. f.pages \in Seq(Ppa) /\ Len(f.pages) \in Nat
  BY DEF Firmware
<1>4. ASSUME NEW p \in 1 .. Len(f.pages) PROVE f.pages[p] \in Ppa /\ f.pages # <<>>
  BY <1>3
<1>5. f.pages # <<>> => f.kind \in Kinds
  BY DEF FwPart, Firmware, Kinds
<1>6. Cell(ch, cs, f, img, c, 1)
  BY <1>1 DEF RoomPart
<1>7. CASE cmd.ram_ptr # None
  <2>1. LET p == cmd.ram_ptr
        IN Mine(f, c, p) /\ cmd = DataCmd(f, p) /\ ~ch.wait_dma /\ Primed(cs, f, img, c, p)
    BY <1>6, <1>7 DEF Cell
  <2>2. cmd.ram_ptr \in 1 .. Len(f.pages) /\ f.pages[cmd.ram_ptr].chn = c
    BY <2>1 DEF Mine
  <2>3. cmd.chip = f.pages[cmd.ram_ptr].chip
    BY <2>1 DEF DataCmd
  <2>. QED BY <1>2, <1>4, <1>5, <2>1, <2>2, <2>3
<1>8. CASE cmd.ram_ptr = None /\ Len(ch.room) = 1
  <2>1. Half(f, c) /\ cmd = NandCmd(f, At(f))
    BY <1>6, <1>8 DEF Cell
  <2>2. At(f) \in 1 .. Len(f.pages) /\ f.pages[At(f)].chn = c
    <3>1. f.pc = "issue" /\ f.pages # <<>> /\ f.pages[At(f)].chn = c
      BY <2>1 DEF Half, On
    <3>2. f.k \in Nat /\ f.k < 6 * Len(f.pages)
      <4>1. f.k \in Nat
        BY DEF Firmware
      <4>. QED BY <3>1, <4>1 DEF FwPart
    <3>. QED BY <3>1, <3>2, <1>3 DEF At
  <2>3. cmd.chip = f.pages[At(f)].chip
    BY <2>1 DEF NandCmd
  <2>. QED BY <1>2, <1>4, <1>5, <1>8, <2>1, <2>2, <2>3
<1>9. CASE cmd.ram_ptr = None /\ Len(ch.room) > 1
  <2>. DEFINE p == ch.room[2].ram_ptr
  <2>1. p # None /\ Cell(ch, cs, f, img, c, 2)
    <3>1. 2 \in 1 .. Len(ch.room)
      BY <1>1, <1>9
    <3>2. Cell(ch, cs, f, img, c, 2)
      BY <3>1 DEF RoomPart
    <3>3. ch.room[1 + 1].ram_ptr # None
      BY <1>6, <1>9 DEF Cell
    <3>. QED BY <3>2, <3>3
  <2>2. Mine(f, c, p) /\ ch.room[2 - 1] = NandCmd(f, p)
    BY <2>1 DEF Cell
  <2>3. p \in 1 .. Len(f.pages) /\ f.pages[p].chn = c
    BY <2>2 DEF Mine
  <2>4. cmd = NandCmd(f, p) /\ cmd.chip = f.pages[p].chip
    BY <2>2 DEF NandCmd
  <2>. QED BY <1>2, <1>4, <1>5, <1>9, <2>3, <2>4
<1>10. Len(ch.room) = 1 \/ Len(ch.room) > 1
  <2>. DEFINE m == Len(ch.room)
  <2>1. m \in Nat /\ m >= 1
    BY <1>1
  <2>. HIDE DEF m
  <2>2. m = 1 \/ m > 1
    BY <2>1
  <2>. QED BY <2>2 DEF m
<1>. QED BY <1>7, <1>8, <1>9, <1>10

\* No more chips are busy than the operation has pages.
LEMMA TimedBound ==
  ASSUME NEW f \in Firmware, Len(f.pages) <= MAX_PAGES, NEW c, NEW cs, BusyPart(cs, f, c),
         \A k \in Chip : cs[k].events = (IF cs[k].busy THEN 1 ELSE 0)
  PROVE  /\ IsFiniteSet(Timed(cs)) /\ Cardinality(Timed(cs)) \in Nat
         /\ Cardinality(Timed(cs)) <= MAX_PAGES /\ Cardinality(Timed(cs)) < 255
<1>. DEFINE T == 1 .. Len(f.pages)
            g == [k \in Timed(cs) |-> CHOOSE p \in T : f.pages[p].chn = c /\ f.pages[p].chip = k]
<1>1. Len(f.pages) \in Nat
  BY DEF Firmware
<1>2. ASSUME NEW k \in Timed(cs)
      PROVE  g[k] \in T /\ f.pages[g[k]].chip = k
  <2>1. k \in Chip /\ cs[k].busy
    BY DEF Timed
  <2>2. \E p \in T : f.pages[p].chn = c /\ f.pages[p].chip = k
    BY <2>1 DEF BusyPart
  <2>. QED BY <2>2
<1>3. g \in Injection(Timed(cs), T)
  <2>. HIDE DEF T
  <2>1. g \in [Timed(cs) -> T]
    BY <1>2
  <2>2. \A a, b \in Timed(cs) : g[a] = g[b] => a = b
    BY <1>2
  <2>. HIDE DEF g
  <2>. QED BY <2>1, <2>2 DEF Injection, IsInjective
<1>4. IsFiniteSet(T) /\ Cardinality(T) = Len(f.pages)
  BY <1>1, FS_Interval, SMTT(40)
<1>5. IsFiniteSet(Timed(cs)) /\ Cardinality(Timed(cs)) <= Cardinality(T)
  <2>. HIDE DEF g, T
  <2>. QED BY <1>3, <1>4, FS_Injection
<1>6. Cardinality(Timed(cs)) \in Nat
  BY <1>5, FS_CardinalityType
<1>. QED BY <1>1, <1>4, <1>5, <1>6, LimitAssumption, CountAssumption


\* Pages a channel has the second command of.
Held(ch) == {i \in Buf : ch.ram_ptr = i \/ \E j \in DOMAIN ch.room : ch.room[j].ram_ptr = i}

LEMMA TailIs ==
  ASSUME NEW ch \in NC_Channel, ch.room # <<>>, NEW new, new = Tail(ch.room)
  PROVE  /\ new \in Seq(Command) /\ Len(ch.room) \in Nat /\ Len(ch.room) >= 1
         /\ Len(new) = Len(ch.room) - 1
         /\ DOMAIN new = 1 .. Len(ch.room) - 1 /\ DOMAIN ch.room = 1 .. Len(ch.room)
         /\ \A j \in 1 .. Len(ch.room) - 1 : new[j] = ch.room[j + 1]
         /\ new = <<>> <=> Len(ch.room) = 1
<1>. DEFINE q == ch.room  m == Len(q)
<1>1. q \in Seq(Command) /\ q # <<>>
  BY DEF NC_Channel
<1>. HIDE DEF q
<1>2. m \in Nat /\ m >= 1 /\ DOMAIN q = 1 .. m
  BY <1>1
<1>3. /\ Tail(q) \in Seq(Command) /\ Len(Tail(q)) = m - 1
      /\ \A j \in 1 .. m - 1 : Tail(q)[j] = q[j + 1]
  BY <1>1
<1>4. DOMAIN Tail(q) = 1 .. m - 1 /\ (Tail(q) = <<>> <=> Len(Tail(q)) = 0)
  <2>1. \A t \in Seq(Command) : DOMAIN t = 1 .. Len(t) /\ (t = <<>> <=> Len(t) = 0)
    OBVIOUS
  <2>. QED BY <1>3, <2>1
<1>5. Tail(q) = <<>> <=> m = 1
  BY <1>2, <1>3, <1>4
<1>. QED BY <1>1, <1>2, <1>3, <1>4, <1>5 DEF q

\* The first command in the room, one for chip k, is executed.
NandDone(new, ncs, ch, cs, k) ==
  /\ new.room = Tail(ch.room) /\ SameDma(new, ch)
  /\ \A x \in Chip \ {k} : ncs[x] = cs[x]
  /\ \/ ncs[k].busy = cs[k].busy /\ ncs[k].events = cs[k].events /\ new.active = ch.active
     \/ ncs[k].busy /\ ncs[k].events = 1 /\ new.active = (ch.active + 1) % 256

\* Page p of f waits with its first command in front of the room, chip k idle.
FrontReady(ch, cs, f, img, c, p, k) ==
  /\ f \in Firmware /\ FwPart(f) /\ c \in Channel /\ ch \in NC_Channel /\ cs \in [Chip -> NC_Chip]
  /\ ChnInv(ch, cs, f, img, c) /\ ch.room # <<>> /\ ~ch.wait_dma
  /\ p \in 1 .. Len(f.pages) /\ f.pages[p].chn = c /\ ch.room[1] = NandCmd(f, p)
  /\ Len(ch.room) > 1 => ch.room[2].ram_ptr = p
  /\ Len(ch.room) = 1 => Half(f, c) /\ p = At(f)
  /\ k \in Chip /\ k = f.pages[p].chip /\ ~cs[k].busy

\* The front command, the first one of page p, is executed.
LEMMA RoomAfterNand ==
  ASSUME NEW f, NEW c, NEW img, NEW ch, NEW cs, NEW p, NEW k, NEW new, NEW ncs,
         FrontReady(ch, cs, f, img, c, p, k), NandDone(new, ncs, ch, cs, k), Primed(ncs, f, img, c, p)
  PROVE  RoomPart(new, ncs, f, img, c) /\ Held(new) = Held(ch)
<1>. SUFFICES ASSUME f \in Firmware, FwPart(f), c \in Channel, ch \in NC_Channel,
                     RoomPart(ch, cs, f, img, c), ch.room # <<>>, ~ch.wait_dma,
                     p \in 1 .. Len(f.pages), ch.room[1] = NandCmd(f, p),
                     Len(ch.room) > 1 => ch.room[2].ram_ptr = p,
                     Len(ch.room) = 1 => Half(f, c) /\ p = At(f),
                     ~new.wait_dma, new.ram_ptr = ch.ram_ptr, new.room = Tail(ch.room)
              PROVE  RoomPart(new, ncs, f, img, c) /\ Held(new) = Held(ch)
  BY DEF FrontReady, NandDone, SameDma, ChnInv
<1>. DEFINE m == Len(ch.room)
<1>1. /\ m \in Nat /\ m >= 1 /\ Len(new.room) = m - 1 /\ (new.room = <<>> <=> m = 1)
      /\ \A j \in 1 .. m - 1 : new.room[j] = ch.room[j + 1]
      /\ DOMAIN new.room = 1 .. m - 1 /\ DOMAIN ch.room = 1 .. m
  BY TailIs
<1>2. ch.room[1].ram_ptr = None
  BY DEF NandCmd
<1>. HIDE DEF m
<1>3. ASSUME NEW j \in 1 .. m - 1 PROVE Cell(new, ncs, f, img, c, j)
  <2>1. j + 1 \in 1 .. m /\ new.room[j] = ch.room[j + 1] /\ j \in Int
    BY <1>1
  <2>2. Cell(ch, cs, f, img, c, j + 1)
    BY <2>1 DEF RoomPart, m
  <2>. DEFINE q == ch.room[j + 1].ram_ptr
  <2>3. CASE q = None
    <3>1. j < m - 1 => new.room[j + 1].ram_ptr # None
      <4>1. SUFFICES ASSUME j < m - 1 PROVE new.room[j + 1].ram_ptr # None
        OBVIOUS
      <4>2. j + 1 < m /\ new.room[j + 1] = ch.room[j + 1 + 1]
        BY <4>1, <1>1, <2>1
      <4>. QED BY <4>2, <2>2, <2>3 DEF Cell, m
    <3>2. j = m - 1 => Half(f, c) /\ new.room[j] = NandCmd(f, At(f))
      <4>1. j = m - 1 => j + 1 = m
        BY <1>1
      <4>. QED BY <4>1, <2>1, <2>2, <2>3 DEF Cell, m
    <3>. QED BY <1>1, <2>1, <2>3, <3>1, <3>2 DEF Cell
  <2>4. CASE q # None
    <3>1. Mine(f, c, q) /\ ch.room[j + 1] = DataCmd(f, q) /\ ch.room[j] = NandCmd(f, q)
      <4>1. j + 1 > 1 /\ (j + 1) - 1 = j
        BY <2>1
      <4>. QED BY <4>1, <2>2, <2>4 DEF Cell
    <3>2. j > 1 => new.room[j - 1] = NandCmd(f, q)
      <4>1. j > 1 => j - 1 \in 1 .. m - 1 /\ (j - 1) + 1 = j
        BY <1>1
      <4>. QED BY <3>1, <4>1, <1>1
    <3>3. j = 1 => Primed(ncs, f, img, c, q)
      <4>1. SUFFICES ASSUME j = 1 PROVE q = p
        OBVIOUS
      <4>. QED BY <4>1, <2>1, <1>1 DEF m
    <3>. QED BY <2>1, <2>4, <3>1, <3>2, <3>3 DEF Cell
  <2>. QED BY <2>3, <2>4
<1>4. ASSUME NEW j \in 1 .. m - 1, NEW l \in 1 .. m - 1, j < l,
             new.room[j].ram_ptr # None, new.room[l].ram_ptr # None
      PROVE  new.room[j].ram_ptr < new.room[l].ram_ptr
  <2>1. j + 1 \in 1 .. m /\ l + 1 \in 1 .. m /\ j + 1 < l + 1
    BY <1>1, <1>4
  <2>2. new.room[j] = ch.room[j + 1] /\ new.room[l] = ch.room[l + 1]
    BY <1>1
  <2>. QED BY <2>1, <2>2, <1>4 DEF RoomPart, m
<1>5. Half(f, c) => IF new.room = <<>> THEN ~new.wait_dma /\ Primed(ncs, f, img, c, At(f))
                    ELSE new.room[Len(new.room)].ram_ptr = None
  <2>1. SUFFICES ASSUME Half(f, c)
        PROVE  IF new.room = <<>> THEN Primed(ncs, f, img, c, At(f))
               ELSE new.room[Len(new.room)].ram_ptr = None
    OBVIOUS
  <2>2. CASE m = 1
    BY <2>2, <1>1 DEF m
  <2>3. CASE m # 1
    <3>1. ch.room[m].ram_ptr = None
      BY <2>1 DEF RoomPart, m
    <3>2. m - 1 \in 1 .. m - 1 /\ (m - 1) + 1 = m /\ new.room # <<>>
      BY <2>3, <1>1
    <3>. QED BY <3>1, <3>2, <1>1
  <2>. QED BY <2>2, <2>3
<1>6. Len(new.room) <= Sent(f)
  <2>1. m <= Sent(f) /\ Sent(f) \in Int
    <3>1. f.k \in Nat
      BY DEF Firmware
    <3>. QED BY <3>1 DEF RoomPart, Sent, m
  <2>. QED BY <2>1, <1>1
<1>7. RoomPart(new, ncs, f, img, c)
  BY <1>1, <1>3, <1>4, <1>5, <1>6 DEF RoomPart
<1>8. Held(new) = Held(ch)
  <2>1. ASSUME NEW i \in Buf
        PROVE  (\E j \in DOMAIN new.room : new.room[j].ram_ptr = i)
                 <=> (\E j \in DOMAIN ch.room : ch.room[j].ram_ptr = i)
    <3>1. ASSUME NEW j \in DOMAIN new.room, new.room[j].ram_ptr = i
          PROVE  \E l \in DOMAIN ch.room : ch.room[l].ram_ptr = i
      <4>1. j + 1 \in DOMAIN ch.room /\ ch.room[j + 1].ram_ptr = i
        BY <3>1, <1>1
      <4>. QED BY <4>1
    <3>2. ASSUME NEW l \in DOMAIN ch.room, ch.room[l].ram_ptr = i
          PROVE  \E j \in DOMAIN new.room : new.room[j].ram_ptr = i
      <4>1. i # None
        BY DEF Buf, None
      <4>2. l # 1
        BY <3>2, <4>1, <1>2
      <4>3. l - 1 \in DOMAIN new.room /\ new.room[l - 1] = ch.room[l - 1 + 1] /\ l - 1 + 1 = l
        BY <4>2, <1>1, SMTT(40)
      <4>. QED BY <4>3, <3>2
    <3>. QED BY <3>1, <3>2
  <2>. QED BY <2>1 DEF Held
<1>. QED BY <1>7, <1>8

\* The front command, the second one of page p, is executed.
LEMMA RoomAfterData ==
  ASSUME NEW f \in Firmware, FwPart(f), NEW c \in Channel, NEW ch \in NC_Channel, NEW cs, NEW img,
         RoomPart(ch, cs, f, img, c), ch.room # <<>>, ~ch.wait_dma, ch.ram_ptr = None,
         NEW p \in 1 .. Len(f.pages), ch.room[1] = DataCmd(f, p),
         NEW new, new.wait_dma, new.ram_ptr = p, new.room = Tail(ch.room)
  PROVE  RoomPart(new, cs, f, img, c) /\ Held(new) = Held(ch)
<1>. DEFINE m == Len(ch.room)
<1>1. /\ m \in Nat /\ m >= 1 /\ Len(new.room) = m - 1 /\ (new.room = <<>> <=> m = 1)
      /\ \A j \in 1 .. m - 1 : new.room[j] = ch.room[j + 1]
      /\ DOMAIN new.room = 1 .. m - 1 /\ DOMAIN ch.room = 1 .. m
  BY TailIs
<1>2. ch.room[1].ram_ptr = p /\ p # None /\ p \in Nat
  <2>1. p \in Nat /\ p >= 1
    BY DEF Firmware
  <2>. QED BY <2>1 DEF DataCmd, None
<1>. HIDE DEF m
<1>3. ASSUME NEW j \in 1 .. m - 1 PROVE Cell(new, cs, f, img, c, j)
  <2>1. j + 1 \in 1 .. m /\ new.room[j] = ch.room[j + 1] /\ j \in Int
    BY <1>1
  <2>2. Cell(ch, cs, f, img, c, j + 1)
    BY <2>1 DEF RoomPart, m
  <2>. DEFINE q == ch.room[j + 1].ram_ptr
  <2>3. CASE q = None
    <3>1. j < m - 1 => new.room[j + 1].ram_ptr # None
      <4>1. SUFFICES ASSUME j < m - 1 PROVE new.room[j + 1].ram_ptr # None
        OBVIOUS
      <4>2. j + 1 < m /\ new.room[j + 1] = ch.room[j + 1 + 1]
        BY <4>1, <1>1, <2>1
      <4>. QED BY <4>2, <2>2, <2>3 DEF Cell, m
    <3>2. j = m - 1 => Half(f, c) /\ new.room[j] = NandCmd(f, At(f))
      <4>1. j = m - 1 => j + 1 = m
        BY <1>1
      <4>. QED BY <4>1, <2>1, <2>2, <2>3 DEF Cell, m
    <3>. QED BY <1>1, <2>1, <2>3, <3>1, <3>2 DEF Cell
  <2>4. CASE q # None
    <3>1. Mine(f, c, q) /\ ch.room[j + 1] = DataCmd(f, q) /\ ch.room[j] = NandCmd(f, q)
      <4>1. j + 1 > 1 /\ (j + 1) - 1 = j
        BY <2>1
      <4>. QED BY <4>1, <2>2, <2>4 DEF Cell
    <3>2. j > 1 => new.room[j - 1] = NandCmd(f, q)
      <4>1. j > 1 => j - 1 \in 1 .. m - 1 /\ (j - 1) + 1 = j
        BY <1>1
      <4>. QED BY <3>1, <4>1, <1>1
    <3>3. j # 1
      <4>1. NandCmd(f, q).ram_ptr = None
        BY DEF NandCmd
      <4>. QED BY <4>1, <3>1, <1>2
    <3>. QED BY <2>1, <2>4, <3>1, <3>2, <3>3 DEF Cell
  <2>. QED BY <2>3, <2>4
<1>4. ASSUME NEW j \in 1 .. m - 1, NEW l \in 1 .. m - 1, j < l,
             new.room[j].ram_ptr # None, new.room[l].ram_ptr # None
      PROVE  new.room[j].ram_ptr < new.room[l].ram_ptr
  <2>1. j + 1 \in 1 .. m /\ l + 1 \in 1 .. m /\ j + 1 < l + 1
    BY <1>1, <1>4
  <2>2. new.room[j] = ch.room[j + 1] /\ new.room[l] = ch.room[l + 1]
    BY <1>1
  <2>. QED BY <2>1, <2>2, <1>4 DEF RoomPart, m
<1>5. ASSUME NEW j \in 1 .. m - 1, new.room[j].ram_ptr # None
      PROVE  new.ram_ptr < new.room[j].ram_ptr
  <2>1. 1 \in 1 .. m /\ j + 1 \in 1 .. m /\ 1 < j + 1 /\ new.room[j] = ch.room[j + 1]
    BY <1>1
  <2>. QED BY <2>1, <1>2, <1>5 DEF RoomPart, m
<1>6. Half(f, c) => new.room # <<>> /\ new.room[Len(new.room)].ram_ptr = None
  <2>1. SUFFICES ASSUME Half(f, c) PROVE new.room # <<>> /\ new.room[Len(new.room)].ram_ptr = None
    OBVIOUS
  <2>2. ch.room[m].ram_ptr = None
    BY <2>1 DEF RoomPart, m
  <2>3. m # 1
    BY <2>2, <1>2
  <2>4. m - 1 \in 1 .. m - 1 /\ (m - 1) + 1 = m
    BY <2>3, <1>1
  <2>. QED BY <2>2, <2>3, <2>4, <1>1
<1>7. Len(new.room) <= Sent(f)
  <2>1. m <= Sent(f) /\ Sent(f) \in Int
    <3>1. f.k \in Nat
      BY DEF Firmware
    <3>. QED BY <3>1 DEF RoomPart, Sent, m
  <2>. QED BY <2>1, <1>1
<1>8. RoomPart(new, cs, f, img, c)
  BY <1>1, <1>3, <1>4, <1>5, <1>6, <1>7 DEF RoomPart
<1>9. Held(new) = Held(ch)
  <2>1. ASSUME NEW i \in Buf
        PROVE  (new.ram_ptr = i \/ \E j \in DOMAIN new.room : new.room[j].ram_ptr = i)
                 <=> (\E j \in DOMAIN ch.room : ch.room[j].ram_ptr = i)
    <3>1. ASSUME NEW j \in DOMAIN new.room, new.room[j].ram_ptr = i
          PROVE  \E l \in DOMAIN ch.room : ch.room[l].ram_ptr = i
      <4>1. j + 1 \in DOMAIN ch.room /\ ch.room[j + 1].ram_ptr = i
        BY <3>1, <1>1
      <4>. QED BY <4>1
    <3>2. ASSUME NEW l \in DOMAIN ch.room, ch.room[l].ram_ptr = i
          PROVE  new.ram_ptr = i \/ \E j \in DOMAIN new.room : new.room[j].ram_ptr = i
      <4>1. CASE l = 1
        BY <4>1, <3>2, <1>2
      <4>2. CASE l # 1
        <5>1. l - 1 \in DOMAIN new.room /\ new.room[l - 1] = ch.room[l - 1 + 1] /\ l - 1 + 1 = l
          BY <4>2, <1>1
        <5>. QED BY <5>1, <3>2
      <4>. QED BY <4>1, <4>2
    <3>3. ASSUME new.ram_ptr = i
          PROVE  \E l \in DOMAIN ch.room : ch.room[l].ram_ptr = i
      <4>1. 1 \in DOMAIN ch.room /\ ch.room[1].ram_ptr = i
        BY <3>3, <1>1, <1>2
      <4>. QED BY <4>1
    <3>. QED BY <3>1, <3>2, <3>3
  <2>2. \A i \in Buf : ch.ram_ptr # i
    BY DEF Buf, None
  <2>. QED BY <2>1, <2>2 DEF Held
<1>. QED BY <1>8, <1>9


\* What is true of a state between two commands: channel c fits the firmware's
\* state, and the rest is as in state s.
Fits(t, s, f, img, c) ==
  /\ t \in Ctrl
  /\ \A x \in Channel \ {c} : t.chn[x] = s.chn[x] /\ t.chip[x] = s.chip[x]
  /\ t.chn[c].new_cmd = s.chn[c].new_cmd
  /\ ChnInv(t.chn[c], t.chip[c], f, img, c)
  /\ Engine(t)
  /\ Held(t.chn[c]) = Held(s.chn[c])

\* The first command of page p is executed: channel c goes from ch, cs to new, ncs.
LEMMA ChnAfterNand ==
  ASSUME NEW f, NEW c, NEW img, NEW ch, NEW cs, NEW p, NEW k, NEW new, NEW ncs,
         FrontReady(ch, cs, f, img, c, p, k), NandDone(new, ncs, ch, cs, k), Primed(ncs, f, img, c, p)
  PROVE  ChnInv(new, ncs, f, img, c) /\ Held(new) = Held(ch)
<1>. SUFFICES ASSUME f \in Firmware, FwPart(f), c \in Channel,
                     ch \in NC_Channel, cs \in [Chip -> NC_Chip], ChnInv(ch, cs, f, img, c),
                     ch.room # <<>>, ~ch.wait_dma,
                     p \in 1 .. Len(f.pages), f.pages[p].chn = c, ch.room[1] = NandCmd(f, p),
                     Len(ch.room) > 1 => ch.room[2].ram_ptr = p,
                     Len(ch.room) = 1 => Half(f, c) /\ p = At(f),
                     k \in Chip, k = f.pages[p].chip, ~cs[k].busy
              PROVE  ChnInv(new, ncs, f, img, c) /\ Held(new) = Held(ch)
  BY DEF FrontReady
<1>1. /\ DmaPart(ch, cs, f, img, c) /\ RoomPart(ch, cs, f, img, c)
      /\ CountPart(ch, cs) /\ BusyPart(cs, f, c)
  BY DEF ChnInv
<1>0. /\ new.room = Tail(ch.room) /\ ~new.wait_dma /\ new.ram_ptr = ch.ram_ptr
      /\ SameDma(new, ch)
      /\ \A x \in Chip \ {k} : ncs[x] = cs[x]
      /\ \/ ncs[k].busy = cs[k].busy /\ ncs[k].events = cs[k].events /\ new.active = ch.active
         \/ ncs[k].busy /\ ncs[k].events = 1 /\ new.active = (ch.active + 1) % 256
  BY DEF NandDone, SameDma
<1>2. RoomPart(new, ncs, f, img, c) /\ Held(new) = Held(ch)
  BY RoomAfterNand
<1>3. DmaPart(new, ncs, f, img, c)
  <2>1. /\ ch.ram_ptr = None /\ ch.dma_chip = None /\ ~ch.read_dma /\ ~ch.write_dma
    BY <1>1 DEF DmaPart
  <2>2. /\ new.ram_ptr = None /\ new.dma_chip = None /\ ~new.read_dma /\ ~new.write_dma
    BY <1>0, <2>1 DEF SameDma
  <2>. QED BY <1>0, <2>2 DEF DmaPart
<1>4. BusyPart(ncs, f, c)
  BY <1>0, <1>1 DEF BusyPart
<1>5. \A x \in Chip : ncs[x].events = (IF ncs[x].busy THEN 1 ELSE 0)
  BY <1>0, <1>1 DEF CountPart
<1>6. Len(f.pages) <= MAX_PAGES
  BY DEF FwPart
<1>7. /\ IsFiniteSet(Timed(cs)) /\ Cardinality(Timed(cs)) \in Nat
      /\ Cardinality(Timed(ncs)) \in Nat /\ Cardinality(Timed(ncs)) < 255
  BY <1>1, <1>4, <1>5, <1>6, TimedBound DEF CountPart
<1>8. ch.active = Cardinality(Timed(cs))
  BY <1>1, <1>7 DEF CountPart
<1>9. cs[k].events = 0
  BY <1>1 DEF CountPart
<1>10. new.active = Cardinality(Timed(ncs))
  <2>1. CASE ncs[k].busy = cs[k].busy /\ ncs[k].events = cs[k].events /\ new.active = ch.active
    <3>1. Timed(ncs) = Timed(cs)
      BY <1>0, <2>1 DEF Timed
    <3>. QED BY <3>1, <2>1, <1>8
  <2>2. CASE ncs[k].busy /\ ncs[k].events = 1 /\ new.active = (ch.active + 1) % 256
    <3>1. Timed(ncs) = Timed(cs) \cup {k} /\ k \notin Timed(cs)
      <4>1. ncs[k].events > 0 /\ ~(cs[k].events > 0)
        BY <2>2, <1>9
      <4>. QED BY <1>0, <4>1 DEF Timed
    <3>2. Cardinality(Timed(ncs)) = Cardinality(Timed(cs)) + 1
      <4>1. \A T, y : IsFiniteSet(T) /\ y \notin T => Cardinality(T \cup {y}) = Cardinality(T) + 1
        BY FS_AddElement
      <4>. QED BY <3>1, <1>7, <4>1, Zenon
    <3>. QED BY <3>2, <2>2, <1>7, <1>8
  <2>. QED BY <1>0, <2>1, <2>2
<1>11. CountPart(new, ncs)
  BY <1>0, <1>5, <1>7, <1>10 DEF CountPart
<1>. QED BY <1>2, <1>3, <1>4, <1>11 DEF ChnInv

\* The second command of page p is executed.
DataDone(new, ch, f, p) ==
  /\ new.room = Tail(ch.room) /\ new.wait_dma
  /\ new.ram_ptr = p /\ new.dma_chip = f.pages[p].chip
  /\ new.read_dma = (f.kind = "PROGRAM") /\ new.write_dma = (f.kind = "READ")
  /\ new.active = (ch.active + 1) % 256

LEMMA ChnAfterData ==
  ASSUME NEW f \in Firmware, FwPart(f), NEW c \in Channel, NEW img,
         NEW ch \in NC_Channel, NEW cs \in [Chip -> NC_Chip], ChnInv(ch, cs, f, img, c),
         ch.room # <<>>, ~ch.wait_dma,
         NEW p \in 1 .. Len(f.pages), Mine(f, c, p), ch.room[1] = DataCmd(f, p),
         NEW k \in Chip, k = f.pages[p].chip, ~cs[k].busy, Primed(cs, f, img, c, p),
         NEW new, DataDone(new, ch, f, p)
  PROVE  ChnInv(new, cs, f, img, c) /\ Held(new) = Held(ch)
<1>1. /\ DmaPart(ch, cs, f, img, c) /\ RoomPart(ch, cs, f, img, c)
      /\ CountPart(ch, cs) /\ BusyPart(cs, f, c)
  BY DEF ChnInv
<1>2. ch.ram_ptr = None
  BY <1>1 DEF DmaPart
<1>3. RoomPart(new, cs, f, img, c) /\ Held(new) = Held(ch)
  BY <1>1, <1>2, RoomAfterData DEF DataDone
<1>4. DmaPart(new, cs, f, img, c)
  BY <1>1 DEF DmaPart, DataDone
<1>5. Len(f.pages) <= MAX_PAGES
  BY DEF FwPart
<1>6. Cardinality(Timed(cs)) \in Nat /\ Cardinality(Timed(cs)) < 255
  BY <1>1, <1>5, TimedBound DEF CountPart
<1>7. ch.active = Cardinality(Timed(cs))
  BY <1>1, <1>6 DEF CountPart
<1>8. new.active = Cardinality(Timed(cs)) + 1
  BY <1>6, <1>7 DEF DataDone
<1>9. CountPart(new, cs)
  BY <1>1, <1>8 DEF CountPart, DataDone
<1>. QED BY <1>1, <1>3, <1>4, <1>9 DEF ChnInv

\* The front command is taken away.
AfterRemoval(u, t, c) ==
  /\ u \in Ctrl /\ u.chip = t.chip /\ u.current_chn = t.current_chn
  /\ \A x \in Channel \ {c} : u.chn[x] = t.chn[x]
  /\ u.chn[c].room = Tail(t.chn[c].room) /\ u.chn[c].new_cmd = t.chn[c].new_cmd
  /\ u.chn[c].active = t.chn[c].active /\ SameDma(u.chn[c], t.chn[c])

LEMMA Removed ==
  ASSUME NEW t \in Ctrl, NEW c \in Channel, t.chn[c].room # <<>>
  PROVE  AfterRemoval([t EXCEPT !.chn[c].room = Tail(@)], t, c)
<1>. DEFINE ch == t.chn[c]
            fin == [ch EXCEPT !.room = Tail(ch.room)]
            u == [t EXCEPT !.chn[c].room = Tail(@)]
<1>1. ch \in NC_Channel
  BY CtrlFields
<1>2. Tail(ch.room) \in Seq(Command)
  BY <1>1 DEF NC_Channel
<1>3. u = [t EXCEPT !.chn = [t.chn EXCEPT ![c] = fin]]
  BY DEF Ctrl
<1>4. fin \in NC_Channel
  BY <1>1, <1>2 DEF NC_Channel
<1>5. /\ fin.room = Tail(ch.room) /\ fin.new_cmd = ch.new_cmd /\ fin.active = ch.active
      /\ fin.wait_dma = ch.wait_dma /\ fin.read_dma = ch.read_dma
      /\ fin.write_dma = ch.write_dma /\ fin.ram_ptr = ch.ram_ptr /\ fin.dma_chip = ch.dma_chip
  BY <1>1 DEF NC_Channel
<1>. HIDE DEF fin, u
<1>6. /\ u \in Ctrl /\ u.chip = t.chip /\ u.current_chn = t.current_chn /\ u.chn[c] = fin
      /\ \A x \in Channel \ {c} : u.chn[x] = t.chn[x]
  BY <1>3, <1>4 DEF Ctrl
<1>7. AfterRemoval(u, t, c)
  BY <1>5, <1>6 DEF AfterRemoval, SameDma
<1>. QED BY <1>7 DEF u

\* Executing the front command of a room keeps that, and takes it away.
LEMMA ExecNand ==
  ASSUME NEW s \in Ctrl, NEW c \in Channel, NEW f \in Firmware, FwPart(f), NEW img,
         img \in [ImgPages -> Data], f.kind = "READ" => img = image,
         ChnInv(s.chn[c], s.chip[c], f, img, c), Engine(s),
         s.chn[c].room # <<>>, ~s.chn[c].wait_dma, ~s.chip[c][s.chn[c].room[1].chip].busy,
         NEW p \in 1 .. Len(f.pages), f.pages[p] \in Ppa, f.pages[p].chn = c, f.kind \in Kinds,
         s.chn[c].room[1] = NandCmd(f, p),
         Len(s.chn[c].room) > 1 => s.chn[c].room[2].ram_ptr = p,
         Len(s.chn[c].room) = 1 => Half(f, c) /\ p = At(f)
  PROVE  /\ Fits(ExecFront(s, c), s, f, img, c)
         /\ ExecFront(s, c).chn[c].room = Tail(s.chn[c].room)
<1>. DEFINE cmd == NandCmd(f, p)
            t == IF f.kind = "READ" THEN DoRead(s, c, cmd) ELSE StartProgram(s, c, cmd)
            u == [t EXCEPT !.chn[c].room = Tail(@)]
<1>1. PICK ch, cs : ch = s.chn[c] /\ cs = s.chip[c]
  OBVIOUS
<1>2. PICK k, a : k = f.pages[p].chip /\ a = AddressCycle(f.pages[p])
  OBVIOUS
<1>3. k \in Chip /\ a \in Nat
  BY <1>2, RowOf DEF Ppa
<1>4. /\ ch \in NC_Channel /\ cs \in [Chip -> NC_Chip] /\ cs[k] \in NC_Chip
      /\ ch.room \in Seq(Command) /\ ch.room # <<>>
  BY <1>1, <1>3, CtrlFields DEF NC_Channel
<1>5. /\ cmd \in Command /\ cmd.chip = k /\ cmd.addr = a /\ cmd.op = CmdPhaseOp(f.kind)
  <2>1. cmd = [op |-> CmdPhaseOp(f.kind), chip |-> k, addr |-> a, ram_ptr |-> None]
    BY <1>2 DEF NandCmd
  <2>. HIDE DEF cmd
  <2>. QED BY <1>3, <2>1 DEF Command, CmdPhaseOp
<1>6. Head(ch.room) = cmd /\ ~cs[k].busy
  BY <1>1, <1>2, <1>4, <1>5
<1>7. ExecFront(s, c) = u
  BY <1>1, <1>5, <1>6 DEF ExecFront, CmdPhaseOp, Kinds
<1>8. cs[k].events = 0
  BY <1>1, <1>3, <1>6 DEF ChnInv, CountPart
<1>9. /\ OnlyChip(t, s, c, k)
      /\ t.chn[c].room = ch.room /\ t.chn[c].new_cmd = ch.new_cmd /\ SameDma(t.chn[c], ch)
      /\ Primed(t.chip[c], f, img, c, p)
      /\ \/ /\ t.chip[c][k].busy = cs[k].busy /\ t.chip[c][k].events = cs[k].events
            /\ t.chn[c].active = ch.active
         \/ /\ t.chip[c][k].busy /\ t.chip[c][k].events = 1
            /\ t.chn[c].active = (ch.active + 1) % 256
  <2>1. CASE f.kind = "READ"
    <3>. DEFINE d == image[ImgPage(c, k, a)]
    <3>1. d \in Data /\ d = img[ImgPage(c, k, a)]
      <4>1. ImgPage(c, k, a) \in ImgPages
        BY <1>2, ImgPageType
      <4>. QED BY <4>1, <2>1
    <3>2. t = DoRead(s, c, cmd)
      BY <2>1
    <3>. HIDE DEF cmd, t
    <3>3. cmd \in Command /\ cmd.chip \in Chip /\ image[ImgPage(c, cmd.chip, cmd.addr)] \in Data
      BY <1>3, <1>5, <3>1
    <3>4. AfterRead(t, s, c, k, a)
      <4>1. AfterRead(DoRead(s, c, cmd), s, c, cmd.chip, cmd.addr)
        BY <3>3, ReadIs
      <4>. QED BY <4>1, <3>2, <1>5
    <3>5. t.chip[c][k].busy /\ t.chip[c][k].events = 1 /\ t.chip[c][k].reg = d
      BY <1>1, <1>8, <3>4 DEF AfterRead
    <3>. HIDE DEF d
    <3>6. Primed(t.chip[c], f, img, c, p)
      BY <2>1, <1>2, <3>1, <3>5 DEF Primed
    <3>. QED BY <1>1, <3>4, <3>5, <3>6 DEF AfterRead
  <2>2. CASE f.kind = "PROGRAM"
    <3>. DEFINE newcp == [cs[k] EXCEPT !.addr = a, !.pending = TRUE]
                newcs == [cs EXCEPT ![k] = newcp]
    <3>1. t = StartProgram(s, c, cmd)
      BY <2>2
    <3>. HIDE DEF cmd, t
    <3>2. t = Put(s, c, ch, newcs) /\ newcs \in [Chip -> NC_Chip]
      BY <1>1, <1>3, <1>5, <3>1, ProgramIs
    <3>3. newcs[k] = newcp /\ \A x \in Chip \ {k} : newcs[x] = cs[x]
      BY <1>3, <1>4
    <3>4. /\ newcp.busy = cs[k].busy /\ newcp.events = cs[k].events
          /\ newcp.pending /\ newcp.addr = a
      BY <1>4 DEF NC_Chip
    <3>. HIDE DEF newcp, newcs
    <3>5. Primed(newcs, f, img, c, p)
      BY <2>2, <1>2, <3>3, <3>4 DEF Primed
    <3>6. /\ t \in Ctrl /\ t.chn[c] = ch /\ t.chip[c] = newcs /\ t.current_chn = s.current_chn
          /\ \A x \in Channel \ {c} : t.chn[x] = s.chn[x] /\ t.chip[x] = s.chip[x]
      BY <1>4, <3>2, PutIs
    <3>7. OnlyChip(t, s, c, k) /\ SameDma(t.chn[c], ch)
      BY <1>1, <3>3, <3>6 DEF OnlyChip, SameDma
    <3>. QED BY <3>3, <3>4, <3>5, <3>6, <3>7
  <2>. QED BY <2>1, <2>2 DEF Kinds
<1>. HIDE DEF t
<1>10. AfterRemoval(u, t, c)
  BY <1>4, <1>9, Removed DEF OnlyChip
<1>. HIDE DEF u, cmd
<1>11. /\ \A x \in Channel \ {c} : u.chn[x] = s.chn[x] /\ u.chip[x] = s.chip[x]
       /\ u.chn[c].new_cmd = ch.new_cmd /\ u.chn[c].room = Tail(ch.room)
       /\ u \in Ctrl /\ u.current_chn = s.current_chn /\ SameDma(u.chn[c], ch)
       /\ \A x \in Chip \ {k} : u.chip[c][x] = cs[x]
       /\ u.chip[c] = t.chip[c] /\ u.chn[c].active = t.chn[c].active
  BY <1>1, <1>9, <1>10 DEF OnlyChip, AfterRemoval, SameDma
<1>12. ChnInv(u.chn[c], u.chip[c], f, img, c) /\ Held(u.chn[c]) = Held(ch)
  <2>1. NandDone(u.chn[c], u.chip[c], ch, cs, k)
    BY <1>9, <1>11 DEF NandDone
  <2>2. /\ ChnInv(ch, cs, f, img, c) /\ ch.room[1] = NandCmd(f, p) /\ ~ch.wait_dma
        /\ Len(ch.room) > 1 => ch.room[2].ram_ptr = p
        /\ Len(ch.room) = 1 => Half(f, c) /\ p = At(f)
    BY <1>1
  <2>3. Primed(u.chip[c], f, img, c, p)
    BY <1>9, <1>11
  <2>4. FrontReady(ch, cs, f, img, c, p, k)
    BY <1>2, <1>3, <1>4, <1>6, <2>2 DEF FrontReady
  <2>. QED BY <2>1, <2>3, <2>4, ChnAfterNand
<1>13. Engine(u)
  <2>1. \A x \in Channel : u.chn[x].wait_dma = s.chn[x].wait_dma
    BY <1>1, <1>11 DEF SameDma
  <2>2. s.current_chn \in Channel \cup {None}
    BY CtrlFields
  <2>. QED BY <1>11, <2>1, <2>2 DEF Engine
<1>14. Fits(u, s, f, img, c)
  BY <1>1, <1>11, <1>12, <1>13 DEF Fits
<1>. QED BY <1>1, <1>7, <1>11, <1>14

\* What starting the DMA of command cmd does.
AfterDma(t, s, c, cmd) ==
  /\ t \in Ctrl /\ t.chip = s.chip /\ t.current_chn \in Channel
  /\ t.current_chn = s.current_chn \/ t.chn[t.current_chn].wait_dma
  /\ \A x \in Channel \ {c} : t.chn[x] = s.chn[x]
  /\ t.chn[c].room = s.chn[c].room /\ t.chn[c].new_cmd = s.chn[c].new_cmd
  /\ t.chn[c].active = (s.chn[c].active + 1) % 256 /\ t.chn[c].wait_dma
  /\ t.chn[c].read_dma = (s.chn[c].read_dma \/ cmd.op = "READ_DMA")
  /\ t.chn[c].write_dma = (s.chn[c].write_dma \/ cmd.op = "WRITE_DMA")
  /\ t.chn[c].ram_ptr = cmd.ram_ptr /\ t.chn[c].dma_chip = cmd.chip

LEMMA StartedDma ==
  ASSUME NEW s \in Ctrl, NEW c \in Channel, NEW cmd \in Command
  PROVE  AfterDma(StartDma(s, c, cmd), s, c, cmd)
<1>. DEFINE t == StartDma(s, c, cmd)
            ch == s.chn[c]
            rd == ch.read_dma \/ cmd.op = "READ_DMA"
            wd == ch.write_dma \/ cmd.op = "WRITE_DMA"
            newch == [ch EXCEPT !.active = (ch.active + 1) % 256, !.wait_dma = TRUE,
                                !.read_dma = rd, !.write_dma = wd,
                                !.ram_ptr = cmd.ram_ptr, !.dma_chip = cmd.chip]
<1>1. /\ t \in Ctrl /\ newch \in NC_Channel
      /\ t.chn = [s.chn EXCEPT ![c] = newch] /\ t.chip = s.chip
      /\ t.current_chn \in Channel
      /\ t.current_chn = s.current_chn \/ t.chn[t.current_chn].wait_dma
  BY StartDmaIs, ZenonT(60)
<1>2. ch \in NC_Channel
  BY CtrlFields
<1>3. /\ newch.room = ch.room /\ newch.new_cmd = ch.new_cmd
      /\ newch.active = (ch.active + 1) % 256 /\ newch.wait_dma
      /\ newch.read_dma = rd /\ newch.write_dma = wd
      /\ newch.ram_ptr = cmd.ram_ptr /\ newch.dma_chip = cmd.chip
  <2>. HIDE DEF ch, rd, wd
  <2>. QED BY <1>2 DEF NC_Channel
<1>. HIDE DEF newch, t
<1>4. t.chn[c] = newch /\ \A x \in Channel \ {c} : t.chn[x] = s.chn[x]
  <2>1. DOMAIN s.chn = Channel
    BY DEF Ctrl
  <2>. QED BY <1>1, <2>1
<1>5. AfterDma(t, s, c, cmd)
  BY <1>1, <1>3, <1>4 DEF AfterDma
<1>. QED BY <1>5 DEF t

LEMMA ExecData ==
  ASSUME NEW s \in Ctrl, NEW c \in Channel, NEW f \in Firmware, FwPart(f), NEW img,
         ChnInv(s.chn[c], s.chip[c], f, img, c), Engine(s),
         s.chn[c].room # <<>>, ~s.chn[c].wait_dma, ~s.chip[c][s.chn[c].room[1].chip].busy,
         NEW p \in 1 .. Len(f.pages), f.pages[p] \in Ppa, Mine(f, c, p), f.kind \in Kinds,
         s.chn[c].room[1] = DataCmd(f, p), Primed(s.chip[c], f, img, c, p)
  PROVE  /\ Fits(ExecFront(s, c), s, f, img, c)
         /\ ExecFront(s, c).chn[c].room = Tail(s.chn[c].room)
<1>. DEFINE cmd == DataCmd(f, p)
            t == StartDma(s, c, cmd)
            u == [t EXCEPT !.chn[c].room = Tail(@)]
<1>1. PICK ch, cs : ch = s.chn[c] /\ cs = s.chip[c]
  OBVIOUS
<1>2. PICK k : k = f.pages[p].chip
  OBVIOUS
<1>3. k \in Chip
  BY <1>2 DEF Ppa
<1>4. /\ ch \in NC_Channel /\ cs \in [Chip -> NC_Chip] /\ cs[k] \in NC_Chip
      /\ ch.room \in Seq(Command) /\ ch.room # <<>>
  BY <1>1, <1>3, CtrlFields DEF NC_Channel
<1>5. /\ cmd.chip = k /\ cmd.ram_ptr = p /\ cmd.op = DmaPhaseOp(f.kind)
  BY <1>2 DEF DataCmd
<1>6. Head(ch.room) = cmd /\ ~cs[k].busy /\ cmd \in Command
  BY <1>1, <1>2, <1>4, <1>5
<1>7. ExecFront(s, c) = u
  <2>1. cmd.op # "READ_NAND" /\ cmd.op # "PROGRAM_NAND"
    BY <1>5 DEF DmaPhaseOp
  <2>. HIDE DEF cmd
  <2>. QED BY <1>1, <1>6, <2>1 DEF ExecFront
<1>8. AfterDma(t, s, c, cmd)
  BY <1>6, StartedDma
<1>. HIDE DEF t, cmd
<1>9. AfterRemoval(u, t, c)
  BY <1>1, <1>4, <1>8, Removed DEF AfterDma
<1>. HIDE DEF u
<1>10. /\ \A x \in Channel \ {c} : u.chn[x] = s.chn[x] /\ u.chip[x] = s.chip[x]
       /\ u.chip[c] = cs /\ u.chn[c].new_cmd = ch.new_cmd /\ u.chn[c].room = Tail(ch.room)
       /\ u \in Ctrl /\ u.current_chn = t.current_chn
       /\ u.chn[c].active = (ch.active + 1) % 256
       /\ u.chn[c].ram_ptr = p /\ u.chn[c].dma_chip = k
  BY <1>1, <1>5, <1>8, <1>9 DEF AfterDma, AfterRemoval, SameDma
<1>11. /\ u.chn[c].wait_dma
       /\ u.chn[c].read_dma = (f.kind = "PROGRAM") /\ u.chn[c].write_dma = (f.kind = "READ")
  <2>1. ~ch.read_dma /\ ~ch.write_dma
    BY <1>1 DEF ChnInv, DmaPart
  <2>2. /\ (cmd.op = "READ_DMA") = (f.kind = "PROGRAM")
        /\ (cmd.op = "WRITE_DMA") = (f.kind = "READ")
    BY <1>5 DEF Kinds, DmaPhaseOp
  <2>. QED BY <1>1, <1>8, <1>9, <2>1, <2>2 DEF AfterDma, AfterRemoval, SameDma
<1>12. ChnInv(u.chn[c], u.chip[c], f, img, c) /\ Held(u.chn[c]) = Held(ch)
  <2>1. PICK new : new = u.chn[c]
    OBVIOUS
  <2>2. DataDone(new, ch, f, p)
    BY <1>2, <1>10, <1>11, <2>1 DEF DataDone
  <2>3. /\ ChnInv(ch, cs, f, img, c) /\ ch.room[1] = DataCmd(f, p) /\ ~ch.wait_dma
        /\ Primed(cs, f, img, c, p)
    BY <1>1
  <2>4. ChnInv(new, cs, f, img, c) /\ Held(new) = Held(ch)
    BY <1>2, <1>3, <1>4, <1>6, <2>2, <2>3, ChnAfterData
  <2>. QED BY <2>1, <2>4, <1>10
<1>13. Engine(u)
  <2>1. \A x \in Channel : s.chn[x].wait_dma => u.chn[x].wait_dma
    BY <1>1, <1>10, <1>11
  <2>2. u.current_chn \in Channel /\ None \notin Channel
    BY <1>8, <1>10 DEF AfterDma, None, Channel
  <2>3. u.chn[u.current_chn].wait_dma
    <3>1. CASE u.current_chn = s.current_chn
      BY <3>1, <2>1, <2>2 DEF Engine
    <3>2. CASE t.chn[t.current_chn].wait_dma
      BY <3>2, <1>8, <1>9, <1>10, <1>11, <2>2 DEF AfterDma, AfterRemoval
    <3>. QED BY <3>1, <3>2, <1>8, <1>10 DEF AfterDma
  <2>. QED BY <2>2, <2>3 DEF Engine
<1>14. Fits(u, s, f, img, c)
  BY <1>1, <1>10, <1>12, <1>13 DEF Fits
<1>. QED BY <1>1, <1>7, <1>10, <1>14

LEMMA FrontFits ==
  ASSUME NEW s \in Ctrl, NEW c \in Channel, NEW f \in Firmware, FwPart(f), NEW img,
         img \in [ImgPages -> Data], f.kind = "READ" => img = image,
         ChnInv(s.chn[c], s.chip[c], f, img, c), Engine(s), ~Blocked(s, c)
  PROVE  /\ Fits(ProcessFront(s, c), s, f, img, c)
         /\ ProcessFront(s, c).chn[c].room = Tail(s.chn[c].room)
<1>1. /\ ~s.chn[c].wait_dma /\ s.chn[c].room # <<>>
      /\ ~s.chip[c][Head(s.chn[c].room).chip].busy
  BY DEF Blocked
<1>2. s.chn[c] \in NC_Channel /\ s.chn[c].room \in Seq(Command)
  BY CtrlFields DEF NC_Channel
<1>3. ~s.chip[c][s.chn[c].room[1].chip].busy
  BY <1>1, <1>2
<1>4. RoomPart(s.chn[c], s.chip[c], f, img, c)
  BY DEF ChnInv
<1>5. /\ f.kind \in Kinds
      /\ \E p \in 1 .. Len(f.pages) :
           /\ f.pages[p] \in Ppa /\ f.pages[p].chn = c
           /\ \/ /\ s.chn[c].room[1] = DataCmd(f, p) /\ Mine(f, c, p)
                 /\ Primed(s.chip[c], f, img, c, p)
              \/ /\ s.chn[c].room[1] = NandCmd(f, p)
                 /\ Len(s.chn[c].room) > 1 => s.chn[c].room[2].ram_ptr = p
                 /\ Len(s.chn[c].room) = 1 => Half(f, c) /\ p = At(f)
  BY <1>1, <1>2, <1>4, Front
<1>6. /\ Fits(ExecFront(s, c), s, f, img, c)
      /\ ExecFront(s, c).chn[c].room = Tail(s.chn[c].room)
  <2>1. PICK p \in 1 .. Len(f.pages) :
           /\ f.pages[p] \in Ppa /\ f.pages[p].chn = c
           /\ \/ /\ s.chn[c].room[1] = DataCmd(f, p) /\ Mine(f, c, p)
                 /\ Primed(s.chip[c], f, img, c, p)
              \/ /\ s.chn[c].room[1] = NandCmd(f, p)
                 /\ Len(s.chn[c].room) > 1 => s.chn[c].room[2].ram_ptr = p
                 /\ Len(s.chn[c].room) = 1 => Half(f, c) /\ p = At(f)
    BY <1>5
  <2>2. CASE /\ s.chn[c].room[1] = DataCmd(f, p) /\ Mine(f, c, p)
             /\ Primed(s.chip[c], f, img, c, p)
    BY <1>1, <1>3, <1>5, <2>1, <2>2, ExecData
  <2>3. CASE /\ s.chn[c].room[1] = NandCmd(f, p)
             /\ Len(s.chn[c].room) > 1 => s.chn[c].room[2].ram_ptr = p
             /\ Len(s.chn[c].room) = 1 => Half(f, c) /\ p = At(f)
    BY <1>1, <1>3, <1>5, <2>1, <2>3, ExecNand
  <2>. QED BY <2>1, <2>2, <2>3
<1>. QED BY <1>6 DEF ProcessFront

\* process_waiting_room_cmd stops at a command that must wait, with channel c
\* as the firmware expects it and everything else as it was.
LEMMA RoomFits ==
  ASSUME NEW s \in Ctrl, NEW c \in Channel, NEW f \in Firmware, FwPart(f), NEW img,
         img \in [ImgPages -> Data], f.kind = "READ" => img = image,
         ChnInv(s.chn[c], s.chip[c], f, img, c), Engine(s)
  PROVE  Fits(ProcessRoom(s, c), s, f, img, c) /\ Blocked(ProcessRoom(s, c), c)
<1>. DEFINE m == Len(s.chn[c].room)
<1>1. m \in Nat
  BY CtrlFields DEF NC_Channel
<1>2. PICK run : IsRun(run, s, c, m) /\ ProcessRoom(s, c) = run[m]
  BY <1>1, ProcessRoomIs
<1>. DEFINE Good(i) == /\ Fits(run[i], s, f, img, c)
                       /\ Blocked(run[i], c) \/ Len(run[i].chn[c].room) = m - i
            Bad == {i \in 0 .. m : ~Good(i)}
<1>. HIDE DEF m
<1>3. run[0] = s /\ \A i \in 1 .. m : run[i] = ProcessFront(run[i - 1], c)
  <2>1. \A i \in 0 .. m : run[i] = IF i = 0 THEN s ELSE ProcessFront(run[i - 1], c)
    BY <1>2 DEF IsRun
  <2>2. 0 \in 0 .. m
    BY <1>1
  <2>3. ASSUME NEW i \in 1 .. m PROVE i \in 0 .. m /\ i # 0
    BY <1>1
  <2>. QED BY <2>1, <2>2, <2>3
<1>4. Good(0)
  <2>1. Fits(s, s, f, img, c)
    BY DEF Fits
  <2>2. Len(s.chn[c].room) = m - 0
    BY <1>1 DEF m
  <2>. QED BY <1>3, <2>1, <2>2
<1>5. ASSUME NEW i \in 1 .. m, Good(i - 1) PROVE Good(i)
  <2>1. PICK r : r = run[i - 1]
    OBVIOUS
  <2>2. Fits(r, s, f, img, c) /\ (Blocked(r, c) \/ Len(r.chn[c].room) = m - (i - 1))
    BY <1>5, <2>1
  <2>3. run[i] = ProcessFront(r, c)
    BY <1>3, <2>1
  <2>4. CASE Blocked(r, c)
    <3>1. run[i] = r
      BY <2>3, <2>4 DEF ProcessFront
    <3>. QED BY <3>1, <2>2, <2>4
  <2>5. CASE ~Blocked(r, c)
    <3>1. r \in Ctrl /\ ChnInv(r.chn[c], r.chip[c], f, img, c) /\ Engine(r)
      BY <2>2 DEF Fits
    <3>2. /\ Fits(run[i], r, f, img, c) /\ run[i].chn[c].room = Tail(r.chn[c].room)
      BY <2>3, <2>5, <3>1, FrontFits
    <3>3. Fits(run[i], s, f, img, c)
      BY <2>2, <3>2 DEF Fits
    <3>4. Len(run[i].chn[c].room) = Len(r.chn[c].room) - 1
      <4>1. r.chn[c] \in NC_Channel /\ r.chn[c].room # <<>>
        BY <2>5, <3>1, CtrlFields DEF Blocked
      <4>. QED BY <3>2, <4>1, TailIs
    <3>5. Len(run[i].chn[c].room) = m - i
      BY <1>1, <2>2, <2>5, <3>4
    <3>. QED BY <3>3, <3>5
  <2>. QED BY <2>4, <2>5
<1>. HIDE DEF Good
<1>6. Bad = {}
  <2>1. SUFFICES ASSUME Bad # {} PROVE FALSE
    OBVIOUS
  <2>2. Bad \subseteq Nat
    BY <1>1
  <2>3. PICK i \in Bad : \A l \in Bad : i <= l
    BY <2>1, <2>2, LeastElement
  <2>4. i \in 1 .. m /\ i - 1 \in 0 .. m /\ ~(i <= i - 1)
    BY <1>1, <1>4, <2>3
  <2>5. Good(i - 1)
    BY <2>3, <2>4
  <2>. QED BY <1>5, <2>3, <2>4, <2>5
<1>7. Good(m)
  BY <1>1, <1>6
<1>8. Fits(run[m], s, f, img, c) /\ (Blocked(run[m], c) \/ Len(run[m].chn[c].room) = m - m)
  BY <1>7 DEF Good
<1>9. Blocked(run[m], c)
  <2>1. SUFFICES ASSUME Len(run[m].chn[c].room) = m - m PROVE Blocked(run[m], c)
    BY <1>8
  <2>2. run[m].chn[c].room \in Seq(Command)
    <3>1. run[m] \in Ctrl
      BY <1>8 DEF Fits
    <3>. QED BY <3>1, CtrlFields DEF NC_Channel
  <2>3. m - m = 0
    BY <1>1
  <2>4. \A q \in Seq(Command) : Len(q) = 0 => q = <<>>
    OBVIOUS
  <2>. QED BY <2>1, <2>2, <2>3, <2>4 DEF Blocked
<1>. QED BY <1>2, <1>8, <1>9

LEMMA BlockedAwake ==
  ASSUME NEW s \in Ctrl, NEW c \in Channel, Blocked(s, c)
  PROVE  Awake(s.chn[c], s.chip[c])
<1>1. s.chn[c].room \in Seq(Command)
  BY CtrlFields DEF NC_Channel
<1>2. \A q \in Seq(Command) : q # <<>> => Head(q) = q[1]
  OBVIOUS
<1>. QED BY <1>1, <1>2 DEF Blocked, Awake

----------------------------------------------------------------------------
(* The firmware's progress.                                                *)

\* One more register is written.
LEMMA Phases ==
  ASSUME NEW k \in Nat
  PROVE  /\ k % 6 \in 0 .. 5 /\ k \div 6 \in Nat /\ k = 6 * (k \div 6) + (k % 6)
         /\ k % 6 # 5 => (k + 1) % 6 = (k % 6) + 1 /\ (k + 1) \div 6 = k \div 6
         /\ k % 6 = 5 => (k + 1) % 6 = 0 /\ (k + 1) \div 6 = (k \div 6) + 1
OBVIOUS

\* f is about to write a register, and g has written it.
Wrote(f, g) ==
  /\ f.pc = "issue" /\ f.pages # <<>>
  /\ g.kind = f.kind /\ g.pages = f.pages /\ g.k = f.k + 1
  /\ g.pc = IF f.k + 1 = 6 * Len(f.pages) THEN "poll" ELSE "issue"

LEMMA WroteIs ==
  ASSUME NEW f \in Firmware, FwPart(f), NEW g \in Firmware, Wrote(f, g)
  PROVE  /\ At(f) \in 1 .. Len(f.pages) /\ f.pages[At(f)] \in Ppa
         /\ f.k \in Nat /\ Len(f.pages) \in Nat /\ f.k % 6 \in 0 .. 5 /\ f.k = 6 * (At(f) - 1) + (f.k % 6)
         /\ f.k % 6 # 5 => /\ g.pc = "issue" /\ g.k % 6 = (f.k % 6) + 1 /\ At(g) = At(f)
         /\ f.k % 6 = 5 => g.k % 6 = 0 /\ At(g) = At(f) + 1 /\ g.k = 6 * At(f)
         /\ Sent(f) \in Nat /\ Sent(f) < 2 * Len(f.pages)
         /\ Sent(g) = Sent(f) + (IF f.k % 6 \in {2, 5} THEN 1 ELSE 0)
<1>. DEFINE k == f.k  N == Len(f.pages)  q == k \div 6  r == k % 6
<1>1. k \in Nat /\ N \in Nat /\ f.pages \in Seq(Ppa) /\ g.k = k + 1
  BY DEF Firmware, Wrote
<1>2. k < 6 * N
  BY DEF FwPart, Wrote
<1>3. /\ r \in 0 .. 5 /\ q \in Nat /\ k = 6 * q + r
      /\ r # 5 => (k + 1) % 6 = r + 1 /\ (k + 1) \div 6 = q
      /\ r = 5 => (k + 1) % 6 = 0 /\ (k + 1) \div 6 = q + 1
  BY <1>1, Phases
<1>4. At(f) = q + 1 /\ At(g) = ((k + 1) \div 6) + 1
  BY <1>1 DEF At
<1>5. Sent(f) = 2 * q + (IF r >= 3 THEN 1 ELSE 0)
  BY DEF Sent
<1>6. Sent(g) = 2 * ((k + 1) \div 6) + (IF (k + 1) % 6 >= 3 THEN 1 ELSE 0)
  BY <1>1 DEF Sent
<1>7. g.k % 6 = (k + 1) % 6 /\ g.pc = IF k + 1 = 6 * N THEN "poll" ELSE "issue"
  BY <1>1 DEF Wrote
<1>. HIDE DEF k, N, q, r
<1>8. q + 1 \in 1 .. N
  BY <1>1, <1>2, <1>3
<1>9. f.pages[q + 1] \in Ppa
  BY <1>1, <1>8 DEF N
<1>10. r # 5 => k + 1 # 6 * N
  BY <1>1, <1>3
<1>11. /\ Sent(f) \in Nat /\ Sent(f) < 2 * N
       /\ Sent(g) = Sent(f) + (IF r \in {2, 5} THEN 1 ELSE 0)
  <2>1. CASE r = 5
    BY <2>1, <1>1, <1>3, <1>5, <1>6, <1>8
  <2>2. CASE r # 5
    BY <2>2, <1>1, <1>3, <1>5, <1>6, <1>8
  <2>. QED BY <2>1, <2>2
<1>12. (q + 1) - 1 = q /\ (r = 5 => k + 1 = 6 * (q + 1))
  BY <1>3
<1>13. r # 5 => g.pc = "issue" /\ g.k % 6 = r + 1 /\ At(g) = At(f)
  BY <1>3, <1>4, <1>7, <1>10
<1>14. r = 5 => g.k % 6 = 0 /\ At(g) = At(f) + 1 /\ g.k = 6 * At(f)
  BY <1>1, <1>3, <1>4, <1>7, <1>12
<1>15. At(f) \in 1 .. N /\ f.pages[At(f)] \in Ppa
  BY <1>4, <1>8, <1>9
<1>16. k \in Nat /\ N \in Nat /\ r \in 0 .. 5 /\ k = 6 * (At(f) - 1) + r
  BY <1>1, <1>3, <1>4, <1>12
<1>17. k = f.k /\ N = Len(f.pages) /\ r = f.k % 6
  BY DEF k, N, r
<1>18. /\ f.k \in Nat /\ Len(f.pages) \in Nat /\ f.k % 6 \in 0 .. 5
       /\ f.k = 6 * (At(f) - 1) + (f.k % 6)
  BY <1>16, <1>17
<1>19. f.k % 6 # 5 => g.pc = "issue" /\ g.k % 6 = (f.k % 6) + 1 /\ At(g) = At(f)
  BY <1>13, <1>17
<1>20. f.k % 6 = 5 => g.k % 6 = 0 /\ At(g) = At(f) + 1 /\ g.k = 6 * At(f)
  BY <1>14, <1>17
<1>21. /\ Sent(f) \in Nat /\ Sent(f) < 2 * Len(f.pages)
       /\ Sent(g) = Sent(f) + (IF f.k % 6 \in {2, 5} THEN 1 ELSE 0)
  BY <1>11, <1>17
<1>22. At(f) \in 1 .. Len(f.pages) /\ f.pages[At(f)] \in Ppa
  BY <1>15, <1>17
<1>. QED BY <1>18, <1>19, <1>20, <1>21, <1>22

\* A channel with the same commands and counters.
Alike(new, ch) == new.room = ch.room /\ new.active = ch.active /\ SameDma(new, ch)

\* The firmware goes on and channel c is not between two commands of a page,
\* or stays there.
Onward(f, g, c) ==
  /\ g.kind = f.kind /\ g.pages = f.pages /\ f.k <= g.k /\ Sent(f) <= Sent(g)
  /\ Half(g, c) <=> Half(f, c)
  /\ Half(f, c) => At(g) = At(f)

LEMMA CellOnward ==
  ASSUME NEW f \in Firmware, NEW g \in Firmware, NEW c, Onward(f, g, c), NEW ch, NEW cs, NEW img,
         NEW new, Alike(new, ch), NEW j, Cell(ch, cs, f, img, c, j)
  PROVE  Cell(new, cs, g, img, c, j)
<1>1. f.k \in Int /\ g.k \in Int /\ f.k <= g.k
  BY DEF Firmware, Onward
<1>2. \A p : Mine(f, c, p) => Mine(g, c, p)
  <2>1. SUFFICES ASSUME NEW p, p \in 1 .. Len(f.pages), 6 * p <= f.k PROVE 6 * p <= g.k
    BY DEF Mine, Onward
  <2>2. Len(f.pages) \in Nat
    BY DEF Firmware
  <2>. QED BY <1>1, <2>1, <2>2
<1>3. \A p : /\ DataCmd(f, p) = DataCmd(g, p) /\ NandCmd(f, p) = NandCmd(g, p)
             /\ Primed(cs, f, img, c, p) <=> Primed(cs, g, img, c, p)
  BY DEF DataCmd, NandCmd, Primed, Onward
<1>4. new.room = ch.room /\ new.wait_dma = ch.wait_dma
  BY DEF Alike, SameDma
<1>5. (Half(g, c) <=> Half(f, c)) /\ (Half(f, c) => At(g) = At(f))
  BY DEF Onward
<1>. QED BY <1>2, <1>3, <1>4, <1>5 DEF Cell

LEMMA ChnOnward ==
  ASSUME NEW f \in Firmware, NEW g \in Firmware, NEW c, Onward(f, g, c), NEW ch, NEW cs, NEW img,
         NEW new, Alike(new, ch), ChnInv(ch, cs, f, img, c), Len(ch.room) \in Int
  PROVE  ChnInv(new, cs, g, img, c)
<1>1. f.k \in Int /\ g.k \in Int /\ f.k <= g.k
  BY DEF Firmware, Onward
<1>2. \A p : Mine(f, c, p) => Mine(g, c, p)
  <2>1. SUFFICES ASSUME NEW p, p \in 1 .. Len(f.pages), 6 * p <= f.k PROVE 6 * p <= g.k
    BY DEF Mine, Onward
  <2>2. Len(f.pages) \in Nat
    BY DEF Firmware
  <2>. QED BY <1>1, <2>1, <2>2
<1>3. /\ \A p : Primed(cs, f, img, c, p) <=> Primed(cs, g, img, c, p)
      /\ g.kind = f.kind /\ g.pages = f.pages
      /\ (Half(g, c) <=> Half(f, c)) /\ (Half(f, c) => At(g) = At(f))
  BY DEF Primed, Onward
<1>4. /\ new.room = ch.room /\ new.active = ch.active /\ new.wait_dma = ch.wait_dma
      /\ new.ram_ptr = ch.ram_ptr /\ new.dma_chip = ch.dma_chip
      /\ new.read_dma = ch.read_dma /\ new.write_dma = ch.write_dma
  BY DEF Alike, SameDma
<1>5. DmaPart(new, cs, g, img, c)
  BY <1>2, <1>3, <1>4 DEF ChnInv, DmaPart
<1>6. CountPart(new, cs) /\ BusyPart(cs, g, c)
  BY <1>3, <1>4 DEF ChnInv, CountPart, BusyPart
<1>7. RoomPart(new, cs, g, img, c)
  <2>1. RoomPart(ch, cs, f, img, c)
    BY DEF ChnInv
  <2>2. \A j \in 1 .. Len(new.room) : Cell(new, cs, g, img, c, j)
    BY <1>4, <2>1, CellOnward DEF RoomPart
  <2>3. Len(new.room) <= Sent(g)
    <3>1. Len(ch.room) <= Sent(f) /\ Sent(f) <= Sent(g)
      BY <2>1 DEF RoomPart, Onward
    <3>2. Sent(f) \in Int /\ Sent(g) \in Int
      BY <1>1 DEF Sent
    <3>. QED BY <1>4, <3>1, <3>2
  <2>4. /\ \A j, l \in 1 .. Len(new.room) :
             j < l /\ new.room[j].ram_ptr # None /\ new.room[l].ram_ptr # None =>
               new.room[j].ram_ptr < new.room[l].ram_ptr
        /\ new.wait_dma => \A j \in 1 .. Len(new.room) :
             new.room[j].ram_ptr # None => new.ram_ptr < new.room[j].ram_ptr
    BY <1>4, <2>1 DEF RoomPart
  <2>5. Half(g, c) => IF new.room = <<>> THEN ~new.wait_dma /\ Primed(cs, g, img, c, At(g))
                      ELSE new.room[Len(new.room)].ram_ptr = None
    BY <1>3, <1>4, <2>1 DEF RoomPart
  <2>. QED BY <2>2, <2>3, <2>4, <2>5 DEF RoomPart
<1>. QED BY <1>5, <1>6, <1>7 DEF ChnInv

LEMMA AppendIs ==
  ASSUME NEW q \in Seq(Command), NEW e
  PROVE  LET m == Len(q)
             r == Append(q, e)
         IN /\ m \in Nat /\ Len(r) = m + 1 /\ r # <<>> /\ r[m + 1] = e
            /\ \A j \in 1 .. m : r[j] = q[j]
            /\ DOMAIN r = 1 .. m + 1 /\ DOMAIN q = 1 .. m
            /\ q = <<>> <=> m = 0
            /\ e \in Command => r \in Seq(Command)
OBVIOUS

\* Command e is put into the room of channel ch.
Pushed(new, ch, e) ==
  /\ new.room = Append(ch.room, e) /\ new.active = ch.active /\ SameDma(new, ch)

\* What does not depend on the last command.
Kept(new, cs, f, g, img, c) ==
  /\ DmaPart(new, cs, g, img, c) /\ CountPart(new, cs) /\ BusyPart(cs, g, c)
  /\ Len(new.room) <= Sent(g)
  /\ \A p : /\ Mine(f, c, p) => Mine(g, c, p) /\ p < At(f) /\ p \in Nat
            /\ DataCmd(f, p) = DataCmd(g, p) /\ NandCmd(f, p) = NandCmd(g, p)
            /\ Primed(cs, f, img, c, p) <=> Primed(cs, g, img, c, p)

LEMMA PushKeeps ==
  ASSUME NEW f \in Firmware, FwPart(f), NEW g \in Firmware, Wrote(f, g), NEW c,
         NEW ch \in NC_Channel, NEW cs, NEW img, ChnInv(ch, cs, f, img, c),
         NEW e, NEW new, Pushed(new, ch, e), f.k % 6 \in {2, 5}
  PROVE  Kept(new, cs, f, g, img, c)
<1>1. /\ At(f) \in 1 .. Len(f.pages) /\ Len(f.pages) \in Nat /\ f.k \in Nat
      /\ f.k % 6 \in 0 .. 5 /\ f.k = 6 * (At(f) - 1) + (f.k % 6)
      /\ Sent(f) \in Nat /\ Sent(g) = Sent(f) + 1
      /\ g.k = f.k + 1 /\ g.pages = f.pages /\ g.kind = f.kind
  BY WroteIs DEF Wrote
<1>2. \A p : Mine(f, c, p) => Mine(g, c, p) /\ p < At(f) /\ p \in Nat
  <2>1. SUFFICES ASSUME NEW p, Mine(f, c, p) PROVE Mine(g, c, p) /\ p < At(f) /\ p \in Nat
    OBVIOUS
  <2>2. p \in 1 .. Len(f.pages) /\ f.pages[p].chn = c /\ 6 * p <= f.k
    BY <2>1 DEF Mine
  <2>. DEFINE r == f.k % 6  N == Len(f.pages)  k == f.k  A == At(f)
  <2>3. p \in 1 .. N /\ 6 * p <= k /\ k = 6 * (A - 1) + r /\ r \in 0 .. 5 /\ A \in 1 .. N /\ N \in Nat
    BY <1>1, <2>2
  <2>. HIDE DEF r, N, k, A
  <2>4. p < A /\ 6 * p <= k + 1 /\ p \in Nat
    BY <2>3
  <2>5. 6 * p <= g.k /\ p < At(f) /\ p \in Nat
    BY <1>1, <2>4 DEF k, A
  <2>. QED BY <1>1, <2>2, <2>5 DEF Mine
<1>3. \A p : /\ DataCmd(f, p) = DataCmd(g, p) /\ NandCmd(f, p) = NandCmd(g, p)
             /\ Primed(cs, f, img, c, p) <=> Primed(cs, g, img, c, p)
  BY <1>1 DEF DataCmd, NandCmd, Primed
<1>4. /\ new.active = ch.active /\ new.wait_dma = ch.wait_dma
      /\ new.ram_ptr = ch.ram_ptr /\ new.dma_chip = ch.dma_chip
      /\ new.read_dma = ch.read_dma /\ new.write_dma = ch.write_dma
  BY DEF Pushed, SameDma
<1>5. DmaPart(new, cs, g, img, c)
  BY <1>1, <1>2, <1>3, <1>4 DEF ChnInv, DmaPart
<1>6. CountPart(new, cs) /\ BusyPart(cs, g, c)
  BY <1>1, <1>4 DEF ChnInv, CountPart, BusyPart
<1>7. Len(new.room) <= Sent(g)
  <2>1. ch.room \in Seq(Command) /\ Len(ch.room) <= Sent(f)
    BY DEF ChnInv, RoomPart, NC_Channel
  <2>2. Len(ch.room) \in Nat /\ Len(new.room) = Len(ch.room) + 1
    BY <2>1, AppendIs DEF Pushed
  <2>. QED BY <1>1, <2>1, <2>2
<1>. QED BY <1>2, <1>3, <1>5, <1>6, <1>7 DEF Kept

\* CMD_PHASE_CMD_REG is written: the first command of a page.
LEMMA ChnPushNand ==
  ASSUME NEW f \in Firmware, FwPart(f), NEW g \in Firmware, Wrote(f, g), f.k % 6 = 2,
         NEW c, c = f.pages[At(f)].chn,
         NEW ch \in NC_Channel, NEW cs, NEW img, ChnInv(ch, cs, f, img, c),
         NEW new, Pushed(new, ch, NandCmd(f, At(f)))
  PROVE  ChnInv(new, cs, g, img, c)
<1>. DEFINE m == Len(ch.room)
<1>1. /\ DmaPart(new, cs, g, img, c) /\ CountPart(new, cs) /\ BusyPart(cs, g, c)
      /\ Len(new.room) <= Sent(g)
      /\ \A p : /\ Mine(f, c, p) => Mine(g, c, p)
                /\ DataCmd(f, p) = DataCmd(g, p) /\ NandCmd(f, p) = NandCmd(g, p)
                /\ Primed(cs, f, img, c, p) <=> Primed(cs, g, img, c, p)
  <2>1. f.k % 6 \in {2, 5}
    OBVIOUS
  <2>2. Kept(new, cs, f, g, img, c)
    BY <2>1, PushKeeps
  <2>. QED BY <2>2 DEF Kept
<1>2. ~Half(f, c)
  BY DEF Half
<1>3. Half(g, c) /\ At(g) = At(f)
  <2>1. g.pc = "issue" /\ g.k % 6 = 3 /\ At(g) = At(f)
    BY WroteIs
  <2>. QED BY <2>1 DEF Half, On, Wrote
<1>4. /\ m \in Nat /\ Len(new.room) = m + 1 /\ new.room # <<>>
      /\ new.room[m + 1] = NandCmd(f, At(f)) /\ \A j \in 1 .. m : new.room[j] = ch.room[j]
  <2>1. ch.room \in Seq(Command)
    BY DEF NC_Channel
  <2>. QED BY <2>1, AppendIs DEF Pushed
<1>5. new.room[m + 1].ram_ptr = None
  BY <1>4 DEF NandCmd
<1>6. /\ \A j \in 1 .. m : Cell(ch, cs, f, img, c, j)
      /\ \A j, l \in 1 .. m : j < l /\ ch.room[j].ram_ptr # None /\ ch.room[l].ram_ptr # None =>
           ch.room[j].ram_ptr < ch.room[l].ram_ptr
      /\ ch.wait_dma => \A j \in 1 .. m : ch.room[j].ram_ptr # None => ch.ram_ptr < ch.room[j].ram_ptr
  BY DEF ChnInv, RoomPart
<1>7. new.wait_dma = ch.wait_dma /\ new.ram_ptr = ch.ram_ptr
  BY DEF Pushed, SameDma
<1>8. \A j \in 1 .. m : Cell(ch, cs, f, img, c, j) /\ j <= m /\ j \in Int /\ (j # m => j < m /\ j + 1 \in 1 .. m)
  BY <1>4, <1>6
<1>9. ASSUME NEW j \in 1 .. m PROVE Cell(new, cs, g, img, c, j)
  <2>1. new.room[j] = ch.room[j] /\ (j > 1 => new.room[j - 1] = ch.room[j - 1])
    <3>1. j > 1 => j - 1 \in 1 .. m
      BY <1>4
    <3>. QED BY <1>4, <3>1
  <2>2. CASE ch.room[j].ram_ptr # None
    BY <2>2, <2>1, <1>1, <1>7, <1>8 DEF Cell
  <2>3. CASE ch.room[j].ram_ptr = None
    <3>1. j # m
      BY <1>2, <1>8, <2>3 DEF Cell, m
    <3>2. new.room[j + 1].ram_ptr # None
      BY <3>1, <1>4, <1>8, <2>3 DEF Cell, m
    <3>3. j # m + 1
      BY <1>4
    <3>. HIDE DEF m
    <3>. QED BY <2>1, <2>3, <3>2, <3>3, <1>4 DEF Cell
  <2>. QED BY <2>2, <2>3
<1>10. Cell(new, cs, g, img, c, m + 1)
  <2>1. ~(m + 1 < m + 1)
    BY <1>4
  <2>. HIDE DEF m
  <2>. QED BY <2>1, <1>1, <1>3, <1>4, <1>5 DEF Cell
<1>. HIDE DEF m
<1>11. \A j \in 1 .. m + 1 : j \in 1 .. m \/ j = m + 1
  BY <1>4
<1>12. RoomPart(new, cs, g, img, c)
  <2>1. \A j \in 1 .. m + 1 : Cell(new, cs, g, img, c, j)
    BY <1>9, <1>10, <1>11
  <2>2. \A j \in 1 .. m + 1 : new.room[j].ram_ptr # None => j \in 1 .. m /\ new.room[j] = ch.room[j]
    BY <1>4, <1>5, <1>11
  <2>3. \A j, l \in 1 .. m + 1 : j < l /\ new.room[j].ram_ptr # None /\ new.room[l].ram_ptr # None =>
           new.room[j].ram_ptr < new.room[l].ram_ptr
    BY <1>6, <2>2
  <2>4. new.wait_dma => \A j \in 1 .. m + 1 :
          new.room[j].ram_ptr # None => new.ram_ptr < new.room[j].ram_ptr
    BY <1>6, <1>7, <2>2
  <2>. QED BY <1>1, <1>4, <1>5, <2>1, <2>3, <2>4 DEF RoomPart
<1>. QED BY <1>1, <1>12 DEF ChnInv

\* DMA_PHASE_CMD_REG is written: the second command of a page.
LEMMA ChnPushData ==
  ASSUME NEW f \in Firmware, FwPart(f), NEW g \in Firmware, Wrote(f, g), f.k % 6 = 5,
         NEW c, c = f.pages[At(f)].chn,
         NEW ch \in NC_Channel, NEW cs, NEW img, ChnInv(ch, cs, f, img, c),
         NEW new, Pushed(new, ch, DataCmd(f, At(f)))
  PROVE  ChnInv(new, cs, g, img, c)
<1>. DEFINE m == Len(ch.room)
<1>1. /\ DmaPart(new, cs, g, img, c) /\ CountPart(new, cs) /\ BusyPart(cs, g, c)
      /\ Len(new.room) <= Sent(g)
      /\ \A p : /\ Mine(f, c, p) => Mine(g, c, p) /\ p < At(f)
                /\ DataCmd(f, p) = DataCmd(g, p) /\ NandCmd(f, p) = NandCmd(g, p)
                /\ Primed(cs, f, img, c, p) <=> Primed(cs, g, img, c, p)
  <2>1. f.k % 6 \in {2, 5}
    OBVIOUS
  <2>2. Kept(new, cs, f, g, img, c)
    BY <2>1, PushKeeps
  <2>. QED BY <2>2 DEF Kept
<1>2. /\ At(f) \in 1 .. Len(f.pages) /\ Len(f.pages) \in Nat /\ At(f) # None
      /\ g.k % 6 = 0 /\ g.k = 6 * At(f) /\ g.pages = f.pages
  <2>1. At(f) \in 1 .. Len(f.pages) /\ Len(f.pages) \in Nat /\ g.k % 6 = 0 /\ g.k = 6 * At(f)
    BY WroteIs
  <2>. QED BY <2>1 DEF None, Wrote
<1>3. Half(f, c) /\ ~Half(g, c)
  BY <1>2 DEF Half, On, Wrote
<1>4. /\ m \in Nat /\ Len(new.room) = m + 1 /\ new.room # <<>> /\ (ch.room = <<>> <=> m = 0)
      /\ new.room[m + 1] = DataCmd(f, At(f)) /\ \A j \in 1 .. m : new.room[j] = ch.room[j]
  <2>1. ch.room \in Seq(Command)
    BY DEF NC_Channel
  <2>. QED BY <2>1, AppendIs DEF Pushed
<1>5. new.room[m + 1].ram_ptr = At(f)
  BY <1>4 DEF DataCmd
<1>6. /\ \A j \in 1 .. m : Cell(ch, cs, f, img, c, j)
      /\ \A j, l \in 1 .. m : j < l /\ ch.room[j].ram_ptr # None /\ ch.room[l].ram_ptr # None =>
           ch.room[j].ram_ptr < ch.room[l].ram_ptr
      /\ ch.wait_dma => \A j \in 1 .. m : ch.room[j].ram_ptr # None => ch.ram_ptr < ch.room[j].ram_ptr
      /\ IF ch.room = <<>> THEN ~ch.wait_dma /\ Primed(cs, f, img, c, At(f))
         ELSE ch.room[m].ram_ptr = None
  BY <1>3 DEF ChnInv, RoomPart
<1>7. new.wait_dma = ch.wait_dma /\ new.ram_ptr = ch.ram_ptr
  BY DEF Pushed, SameDma
<1>8. \A j \in 1 .. m : Cell(ch, cs, f, img, c, j) /\ j <= m /\ j \in Int /\ (j # m => j < m /\ j + 1 \in 1 .. m)
  BY <1>4, <1>6
<1>9. ASSUME NEW j \in 1 .. m PROVE Cell(new, cs, g, img, c, j)
  <2>1. new.room[j] = ch.room[j] /\ (j > 1 => new.room[j - 1] = ch.room[j - 1])
    <3>1. j > 1 => j - 1 \in 1 .. m
      BY <1>4
    <3>. QED BY <1>4, <3>1
  <2>2. CASE ch.room[j].ram_ptr # None
    BY <2>2, <2>1, <1>1, <1>7, <1>8 DEF Cell
  <2>3. CASE ch.room[j].ram_ptr = None
    <3>1. j = m => new.room[j + 1].ram_ptr # None
      BY <1>2, <1>5
    <3>2. j # m => new.room[j + 1].ram_ptr # None
      BY <1>4, <1>8, <2>3 DEF Cell, m
    <3>3. j # m + 1
      BY <1>4
    <3>. HIDE DEF m
    <3>. QED BY <2>1, <2>3, <3>1, <3>2, <3>3, <1>4 DEF Cell
  <2>. QED BY <2>2, <2>3
<1>10. Cell(new, cs, g, img, c, m + 1)
  <2>1. Mine(g, c, At(f))
    BY <1>2 DEF Mine
  <2>2. m + 1 > 1 => new.room[m + 1 - 1] = NandCmd(f, At(f))
    <3>1. SUFFICES ASSUME m + 1 > 1 PROVE new.room[m + 1 - 1] = NandCmd(f, At(f))
      OBVIOUS
    <3>2. m \in 1 .. m /\ ch.room # <<>> /\ m + 1 - 1 = m /\ new.room[m] = ch.room[m]
      BY <3>1, <1>4
    <3>3. Cell(ch, cs, f, img, c, m) /\ ch.room[m].ram_ptr = None
      BY <3>2, <1>6
    <3>. QED BY <3>2, <3>3 DEF Cell, m
  <2>3. m + 1 = 1 => ~new.wait_dma /\ Primed(cs, g, img, c, At(f))
    <3>1. m + 1 = 1 => ch.room = <<>>
      BY <1>4
    <3>. QED BY <3>1, <1>1, <1>6, <1>7
  <2>. HIDE DEF m
  <2>. QED BY <2>1, <2>2, <2>3, <1>1, <1>2, <1>4, <1>5 DEF Cell
<1>. HIDE DEF m
<1>11. \A j \in 1 .. m + 1 : j \in 1 .. m \/ j = m + 1
  BY <1>4
<1>12. \A j \in 1 .. m : ch.room[j].ram_ptr # None => ch.room[j].ram_ptr < At(f)
  BY <1>1, <1>6 DEF Cell
<1>13. RoomPart(new, cs, g, img, c)
  <2>1. \A j \in 1 .. m + 1 : Cell(new, cs, g, img, c, j)
    BY <1>9, <1>10, <1>11
  <2>2. ASSUME NEW j \in 1 .. m + 1, NEW l \in 1 .. m + 1, j < l,
               new.room[j].ram_ptr # None, new.room[l].ram_ptr # None
        PROVE  new.room[j].ram_ptr < new.room[l].ram_ptr
    <3>1. j \in 1 .. m
      BY <1>4, <2>2
    <3>2. CASE l \in 1 .. m
      BY <3>1, <3>2, <2>2, <1>4, <1>6
    <3>3. CASE l = m + 1
      BY <3>1, <3>3, <2>2, <1>4, <1>5, <1>12
    <3>. QED BY <3>2, <3>3, <1>11
  <2>3. ASSUME new.wait_dma, NEW j \in 1 .. m + 1, new.room[j].ram_ptr # None
        PROVE  new.ram_ptr < new.room[j].ram_ptr
    <3>1. CASE j \in 1 .. m
      BY <3>1, <2>3, <1>4, <1>6, <1>7
    <3>2. CASE j = m + 1
      <4>1. Mine(f, c, ch.ram_ptr)
        BY <2>3, <1>7 DEF ChnInv, DmaPart
      <4>. QED BY <4>1, <3>2, <1>1, <1>5, <1>7
    <3>. QED BY <3>1, <3>2, <1>11
  <2>. QED BY <1>1, <1>3, <1>4, <2>1, <2>2, <2>3 DEF RoomPart
<1>. QED BY <1>1, <1>13 DEF ChnInv

\* The registers a command is made of are empty between two commands.
LEMMA RegsEmpty ==
  ASSUME NEW g, NEW x, ~On(g, x) \/ g.k % 6 \in {0, 3}
  PROVE  Regs(g, x) = NewCommand
BY DEF Regs, NewCommand

LEMMA RegsNand ==
  ASSUME NEW f, NEW c, On(f, c), f.k % 6 = 2
  PROVE  [Regs(f, c) EXCEPT !.op = CmdPhaseOp(f.kind)] = NandCmd(f, At(f))
BY DEF Regs, NandCmd

LEMMA RegsData ==
  ASSUME NEW f, NEW c, On(f, c), f.k % 6 = 5
  PROVE  [Regs(f, c) EXCEPT !.op = DmaPhaseOp(f.kind)] = DataCmd(f, At(f))
BY DEF Regs, DataCmd

\* The command the registers of channel c hold.
Made(s, c, op) == [s.chn[c].new_cmd EXCEPT !.op = op]
\* The page a command moves.
PageOf(e) == {i \in Buf : e.ram_ptr = i}

\* The command e, made of the registers of channel c, is put into its room.
AfterPush(t, s, c, e) ==
  /\ t \in Ctrl /\ t.chip = s.chip /\ t.current_chn = s.current_chn
  /\ \A x \in Channel \ {c} : t.chn[x] = s.chn[x]
  /\ t.chn[c].new_cmd = NewCommand /\ Pushed(t.chn[c], s.chn[c], e)

LEMMA PushIs ==
  ASSUME NEW s \in Ctrl, NEW c \in Channel, NEW op, NEW e \in Command,
         Made(s, c, op) = e, Len(s.chn[c].room) # ROOM_SIZE - 1
  PROVE  \E t : /\ AfterPush(t, s, c, e)
                /\ PushCommand(s, c, op)
                     = IF s.chn[c].room = <<>> THEN ProcessRoom(t, c) ELSE t
<1>. DEFINE ch == s.chn[c]
            newch == [ch EXCEPT !.new_cmd = NewCommand, !.room = Append(ch.room, e)]
            t == [s EXCEPT !.chn = [s.chn EXCEPT ![c] = newch]]
<1>1. ch \in NC_Channel
  BY CtrlFields
<1>2. Append(ch.room, e) \in Seq(Command) /\ NewCommand \in Command
  <2>1. ch.room \in Seq(Command)
    BY <1>1 DEF NC_Channel
  <2>. QED BY <2>1, AppendIs DEF Command, NewCommand
<1>3. newch \in NC_Channel
  BY <1>1, <1>2 DEF NC_Channel
<1>4. /\ newch.new_cmd = NewCommand /\ newch.room = Append(ch.room, e)
      /\ newch.active = ch.active /\ SameDma(newch, ch)
  BY <1>1 DEF NC_Channel, SameDma
<1>5. t = [s EXCEPT !.chn[c].new_cmd = NewCommand,
                    !.chn[c].room = IF Len(@) = ROOM_SIZE - 1 THEN @
                                    ELSE Append(@, [s.chn[c].new_cmd EXCEPT !.op = op])]
  BY <1>1 DEF Ctrl, NC_Channel, Made
<1>6. PushCommand(s, c, op) = IF s.chn[c].room = <<>> THEN ProcessRoom(t, c) ELSE t
  <2>. HIDE DEF t
  <2>. QED BY <1>5 DEF PushCommand, Made
<1>7. AfterPush(t, s, c, e)
  <2>. HIDE DEF newch
  <2>1. /\ t \in Ctrl /\ t.chip = s.chip /\ t.current_chn = s.current_chn
        /\ t.chn[c] = newch /\ \A x \in Channel \ {c} : t.chn[x] = s.chn[x]
    BY <1>3 DEF Ctrl
  <2>. QED BY <1>4, <2>1 DEF AfterPush, Pushed
<1>. QED BY <1>6, <1>7

\* There is room for every command of an operation.
LEMMA RoomLeft ==
  ASSUME NEW f \in Firmware, FwPart(f), NEW g \in Firmware, Wrote(f, g), NEW c,
         NEW ch \in NC_Channel, NEW cs, NEW img, ChnInv(ch, cs, f, img, c)
  PROVE  Len(ch.room) # ROOM_SIZE - 1
<1>1. Len(ch.room) \in Nat /\ Len(ch.room) <= Sent(f)
  BY DEF NC_Channel, ChnInv, RoomPart
<1>2. Sent(f) \in Nat /\ Sent(f) < 2 * Len(f.pages) /\ Len(f.pages) \in Nat
  BY WroteIs
<1>3. Len(f.pages) <= MAX_PAGES
  BY DEF FwPart
<1>. QED BY <1>1, <1>2, <1>3, LimitAssumption

\* Held after a push.
LEMMA HeldPushed ==
  ASSUME NEW ch \in NC_Channel, NEW e, NEW new, Pushed(new, ch, e)
  PROVE  Held(new) = Held(ch) \cup PageOf(e)
<1>1. ch.room \in Seq(Command)
  BY DEF NC_Channel
<1>. DEFINE m == Len(ch.room)
<1>2. /\ m \in Nat /\ new.room[m + 1] = e /\ \A j \in 1 .. m : new.room[j] = ch.room[j]
      /\ DOMAIN new.room = 1 .. m + 1 /\ DOMAIN ch.room = 1 .. m
  BY <1>1, AppendIs DEF Pushed
<1>. HIDE DEF m
<1>3. new.ram_ptr = ch.ram_ptr
  BY DEF Pushed, SameDma
<1>4. \A j \in 1 .. m + 1 : j \in 1 .. m \/ j = m + 1
  BY <1>2
<1>5. (m + 1) \in 1 .. m + 1 /\ \A j \in 1 .. m : j \in 1 .. m + 1
  BY <1>2
<1>6. ASSUME NEW i
      PROVE  (\E j \in DOMAIN new.room : new.room[j].ram_ptr = i)
               <=> (\E j \in DOMAIN ch.room : ch.room[j].ram_ptr = i) \/ e.ram_ptr = i
  BY <1>2, <1>4, <1>5
<1>. QED BY <1>3, <1>6 DEF Held, PageOf

\* The other channels do not notice a register that is written.
LEMMA OthersOnward ==
  ASSUME NEW f \in Firmware, FwPart(f), NEW g \in Firmware, Wrote(f, g),
         NEW x, x # f.pages[At(f)].chn
  PROVE  Onward(f, g, x) /\ ~On(f, x) /\ ~Half(g, x)
<1>1. f.k \in Nat /\ g.k = f.k + 1 /\ g.kind = f.kind /\ g.pages = f.pages
  BY WroteIs DEF Wrote
<1>2. Sent(f) <= Sent(g)
  <2>1. Sent(f) \in Nat /\ (Sent(g) = Sent(f) \/ Sent(g) = Sent(f) + 1)
    BY WroteIs
  <2>. QED BY <2>1
<1>3. ~On(f, x) /\ ~Half(f, x)
  BY DEF On, Half
<1>4. ~Half(g, x)
  <2>1. CASE f.k % 6 = 5
    <3>1. g.k % 6 = 0
      BY <2>1, WroteIs
    <3>. QED BY <3>1 DEF Half
  <2>2. CASE f.k % 6 # 5
    <3>1. At(g) = At(f)
      BY <2>2, WroteIs
    <3>. QED BY <3>1, <1>1 DEF Half, On
  <2>. QED BY <2>1, <2>2
<1>5. f.k <= g.k
  BY <1>1
<1>. QED BY <1>1, <1>2, <1>3, <1>4, <1>5 DEF Onward

\* Writing one of the two command registers.
LEMMA PushFits ==
  ASSUME NEW f \in Firmware, FwPart(f), NEW g \in Firmware, FwPart(g), Wrote(f, g), NEW img,
         img \in [ImgPages -> Data], f.kind = "READ" => img = image,
         NEW s, CtrlPart(s, f, img), NEW c \in Channel, c = f.pages[At(f)].chn,
         NEW op, NEW e \in Command, Made(s, c, op) = e,
         \/ f.k % 6 = 2 /\ e = NandCmd(f, At(f))
         \/ f.k % 6 = 5 /\ e = DataCmd(f, At(f))
  PROVE  /\ CtrlPart(PushCommand(s, c, op), g, img)
         /\ \A x \in Channel \ {c} : PushCommand(s, c, op).chn[x] = s.chn[x]
         /\ Held(PushCommand(s, c, op).chn[c]) = Held(s.chn[c]) \cup PageOf(e)
<1>. DEFINE u == PushCommand(s, c, op)
<1>1. /\ s \in Ctrl /\ Engine(s)
      /\ \A x \in Channel : /\ s.chn[x].new_cmd = Regs(f, x)
                            /\ ChnInv(s.chn[x], s.chip[x], f, img, x)
                            /\ Awake(s.chn[x], s.chip[x])
  BY DEF CtrlPart
<1>2. \A x \in Channel : s.chn[x] \in NC_Channel /\ s.chn[x].room \in Seq(Command)
  BY <1>1, CtrlFields DEF NC_Channel
<1>3. Len(s.chn[c].room) # ROOM_SIZE - 1
  BY <1>1, <1>2, RoomLeft
<1>4. PICK t : AfterPush(t, s, c, e) /\ u = IF s.chn[c].room = <<>> THEN ProcessRoom(t, c) ELSE t
  BY <1>1, <1>3, PushIs
<1>. HIDE DEF u
<1>5. /\ t \in Ctrl /\ t.chip = s.chip /\ t.current_chn = s.current_chn
      /\ \A x \in Channel \ {c} : t.chn[x] = s.chn[x]
      /\ t.chn[c].new_cmd = NewCommand /\ Pushed(t.chn[c], s.chn[c], e)
  BY <1>4 DEF AfterPush
<1>6. ChnInv(t.chn[c], t.chip[c], g, img, c)
  <2>1. ChnInv(s.chn[c], s.chip[c], f, img, c) /\ s.chn[c] \in NC_Channel
    BY <1>1, <1>2
  <2>2. CASE f.k % 6 = 2 /\ e = NandCmd(f, At(f))
    BY <1>5, <2>1, <2>2, ChnPushNand
  <2>3. CASE f.k % 6 = 5 /\ e = DataCmd(f, At(f))
    BY <1>5, <2>1, <2>3, ChnPushData
  <2>. QED BY <2>2, <2>3
<1>7. ASSUME NEW x \in Channel \ {c} PROVE ChnInv(t.chn[x], t.chip[x], g, img, x)
  <2>1. Onward(f, g, x)
    BY OthersOnward
  <2>2. Alike(t.chn[x], s.chn[x])
    BY <1>5 DEF Alike, SameDma
  <2>3. Len(s.chn[x].room) \in Int /\ ChnInv(s.chn[x], s.chip[x], f, img, x)
    BY <1>1, <1>2
  <2>4. ChnInv(t.chn[x], s.chip[x], g, img, x)
    BY <2>1, <2>2, <2>3, ChnOnward
  <2>. QED BY <2>4, <1>5
<1>8. \A x \in Channel : t.chn[x].wait_dma = s.chn[x].wait_dma
  BY <1>5 DEF Pushed, SameDma
<1>9. Engine(t)
  <2>1. s.current_chn \in Channel \cup {None}
    BY <1>1, CtrlFields
  <2>. QED BY <1>1, <1>5, <1>8, <2>1 DEF Engine
<1>10. \A x \in Channel : Regs(g, x) = NewCommand
  <2>1. g.k % 6 \in {0, 3}
    BY WroteIs
  <2>. QED BY <2>1, RegsEmpty
<1>11. \A x \in Channel : t.chn[x].new_cmd = NewCommand
  <2>1. ASSUME NEW x \in Channel, x # c PROVE Regs(f, x) = NewCommand
    <3>1. ~On(f, x)
      BY <2>1, OthersOnward
    <3>. QED BY <3>1, RegsEmpty
  <2>. QED BY <1>1, <1>5, <2>1
<1>12. Held(t.chn[c]) = Held(s.chn[c]) \cup PageOf(e)
  BY <1>2, <1>5, HeldPushed
<1>13. CASE s.chn[c].room = <<>>
  <2>1. u = ProcessRoom(t, c)
    BY <1>4, <1>13
  <2>2. g.kind = "READ" => img = image
    BY DEF Wrote
  <2>3. Fits(u, t, g, img, c) /\ Blocked(u, c)
    BY <1>5, <1>6, <1>9, <2>1, <2>2, RoomFits
  <2>4. /\ u \in Ctrl /\ Engine(u)
        /\ \A x \in Channel \ {c} : u.chn[x] = t.chn[x] /\ u.chip[x] = t.chip[x]
        /\ u.chn[c].new_cmd = t.chn[c].new_cmd
        /\ ChnInv(u.chn[c], u.chip[c], g, img, c) /\ Held(u.chn[c]) = Held(t.chn[c])
    BY <2>3 DEF Fits
  <2>5. \A x \in Channel : u.chn[x].new_cmd = Regs(g, x) /\ ChnInv(u.chn[x], u.chip[x], g, img, x)
    BY <1>7, <1>10, <1>11, <2>4
  <2>6. Awake(u.chn[c], u.chip[c])
    BY <2>3, <2>4, BlockedAwake
  <2>7. \A x \in Channel \ {c} : Awake(u.chn[x], u.chip[x])
    BY <1>1, <1>5, <2>4
  <2>8. CtrlPart(u, g, img)
    BY <2>4, <2>5, <2>6, <2>7 DEF CtrlPart
  <2>. QED BY <2>4, <2>8, <1>5, <1>12 DEF u
<1>14. CASE s.chn[c].room # <<>>
  <2>1. u = t
    BY <1>4, <1>14
  <2>2. \A x \in Channel : t.chn[x].new_cmd = Regs(g, x) /\ ChnInv(t.chn[x], t.chip[x], g, img, x)
    BY <1>6, <1>7, <1>10, <1>11
  <2>3. Awake(t.chn[c], t.chip[c])
    <3>1. t.chn[c].room[1] = s.chn[c].room[1]
      <4>1. \A q \in Seq(Command) : q # <<>> => Append(q, e)[1] = q[1]
        OBVIOUS
      <4>. QED BY <4>1, <1>2, <1>5, <1>14 DEF Pushed
    <3>2. s.chn[c].wait_dma \/ s.chip[c][s.chn[c].room[1].chip].busy
      BY <1>1, <1>14 DEF Awake
    <3>. QED BY <3>1, <3>2, <1>5, <1>8 DEF Awake
  <2>4. \A x \in Channel \ {c} : Awake(t.chn[x], t.chip[x])
    BY <1>1, <1>5
  <2>5. CtrlPart(t, g, img)
    BY <1>5, <1>9, <2>2, <2>3, <2>4 DEF CtrlPart
  <2>. QED BY <2>1, <2>5, <1>5, <1>12 DEF u
<1>. QED BY <1>13, <1>14

\* The registers after one more was written.
LEMMA RegsStep ==
  ASSUME NEW f \in Firmware, FwPart(f), NEW g \in Firmware, Wrote(f, g),
         NEW c, c = f.pages[At(f)].chn, f.k % 6 \in {0, 1, 3, 4}
  PROVE  LET p == f.pages[At(f)]
         IN /\ f.k % 6 \in {0, 3} => Regs(g, c) = [Regs(f, c) EXCEPT !.chip = p.chip]
            /\ f.k % 6 = 1 => Regs(g, c) = [Regs(f, c) EXCEPT !.addr = AddressCycle(p)]
            /\ f.k % 6 = 4 => Regs(g, c) = [Regs(f, c) EXCEPT !.ram_ptr = At(f)]
            /\ Regs(g, c) \in Command
<1>1. /\ g.pc = "issue" /\ g.k % 6 = (f.k % 6) + 1 /\ At(g) = At(f) /\ g.pages = f.pages
      /\ f.pages[At(f)] \in Ppa /\ At(f) \in 1 .. Len(f.pages)
  <2>1. f.k % 6 # 5 /\ g.pages = f.pages
    BY DEF Wrote
  <2>. QED BY <2>1, WroteIs
<1>2. On(f, c) /\ On(g, c)
  BY <1>1 DEF On, Wrote
<1>3. f.k % 6 = 0 => Regs(g, c) = [Regs(f, c) EXCEPT !.chip = f.pages[At(f)].chip]
  BY <1>1, <1>2 DEF Regs
<1>4. f.k % 6 = 3 => Regs(g, c) = [Regs(f, c) EXCEPT !.chip = f.pages[At(f)].chip]
  BY <1>1, <1>2 DEF Regs
<1>5. f.k % 6 = 1 => Regs(g, c) = [Regs(f, c) EXCEPT !.addr = AddressCycle(f.pages[At(f)])]
  BY <1>1, <1>2 DEF Regs
<1>6. f.k % 6 = 4 => Regs(g, c) = [Regs(f, c) EXCEPT !.ram_ptr = At(f)]
  BY <1>1, <1>2 DEF Regs
<1>7. Regs(g, c) \in Command
  <2>1. f.pages[At(f)].chip \in Chip /\ AddressCycle(f.pages[At(f)]) \in Nat
    BY <1>1, RowOf DEF Ppa
  <2>2. At(f) \in Buf
    <3>1. Len(f.pages) \in Nat /\ Len(f.pages) <= MAX_PAGES
      BY DEF Firmware, FwPart
    <3>. QED BY <1>1, <3>1, LimitAssumption DEF Buf
  <2>. DEFINE z == f.pages[At(f)].chip  a == AddressCycle(f.pages[At(f)])
  <2>3. \E x \in Chip \cup {None}, y \in Nat, i \in Buf \cup {None} :
          Regs(g, c) = [op |-> NoOp, chip |-> x, addr |-> y, ram_ptr |-> i]
    <3>1. Regs(g, c) = [op |-> NoOp, chip |-> IF g.k % 6 \in {1, 2, 4, 5} THEN z ELSE None,
                        addr |-> IF g.k % 6 = 2 THEN a ELSE 0,
                        ram_ptr |-> IF g.k % 6 = 5 THEN At(f) ELSE None]
      BY <1>1, <1>2 DEF Regs
    <3>. HIDE DEF z, a
    <3>2. z \in Chip /\ a \in Nat
      BY <2>1 DEF z, a
    <3>. QED BY <2>2, <3>1, <3>2
  <2>. QED BY <2>3 DEF Command
<1>. QED BY <1>3, <1>4, <1>5, <1>6, <1>7

\* Channel c gets new registers r.
SetRegs(s, c, r) == [s EXCEPT !.chn = [s.chn EXCEPT ![c] = [s.chn[c] EXCEPT !.new_cmd = r]]]

LEMMA SetRegsIs ==
  ASSUME NEW s \in Ctrl, NEW c \in Channel, NEW r \in Command
  PROVE  LET t == SetRegs(s, c, r)
         IN /\ t \in Ctrl /\ t.chip = s.chip /\ t.current_chn = s.current_chn
            /\ \A x \in Channel \ {c} : t.chn[x] = s.chn[x]
            /\ t.chn[c].new_cmd = r /\ Alike(t.chn[c], s.chn[c])
<1>. DEFINE ch == s.chn[c]
            newch == [ch EXCEPT !.new_cmd = r]
            t == SetRegs(s, c, r)
<1>1. ch \in NC_Channel
  BY CtrlFields
<1>2. newch \in NC_Channel /\ newch.new_cmd = r
  BY <1>1 DEF NC_Channel
<1>3. Alike(newch, ch)
  BY <1>1 DEF NC_Channel, Alike, SameDma
<1>4. t = [s EXCEPT !.chn = [s.chn EXCEPT ![c] = newch]]
  BY DEF SetRegs
<1>. HIDE DEF newch, t
<1>5. /\ t \in Ctrl /\ t.chip = s.chip /\ t.current_chn = s.current_chn
      /\ \A x \in Channel \ {c} : t.chn[x] = s.chn[x]
      /\ t.chn[c] = newch
  BY <1>2, <1>4 DEF Ctrl
<1>. QED BY <1>2, <1>3, <1>5 DEF t

LEMMA SameHeld ==
  ASSUME NEW new, NEW ch, Alike(new, ch)
  PROVE  Held(new) = Held(ch)
BY DEF Alike, SameDma, Held

\* Writing one of the other registers.
LEMMA RegFits ==
  ASSUME NEW f \in Firmware, FwPart(f), NEW g \in Firmware, FwPart(g), Wrote(f, g), NEW img,
         NEW s, CtrlPart(s, f, img), NEW c \in Channel, c = f.pages[At(f)].chn,
         f.k % 6 \in {0, 1, 3, 4}
  PROVE  LET t == SetRegs(s, c, Regs(g, c))
         IN /\ CtrlPart(t, g, img)
            /\ \A x \in Channel : Held(t.chn[x]) = Held(s.chn[x])
<1>. DEFINE t == SetRegs(s, c, Regs(g, c))
<1>1. /\ s \in Ctrl /\ Engine(s)
      /\ \A x \in Channel : /\ s.chn[x].new_cmd = Regs(f, x)
                            /\ ChnInv(s.chn[x], s.chip[x], f, img, x)
                            /\ Awake(s.chn[x], s.chip[x])
  BY DEF CtrlPart
<1>2. Regs(g, c) \in Command
  BY RegsStep
<1>3. /\ t \in Ctrl /\ t.chip = s.chip /\ t.current_chn = s.current_chn
      /\ \A x \in Channel \ {c} : t.chn[x] = s.chn[x]
      /\ t.chn[c].new_cmd = Regs(g, c) /\ Alike(t.chn[c], s.chn[c])
  BY <1>1, <1>2, SetRegsIs
<1>. HIDE DEF t
<1>4. \A x \in Channel : Alike(t.chn[x], s.chn[x])
  BY <1>3 DEF Alike, SameDma
<1>5. Onward(f, g, c)
  <2>1. /\ f.k \in Nat /\ f.k % 6 \in {0, 1, 3, 4} /\ g.pc = "issue"
        /\ g.k % 6 = (f.k % 6) + 1 /\ At(g) = At(f)
        /\ Sent(f) \in Nat /\ Sent(g) = Sent(f)
    <3>1. f.k % 6 # 5 /\ ~(f.k % 6 \in {2, 5})
      OBVIOUS
    <3>2. /\ f.k \in Nat /\ g.pc = "issue" /\ g.k % 6 = (f.k % 6) + 1 /\ At(g) = At(f)
          /\ Sent(f) \in Nat /\ Sent(g) = Sent(f) + 0
      BY <3>1, WroteIs
    <3>. QED BY <3>2
  <2>2. g.kind = f.kind /\ g.pages = f.pages /\ g.k = f.k + 1
    BY DEF Wrote
  <2>3. f.k % 6 >= 3 <=> g.k % 6 >= 3
    BY <2>1
  <2>4. On(g, c) <=> On(f, c)
    BY <2>1, <2>2 DEF On, Wrote
  <2>5. f.k <= g.k /\ Sent(f) <= Sent(g)
    BY <2>1, <2>2
  <2>. QED BY <2>1, <2>2, <2>3, <2>4, <2>5 DEF Onward, Half
<1>6. ASSUME NEW x \in Channel PROVE ChnInv(t.chn[x], t.chip[x], g, img, x)
  <2>1. Onward(f, g, x)
    BY <1>5, OthersOnward
  <2>2. Len(s.chn[x].room) \in Int /\ ChnInv(s.chn[x], s.chip[x], f, img, x)
    BY <1>1, CtrlFields DEF NC_Channel
  <2>3. ChnInv(t.chn[x], s.chip[x], g, img, x)
    BY <1>4, <2>1, <2>2, ChnOnward
  <2>. QED BY <2>3, <1>3
<1>7. Engine(t)
  <2>1. \A x \in Channel : t.chn[x].wait_dma = s.chn[x].wait_dma
    BY <1>4 DEF Alike, SameDma
  <2>2. s.current_chn \in Channel \cup {None}
    BY <1>1, CtrlFields
  <2>. QED BY <1>1, <1>3, <2>1, <2>2 DEF Engine
<1>8. ASSUME NEW x \in Channel, x # c PROVE t.chn[x].new_cmd = Regs(g, x)
  <2>1. ~On(f, x) /\ ~On(g, x)
    <3>1. g.pages = f.pages /\ f.k % 6 # 5
      BY DEF Wrote
    <3>2. At(g) = At(f)
      BY <3>1, WroteIs
    <3>. QED BY <3>1, <3>2, <1>8 DEF On
  <2>2. Regs(f, x) = NewCommand /\ Regs(g, x) = NewCommand
    BY <2>1, RegsEmpty
  <2>. QED BY <2>2, <1>1, <1>3, <1>8
<1>9. \A x \in Channel : Awake(t.chn[x], t.chip[x])
  BY <1>1, <1>3, <1>4 DEF Awake, Alike, SameDma
<1>10. CtrlPart(t, g, img)
  BY <1>3, <1>6, <1>7, <1>8, <1>9 DEF CtrlPart
<1>11. \A x \in Channel : Held(t.chn[x]) = Held(s.chn[x])
  BY <1>4, SameHeld
<1>. QED BY <1>10, <1>11 DEF t

----------------------------------------------------------------------------
(* Between two operations.                                                 *)

\* Nothing is going on in a channel.
Quiet(ch, cs) ==
  /\ ch.room = <<>> /\ ch.active = 0
  /\ ch.wait_dma = FALSE /\ ch.read_dma = FALSE /\ ch.write_dma = FALSE
  /\ ch.ram_ptr = None /\ ch.dma_chip = None
  /\ \A k \in Chip : cs[k].busy = FALSE /\ cs[k].events = 0

AllQuiet(s) ==
  /\ s \in Ctrl /\ Engine(s)
  /\ \A c \in Channel : s.chn[c].new_cmd = NewCommand /\ Quiet(s.chn[c], s.chip[c])

\* A channel is quiet when the driver has counted zero.
LEMMA ZeroQuiet ==
  ASSUME NEW f \in Firmware, FwPart(f), NEW c, NEW img,
         NEW ch \in NC_Channel, NEW cs \in [Chip -> NC_Chip], ChnInv(ch, cs, f, img, c),
         ch.room = <<>>, ch.active = 0
  PROVE  Quiet(ch, cs)
<1>1. CountPart(ch, cs) /\ BusyPart(cs, f, c) /\ DmaPart(ch, cs, f, img, c)
  BY DEF ChnInv
<1>2. /\ \A k \in Chip : cs[k].events = (IF cs[k].busy THEN 1 ELSE 0)
      /\ 0 = Cardinality(Timed(cs)) + (IF ch.wait_dma THEN 1 ELSE 0)
  BY <1>1 DEF CountPart
<1>3. Len(f.pages) <= MAX_PAGES
  BY DEF FwPart
<1>4. IsFiniteSet(Timed(cs)) /\ Cardinality(Timed(cs)) \in Nat
  BY <1>1, <1>2, <1>3, TimedBound
<1>5. Cardinality(Timed(cs)) = 0 /\ ~ch.wait_dma
  BY <1>2, <1>4
<1>6. Timed(cs) = {}
  BY <1>4, <1>5, FS_EmptySet
<1>7. \A k \in Chip : cs[k].busy \in BOOLEAN
  BY DEF NC_Chip
<1>8. ASSUME NEW k \in Chip PROVE cs[k].busy = FALSE /\ cs[k].events = 0
  <2>1. ~(cs[k].events > 0)
    BY <1>6 DEF Timed
  <2>2. ~cs[k].busy
    BY <1>2, <2>1
  <2>. QED BY <1>2, <1>7, <2>2
<1>9. ch.wait_dma \in BOOLEAN /\ ch.read_dma \in BOOLEAN /\ ch.write_dma \in BOOLEAN
  BY DEF NC_Channel
<1>10. ch.ram_ptr = None /\ ch.dma_chip = None /\ ~ch.read_dma /\ ~ch.write_dma
  BY <1>1, <1>5 DEF DmaPart
<1>. QED BY <1>5, <1>8, <1>9, <1>10 DEF Quiet

\* A channel is quiet when the operation has no pages.
LEMMA NoPagesQuiet ==
  ASSUME NEW f \in Firmware, FwPart(f), f.pages = <<>>, NEW c, NEW img,
         NEW ch \in NC_Channel, NEW cs \in [Chip -> NC_Chip], ChnInv(ch, cs, f, img, c)
  PROVE  Quiet(ch, cs)
<1>1. \A p : ~Mine(f, c, p)
  BY DEF Mine
<1>2. ~Half(f, c)
  BY DEF Half, On
<1>3. ch.room = <<>>
  <2>1. SUFFICES ASSUME ch.room # <<>> PROVE FALSE
    OBVIOUS
  <2>2. ch.room \in Seq(Command)
    BY DEF NC_Channel
  <2>3. Len(ch.room) \in 1 .. Len(ch.room)
    BY <2>1, <2>2
  <2>4. Cell(ch, cs, f, img, c, Len(ch.room))
    BY <2>3 DEF ChnInv, RoomPart
  <2>. QED BY <1>1, <1>2, <2>4 DEF Cell
<1>4. ~ch.wait_dma
  BY <1>1 DEF ChnInv, DmaPart
<1>5. Timed(cs) = {}
  <2>1. \A k \in Chip : ~cs[k].busy
    BY DEF ChnInv, BusyPart
  <2>. QED BY <2>1 DEF Timed, ChnInv, CountPart
<1>6. ch.active = 0
  <2>1. Cardinality(Timed(cs)) = 0
    BY <1>5, FS_EmptySet
  <2>. QED BY <1>4, <2>1 DEF ChnInv, CountPart
<1>. QED BY <1>3, <1>6, ZeroQuiet

LEMMA QuietFits ==
  ASSUME NEW ch, NEW cs, Quiet(ch, cs), NEW g \in Firmware, NEW c, NEW img, ~Half(g, c)
  PROVE  ChnInv(ch, cs, g, img, c) /\ Awake(ch, cs)
<1>1. DmaPart(ch, cs, g, img, c)
  BY DEF Quiet, DmaPart
<1>2. CountPart(ch, cs)
  <2>1. Timed(cs) = {}
    BY DEF Quiet, Timed
  <2>2. Cardinality(Timed(cs)) = 0
    BY <2>1, FS_EmptySet
  <2>. QED BY <2>2 DEF Quiet, CountPart
<1>3. BusyPart(cs, g, c)
  BY DEF Quiet, BusyPart
<1>4. RoomPart(ch, cs, g, img, c)
  <2>1. Len(ch.room) = 0 /\ \A j \in 1 .. Len(ch.room) : FALSE
    BY DEF Quiet
  <2>2. Sent(g) \in Nat
    <3>1. g.k \in Nat
      BY DEF Firmware
    <3>. QED BY <3>1 DEF Sent
  <2>3. Len(ch.room) <= Sent(g)
    BY <2>1, <2>2
  <2>. QED BY <2>1, <2>3 DEF RoomPart, Quiet
<1>. QED BY <1>1, <1>2, <1>3, <1>4 DEF ChnInv, Awake, Quiet

LEMMA CtrlQuiet ==
  ASSUME NEW s, AllQuiet(s), NEW g \in Firmware, g.k = 0, NEW img
  PROVE  CtrlPart(s, g, img)
<1>1. g.k % 6 = 0
  OBVIOUS
<1>2. \A c \in Channel : Regs(g, c) = NewCommand /\ ~Half(g, c)
  BY <1>1, RegsEmpty DEF Half
<1>3. \A c \in Channel : ChnInv(s.chn[c], s.chip[c], g, img, c) /\ Awake(s.chn[c], s.chip[c])
  BY <1>2, QuietFits DEF AllQuiet
<1>. QED BY <1>2, <1>3 DEF AllQuiet, CtrlPart

LEMMA NoPagesAllQuiet ==
  ASSUME NEW f \in Firmware, FwPart(f), f.pages = <<>>, NEW img, NEW s, CtrlPart(s, f, img)
  PROVE  AllQuiet(s)
<1>1. \A c \in Channel : s.chn[c] \in NC_Channel /\ s.chip[c] \in [Chip -> NC_Chip]
  BY CtrlFields DEF CtrlPart
<1>2. \A c \in Channel : Quiet(s.chn[c], s.chip[c])
  BY <1>1, NoPagesQuiet DEF CtrlPart
<1>3. \A c \in Channel : Regs(f, c) = NewCommand
  BY RegsEmpty DEF On
<1>. QED BY <1>2, <1>3 DEF CtrlPart, AllQuiet

\* The rooms hold no more than the commands of one operation.
LEMMA RoomBound ==
  ASSUME NEW f \in Firmware, FwPart(f), NEW img, NEW s, CtrlPart(s, f, img)
  PROVE  \A c \in Channel : Len(s.chn[c].room) <= 2 * MAX_PAGES
<1>. SUFFICES ASSUME NEW c \in Channel PROVE Len(s.chn[c].room) <= 2 * MAX_PAGES
  OBVIOUS
<1>1. Len(s.chn[c].room) <= Sent(f)
  BY DEF CtrlPart, ChnInv, RoomPart
<1>2. Len(s.chn[c].room) \in Nat
  BY CtrlFields DEF CtrlPart, NC_Channel
<1>3. f.k \in Nat /\ Len(f.pages) \in Nat /\ Len(f.pages) <= MAX_PAGES
  BY DEF Firmware, FwPart
<1>4. f.k <= 6 * Len(f.pages)
  <2>1. f.pages = <<>> => Len(f.pages) = 0
    OBVIOUS
  <2>2. f.pc \in {"off", "idle", "issue", "poll"}
    BY DEF Firmware
  <2>. QED BY <1>3, <2>1, <2>2 DEF FwPart
<1>5. Sent(f) \in Nat /\ Sent(f) <= 2 * Len(f.pages)
  <2>. DEFINE k == f.k  N == Len(f.pages)
  <2>. HIDE DEF k, N
  <2>1. k \in Nat /\ N \in Nat /\ k <= 6 * N
    BY <1>3, <1>4 DEF k, N
  <2>2. 2 * (k \div 6) + (IF k % 6 >= 3 THEN 1 ELSE 0) \in Nat
    BY <2>1
  <2>3. 2 * (k \div 6) + (IF k % 6 >= 3 THEN 1 ELSE 0) <= 2 * N
    BY <2>1
  <2>. QED BY <2>2, <2>3 DEF Sent, k, N
<1>. QED BY <1>1, <1>2, <1>3, <1>5, LimitAssumption

----------------------------------------------------------------------------
(* The steps. Each is shown to keep the invariant.                         *)

LEMMA Limits ==
  /\ MAX_PAGES \in Nat /\ MAX_PAGES > 0 /\ MAX_OPS \in Nat /\ MAX_OPS > 0 /\ MaxOps \in Nat
BY LimitAssumption

LEMMA PoolTypes ==
  ASSUME NEW q \in Pool
  PROVE  /\ MallocOp(q) \in Pool /\ MallocObj(q) \in 0 .. MAX_OPS
         /\ \A obj \in 0 .. MAX_OPS : FreeOp(q, obj) \in Pool
         /\ MallocOp(q).objs = q.objs /\ MallocOp(q).tail = q.tail
         /\ MallocOp(q).head = (q.head + 1) % MAX_OPS
         /\ MallocObj(q) = q.objs[q.head]
<1>1. /\ q.head \in 0 .. MAX_OPS - 1 /\ q.tail \in 0 .. MAX_OPS - 1
      /\ q.objs \in [0 .. MAX_OPS - 1 -> 0 .. MAX_OPS]
  BY DEF Pool
<1>2. \A x \in 0 .. MAX_OPS - 1 : (x + 1) % MAX_OPS \in 0 .. MAX_OPS - 1
  BY Limits
<1>3. MallocOp(q) \in Pool
  BY <1>1, <1>2 DEF Pool, MallocOp
<1>4. MallocObj(q) \in 0 .. MAX_OPS /\ MallocObj(q) = q.objs[q.head]
  BY <1>1 DEF MallocObj
<1>5. ASSUME NEW obj \in 0 .. MAX_OPS PROVE FreeOp(q, obj) \in Pool
  <2>1. [q.objs EXCEPT ![q.tail] = obj] \in [0 .. MAX_OPS - 1 -> 0 .. MAX_OPS]
    BY <1>1
  <2>. QED BY <1>1, <1>2, <2>1 DEF Pool, FreeOp
<1>6. /\ MallocOp(q).objs = q.objs /\ MallocOp(q).tail = q.tail
      /\ MallocOp(q).head = (q.head + 1) % MAX_OPS
  BY DEF Pool, MallocOp
<1>. QED BY <1>3, <1>4, <1>5, <1>6

LEMMA InitPoolTypes ==
  /\ InitRops \in Pool /\ InitPops \in Pool
  /\ InitRops.head = 0 /\ InitRops.tail = 0
  /\ InitRops.objs = [i \in 0 .. MAX_OPS - 1 |-> i + 1]
<1>1. 0 \in 0 .. MAX_OPS - 1
  BY Limits
<1>2. [i \in 0 .. MAX_OPS - 1 |-> i + 1] \in [0 .. MAX_OPS - 1 -> 0 .. MAX_OPS]
  BY Limits
<1>3. [i \in 0 .. MAX_OPS - 1 |-> IF i = 0 THEN MAX_OPS ELSE 0]
        \in [0 .. MAX_OPS - 1 -> 0 .. MAX_OPS]
  BY Limits
<1>. QED BY <1>1, <1>2, <1>3 DEF Pool, InitRops, InitPops, Pool0

\* The parts of the type invariant.
LEMMA Types ==
  ASSUME TypeOK
  PROVE  /\ fw \in Firmware /\ free_rops \in Pool /\ free_pops \in Pool /\ nc \in Ctrl
         /\ image \in [ImgPages -> Data] /\ file \in [ImgPages -> Data] /\ shm \in BOOLEAN
         /\ ram \in [Buf -> Data] /\ n \in 0 .. MaxOps
BY DEF TypeOK, Ctrl

LEMMA IdleIs ==
  /\ Idle \in Firmware /\ [Idle EXCEPT !.pc = "off"] \in Firmware
  /\ FwPart(Idle) /\ FwPart([Idle EXCEPT !.pc = "off"])
<1>1. <<>> \in Seq(Ppa) /\ Len(<<>>) = 0 /\ 0 \in 0 .. MAX_OPS
  BY Limits
<1>2. Idle \in Firmware /\ [Idle EXCEPT !.pc = "off"] \in Firmware
  BY <1>1 DEF Idle, Firmware
<1>3. FwPart(Idle)
  BY <1>1, Limits DEF Idle, FwPart, NoOp
<1>4. FwPart([Idle EXCEPT !.pc = "off"])
  BY <1>1, Limits DEF Idle, FwPart, NoOp
<1>. QED BY <1>2, <1>3, <1>4

LEMMA InitInv ==
  ASSUME Init
  PROVE  IInv
<1>1. nc \in Ctrl /\ \A c \in Channel : Quiet(nc.chn[c], nc.chip[c]) /\ nc.chn[c].new_cmd = NewCommand
  <2>1. NewCommand \in Command /\ <<>> \in Seq(Command)
    BY DEF NewCommand, Command
  <2>. DEFINE ch0 == [new_cmd |-> NewCommand, room |-> <<>>, active |-> 0,
                      wait_dma |-> FALSE, read_dma |-> FALSE, write_dma |-> FALSE,
                      ram_ptr |-> None, dma_chip |-> None]
              cp0 == [busy |-> FALSE, addr |-> 0, reg |-> Blank, pending |-> FALSE, events |-> 0]
  <2>2. ch0 \in NC_Channel
    <3>1. 0 \in U8
      BY U8Range
    <3>. QED BY <2>1, <3>1 DEF NC_Channel
  <2>3. cp0 \in NC_Chip
    BY DEF NC_Chip, Data
  <2>4. /\ ch0.room = <<>> /\ ch0.active = 0 /\ ch0.wait_dma = FALSE /\ ch0.read_dma = FALSE
        /\ ch0.write_dma = FALSE /\ ch0.ram_ptr = None /\ ch0.dma_chip = None
        /\ ch0.new_cmd = NewCommand /\ cp0.busy = FALSE /\ cp0.events = 0
    OBVIOUS
  <2>5. /\ nc \in [chn: {[c \in Channel |-> ch0]}, chip: {[c \in Channel |-> [k \in Chip |-> cp0]]},
                   toggle: BOOLEAN, current_chn: {None}]
    BY DEF Init
  <2>. HIDE DEF ch0, cp0
  <2>6. nc \in Ctrl /\ nc.chn = [c \in Channel |-> ch0] /\ nc.chip = [c \in Channel |-> [k \in Chip |-> cp0]]
    BY <2>2, <2>3, <2>5 DEF Ctrl
  <2>7. \A c \in Channel : nc.chn[c] = ch0 /\ \A k \in Chip : nc.chip[c][k] = cp0
    BY <2>6
  <2>. QED BY <2>4, <2>6, <2>7 DEF Quiet
<1>2. Engine(nc)
  <2>1. nc.current_chn = None
    BY DEF Init
  <2>. QED BY <1>1, <2>1 DEF Engine, Quiet
<1>3. /\ fw \in Firmware /\ FwPart(fw) /\ fw.k = 0 /\ fw.pages = <<>> /\ fw.kind = NoOp /\ fw.pc = "off"
  BY IdleIs DEF Init, Idle
<1>4. CtrlPart(nc, fw, image)
  BY <1>1, <1>2, <1>3, CtrlQuiet DEF AllQuiet
<1>5. image \in [ImgPages -> Data] /\ file = image /\ ram \in [Buf -> Data] /\ n \in 0 .. MaxOps
  BY Limits DEF Init, Data
<1>6. TypeOK
  BY <1>1, <1>3, <1>4, <1>5, RoomBound, InitPoolTypes DEF Init, TypeOK, Ctrl
<1>7. PollPart /\ PoolPart /\ FilePart
  BY <1>3, InitPoolTypes DEF Init, PollPart, PoolPart, FilePart, NoOp
<1>. QED BY <1>3, <1>4, <1>6, <1>7 DEF IInv

LEMMA InitializeInv ==
  ASSUME IInv, InitializeNandCtrl
  PROVE  IInv'
<1>1. /\ fw \in Firmware /\ free_rops \in Pool /\ free_pops \in Pool /\ nc \in Ctrl
      /\ image \in [ImgPages -> Data] /\ file \in [ImgPages -> Data] /\ shm \in BOOLEAN
      /\ ram \in [Buf -> Data] /\ n \in 0 .. MaxOps
      /\ FwPart(fw) /\ CtrlPart(nc, fw, image) /\ PoolPart
  BY Types DEF IInv
<1>2. fw.pages = <<>> /\ fw.kind = NoOp
  BY <1>1 DEF InitializeNandCtrl, FwPart
<1>3. AllQuiet(nc)
  BY <1>1, <1>2, NoPagesAllQuiet
<1>4. fw' \in Firmware /\ FwPart(fw') /\ fw'.k = 0 /\ fw'.kind = NoOp /\ fw'.pc = "idle"
  BY IdleIs DEF InitializeNandCtrl, Idle
<1>5. CtrlPart(nc', fw', image')
  BY <1>3, <1>4, CtrlQuiet DEF InitializeNandCtrl
<1>6. TypeOK'
  BY <1>1, <1>4, <1>5, RoomBound DEF InitializeNandCtrl, TypeOK, Ctrl
<1>7. PollPart' /\ PoolPart' /\ FilePart'
  BY <1>1, <1>2, <1>4 DEF InitializeNandCtrl, PollPart, PoolPart, FilePart, NoOp
<1>. QED BY <1>4, <1>5, <1>6, <1>7 DEF IInv

LEMMA ShutdownInv ==
  ASSUME IInv, ShutdownNand
  PROVE  IInv'
<1>1. /\ fw \in Firmware /\ free_rops \in Pool /\ free_pops \in Pool /\ nc \in Ctrl
      /\ image \in [ImgPages -> Data] /\ file \in [ImgPages -> Data] /\ shm \in BOOLEAN
      /\ ram \in [Buf -> Data] /\ n \in 0 .. MaxOps
      /\ FwPart(fw) /\ CtrlPart(nc, fw, image) /\ PoolPart
  BY Types DEF IInv
<1>2. fw.pages = <<>> /\ fw.kind = NoOp
  BY <1>1 DEF ShutdownNand, FwPart
<1>3. AllQuiet(nc)
  BY <1>1, <1>2, NoPagesAllQuiet
<1>4. fw' \in Firmware /\ FwPart(fw') /\ fw'.k = 0 /\ fw'.kind = NoOp /\ fw'.pc = "off"
  BY IdleIs DEF ShutdownNand, Idle
<1>5. CtrlPart(nc', fw', image')
  BY <1>3, <1>4, CtrlQuiet DEF ShutdownNand
<1>6. TypeOK'
  BY <1>1, <1>4, <1>5, RoomBound, InitPoolTypes DEF ShutdownNand, FileAfterShutdown, TypeOK, Ctrl
<1>7. PollPart' /\ PoolPart' /\ FilePart'
  BY <1>1, <1>2, <1>4, InitPoolTypes DEF ShutdownNand, PollPart, PoolPart, FilePart, NoOp
<1>. QED BY <1>4, <1>5, <1>6, <1>7 DEF IInv

\* add_*_op_page takes the pages that fit.
LEMMA Taken ==
  ASSUME NEW b \in Seq(Ppa)
  PROVE  LET m == Min({MAX_PAGES, Len(b)})
         IN SubSeq(b, 1, m) \in Seq(Ppa) /\ Len(SubSeq(b, 1, m)) <= MAX_PAGES
<1>. DEFINE S == {MAX_PAGES, Len(b)}
            m == Min(S)
<1>1. Len(b) \in Nat /\ MAX_PAGES \in Nat
  BY Limits
<1>2. \E x \in S : \A y \in S : x <= y
  BY <1>1
<1>3. m \in S /\ \A y \in S : m <= y
  BY <1>2 DEF Min
<1>. HIDE DEF m
<1>4. m \in Nat /\ m <= MAX_PAGES /\ m <= Len(b)
  BY <1>1, <1>3
<1>5. SubSeq(b, 1, m) \in Seq(Ppa) /\ Len(SubSeq(b, 1, m)) = m
  BY <1>1, <1>4
<1>. QED BY <1>4, <1>5 DEF m

LEMMA BeginInv ==
  ASSUME IInv, NEW kind \in Kinds, NEW b \in Batches, BeginOp(kind, b)
  PROVE  IInv' /\ fw.pages = <<>> /\ fw.pc = "idle" /\ fw'.pages \in Seq(Ppa) /\ AllQuiet(nc)
<1>1. /\ fw \in Firmware /\ free_rops \in Pool /\ free_pops \in Pool /\ nc \in Ctrl
      /\ image \in [ImgPages -> Data] /\ file \in [ImgPages -> Data] /\ shm \in BOOLEAN
      /\ ram \in [Buf -> Data] /\ n \in 0 .. MaxOps
      /\ FwPart(fw) /\ CtrlPart(nc, fw, image) /\ PoolPart /\ FilePart
  BY Types DEF IInv
<1>2. fw.pages = <<>> /\ fw.kind = NoOp /\ fw.pc = "idle"
  BY <1>1 DEF BeginOp, FwPart
<1>3. AllQuiet(nc)
  BY <1>1, <1>2, NoPagesAllQuiet
<1>. DEFINE pool == IF kind = "READ" THEN free_rops ELSE free_pops
            pgs == SubSeq(b, 1, Min({MAX_PAGES, Len(b)}))
<1>4. pool \in Pool
  BY <1>1
<1>5. pgs \in Seq(Ppa) /\ Len(pgs) <= MAX_PAGES /\ Len(pgs) \in Nat
  <2>1. b \in Seq(Ppa)
    BY BatchAssumption
  <2>2. pgs \in Seq(Ppa) /\ Len(pgs) <= MAX_PAGES
    BY <2>1, Taken
  <2>. HIDE DEF pgs
  <2>. QED BY <2>2
<1>6. fw' = [Idle EXCEPT !.pc = "issue", !.kind = kind, !.obj = MallocObj(pool), !.pages = pgs]
  BY DEF BeginOp
<1>. HIDE DEF pool, pgs
<1>7. MallocObj(pool) \in 0 .. MAX_OPS
  BY <1>4, PoolTypes
<1>8. /\ fw' \in Firmware /\ fw'.k = 0 /\ fw'.kind = kind /\ fw'.pc = "issue" /\ fw'.pages = pgs
      /\ fw'.ichn = 0 /\ fw'.cmdStatus = 0 /\ fw'.obj = MallocObj(pool)
  BY <1>5, <1>6, <1>7 DEF Idle, Firmware
<1>9. FwPart(fw')
  <2>1. pgs = <<>> \/ 0 < 6 * Len(pgs)
    BY <1>5
  <2>. QED BY <1>5, <1>8, <2>1 DEF FwPart, Kinds, NoOp
<1>10. CtrlPart(nc', fw', image')
  BY <1>3, <1>8, CtrlQuiet DEF BeginOp
<1>11. n' \in 0 .. MaxOps /\ ram' \in [Buf -> Data]
  <2>1. n + 1 \in 1 .. MaxOps /\ n' = n + 1
    BY <1>1, Limits DEF BeginOp
  <2>2. \A i \in Buf : <<n + 1, i>> \in Data
    BY <2>1 DEF Data, Buf
  <2>3. ram' = ram \/ ram' = [i \in Buf |-> <<n + 1, i>>]
    BY DEF BeginOp
  <2>. QED BY <1>1, <2>1, <2>2, <2>3
<1>12. free_rops' \in Pool /\ free_pops' \in Pool
  BY <1>1, PoolTypes DEF BeginOp
<1>13. TypeOK'
  BY <1>1, <1>8, <1>9, <1>10, <1>11, <1>12, RoomBound DEF BeginOp, TypeOK, Ctrl
<1>14. PoolPart'
  <2>1. CASE kind = "READ"
    <3>1. free_rops' = MallocOp(free_rops) /\ pool = free_rops
      BY <2>1 DEF BeginOp, pool
    <3>2. /\ free_rops.objs = InitRops.objs /\ free_rops.tail = free_rops.head
      BY <1>1, <1>2 DEF PoolPart, NoOp
    <3>3. free_rops.head \in 0 .. MAX_OPS - 1
      BY <1>1 DEF Pool
    <3>4. /\ free_rops'.objs = InitRops.objs /\ free_rops'.tail = free_rops.head
          /\ free_rops'.head = (free_rops.head + 1) % MAX_OPS
          /\ fw'.obj = free_rops.head + 1
      <4>1. /\ MallocOp(free_rops).objs = free_rops.objs /\ MallocOp(free_rops).tail = free_rops.tail
            /\ MallocOp(free_rops).head = (free_rops.head + 1) % MAX_OPS
            /\ MallocObj(free_rops) = free_rops.objs[free_rops.head]
        BY <1>1, PoolTypes
      <4>2. InitRops.objs[free_rops.head] = free_rops.head + 1
        BY <3>3, InitPoolTypes
      <4>. QED BY <1>8, <3>1, <3>2, <4>1, <4>2
    <3>. QED BY <3>4, <1>8, <2>1 DEF PoolPart
  <2>2. CASE kind # "READ"
    BY <2>2, <1>1, <1>2, <1>8 DEF PoolPart, BeginOp, NoOp
  <2>. QED BY <2>1, <2>2
<1>15. PollPart' /\ FilePart'
  BY <1>1, <1>2, <1>8 DEF BeginOp, PollPart, FilePart
<1>. QED BY <1>2, <1>3, <1>5, <1>8, <1>9, <1>10, <1>13, <1>14, <1>15 DEF IInv

\* The end of an operation, once its channels are quiet.
LEMMA EndInv ==
  ASSUME IInv, EndOp, AllQuiet(nc), fw.kind # NoOp,
         UNCHANGED <<nc, image, file, shm, ram, n>>
  PROVE  IInv' /\ fw'.pages = <<>> /\ fw'.kind = NoOp /\ fw'.pc = "idle"
<1>1. /\ fw \in Firmware /\ free_rops \in Pool /\ free_pops \in Pool /\ nc \in Ctrl
      /\ image \in [ImgPages -> Data] /\ file \in [ImgPages -> Data] /\ shm \in BOOLEAN
      /\ ram \in [Buf -> Data] /\ n \in 0 .. MaxOps
      /\ FwPart(fw) /\ CtrlPart(nc, fw, image) /\ PoolPart /\ FilePart
  BY Types DEF IInv
<1>2. /\ fw' \in Firmware /\ FwPart(fw') /\ fw'.k = 0 /\ fw'.kind = NoOp /\ fw'.pc = "idle"
      /\ fw'.pages = <<>>
  BY IdleIs DEF EndOp, Idle
<1>3. CtrlPart(nc', fw', image')
  BY <1>2, CtrlQuiet
<1>4. fw.obj \in 0 .. MAX_OPS
  BY <1>1 DEF Firmware
<1>5. free_rops' \in Pool /\ free_pops' \in Pool
  BY <1>1, <1>4, PoolTypes DEF EndOp
<1>6. TypeOK'
  BY <1>1, <1>2, <1>3, <1>5, RoomBound DEF TypeOK, Ctrl
<1>7. PoolPart'
  <2>1. CASE fw.kind = "READ"
    <3>1. /\ free_rops' = FreeOp(free_rops, fw.obj)
          /\ free_rops.objs = InitRops.objs /\ free_rops.head = (free_rops.tail + 1) % MAX_OPS
          /\ fw.obj = free_rops.tail + 1 /\ free_rops.tail \in 0 .. MAX_OPS - 1
      BY <1>1, <2>1 DEF EndOp, PoolPart, Pool
    <3>2. fw.obj # 0
      BY <3>1
    <3>3. free_rops' = [free_rops EXCEPT !.objs[free_rops.tail] = fw.obj,
                                         !.tail = (@ + 1) % MAX_OPS]
      BY <3>1, <3>2 DEF FreeOp
    <3>4. /\ free_rops'.objs = [InitRops.objs EXCEPT ![free_rops.tail] = fw.obj]
          /\ free_rops'.tail = (free_rops.tail + 1) % MAX_OPS /\ free_rops'.head = free_rops.head
      BY <1>1, <3>1, <3>3 DEF Pool
    <3>5. [InitRops.objs EXCEPT ![free_rops.tail] = fw.obj] = InitRops.objs
      BY <3>1, InitPoolTypes
    <3>. QED BY <1>2, <3>1, <3>4, <3>5 DEF PoolPart, NoOp
  <2>2. CASE fw.kind # "READ"
    BY <1>1, <1>2, <2>2 DEF EndOp, PoolPart, NoOp
  <2>. QED BY <2>1, <2>2
<1>8. PollPart' /\ FilePart'
  <2>1. fw.pc # "off"
    BY <1>1 DEF FwPart
  <2>. QED BY <1>1, <1>2, <2>1 DEF PollPart, FilePart
<1>. QED BY <1>2, <1>3, <1>6, <1>7, <1>8 DEF IInv

LEMMA EmptyInv ==
  ASSUME IInv, EmptyOp
  PROVE  IInv' /\ fw'.pages = <<>> /\ fw'.kind = NoOp /\ fw'.pc = "idle" /\ fw.kind # NoOp /\ AllQuiet(nc)
<1>1. fw \in Firmware /\ FwPart(fw) /\ CtrlPart(nc, fw, image)
  BY Types DEF IInv
<1>2. fw.pc = "issue" /\ fw.pages = <<>> /\ EndOp /\ UNCHANGED <<nc, image, file, shm, ram, n>>
  BY DEF EmptyOp
<1>3. fw.kind # NoOp
  BY <1>1, <1>2 DEF FwPart
<1>4. AllQuiet(nc)
  BY <1>1, <1>2, NoPagesAllQuiet
<1>. QED BY <1>2, <1>3, <1>4, EndInv

LEMMA SameProgress ==
  ASSUME NEW f \in Firmware, NEW g \in Firmware, NEW img, NEW s, CtrlPart(s, f, img),
         g.pc = f.pc, g.kind = f.kind, g.pages = f.pages, g.k = f.k
  PROVE  CtrlPart(s, g, img)
<1>1. At(g) = At(f) /\ Sent(g) = Sent(f) /\ f.k \in Nat
  BY DEF At, Sent, Firmware
<1>2. \A c \in Channel : (On(g, c) <=> On(f, c)) /\ (Half(g, c) <=> Half(f, c))
  BY <1>1 DEF On, Half
<1>3. \A c \in Channel : Regs(g, c) = Regs(f, c)
  BY <1>1, <1>2 DEF Regs
<1>4. f.k <= g.k /\ Sent(f) <= Sent(g)
  <2>1. Sent(f) \in Int
    BY <1>1 DEF Sent
  <2>. QED BY <1>1, <2>1
<1>5. \A c \in Channel : Onward(f, g, c)
  BY <1>1, <1>2, <1>4 DEF Onward
<1>6. ASSUME NEW c \in Channel PROVE ChnInv(s.chn[c], s.chip[c], g, img, c)
  <2>1. Alike(s.chn[c], s.chn[c])
    BY DEF Alike, SameDma
  <2>2. Len(s.chn[c].room) \in Int
    BY CtrlFields DEF CtrlPart, NC_Channel
  <2>. QED BY <1>5, <2>1, <2>2, ChnOnward DEF CtrlPart
<1>. QED BY <1>3, <1>6 DEF CtrlPart

\* The status loop.
LEMMA PollInv ==
  ASSUME IInv, PollChannel
  PROVE  /\ IInv'
         /\ \/ fw'.kind = fw.kind /\ fw'.pages = fw.pages /\ fw'.k = fw.k /\ fw'.pc = fw.pc
            \/ /\ fw'.pages = <<>> /\ fw'.kind = NoOp /\ fw'.pc = "idle"
               /\ fw.kind # NoOp /\ AllQuiet(nc)
<1>1. /\ fw \in Firmware /\ free_rops \in Pool /\ free_pops \in Pool /\ nc \in Ctrl
      /\ image \in [ImgPages -> Data] /\ file \in [ImgPages -> Data] /\ shm \in BOOLEAN
      /\ ram \in [Buf -> Data] /\ n \in 0 .. MaxOps
      /\ FwPart(fw) /\ CtrlPart(nc, fw, image) /\ PollPart /\ PoolPart /\ FilePart
  BY Types DEF IInv
<1>2. fw.pc = "poll" /\ fw.kind # NoOp /\ UNCHANGED <<nc, image, file, shm, ram, n>>
  BY <1>1 DEF PollChannel, FwPart
<1>. DEFINE sum == fw.cmdStatus + ActiveOperationCount(fw.ichn)
<1>3. \A c \in Channel : /\ nc.chn[c].active \in Nat /\ Len(nc.chn[c].room) \in Nat
                         /\ nc.chn[c].room \in Seq(Command)
                         /\ nc.chn[c] \in NC_Channel /\ nc.chip[c] \in [Chip -> NC_Chip]
  <2>1. SUFFICES ASSUME NEW c \in Channel
        PROVE  /\ nc.chn[c].active \in Nat /\ Len(nc.chn[c].room) \in Nat
               /\ nc.chn[c].room \in Seq(Command)
               /\ nc.chn[c] \in NC_Channel /\ nc.chip[c] \in [Chip -> NC_Chip]
    OBVIOUS
  <2>2. nc.chn[c] \in NC_Channel /\ nc.chip[c] \in [Chip -> NC_Chip]
    BY <1>1, CtrlFields
  <2>3. nc.chn[c].active \in U8 /\ nc.chn[c].room \in Seq(Command)
    BY <2>2 DEF NC_Channel
  <2>4. nc.chn[c].active \in Nat
    BY <2>3, U8Range
  <2>. QED BY <2>2, <2>3, <2>4
<1>4. fw.cmdStatus \in Nat /\ fw.ichn \in Channel
  BY <1>1 DEF Firmware, Channel
<1>5. sum = fw.cmdStatus + (nc.chn[fw.ichn].active + Len(nc.chn[fw.ichn].room)) /\ sum \in Nat
  <2>. DEFINE a == nc.chn[fw.ichn].active  l == Len(nc.chn[fw.ichn].room)  st == fw.cmdStatus
  <2>1. a \in Nat /\ l \in Nat /\ st \in Nat
    BY <1>3, <1>4
  <2>2. sum = st + (a + l)
    BY DEF ActiveOperationCount
  <2>. HIDE DEF a, l, st, sum
  <2>3. sum \in Nat
    BY <2>1, <2>2
  <2>. QED BY <2>2, <2>3 DEF a, l, st
<1>. HIDE DEF sum
<1>6. \A c \in Channel : nc.chn[c].active + Len(nc.chn[c].room) = 0 =>
        nc.chn[c].active = 0 /\ nc.chn[c].room = <<>>
  <2>1. \A q \in Seq(Command) : Len(q) = 0 => q = <<>>
    OBVIOUS
  <2>2. \A a, l \in Nat : a + l = 0 => a = 0 /\ l = 0
    OBVIOUS
  <2>. QED BY <1>3, <2>1, <2>2
<1>7. ASSUME NEW st \in Nat, NEW i \in {0, 1}, fw' = [fw EXCEPT !.ichn = i, !.cmdStatus = st],
             UNCHANGED <<free_rops, free_pops>>, i = 0 => st = 0,
             i = 1 /\ st = 0 => nc.chn[0].room = <<>> /\ nc.chn[0].active = 0
      PROVE  /\ IInv' /\ fw'.kind = fw.kind /\ fw'.pages = fw.pages /\ fw'.k = fw.k /\ fw'.pc = fw.pc
  <2>1. /\ fw' \in Firmware /\ fw'.pc = fw.pc /\ fw'.kind = fw.kind /\ fw'.pages = fw.pages
        /\ fw'.k = fw.k /\ fw'.obj = fw.obj /\ fw'.ichn = i /\ fw'.cmdStatus = st
    BY <1>1, <1>7 DEF Firmware
  <2>2. FwPart(fw')
    BY <1>1, <1>2, <1>7, <2>1 DEF FwPart
  <2>3. CtrlPart(nc', fw', image')
    BY <1>1, <1>2, <2>1, SameProgress
  <2>4. TypeOK'
    BY <1>1, <1>2, <1>7, <2>1, <2>2, <2>3, RoomBound DEF TypeOK, Ctrl
  <2>5. PollPart' /\ PoolPart' /\ FilePart'
    BY <1>1, <1>2, <1>7, <2>1 DEF PollPart, PoolPart, FilePart
  <2>. QED BY <2>1, <2>2, <2>3, <2>4, <2>5 DEF IInv
<1>8. CASE fw.ichn = 0 /\ fw' = [fw EXCEPT !.ichn = 1, !.cmdStatus = sum]
           /\ UNCHANGED <<free_rops, free_pops>>
  <2>1. fw.cmdStatus = 0
    BY <1>1, <1>8 DEF FwPart
  <2>2. sum = 0 => nc.chn[0].active + Len(nc.chn[0].room) = 0
    BY <1>3, <1>4, <1>5, <1>8, <2>1
  <2>3. sum = 0 => nc.chn[0].room = <<>> /\ nc.chn[0].active = 0
    BY <1>6, <2>2 DEF Channel
  <2>4. sum \in Nat /\ (1 = 0 => sum = 0) /\ 1 \in {0, 1}
    BY <1>5
  <2>. QED BY <1>7, <1>8, <2>3, <2>4
<1>9. CASE fw.ichn = 1 /\ fw' = [fw EXCEPT !.ichn = 0, !.cmdStatus = 0]
           /\ UNCHANGED <<free_rops, free_pops>>
  <2>1. 0 \in Nat /\ 0 \in {0, 1} /\ ~(0 = 1)
    OBVIOUS
  <2>. QED BY <1>7, <1>9, <2>1
<1>10. CASE fw.ichn = 1 /\ sum = 0 /\ EndOp
  <2>1. fw.cmdStatus = 0 /\ nc.chn[1].active + Len(nc.chn[1].room) = 0
    <3>1. \A a, l \in Nat : a + l = 0 => a = 0 /\ l = 0
      OBVIOUS
    <3>2. nc.chn[1].active + Len(nc.chn[1].room) \in Nat
      BY <1>3 DEF Channel
    <3>. QED BY <1>4, <1>5, <1>10, <3>1, <3>2
  <2>2. nc.chn[1].active = 0 /\ nc.chn[1].room = <<>>
    BY <1>6, <2>1 DEF Channel
  <2>3. nc.chn[0].active = 0 /\ nc.chn[0].room = <<>>
    BY <1>1, <1>2, <1>10, <2>1 DEF PollPart
  <2>4. \A c \in Channel : Quiet(nc.chn[c], nc.chip[c])
    <3>1. \A c \in Channel : nc.chn[c].active = 0 /\ nc.chn[c].room = <<>>
      BY <2>2, <2>3 DEF Channel
    <3>. QED BY <1>1, <1>3, <3>1, ZeroQuiet DEF CtrlPart
  <2>5. \A c \in Channel : nc.chn[c].new_cmd = NewCommand
    <3>1. \A c \in Channel : ~On(fw, c)
      BY <1>2 DEF On
    <3>. QED BY <1>1, <3>1, RegsEmpty DEF CtrlPart
  <2>6. AllQuiet(nc)
    BY <1>1, <2>4, <2>5 DEF AllQuiet, CtrlPart
  <2>. QED BY <1>2, <1>10, <2>6, EndInv
<1>11. \/ fw.ichn = 0 /\ fw' = [fw EXCEPT !.ichn = 1, !.cmdStatus = sum]
          /\ UNCHANGED <<free_rops, free_pops>>
       \/ fw.ichn = 1 /\ fw' = [fw EXCEPT !.ichn = 0, !.cmdStatus = 0]
          /\ UNCHANGED <<free_rops, free_pops>>
       \/ fw.ichn = 1 /\ sum = 0 /\ EndOp
  BY DEF PollChannel, sum
<1>. QED BY <1>8, <1>9, <1>10, <1>11

\* The firmware after a register was written.
LEMMA IssueFw ==
  ASSUME fw \in Firmware, FwPart(fw), IssueRegister
  PROVE  /\ fw' \in Firmware /\ FwPart(fw') /\ Wrote(fw, fw')
         /\ fw'.obj = fw.obj /\ fw'.ichn = 0
         /\ WriteReg(Script[(fw.k % 6) + 1], fw.pages[At(fw)], At(fw))
<1>1. Len(Script) = 6
  BY DEF Script
<1>2. /\ fw.pc = "issue" /\ fw.pages # <<>> /\ fw.k \in Nat /\ fw.pages \in Seq(Ppa)
      /\ fw.k < 6 * Len(fw.pages) /\ Len(fw.pages) \in Nat /\ fw.ichn = 0 /\ fw.cmdStatus = 0
      /\ fw.kind # NoOp
  <2>1. fw.pc = "issue" /\ fw.pages # <<>>
    BY DEF IssueRegister
  <2>2. fw.k \in Nat /\ fw.pages \in Seq(Ppa) /\ Len(fw.pages) \in Nat
    BY DEF Firmware
  <2>3. fw.k < 6 * Len(fw.pages) /\ fw.ichn = 0 /\ fw.cmdStatus = 0 /\ fw.kind # NoOp
    BY <2>1 DEF FwPart
  <2>. QED BY <2>1, <2>2, <2>3
<1>. DEFINE last == fw.k + 1 = 6 * Len(fw.pages)
<1>3. fw' = [fw EXCEPT !.k = fw.k + 1, !.pc = IF last THEN "poll" ELSE fw.pc]
  BY <1>1 DEF IssueRegister, LastWrite
<1>4. fw.k + 1 \in Nat /\ (~last => fw.k + 1 < 6 * Len(fw.pages))
  <2>. DEFINE l == Len(fw.pages)
  <2>1. l \in Nat /\ fw.k < 6 * l /\ fw.k \in Nat
    BY <1>2
  <2>2. (~(fw.k + 1 = 6 * l) => fw.k + 1 < 6 * l) /\ fw.k + 1 \in Nat
    <3>. HIDE DEF l
    <3>. QED BY <2>1
  <2>. QED BY <2>2
<1>. HIDE DEF last
<1>5. /\ fw' \in Firmware /\ fw'.kind = fw.kind /\ fw'.pages = fw.pages /\ fw'.k = fw.k + 1
      /\ fw'.pc = (IF last THEN "poll" ELSE "issue") /\ fw'.obj = fw.obj /\ fw'.ichn = 0
      /\ fw'.cmdStatus = 0
  BY <1>2, <1>3, <1>4 DEF Firmware
<1>6. Wrote(fw, fw')
  BY <1>2, <1>5 DEF Wrote, last
<1>7. FwPart(fw')
  <2>1. last => fw'.k = 6 * Len(fw'.pages)
    BY <1>5 DEF last
  <2>2. ~last => fw'.k < 6 * Len(fw'.pages)
    BY <1>4, <1>5
  <2>. QED BY <1>2, <1>5, <2>1, <2>2 DEF FwPart
<1>8. WriteReg(Script[(fw.k % 6) + 1], fw.pages[At(fw)], At(fw))
  BY <1>1 DEF IssueRegister, At
<1>. QED BY <1>5, <1>6, <1>7, <1>8

\* What is stored into the registers, phase by phase.
Stored(ph, p, i) ==
  /\ ph \in {0, 3} => nc' = [nc EXCEPT !.chn[p.chn].new_cmd.chip = p.chip]
  /\ ph = 1 => nc' = [nc EXCEPT !.chn[p.chn].new_cmd.addr = AddressCycle(p)]
  /\ ph = 2 => nc' = PushCommand(nc, p.chn, CmdPhaseOp(fw.kind))
  /\ ph = 4 => nc' = [nc EXCEPT !.chn[p.chn].new_cmd.ram_ptr = i]
  /\ ph = 5 => nc' = PushCommand(nc, p.chn, DmaPhaseOp(fw.kind))

LEMMA StoreIs ==
  ASSUME NEW ph \in 0 .. 5, NEW p, NEW i, WriteReg(Script[ph + 1], p, i)
  PROVE  Stored(ph, p, i)
<1>1. CASE ph = 0 \/ ph = 3
  <2>1. Script[ph + 1] = "CHIP_SELECT_REG"
    BY <1>1 DEF Script
  <2>. QED BY <1>1, <2>1 DEF WriteReg, Stored
<1>2. CASE ph = 1
  <2>1. Script[ph + 1] = "ADDRESS_CYCLE_REG_1"
    BY <1>2 DEF Script
  <2>. QED BY <1>2, <2>1 DEF WriteReg, Stored
<1>3. CASE ph = 2
  <2>1. Script[ph + 1] = "CMD_PHASE_CMD_REG"
    BY <1>3 DEF Script
  <2>. QED BY <1>3, <2>1 DEF WriteReg, Stored
<1>4. CASE ph = 4
  <2>1. Script[ph + 1] = "DMA_RAM_PTR"
    BY <1>4 DEF Script
  <2>. QED BY <1>4, <2>1 DEF WriteReg, Stored
<1>5. CASE ph = 5
  <2>1. Script[ph + 1] = "DMA_PHASE_CMD_REG"
    BY <1>5 DEF Script
  <2>. QED BY <1>5, <2>1 DEF WriteReg, Stored
<1>. QED BY <1>1, <1>2, <1>3, <1>4, <1>5

LEMMA StoreRegs ==
  ASSUME NEW s \in Ctrl, NEW c \in Channel
  PROVE  /\ \A v : [s EXCEPT !.chn[c].new_cmd.chip = v]
                     = SetRegs(s, c, [s.chn[c].new_cmd EXCEPT !.chip = v])
         /\ \A v : [s EXCEPT !.chn[c].new_cmd.addr = v]
                     = SetRegs(s, c, [s.chn[c].new_cmd EXCEPT !.addr = v])
         /\ \A v : [s EXCEPT !.chn[c].new_cmd.ram_ptr = v]
                     = SetRegs(s, c, [s.chn[c].new_cmd EXCEPT !.ram_ptr = v])
BY DEF SetRegs, Ctrl

\* The page whose second command a register write has sent.
NewPage(f) == IF f.k % 6 = 5 THEN {At(f)} ELSE {}

\* A register is written.
LEMMA IssueCtrl ==
  ASSUME IInv, IssueRegister
  PROVE  /\ CtrlPart(nc', fw', image)
         /\ \A x \in Channel : Held(nc'.chn[x])
              = Held(nc.chn[x]) \cup (IF x = fw.pages[At(fw)].chn THEN NewPage(fw) ELSE {})
<1>1. /\ fw \in Firmware /\ nc \in Ctrl /\ image \in [ImgPages -> Data]
      /\ FwPart(fw) /\ CtrlPart(nc, fw, image)
  BY Types DEF IInv
<1>2. /\ fw' \in Firmware /\ FwPart(fw') /\ Wrote(fw, fw')
      /\ WriteReg(Script[(fw.k % 6) + 1], fw.pages[At(fw)], At(fw))
  BY <1>1, IssueFw
<1>. DEFINE ph == fw.k % 6
            pg == fw.pages[At(fw)]
            c == pg.chn
<1>3. At(fw) \in 1 .. Len(fw.pages) /\ pg \in Ppa /\ ph \in 0 .. 5
  BY <1>1, <1>2, WroteIs
<1>2a. Stored(ph, pg, At(fw))
  BY <1>2, <1>3, StoreIs
<1>4. c \in Channel /\ pg.chip \in Chip /\ AddressCycle(pg) \in Nat
  BY <1>3, RowOf DEF Ppa
<1>5. At(fw) \in Buf /\ fw.kind \in Kinds /\ On(fw, c)
  <2>1. Len(fw.pages) \in Nat /\ Len(fw.pages) <= MAX_PAGES
    BY <1>1 DEF FwPart, Firmware
  <2>2. At(fw) \in Buf
    BY <1>3, <2>1, Limits DEF Buf
  <2>3. fw.pc = "issue" /\ fw.pages # <<>>
    BY <1>2 DEF Wrote
  <2>4. fw.kind \in Kinds
    BY <1>1, <2>3 DEF FwPart, Firmware
  <2>. QED BY <2>2, <2>3, <2>4 DEF On
<1>6. nc.chn[c].new_cmd = Regs(fw, c)
  BY <1>1, <1>4 DEF CtrlPart
<1>7. CASE ph \in {0, 1, 3, 4}
  <2>1. nc' = SetRegs(nc, c, Regs(fw', c))
    <3>0. ph # 2 /\ ph # 5
      BY <1>7
    <3>. HIDE DEF ph, pg
    <3>1. /\ ph \in {0, 3} => nc' = [nc EXCEPT !.chn[c].new_cmd.chip = pg.chip]
          /\ ph = 1 => nc' = [nc EXCEPT !.chn[c].new_cmd.addr = AddressCycle(pg)]
          /\ ph = 4 => nc' = [nc EXCEPT !.chn[c].new_cmd.ram_ptr = At(fw)]
      BY <1>2a DEF Stored
    <3>2. /\ ph \in {0, 3} => Regs(fw', c) = [Regs(fw, c) EXCEPT !.chip = pg.chip]
          /\ ph = 1 => Regs(fw', c) = [Regs(fw, c) EXCEPT !.addr = AddressCycle(pg)]
          /\ ph = 4 => Regs(fw', c) = [Regs(fw, c) EXCEPT !.ram_ptr = At(fw)]
      BY <1>1, <1>2, <1>7, RegsStep DEF ph, pg
    <3>3. CASE ph \in {0, 3}
      BY <1>1, <1>4, <1>6, <3>1, <3>2, <3>3, StoreRegs, SMTT(60)
    <3>4. CASE ph = 1
      BY <1>1, <1>4, <1>6, <3>1, <3>2, <3>4, StoreRegs
    <3>5. CASE ph = 4
      BY <1>1, <1>4, <1>6, <3>1, <3>2, <3>5, StoreRegs
    <3>. QED BY <1>7, <3>3, <3>4, <3>5
  <2>2. NewPage(fw) = {}
    BY <1>7 DEF NewPage
  <2>3. /\ CtrlPart(SetRegs(nc, c, Regs(fw', c)), fw', image)
        /\ \A x \in Channel : Held(SetRegs(nc, c, Regs(fw', c)).chn[x]) = Held(nc.chn[x])
    BY <1>1, <1>2, <1>4, <1>7, RegFits
  <2>. QED BY <2>1, <2>2, <2>3
<1>8. ASSUME NEW op, NEW e \in Command, Made(nc, c, op) = e, nc' = PushCommand(nc, c, op),
             \/ ph = 2 /\ e = NandCmd(fw, At(fw))
             \/ ph = 5 /\ e = DataCmd(fw, At(fw)),
             PageOf(e) = NewPage(fw)
      PROVE  /\ CtrlPart(nc', fw', image)
             /\ \A x \in Channel : Held(nc'.chn[x])
                  = Held(nc.chn[x]) \cup (IF x = c THEN NewPage(fw) ELSE {})
  <2>1. c = fw.pages[At(fw)].chn /\ c \in Channel /\ (fw.kind = "READ" => image = image)
    BY <1>4
  <2>. DEFINE t == PushCommand(nc, c, op)
  <2>2. /\ CtrlPart(t, fw', image)
        /\ \A x \in Channel \ {c} : t.chn[x] = nc.chn[x]
        /\ Held(t.chn[c]) = Held(nc.chn[c]) \cup PageOf(e)
    <3>1. \/ fw.k % 6 = 2 /\ e = NandCmd(fw, At(fw))
          \/ fw.k % 6 = 5 /\ e = DataCmd(fw, At(fw))
      BY <1>8
    <3>2. e \in Command /\ Made(nc, c, op) = e
      BY <1>8
    <3>. HIDE DEF c, t
    <3>3. PICK g : g = fw'
      OBVIOUS
    <3>4. g \in Firmware /\ FwPart(g) /\ Wrote(fw, g)
      BY <1>2, <3>3
    <3>5. /\ CtrlPart(PushCommand(nc, c, op), g, image)
          /\ \A x \in Channel \ {c} : PushCommand(nc, c, op).chn[x] = nc.chn[x]
          /\ Held(PushCommand(nc, c, op).chn[c]) = Held(nc.chn[c]) \cup PageOf(e)
      BY <1>1, <2>1, <3>1, <3>2, <3>4, PushFits
    <3>. QED BY <3>3, <3>5 DEF t
  <2>. HIDE DEF t, c
  <2>3. nc' = t
    BY <1>8 DEF t
  <2>. QED BY <2>2, <2>3, <1>8
<1>9. CASE ph = 2
  <2>. DEFINE e == NandCmd(fw, At(fw))  op == CmdPhaseOp(fw.kind)
  <2>1. e \in Command
    BY <1>4, <1>5 DEF NandCmd, Command, CmdPhaseOp
  <2>2. Made(nc, c, op) = e
    BY <1>5, <1>6, <1>9, RegsNand DEF Made
  <2>3. nc' = PushCommand(nc, c, op)
    BY <1>2a, <1>9 DEF Stored
  <2>4. PageOf(e) = NewPage(fw)
    <3>1. e.ram_ptr = -1
      BY DEF NandCmd, None
    <3>2. \A i \in Buf : i # -1
      BY Limits DEF Buf
    <3>3. PageOf(e) = {}
      <4>. HIDE DEF e
      <4>. QED BY <3>1, <3>2 DEF PageOf
    <3>. QED BY <3>3, <1>9 DEF NewPage
  <2>. HIDE DEF e, op
  <2>5. e = NandCmd(fw, At(fw))
    BY DEF e
  <2>. QED BY <1>8, <1>9, <2>1, <2>2, <2>3, <2>4, <2>5
<1>10. CASE ph = 5
  <2>. DEFINE e == DataCmd(fw, At(fw))  op == DmaPhaseOp(fw.kind)
  <2>1. e \in Command
    BY <1>4, <1>5 DEF DataCmd, Command, DmaPhaseOp
  <2>2. Made(nc, c, op) = e
    BY <1>5, <1>6, <1>10, RegsData DEF Made
  <2>3. nc' = PushCommand(nc, c, op)
    BY <1>2a, <1>10 DEF Stored
  <2>4. PageOf(e) = NewPage(fw)
    <3>1. e.ram_ptr = At(fw)
      BY DEF DataCmd
    <3>2. PageOf(e) = {At(fw)}
      <4>. HIDE DEF e
      <4>. QED BY <3>1, <1>5 DEF PageOf
    <3>. QED BY <3>2, <1>10 DEF NewPage
  <2>. HIDE DEF e, op
  <2>5. e = DataCmd(fw, At(fw))
    BY DEF e
  <2>. QED BY <1>8, <1>10, <2>1, <2>2, <2>3, <2>4, <2>5
<1>. QED BY <1>3, <1>7, <1>9, <1>10

LEMMA IssueInv ==
  ASSUME IInv, IssueRegister
  PROVE  IInv'
<1>1. /\ fw \in Firmware /\ free_rops \in Pool /\ free_pops \in Pool /\ nc \in Ctrl
      /\ image \in [ImgPages -> Data] /\ file \in [ImgPages -> Data] /\ shm \in BOOLEAN
      /\ ram \in [Buf -> Data] /\ n \in 0 .. MaxOps
      /\ FwPart(fw) /\ CtrlPart(nc, fw, image) /\ PollPart /\ PoolPart /\ FilePart
  BY Types DEF IInv
<1>2. UNCHANGED <<free_rops, free_pops, image, file, shm, ram, n>>
  BY DEF IssueRegister
<1>3. fw' \in Firmware /\ FwPart(fw') /\ Wrote(fw, fw') /\ fw'.obj = fw.obj /\ fw'.ichn = 0
  BY <1>1, IssueFw
<1>4. CtrlPart(nc', fw', image')
  BY <1>2, IssueCtrl
<1>5. TypeOK'
  BY <1>1, <1>2, <1>3, <1>4, RoomBound DEF TypeOK, Ctrl, CtrlPart
<1>6. PollPart' /\ PoolPart' /\ FilePart'
  BY <1>1, <1>2, <1>3 DEF PollPart, PoolPart, FilePart, Wrote
<1>. QED BY <1>3, <1>4, <1>5, <1>6 DEF IInv

----------------------------------------------------------------------------
(* The events.                                                             *)

\* Only a read looks at the image.
LEMMA ImgFree ==
  ASSUME NEW f, NEW c, NEW ch, NEW cs, NEW img, NEW new, f.kind = "READ" => new = img,
         ChnInv(ch, cs, f, img, c)
  PROVE  ChnInv(ch, cs, f, new, c)
<1>1. \A p : Primed(cs, f, new, c, p) <=> Primed(cs, f, img, c, p)
  BY DEF Primed
<1>2. DmaPart(ch, cs, f, new, c)
  BY <1>1 DEF DmaPart, ChnInv
<1>3. \A j \in 1 .. Len(ch.room) : Cell(ch, cs, f, img, c, j) => Cell(ch, cs, f, new, c, j)
  BY <1>1 DEF Cell
<1>4. RoomPart(ch, cs, f, new, c)
  BY <1>1, <1>3 DEF RoomPart, ChnInv
<1>. QED BY <1>2, <1>4 DEF ChnInv

\* A DMA for chip k is over: channel c goes from ch, cs to new, ncs.
DmaOver(new, ncs, ch, cs, k, f) ==
  /\ new.room = ch.room /\ new.new_cmd = ch.new_cmd
  /\ ~new.wait_dma /\ ~new.read_dma /\ ~new.write_dma
  /\ new.ram_ptr = None /\ new.dma_chip = None
  /\ \A x \in Chip \ {k} : ncs[x] = cs[x]
  /\ f.kind = "READ" => /\ ncs[k].busy = cs[k].busy /\ ncs[k].events = cs[k].events
                        /\ new.active = (ch.active - 1) % 256
  /\ f.kind = "PROGRAM" => /\ ncs[k].busy /\ ncs[k].events = cs[k].events + 1
                           /\ new.active = (((ch.active - 1) % 256) + 1) % 256

LEMMA RoomAfterDma ==
  ASSUME NEW f \in Firmware, NEW c, NEW img, NEW ch \in NC_Channel, NEW cs,
         RoomPart(ch, cs, f, img, c), ch.wait_dma,
         NEW new, NEW ncs, new.room = ch.room, ~new.wait_dma
  PROVE  RoomPart(new, ncs, f, img, c)
<1>1. Len(ch.room) \in Nat
  BY DEF NC_Channel
<1>2. ASSUME NEW j \in 1 .. Len(ch.room) PROVE Cell(new, ncs, f, img, c, j)
  <2>1. Cell(ch, cs, f, img, c, j)
    BY DEF RoomPart
  <2>2. j = 1 => ch.room[j].ram_ptr = None
    BY <2>1 DEF Cell
  <2>. QED BY <2>1, <2>2 DEF Cell
<1>3. Half(f, c) => ch.room # <<>> /\ ch.room[Len(ch.room)].ram_ptr = None
  BY DEF RoomPart
<1>. QED BY <1>2, <1>3 DEF RoomPart

\* The page a DMA was for is not in the room any more.
LEMMA HeldAfterDma ==
  ASSUME NEW f \in Firmware, Len(f.pages) <= MAX_PAGES, NEW c, NEW img, NEW ch \in NC_Channel, NEW cs,
         RoomPart(ch, cs, f, img, c), DmaPart(ch, cs, f, img, c), ch.wait_dma,
         NEW new, new.room = ch.room, new.ram_ptr = None
  PROVE  Held(new) = Held(ch) \ {ch.ram_ptr} /\ ch.ram_ptr \in Held(ch)
<1>1. ch.room \in Seq(Command) /\ DOMAIN ch.room = 1 .. Len(ch.room)
  BY DEF NC_Channel
<1>2. ch.ram_ptr \in Buf
  <2>1. ch.ram_ptr \in 1 .. Len(f.pages) /\ Len(f.pages) \in Nat
    BY DEF DmaPart, Mine, Firmware
  <2>. QED BY <2>1, Limits DEF Buf
<1>3. \A i \in Buf : i \in Int /\ i # None
  BY Limits DEF Buf, None
<1>4. \A j \in DOMAIN ch.room : ch.room[j].ram_ptr \in Buf => ch.room[j].ram_ptr # ch.ram_ptr
  <2>1. SUFFICES ASSUME NEW j \in DOMAIN ch.room, ch.room[j].ram_ptr \in Buf
        PROVE  ch.room[j].ram_ptr # ch.ram_ptr
    OBVIOUS
  <2>2. ch.ram_ptr < ch.room[j].ram_ptr
    BY <1>1, <1>3, <2>1 DEF RoomPart
  <2>. QED BY <1>2, <1>3, <2>1, <2>2
<1>. QED BY <1>2, <1>3, <1>4 DEF Held

LEMMA ChnAfterDma ==
  ASSUME NEW f \in Firmware, FwPart(f), NEW c, NEW img,
         NEW ch \in NC_Channel, NEW cs \in [Chip -> NC_Chip], ChnInv(ch, cs, f, img, c), ch.wait_dma,
         NEW new, NEW ncs, DmaOver(new, ncs, ch, cs, ch.dma_chip, f)
  PROVE  /\ ChnInv(new, ncs, f, img, c)
         /\ Held(new) = Held(ch) \ {ch.ram_ptr} /\ ch.ram_ptr \in Held(ch)
<1>. DEFINE k == ch.dma_chip  T == Timed(cs)
<1>1. /\ DmaPart(ch, cs, f, img, c) /\ RoomPart(ch, cs, f, img, c) /\ CountPart(ch, cs)
      /\ BusyPart(cs, f, c) /\ Len(f.pages) <= MAX_PAGES
  BY DEF ChnInv, FwPart
<1>2. /\ ch.ram_ptr \in 1 .. Len(f.pages) /\ f.pages[ch.ram_ptr].chn = c
      /\ f.pages[ch.ram_ptr].chip = k /\ cs[k].busy = FALSE
  <2>1. Mine(f, c, ch.ram_ptr) /\ k = f.pages[ch.ram_ptr].chip /\ ~cs[k].busy
    BY <1>1 DEF DmaPart
  <2>2. k \in Chip
    <3>1. f.pages[ch.ram_ptr] \in Ppa
      BY <2>1 DEF Mine, Firmware
    <3>. QED BY <2>1, <3>1 DEF Ppa
  <2>3. cs[k].busy \in BOOLEAN
    BY <2>2 DEF NC_Chip
  <2>. QED BY <2>1, <2>3 DEF Mine
<1>3. k \in Chip /\ f.kind \in Kinds
  <2>1. f.pages[ch.ram_ptr] \in Ppa /\ f.pages # <<>>
    BY <1>2 DEF Firmware
  <2>2. k \in Chip
    BY <1>2, <2>1 DEF Ppa
  <2>3. f.kind \in Kinds
    BY <2>1 DEF FwPart, Firmware
  <2>. QED BY <2>2, <2>3
<1>4. DmaPart(new, ncs, f, img, c)
  BY DEF DmaOver, DmaPart
<1>5. RoomPart(new, ncs, f, img, c)
  BY <1>1, RoomAfterDma DEF DmaOver
<1>6. Held(new) = Held(ch) \ {ch.ram_ptr} /\ ch.ram_ptr \in Held(ch)
  BY <1>1, HeldAfterDma DEF DmaOver
<1>7. BusyPart(ncs, f, c)
  <2>1. SUFFICES ASSUME NEW x \in Chip, ncs[x].busy
        PROVE  \E p \in 1 .. Len(f.pages) : f.pages[p].chn = c /\ f.pages[p].chip = x
    BY DEF BusyPart
  <2>2. CASE x = k
    BY <1>2, <2>2
  <2>3. CASE x # k
    <3>1. cs[x].busy
      BY <2>1, <2>3 DEF DmaOver
    <3>. QED BY <1>1, <3>1 DEF BusyPart
  <2>. QED BY <2>2, <2>3
<1>8. \A x \in Chip : cs[x].events = (IF cs[x].busy THEN 1 ELSE 0)
  BY <1>1 DEF CountPart
<1>9. IsFiniteSet(T) /\ Cardinality(T) \in Nat /\ Cardinality(T) < 255
  BY <1>1, <1>8, TimedBound
<1>10. ch.active = Cardinality(T) + 1
  BY <1>1 DEF CountPart
<1>11. CASE f.kind = "READ"
  <2>1. \A x \in Chip : ncs[x].busy = cs[x].busy /\ ncs[x].events = cs[x].events
    BY <1>11 DEF DmaOver
  <2>2. Timed(ncs) = T
    BY <2>1 DEF Timed
  <2>3. new.active = Cardinality(Timed(ncs))
    <3>. DEFINE m == Cardinality(T)
    <3>1. new.active = (ch.active - 1) % 256
      BY <1>11 DEF DmaOver
    <3>2. m \in Nat /\ m < 255 /\ ch.active = m + 1
      BY <1>9, <1>10
    <3>. HIDE DEF m
    <3>3. new.active = m
      BY <3>1, <3>2
    <3>. QED BY <3>3, <2>2 DEF m
  <2>4. CountPart(new, ncs)
    <3>1. \A x \in Chip : ncs[x].events = (IF ncs[x].busy THEN 1 ELSE 0)
      BY <1>8, <2>1
    <3>2. ~new.wait_dma /\ new.active = Cardinality(Timed(ncs)) + 0
      BY <1>9, <2>2, <2>3 DEF DmaOver
    <3>. QED BY <3>1, <3>2 DEF CountPart
  <2>. QED BY <1>4, <1>5, <1>6, <1>7, <2>4 DEF ChnInv
<1>12. CASE f.kind = "PROGRAM"
  <2>0. cs[k].events = 0
    BY <1>2, <1>3, <1>8
  <2>1. /\ \A x \in Chip \ {k} : ncs[x] = cs[x]
        /\ ncs[k].busy /\ ncs[k].events = 1
    BY <1>12, <2>0 DEF DmaOver
  <2>2. Timed(ncs) = T \cup {k} /\ k \notin T
    BY <1>3, <2>0, <2>1 DEF Timed
  <2>3. Cardinality(Timed(ncs)) = Cardinality(T) + 1
    BY <1>9, <2>2, FS_AddElement
  <2>4. new.active = Cardinality(Timed(ncs)) + 0
    <3>. DEFINE m == Cardinality(T)
    <3>1. new.active = (((ch.active - 1) % 256) + 1) % 256
      BY <1>12 DEF DmaOver
    <3>2. m \in Nat /\ m < 255 /\ ch.active = m + 1
      BY <1>9, <1>10
    <3>. HIDE DEF m
    <3>3. new.active = m + 1 + 0
      BY <3>1, <3>2
    <3>. QED BY <3>3, <2>3 DEF m
  <2>5. CountPart(new, ncs)
    <3>1. \A x \in Chip : ncs[x].events = (IF ncs[x].busy THEN 1 ELSE 0)
      BY <1>8, <2>1
    <3>2. ~new.wait_dma
      BY DEF DmaOver
    <3>. QED BY <2>4, <3>1, <3>2 DEF CountPart
  <2>. QED BY <1>4, <1>5, <1>6, <1>7, <2>5 DEF ChnInv
<1>. QED BY <1>3, <1>11, <1>12 DEF Kinds

\* The parts of dma_complete_call_back before it looks for other work; the
\* second is DoProgram when the RAM was read.
Over1(s, c, k, reading, d) ==
  [s EXCEPT !.chn[c].active = (@ - 1) % 256, !.chip[c][k].reg = IF reading THEN d ELSE @]
Over2(s, c) == [s EXCEPT !.chn[c].write_dma = FALSE]
Over3(s, c) ==
  [s EXCEPT !.current_chn = None,
            !.chn[c] = [@ EXCEPT !.dma_chip = None, !.ram_ptr = None, !.wait_dma = FALSE]]

\* What they do together.
AfterOver(t, s, c, k, f) ==
  /\ t \in Ctrl /\ t.current_chn = None
  /\ \A x \in Channel \ {c} : t.chn[x] = s.chn[x] /\ t.chip[x] = s.chip[x]
  /\ DmaOver(t.chn[c], t.chip[c], s.chn[c], s.chip[c], k, f)

\* Each part changes channel c only.
Loaded(cs, k, d) == [cs EXCEPT ![k] = [cs[k] EXCEPT !.reg = d]]
LessOne(ch) == [ch EXCEPT !.active = (ch.active - 1) % 256]
Written(ch) == [ch EXCEPT !.write_dma = FALSE]
Fetched(ch) == [ch EXCEPT !.read_dma = FALSE, !.active = (ch.active + 1) % 256]
Programs(cs, k) == [cs EXCEPT ![k] = [cs[k] EXCEPT !.pending = FALSE, !.busy = TRUE,
                                                   !.events = cs[k].events + 1]]
Freed(ch) == [ch EXCEPT !.dma_chip = None, !.ram_ptr = None, !.wait_dma = FALSE]
NoDma(s) == [s EXCEPT !.current_chn = None]

LEMMA PutOver1 ==
  ASSUME NEW s \in Ctrl, NEW c \in Channel, NEW k \in Chip, NEW d
  PROVE  /\ Over1(s, c, k, FALSE, d) = Put(s, c, LessOne(s.chn[c]), Loaded(s.chip[c], k, s.chip[c][k].reg))
         /\ Over1(s, c, k, TRUE, d) = Put(s, c, LessOne(s.chn[c]), Loaded(s.chip[c], k, d))
<1>1. Over1(s, c, k, FALSE, d) = Put(s, c, LessOne(s.chn[c]), Loaded(s.chip[c], k, s.chip[c][k].reg))
  BY DEF Over1, Put, Ctrl, LessOne, Loaded
<1>2. Over1(s, c, k, TRUE, d) = Put(s, c, LessOne(s.chn[c]), Loaded(s.chip[c], k, d))
  BY DEF Over1, Put, Ctrl, LessOne, Loaded
<1>. QED BY <1>1, <1>2

LEMMA PutWritten ==
  ASSUME NEW s \in Ctrl, NEW c \in Channel, NEW ch, NEW cs
  PROVE  Over2(Put(s, c, ch, cs), c) = Put(s, c, Written(ch), cs)
BY DEF Over2, Put, Ctrl, Written

LEMMA PutPrograms ==
  ASSUME NEW s \in Ctrl, NEW c \in Channel, NEW k \in Chip, NEW ch, NEW cs
  PROVE  DoProgram(Put(s, c, ch, cs), c, k) = Put(s, c, Fetched(ch), Programs(cs, k))
<1>. DEFINE u == Put(s, c, ch, cs)
            cp == [cs[k] EXCEPT !.pending = FALSE, !.busy = TRUE, !.events = cs[k].events + 1]
            new == Fetched(ch)
<1>1. u.chn[c] = ch /\ u.chip[c] = cs
  BY DEF Put, Ctrl
<1>2. DoProgram(u, c, k) = [u EXCEPT !.chip[c][k] = cp, !.chn[c] = new]
  <2>. HIDE DEF u
  <2>. QED BY <1>1 DEF DoProgram, Fetched
<1>. HIDE DEF cp, new
<1>3. [u EXCEPT !.chip[c][k] = cp, !.chn[c] = new] = Put(s, c, new, [cs EXCEPT ![k] = cp])
  BY DEF Put, Ctrl
<1>4. Programs(cs, k) = [cs EXCEPT ![k] = cp]
  BY DEF Programs, cp
<1>. QED BY <1>2, <1>3, <1>4 DEF new

LEMMA PutOver3 ==
  ASSUME NEW s \in Ctrl, NEW c \in Channel, NEW ch, NEW cs
  PROVE  Over3(Put(s, c, ch, cs), c) = NoDma(Put(s, c, Freed(ch), cs))
BY DEF Over3, Put, Ctrl, NoDma, Freed

\* And each keeps the types.
LEMMA OverTypes ==
  ASSUME NEW ch \in NC_Channel, NEW cs \in [Chip -> NC_Chip], NEW k \in Chip
  PROVE  /\ LessOne(ch) \in NC_Channel /\ Written(ch) \in NC_Channel
         /\ Fetched(ch) \in NC_Channel /\ Freed(ch) \in NC_Channel
         /\ \A d \in Data : Loaded(cs, k, d) \in [Chip -> NC_Chip]
         /\ Programs(cs, k) \in [Chip -> NC_Chip]
<1>1. (ch.active - 1) % 256 \in U8 /\ (ch.active + 1) % 256 \in U8
  <2>1. ch.active \in U8
    BY DEF NC_Channel
  <2>2. ch.active - 1 \in Int /\ ch.active + 1 \in Int
    BY <2>1, U8Range
  <2>. QED BY <2>2, Wraps
<1>2. ASSUME NEW a \in U8
      PROVE  /\ [ch EXCEPT !.active = a] \in NC_Channel
             /\ [ch EXCEPT !.read_dma = FALSE, !.active = a] \in NC_Channel
  BY DEF NC_Channel
<1>3. LessOne(ch) \in NC_Channel /\ Fetched(ch) \in NC_Channel
  BY <1>1, <1>2 DEF LessOne, Fetched
<1>4. Written(ch) \in NC_Channel /\ Freed(ch) \in NC_Channel
  BY DEF NC_Channel, Written, Freed
<1>5. \A d \in Data : Loaded(cs, k, d) \in [Chip -> NC_Chip]
  BY DEF NC_Chip, Loaded
<1>6. Programs(cs, k) \in [Chip -> NC_Chip]
  <2>. DEFINE cp == [cs[k] EXCEPT !.pending = FALSE, !.busy = TRUE, !.events = cs[k].events + 1]
  <2>1. cs[k] \in NC_Chip /\ cs[k].events + 1 \in Nat
    BY DEF NC_Chip
  <2>2. cp \in NC_Chip
    BY <2>1 DEF NC_Chip
  <2>. HIDE DEF cp
  <2>3. [cs EXCEPT ![k] = cp] \in [Chip -> NC_Chip]
    BY <2>2
  <2>. QED BY <2>3 DEF Programs, cp
<1>. QED BY <1>3, <1>4, <1>5, <1>6

LEMMA PutOver ==
  ASSUME NEW s \in Ctrl, NEW c \in Channel, NEW ch \in NC_Channel, NEW cs \in [Chip -> NC_Chip],
         NEW k, NEW f, DmaOver(ch, cs, s.chn[c], s.chip[c], k, f)
  PROVE  AfterOver(NoDma(Put(s, c, ch, cs)), s, c, k, f)
<1>. DEFINE u == Put(s, c, ch, cs)
            t == NoDma(u)
<1>1. /\ u \in Ctrl /\ u.chn[c] = ch /\ u.chip[c] = cs
      /\ \A x \in Channel \ {c} : u.chn[x] = s.chn[x] /\ u.chip[x] = s.chip[x]
  BY PutIs
<1>. HIDE DEF u
<1>2. t \in Ctrl /\ t.current_chn = None /\ t.chn = u.chn /\ t.chip = u.chip
  BY <1>1 DEF Ctrl, NoDma
<1>. HIDE DEF t
<1>3. AfterOver(t, s, c, k, f)
  BY <1>1, <1>2 DEF AfterOver
<1>. QED BY <1>3 DEF t, u

\* A DMA to the RAM.
LEMMA ReadOver ==
  ASSUME NEW s \in Ctrl, NEW c \in Channel, NEW k \in Chip, NEW f, f.kind = "READ", NEW d,
         ~s.chn[c].read_dma
  PROVE  AfterOver(Over3(Over2(Over1(s, c, k, FALSE, d), c), c), s, c, k, f)
<1>. DEFINE ch == s.chn[c]  cs == s.chip[c]
            new == Freed(Written(LessOne(ch)))
            ncs == Loaded(cs, k, cs[k].reg)
            t == Over3(Over2(Over1(s, c, k, FALSE, d), c), c)
<1>1. ch \in NC_Channel /\ cs \in [Chip -> NC_Chip]
  BY CtrlFields
<1>2. new \in NC_Channel /\ ncs \in [Chip -> NC_Chip]
  <2>1. cs[k].reg \in Data
    BY <1>1 DEF NC_Chip
  <2>. QED BY <1>1, <2>1, OverTypes
<1>3. t = NoDma(Put(s, c, new, ncs))
  <2>1. Over1(s, c, k, FALSE, d) = Put(s, c, LessOne(ch), ncs)
    BY PutOver1
  <2>2. Over2(Put(s, c, LessOne(ch), ncs), c) = Put(s, c, Written(LessOne(ch)), ncs)
    BY PutWritten
  <2>3. Over3(Put(s, c, Written(LessOne(ch)), ncs), c) = NoDma(Put(s, c, new, ncs))
    BY PutOver3
  <2>. QED BY <2>1, <2>2, <2>3
<1>4. ncs[k].busy = cs[k].busy /\ ncs[k].events = cs[k].events /\ \A x \in Chip \ {k} : ncs[x] = cs[x]
  BY <1>1 DEF NC_Chip, Loaded
<1>5. /\ new.room = ch.room /\ new.new_cmd = ch.new_cmd /\ new.active = (ch.active - 1) % 256
      /\ new.wait_dma = FALSE /\ new.read_dma = ch.read_dma /\ new.write_dma = FALSE
      /\ new.ram_ptr = None /\ new.dma_chip = None
  <2>. HIDE DEF ch
  <2>. QED BY <1>1 DEF NC_Channel, Freed, Written, LessOne
<1>. HIDE DEF new, ncs, t
<1>6. DmaOver(new, ncs, ch, cs, k, f)
  BY <1>4, <1>5 DEF DmaOver
<1>7. AfterOver(t, s, c, k, f)
  BY <1>2, <1>3, <1>6, PutOver
<1>. QED BY <1>7 DEF t

\* A DMA from the RAM: the chip programs its page.
LEMMA ProgramOver ==
  ASSUME NEW s \in Ctrl, NEW c \in Channel, NEW k \in Chip, NEW f, f.kind = "PROGRAM", NEW d \in Data,
         ~s.chn[c].write_dma
  PROVE  AfterOver(Over3(DoProgram(Over1(s, c, k, TRUE, d), c, k), c), s, c, k, f)
<1>. DEFINE ch == s.chn[c]  cs == s.chip[c]
            new == Freed(Fetched(LessOne(ch)))
            ncs == Programs(Loaded(cs, k, d), k)
            t == Over3(DoProgram(Over1(s, c, k, TRUE, d), c, k), c)
<1>1. ch \in NC_Channel /\ cs \in [Chip -> NC_Chip]
  BY CtrlFields
<1>2. new \in NC_Channel /\ ncs \in [Chip -> NC_Chip]
  BY <1>1, OverTypes
<1>3. t = NoDma(Put(s, c, new, ncs))
  <2>1. Over1(s, c, k, TRUE, d) = Put(s, c, LessOne(ch), Loaded(cs, k, d))
    BY PutOver1
  <2>2. DoProgram(Put(s, c, LessOne(ch), Loaded(cs, k, d)), c, k)
          = Put(s, c, Fetched(LessOne(ch)), ncs)
    BY PutPrograms
  <2>3. Over3(Put(s, c, Fetched(LessOne(ch)), ncs), c) = NoDma(Put(s, c, new, ncs))
    BY PutOver3
  <2>. QED BY <2>1, <2>2, <2>3
<1>4. ncs[k].busy = TRUE /\ ncs[k].events = cs[k].events + 1 /\ \A x \in Chip \ {k} : ncs[x] = cs[x]
  <2>. DEFINE v == Loaded(cs, k, d)
  <2>1. v \in [Chip -> NC_Chip] /\ v[k].events = cs[k].events /\ \A x \in Chip \ {k} : v[x] = cs[x]
    <3>1. v \in [Chip -> NC_Chip]
      BY <1>1, OverTypes
    <3>2. v[k].events = cs[k].events /\ \A x \in Chip \ {k} : v[x] = cs[x]
      BY <1>1 DEF NC_Chip, Loaded
    <3>. QED BY <3>1, <3>2
  <2>. HIDE DEF v
  <2>2. Programs(v, k)[k].busy = TRUE /\ Programs(v, k)[k].events = v[k].events + 1
        /\ \A x \in Chip \ {k} : Programs(v, k)[x] = v[x]
    BY <2>1 DEF NC_Chip, Programs
  <2>. QED BY <2>1, <2>2 DEF v
<1>5. /\ new.room = ch.room /\ new.new_cmd = ch.new_cmd
      /\ new.active = (((ch.active - 1) % 256) + 1) % 256
      /\ new.wait_dma = FALSE /\ new.read_dma = FALSE /\ new.write_dma = ch.write_dma
      /\ new.ram_ptr = None /\ new.dma_chip = None
  <2>. HIDE DEF ch
  <2>. QED BY <1>1 DEF NC_Channel, Freed, Fetched, LessOne
<1>. HIDE DEF new, ncs, t
<1>6. DmaOver(new, ncs, ch, cs, k, f)
  BY <1>4, <1>5 DEF DmaOver
<1>7. AfterOver(t, s, c, k, f)
  BY <1>2, <1>3, <1>6, PutOver
<1>. QED BY <1>7 DEF t

\* The states agree but for channel c and its room.
Beside(t, s, c) ==
  /\ t.chn[c].new_cmd = s.chn[c].new_cmd
  /\ \A x \in Channel \ {c} : t.chn[x] = s.chn[x] /\ t.chip[x] = s.chip[x]

\* The channels look for work again: channel c has changed, to what fits.
LEMMA WorkFits ==
  ASSUME NEW s, NEW f \in Firmware, FwPart(f), NEW img, NEW new, CtrlPart(s, f, img),
         new \in [ImgPages -> Data], f.kind = "READ" => new = img /\ new = image,
         NEW c \in Channel, NEW t \in Ctrl, Engine(t), Beside(t, s, c),
         ChnInv(t.chn[c], t.chip[c], f, new, c)
  PROVE  /\ CtrlPart(ProcessRoom(t, c), f, new) /\ Beside(ProcessRoom(t, c), s, c)
         /\ Held(ProcessRoom(t, c).chn[c]) = Held(t.chn[c])
<1>. DEFINE u == ProcessRoom(t, c)
<1>1. Fits(u, t, f, new, c) /\ Blocked(u, c)
  BY RoomFits
<1>. HIDE DEF u
<1>2. /\ u \in Ctrl /\ Engine(u) /\ u.chn[c].new_cmd = s.chn[c].new_cmd
      /\ \A x \in Channel \ {c} : u.chn[x] = s.chn[x] /\ u.chip[x] = s.chip[x]
      /\ ChnInv(u.chn[c], u.chip[c], f, new, c) /\ Held(u.chn[c]) = Held(t.chn[c])
  BY <1>1 DEF Fits, Beside
<1>3. Awake(u.chn[c], u.chip[c])
  BY <1>1, <1>2, BlockedAwake
<1>4. ASSUME NEW x \in Channel \ {c}
      PROVE  /\ u.chn[x].new_cmd = Regs(f, x) /\ Awake(u.chn[x], u.chip[x])
             /\ ChnInv(u.chn[x], u.chip[x], f, new, x)
  <2>1. /\ s.chn[x].new_cmd = Regs(f, x) /\ Awake(s.chn[x], s.chip[x])
        /\ ChnInv(s.chn[x], s.chip[x], f, img, x)
    BY DEF CtrlPart
  <2>2. ChnInv(s.chn[x], s.chip[x], f, new, x)
    BY <2>1, ImgFree
  <2>. QED BY <1>2, <2>1, <2>2
<1>5. u.chn[c].new_cmd = Regs(f, c)
  BY <1>2 DEF CtrlPart
<1>6. CtrlPart(u, f, new)
  BY <1>2, <1>3, <1>4, <1>5 DEF CtrlPart
<1>. QED BY <1>2, <1>6 DEF u, Beside

\* What a DMA of channel c moves, and where.
MovedPage(c) ==
  LET p == nc.chn[c].ram_ptr
      pg == fw.pages[p]
      a == ImgPage(pg.chn, pg.chip, AddressCycle(pg))
  IN /\ p \in 1 .. Len(fw.pages) /\ p \in Buf /\ 6 * p <= fw.k /\ pg \in Ppa /\ a \in ImgPages
     /\ fw.kind = "READ" => image' = image /\ ram' = [ram EXCEPT ![p] = image[a]]
     /\ fw.kind = "PROGRAM" => image' = [image EXCEPT ![a] = ram[p]] /\ ram' = ram
     /\ file' = IF shm THEN file ELSE image'

LEMMA DmaState ==
  ASSUME IInv, DmaComplete
  PROVE  LET c == nc.current_chn
         IN /\ c \in Channel /\ nc.chn[c].wait_dma /\ fw.kind \in Kinds
            /\ UNCHANGED <<fw, free_rops, free_pops, shm, n>>
            /\ MovedPage(c)
            /\ \E t : AfterOver(t, nc, c, nc.chn[c].dma_chip, fw) /\ nc' = ProcessRoom(RunDma(t), c)
<1>. DEFINE c == nc.current_chn
            ch == nc.chn[c]
            cs == nc.chip[c]
            k == ch.dma_chip
            p == ch.ram_ptr
            pg == fw.pages[p]
            a == ImgPage(pg.chn, pg.chip, AddressCycle(pg))
<1>1. /\ fw \in Firmware /\ nc \in Ctrl /\ FwPart(fw) /\ CtrlPart(nc, fw, image)
      /\ image \in [ImgPages -> Data] /\ ram \in [Buf -> Data]
  BY Types DEF IInv
<1>2. c \in Channel
  <2>1. c # None /\ c \in Channel \cup {None}
    BY <1>1 DEF DmaComplete, DmaRunning, Ctrl
  <2>. QED BY <2>1
<1>3. ch.wait_dma /\ ch \in NC_Channel /\ cs \in [Chip -> NC_Chip] /\ ChnInv(ch, cs, fw, image, c)
  <2>1. c # None
    BY DEF DmaComplete, DmaRunning
  <2>. QED BY <1>1, <1>2, <2>1, CtrlFields DEF CtrlPart, Engine
<1>4. /\ Mine(fw, c, p) /\ k = pg.chip /\ Primed(cs, fw, image, c, p)
      /\ ch.read_dma = (fw.kind = "PROGRAM") /\ ch.write_dma = (fw.kind = "READ")
  BY <1>3 DEF ChnInv, DmaPart
<1>5. /\ p \in 1 .. Len(fw.pages) /\ pg \in Ppa /\ pg.chn = c /\ 6 * p <= fw.k /\ fw.pages # <<>>
  BY <1>1, <1>4 DEF Mine, Firmware
<1>6. p \in Buf /\ fw.kind \in Kinds /\ k \in Chip /\ a \in ImgPages
  <2>1. Len(fw.pages) \in Nat /\ Len(fw.pages) <= MAX_PAGES
    BY <1>1 DEF Firmware, FwPart
  <2>2. p \in Buf
    BY <1>5, <2>1, Limits DEF Buf
  <2>3. fw.kind \in Kinds
    BY <1>1, <1>5 DEF FwPart, Firmware
  <2>4. k \in Chip /\ a \in ImgPages
    BY <1>4, <1>5, ImgPageType DEF Ppa
  <2>. QED BY <2>2, <2>3, <2>4
<1>7. ram[p] \in Data
  BY <1>1, <1>6
<1>8. UNCHANGED <<fw, free_rops, free_pops, shm, n>> /\ file' = IF shm THEN file ELSE image'
  BY DEF DmaComplete
<1>9. CASE fw.kind = "READ"
  <2>1. ch.read_dma = FALSE
    BY <1>4, <1>9
  <2>. DEFINE t == Over3(Over2(Over1(nc, c, k, FALSE, ram[p]), c), c)
  <2>2. nc' = ProcessRoom(RunDma(t), c) /\ image' = image /\ ram' = [ram EXCEPT ![p] = cs[k].reg]
    BY <2>1 DEF DmaComplete, Over1, Over2, Over3
  <2>3. AfterOver(t, nc, c, k, fw)
    BY <1>1, <1>2, <1>6, <1>9, <2>1, ReadOver
  <2>4. cs[k].reg = image[a]
    BY <1>4, <1>5, <1>9 DEF Primed
  <2>. HIDE DEF t
  <2>5. MovedPage(c)
    BY <1>5, <1>6, <1>8, <1>9, <2>2, <2>4 DEF MovedPage
  <2>. QED BY <1>2, <1>3, <1>6, <1>8, <2>2, <2>3, <2>5
<1>10. CASE fw.kind = "PROGRAM"
  <2>1. ch.read_dma = TRUE /\ ~ch.write_dma
    BY <1>4, <1>10
  <2>2. cs[k].pending = TRUE /\ cs[k].addr = AddressCycle(pg)
    <3>1. cs[k].pending /\ cs[k].addr = AddressCycle(pg)
      BY <1>4, <1>10 DEF Primed
    <3>2. cs[k].pending \in BOOLEAN
      BY <1>3, <1>6 DEF NC_Chip
    <3>. QED BY <3>1, <3>2
  <2>. DEFINE t == Over3(DoProgram(Over1(nc, c, k, TRUE, ram[p]), c, k), c)
  <2>3. /\ nc' = ProcessRoom(RunDma(t), c)
        /\ image' = [image EXCEPT ![ImgPage(c, k, cs[k].addr)] = ram[p]] /\ ram' = ram
    BY <2>1, <2>2 DEF DmaComplete, Over1, Over3
  <2>4. AfterOver(t, nc, c, k, fw)
    BY <1>1, <1>2, <1>6, <1>7, <1>10, <2>1, ProgramOver
  <2>5. ImgPage(c, k, cs[k].addr) = a
    BY <1>4, <1>5, <2>2
  <2>. HIDE DEF t
  <2>6. MovedPage(c)
    BY <1>5, <1>6, <1>8, <1>10, <2>3, <2>5 DEF MovedPage
  <2>. QED BY <1>2, <1>3, <1>6, <1>8, <2>3, <2>4, <2>6
<1>. QED BY <1>6, <1>9, <1>10 DEF Kinds

\* The DMA engine goes on to the other channel, or to none.
LEMMA EngineOn ==
  ASSUME NEW t \in Ctrl, t.current_chn = None
  PROVE  RunDma(t) \in Ctrl /\ RunDma(t).chn = t.chn /\ RunDma(t).chip = t.chip /\ Engine(RunDma(t))
<1>. DEFINE u == RunDma(t)
<1>1. /\ u \in Ctrl /\ u.chn = t.chn /\ u.chip = t.chip
      /\ \/ u.current_chn = t.current_chn /\ \A x \in Channel : ~t.chn[x].wait_dma
         \/ u.current_chn \in Channel /\ t.chn[u.current_chn].wait_dma
  BY RunDmaIs
<1>. HIDE DEF u
<1>2. \A x \in Channel : x # None
  BY DEF Channel, None
<1>3. Engine(u)
  BY <1>1, <1>2 DEF Engine
<1>. QED BY <1>1, <1>3 DEF u

\* The end of a DMA.
LEMMA DmaCtrl ==
  ASSUME IInv, DmaComplete
  PROVE  LET c == nc.current_chn
         IN /\ CtrlPart(nc', fw, image')
            /\ image' \in [ImgPages -> Data] /\ ram' \in [Buf -> Data]
            /\ \A x \in Channel \ {c} : nc'.chn[x] = nc.chn[x]
            /\ Held(nc'.chn[c]) = Held(nc.chn[c]) \ {nc.chn[c].ram_ptr}
            /\ nc.chn[c].ram_ptr \in Held(nc.chn[c])
<1>. DEFINE c == nc.current_chn
            ch == nc.chn[c]
            cs == nc.chip[c]
<1>1. /\ fw \in Firmware /\ nc \in Ctrl /\ FwPart(fw) /\ CtrlPart(nc, fw, image)
      /\ image \in [ImgPages -> Data] /\ ram \in [Buf -> Data]
  BY Types DEF IInv
<1>2. c \in Channel /\ ch.wait_dma /\ fw.kind \in Kinds /\ MovedPage(c)
  BY DmaState
<1>3. PICK t : AfterOver(t, nc, c, ch.dma_chip, fw) /\ nc' = ProcessRoom(RunDma(t), c)
  BY DmaState
<1>4. /\ t \in Ctrl /\ t.current_chn = None
      /\ \A x \in Channel \ {c} : t.chn[x] = nc.chn[x] /\ t.chip[x] = nc.chip[x]
      /\ DmaOver(t.chn[c], t.chip[c], ch, cs, ch.dma_chip, fw)
  BY <1>3 DEF AfterOver
<1>5. ch \in NC_Channel /\ cs \in [Chip -> NC_Chip] /\ ChnInv(ch, cs, fw, image, c)
  BY <1>1, <1>2, CtrlFields DEF CtrlPart
<1>6. /\ ChnInv(t.chn[c], t.chip[c], fw, image, c)
      /\ Held(t.chn[c]) = Held(ch) \ {ch.ram_ptr} /\ ch.ram_ptr \in Held(ch)
  <2>1. PICK x, xs : x = ch /\ xs = cs
    OBVIOUS
  <2>2. PICK new, ncs : new = t.chn[c] /\ ncs = t.chip[c]
    OBVIOUS
  <2>3. /\ x \in NC_Channel /\ xs \in [Chip -> NC_Chip] /\ ChnInv(x, xs, fw, image, c) /\ x.wait_dma
        /\ DmaOver(new, ncs, x, xs, x.dma_chip, fw)
    BY <1>2, <1>4, <1>5, <2>1, <2>2
  <2>. HIDE DEF c
  <2>4. /\ ChnInv(new, ncs, fw, image, c)
        /\ Held(new) = Held(x) \ {x.ram_ptr} /\ x.ram_ptr \in Held(x)
    BY <1>1, <2>3, ChnAfterDma
  <2>. QED BY <2>1, <2>2, <2>4
<1>7. /\ image' \in [ImgPages -> Data] /\ ram' \in [Buf -> Data]
      /\ fw.kind = "READ" => image' = image
  <2>. DEFINE p == ch.ram_ptr
              pg == fw.pages[p]
              a == ImgPage(pg.chn, pg.chip, AddressCycle(pg))
  <2>1. /\ p \in Buf /\ a \in ImgPages
        /\ fw.kind = "READ" => image' = image /\ ram' = [ram EXCEPT ![p] = image[a]]
        /\ fw.kind = "PROGRAM" => image' = [image EXCEPT ![a] = ram[p]] /\ ram' = ram
    BY <1>2 DEF MovedPage
  <2>2. fw.kind = "READ" \/ fw.kind = "PROGRAM"
    BY <1>2 DEF Kinds
  <2>. HIDE DEF p, a
  <2>. QED BY <1>1, <2>1, <2>2
<1>8. ChnInv(t.chn[c], t.chip[c], fw, image', c)
  BY <1>6, <1>7, ImgFree
<1>. DEFINE u == RunDma(t)
<1>9. u \in Ctrl /\ u.chn = t.chn /\ u.chip = t.chip /\ Engine(u)
  BY <1>4, EngineOn
<1>10. t.chn[c].new_cmd = ch.new_cmd
  BY <1>4 DEF DmaOver
<1>11. PICK img : img = image'
  OBVIOUS
<1>. HIDE DEF u
<1>12. /\ CtrlPart(ProcessRoom(u, c), fw, img)
       /\ Beside(ProcessRoom(u, c), nc, c)
       /\ Held(ProcessRoom(u, c).chn[c]) = Held(u.chn[c])
  <2>1. img \in [ImgPages -> Data] /\ (fw.kind = "READ" => img = image /\ img = image)
    BY <1>7, <1>11
  <2>2. Beside(u, nc, c)
    BY <1>4, <1>9, <1>10 DEF Beside
  <2>3. ChnInv(u.chn[c], u.chip[c], fw, img, c)
    BY <1>8, <1>9, <1>11
  <2>. HIDE DEF c
  <2>. QED BY <1>1, <1>2, <1>9, <2>1, <2>2, <2>3, WorkFits
<1>13. nc' = ProcessRoom(u, c)
  BY <1>3 DEF u
<1>. QED BY <1>6, <1>7, <1>9, <1>11, <1>12, <1>13 DEF Beside

LEMMA DmaInv ==
  ASSUME IInv, DmaComplete
  PROVE  IInv'
<1>. DEFINE c == nc.current_chn
<1>1. /\ fw \in Firmware /\ free_rops \in Pool /\ free_pops \in Pool /\ nc \in Ctrl
      /\ image \in [ImgPages -> Data] /\ file \in [ImgPages -> Data] /\ shm \in BOOLEAN
      /\ ram \in [Buf -> Data] /\ n \in 0 .. MaxOps
      /\ FwPart(fw) /\ CtrlPart(nc, fw, image) /\ PollPart /\ PoolPart /\ FilePart
  BY Types DEF IInv
<1>2. /\ c \in Channel /\ nc.chn[c].wait_dma /\ UNCHANGED <<fw, free_rops, free_pops, shm, n>>
      /\ file' = IF shm THEN file ELSE image'
  BY DmaState DEF MovedPage
<1>3. /\ CtrlPart(nc', fw, image') /\ image' \in [ImgPages -> Data] /\ ram' \in [Buf -> Data]
      /\ \A x \in Channel \ {c} : nc'.chn[x] = nc.chn[x]
  BY DmaCtrl
<1>4. TypeOK'
  <2>1. \A x \in Channel : Len(nc'.chn[x].room) <= 2 * MAX_PAGES
    BY <1>1, <1>3, RoomBound
  <2>. QED BY <1>1, <1>2, <1>3, <2>1 DEF TypeOK, Ctrl, CtrlPart
<1>5. CtrlPart(nc', fw', image') /\ FwPart(fw')
  BY <1>1, <1>2, <1>3
<1>6. nc.chn[c].active # 0
  <2>. DEFINE m == Cardinality(Timed(nc.chip[c]))
  <2>1. ChnInv(nc.chn[c], nc.chip[c], fw, image, c)
    BY <1>1, <1>2 DEF CtrlPart
  <2>2. nc.chn[c].active = m + 1
    BY <1>2, <2>1 DEF ChnInv, CountPart
  <2>3. m \in Nat
    <3>1. BusyPart(nc.chip[c], fw, c) /\ Len(fw.pages) <= MAX_PAGES
          /\ \A k \in Chip : nc.chip[c][k].events = (IF nc.chip[c][k].busy THEN 1 ELSE 0)
      BY <1>1, <2>1 DEF ChnInv, CountPart, FwPart
    <3>. QED BY <1>1, <3>1, TimedBound
  <2>. HIDE DEF m
  <2>. QED BY <2>2, <2>3
<1>7. PollPart'
  BY <1>1, <1>2, <1>3, <1>6 DEF PollPart, Channel
<1>8. PoolPart' /\ FilePart'
  BY <1>1, <1>2 DEF PoolPart, FilePart
<1>. QED BY <1>4, <1>5, <1>7, <1>8 DEF IInv

\* Chip k has finished: channel c goes from ch, cs to new, ncs.
ChipOver(new, ncs, ch, cs, k) ==
  /\ new.room = ch.room /\ new.new_cmd = ch.new_cmd /\ SameDma(new, ch)
  /\ new.active = (ch.active - 1) % 256
  /\ \A x \in Chip \ {k} : ncs[x] = cs[x]
  /\ ncs[k].busy = FALSE /\ ncs[k].events = cs[k].events - 1
  /\ ncs[k].reg = cs[k].reg /\ ncs[k].pending = cs[k].pending /\ ncs[k].addr = cs[k].addr

LEMMA ChnAfterOperation ==
  ASSUME NEW f \in Firmware, FwPart(f), NEW c, NEW img, NEW k \in Chip,
         NEW ch \in NC_Channel, NEW cs \in [Chip -> NC_Chip], ChnInv(ch, cs, f, img, c),
         cs[k].events > 0, NEW new, NEW ncs, ChipOver(new, ncs, ch, cs, k)
  PROVE  ChnInv(new, ncs, f, img, c) /\ Held(new) = Held(ch)
<1>. DEFINE T == Timed(cs)
<1>1. /\ DmaPart(ch, cs, f, img, c) /\ RoomPart(ch, cs, f, img, c) /\ CountPart(ch, cs)
      /\ BusyPart(cs, f, c) /\ Len(f.pages) <= MAX_PAGES
      /\ \A x \in Chip : cs[x].events = (IF cs[x].busy THEN 1 ELSE 0)
  BY DEF ChnInv, FwPart, CountPart
<1>2. cs[k].busy /\ cs[k].events = 1 /\ ncs[k].events = 0
  BY <1>1 DEF ChipOver
<1>3. \A x \in Chip : /\ ncs[x].reg = cs[x].reg /\ ncs[x].pending = cs[x].pending
                      /\ ncs[x].addr = cs[x].addr /\ (ncs[x].busy => cs[x].busy)
  BY DEF ChipOver
<1>4. ASSUME NEW p \in 1 .. Len(f.pages), Primed(cs, f, img, c, p)
      PROVE  Primed(ncs, f, img, c, p)
  <2>1. f.pages[p] \in Ppa
    BY DEF Firmware
  <2>2. f.pages[p].chip \in Chip
    BY <2>1 DEF Ppa
  <2>. QED BY <1>3, <1>4, <2>2 DEF Primed
<1>5. \A p : Mine(f, c, p) => p \in 1 .. Len(f.pages)
  BY DEF Mine
<1>6. DmaPart(new, ncs, f, img, c)
  <2>1. SameDma(new, ch)
    BY DEF ChipOver
  <2>2. CASE ch.wait_dma
    <3>1. /\ Mine(f, c, ch.ram_ptr) /\ ch.dma_chip = f.pages[ch.ram_ptr].chip
          /\ Primed(cs, f, img, c, ch.ram_ptr) /\ ~cs[ch.dma_chip].busy
          /\ ch.read_dma = (f.kind = "PROGRAM") /\ ch.write_dma = (f.kind = "READ")
      BY <1>1, <2>2 DEF DmaPart
    <3>2. ch.ram_ptr \in 1 .. Len(f.pages)
      BY <1>5, <3>1
    <3>3. Primed(ncs, f, img, c, ch.ram_ptr)
      BY <1>4, <3>1, <3>2
    <3>4. ch.dma_chip \in Chip
      <4>1. f.pages[ch.ram_ptr] \in Ppa
        BY <3>2 DEF Firmware
      <4>. QED BY <3>1, <4>1 DEF Ppa
    <3>5. ~ncs[ch.dma_chip].busy
      BY <1>3, <3>1, <3>4
    <3>. QED BY <2>1, <2>2, <3>1, <3>3, <3>5 DEF DmaPart, SameDma
  <2>3. CASE ~ch.wait_dma
    BY <1>1, <2>1, <2>3 DEF DmaPart, SameDma
  <2>. QED BY <2>2, <2>3
<1>7. ASSUME NEW j \in 1 .. Len(ch.room) PROVE Cell(new, ncs, f, img, c, j)
  <2>1. Cell(ch, cs, f, img, c, j) /\ new.room = ch.room /\ new.wait_dma = ch.wait_dma
    BY <1>1 DEF RoomPart, ChipOver, SameDma
  <2>. QED BY <1>4, <1>5, <2>1 DEF Cell
<1>8. RoomPart(new, ncs, f, img, c)
  <2>1. new.room = ch.room /\ new.wait_dma = ch.wait_dma /\ new.ram_ptr = ch.ram_ptr
    BY DEF ChipOver, SameDma
  <2>2. Half(f, c) /\ ch.room = <<>> => Primed(ncs, f, img, c, At(f))
    <3>1. SUFFICES ASSUME Half(f, c), ch.room = <<>> PROVE Primed(ncs, f, img, c, At(f))
      OBVIOUS
    <3>2. Primed(cs, f, img, c, At(f))
      BY <1>1, <3>1 DEF RoomPart
    <3>3. At(f) \in 1 .. Len(f.pages)
      <4>1. f.pc = "issue" /\ f.pages # <<>>
        BY <3>1 DEF Half, On
      <4>2. f.k \in Nat /\ Len(f.pages) \in Nat
        BY DEF Firmware
      <4>3. f.k < 6 * Len(f.pages)
        BY <4>1 DEF FwPart
      <4>. QED BY <4>2, <4>3 DEF At
    <3>. QED BY <1>4, <3>2, <3>3
  <2>. QED BY <1>1, <1>7, <2>1, <2>2 DEF RoomPart
<1>9. BusyPart(ncs, f, c)
  BY <1>1, <1>3 DEF BusyPart
<1>10. IsFiniteSet(T) /\ Cardinality(T) \in Nat /\ Cardinality(T) < 255
  BY <1>1, TimedBound
<1>11. Timed(ncs) = T \ {k} /\ k \in T
  BY <1>2 DEF Timed, ChipOver
<1>12. Cardinality(Timed(ncs)) = Cardinality(T) - 1
  BY <1>10, <1>11, FS_RemoveElement
<1>13. CountPart(new, ncs)
  <2>. DEFINE w == IF ch.wait_dma THEN 1 ELSE 0
              m == Cardinality(T)
  <2>1. new.active = (ch.active - 1) % 256 /\ ch.active = m + w /\ w \in {0, 1} /\ m \in Nat /\ m < 255
    BY <1>1, <1>10 DEF ChipOver, CountPart
  <2>2. m # 0
    BY <1>10, <1>11, FS_EmptySet
  <2>. HIDE DEF w, m
  <2>3. new.active = (m - 1) + w
    BY <2>1, <2>2
  <2>4. new.active = Cardinality(Timed(ncs)) + w
    BY <2>3, <1>12 DEF m
  <2>5. new.wait_dma = ch.wait_dma
    BY DEF ChipOver, SameDma
  <2>6. \A x \in Chip : ncs[x].events = (IF ncs[x].busy THEN 1 ELSE 0)
    BY <1>1, <1>2 DEF ChipOver
  <2>. QED BY <2>4, <2>5, <2>6 DEF CountPart, w
<1>14. Held(new) = Held(ch)
  BY DEF Held, ChipOver, SameDma
<1>. QED BY <1>6, <1>8, <1>9, <1>13, <1>14 DEF ChnInv

\* operation_complete_call_back before it looks for other work.
Finished(cs, k) == [cs EXCEPT ![k] = [cs[k] EXCEPT !.events = cs[k].events - 1, !.busy = FALSE]]

Finish(s, c, k) ==
  LET chip == s.chip[c][k]
  IN [s EXCEPT !.chn[c].active = (@ - 1) % 256,
               !.chip[c][k] = [chip EXCEPT !.events = chip.events - 1, !.busy = FALSE]]
AfterFinish(t, s, c, k) ==
  /\ t \in Ctrl /\ t.current_chn = s.current_chn /\ Beside(t, s, c)
  /\ ChipOver(t.chn[c], t.chip[c], s.chn[c], s.chip[c], k)

LEMMA FinishedIs ==
  ASSUME NEW s \in Ctrl, NEW c \in Channel, NEW k \in Chip, s.chip[c][k].events > 0
  PROVE  AfterFinish(Finish(s, c, k), s, c, k)
<1>. DEFINE ch == s.chn[c]  cs == s.chip[c]
            t == Finish(s, c, k)
            new == LessOne(ch)
            ncs == Finished(cs, k)
<1>1. ch \in NC_Channel /\ cs \in [Chip -> NC_Chip]
  BY CtrlFields
<1>2. t = Put(s, c, new, ncs)
  BY DEF Ctrl, Put, LessOne, Finished, Finish
<1>3. new \in NC_Channel
  BY <1>1, OverTypes
<1>4. /\ ncs \in [Chip -> NC_Chip] /\ \A x \in Chip \ {k} : ncs[x] = cs[x]
      /\ ncs[k].busy = FALSE /\ ncs[k].events = cs[k].events - 1
      /\ ncs[k].reg = cs[k].reg /\ ncs[k].pending = cs[k].pending /\ ncs[k].addr = cs[k].addr
  <2>. DEFINE cp == [cs[k] EXCEPT !.events = cs[k].events - 1, !.busy = FALSE]
  <2>1. cs[k] \in NC_Chip /\ cs[k].events - 1 \in Nat
    <3>1. cs[k] \in NC_Chip /\ cs[k].events \in Nat
      BY <1>1 DEF NC_Chip
    <3>. QED BY <3>1
  <2>2. /\ cp \in NC_Chip /\ cp.busy = FALSE /\ cp.events = cs[k].events - 1
        /\ cp.reg = cs[k].reg /\ cp.pending = cs[k].pending /\ cp.addr = cs[k].addr
    BY <2>1 DEF NC_Chip
  <2>3. ncs = [cs EXCEPT ![k] = cp]
    BY DEF Finished
  <2>. HIDE DEF cp, ncs
  <2>. QED BY <1>1, <2>2, <2>3
<1>5. /\ new.room = ch.room /\ new.new_cmd = ch.new_cmd /\ new.active = (ch.active - 1) % 256
      /\ new.wait_dma = ch.wait_dma /\ new.read_dma = ch.read_dma /\ new.write_dma = ch.write_dma
      /\ new.ram_ptr = ch.ram_ptr /\ new.dma_chip = ch.dma_chip
  BY <1>1 DEF NC_Channel, LessOne
<1>. HIDE DEF t, new, ncs
<1>6. /\ t \in Ctrl /\ t.chn[c] = new /\ t.chip[c] = ncs /\ t.current_chn = s.current_chn
      /\ \A x \in Channel \ {c} : t.chn[x] = s.chn[x] /\ t.chip[x] = s.chip[x]
  BY <1>2, <1>3, <1>4, PutIs
<1>7. ChipOver(t.chn[c], t.chip[c], ch, cs, k)
  BY <1>4, <1>5, <1>6 DEF ChipOver, SameDma
<1>8. Beside(t, s, c)
  BY <1>5, <1>6 DEF Beside
<1>9. AfterFinish(t, s, c, k)
  BY <1>6, <1>7, <1>8 DEF AfterFinish
<1>. QED BY <1>9 DEF t

LEMMA OperationInv ==
  ASSUME IInv, NEW c \in Channel, NEW k \in Chip, OperationComplete(c, k)
  PROVE  IInv' /\ \A x \in Channel : Held(nc'.chn[x]) = Held(nc.chn[x])
<1>1. /\ fw \in Firmware /\ free_rops \in Pool /\ free_pops \in Pool /\ nc \in Ctrl
      /\ image \in [ImgPages -> Data] /\ file \in [ImgPages -> Data] /\ shm \in BOOLEAN
      /\ ram \in [Buf -> Data] /\ n \in 0 .. MaxOps
      /\ FwPart(fw) /\ CtrlPart(nc, fw, image) /\ PollPart /\ PoolPart /\ FilePart
  BY Types DEF IInv
<1>2. UNCHANGED <<fw, free_rops, free_pops, image, file, shm, ram, n>> /\ nc.chip[c][k].events > 0
  BY DEF OperationComplete, DelayOver
<1>. DEFINE ch == nc.chn[c]  cs == nc.chip[c]
<1>3. ch \in NC_Channel /\ cs \in [Chip -> NC_Chip] /\ ChnInv(ch, cs, fw, image, c) /\ Engine(nc)
  BY <1>1, CtrlFields DEF CtrlPart
<1>4. PICK t : t = Finish(nc, c, k)
  OBVIOUS
<1>5. nc' = ProcessRoom(t, c)
  BY <1>4 DEF OperationComplete, AfterOperation, Finish
<1>6. /\ t \in Ctrl /\ t.current_chn = nc.current_chn /\ Beside(t, nc, c)
      /\ ChipOver(t.chn[c], t.chip[c], ch, cs, k)
  BY <1>1, <1>2, <1>4, FinishedIs DEF AfterFinish
<1>7. PICK new, ncs : new = t.chn[c] /\ ncs = t.chip[c]
  OBVIOUS
<1>8. ChnInv(new, ncs, fw, image, c) /\ Held(new) = Held(ch)
  <2>1. PICK x, xs : x = ch /\ xs = cs
    OBVIOUS
  <2>2. /\ x \in NC_Channel /\ xs \in [Chip -> NC_Chip] /\ ChnInv(x, xs, fw, image, c)
        /\ xs[k].events > 0 /\ ChipOver(new, ncs, x, xs, k)
    BY <1>2, <1>3, <1>6, <1>7, <2>1
  <2>3. ChnInv(new, ncs, fw, image, c) /\ Held(new) = Held(x)
    BY <1>1, <2>2, ChnAfterOperation
  <2>. QED BY <2>1, <2>3
<1>9. Engine(t)
  <2>1. \A x \in Channel : t.chn[x].wait_dma = nc.chn[x].wait_dma
    BY <1>6 DEF Beside, ChipOver, SameDma
  <2>2. nc.current_chn \in Channel \cup {None}
    BY <1>1 DEF Ctrl
  <2>. QED BY <1>3, <1>6, <2>1, <2>2 DEF Engine
<1>10. /\ CtrlPart(ProcessRoom(t, c), fw, image) /\ Beside(ProcessRoom(t, c), nc, c)
       /\ Held(ProcessRoom(t, c).chn[c]) = Held(t.chn[c])
  <2>1. ChnInv(t.chn[c], t.chip[c], fw, image, c)
    BY <1>7, <1>8
  <2>2. fw.kind = "READ" => image = image /\ image = image
    OBVIOUS
  <2>. QED BY <1>1, <1>6, <1>9, <2>1, <2>2, WorkFits
<1>11. \A x \in Channel : Held(nc'.chn[x]) = Held(nc.chn[x])
  BY <1>5, <1>7, <1>8, <1>10 DEF Beside
<1>12. CtrlPart(nc', fw', image') /\ FwPart(fw')
  BY <1>1, <1>2, <1>5, <1>10
<1>13. TypeOK'
  <2>1. \A x \in Channel : Len(nc'.chn[x].room) <= 2 * MAX_PAGES
    BY <1>1, <1>2, <1>12, RoomBound
  <2>. QED BY <1>1, <1>2, <1>12, <2>1 DEF TypeOK, Ctrl, CtrlPart
<1>14. ch.active # 0
  <2>. DEFINE m == Cardinality(Timed(cs))
  <2>1. /\ BusyPart(cs, fw, c) /\ Len(fw.pages) <= MAX_PAGES
        /\ \A x \in Chip : cs[x].events = (IF cs[x].busy THEN 1 ELSE 0)
    BY <1>1, <1>3 DEF ChnInv, CountPart, FwPart
  <2>2. IsFiniteSet(Timed(cs)) /\ m \in Nat
    BY <1>1, <2>1, TimedBound
  <2>3. m # 0
    <3>1. k \in Timed(cs)
      BY <1>2 DEF Timed
    <3>. QED BY <2>2, <3>1, FS_EmptySet
  <2>4. \E w \in {0, 1} : ch.active = m + w
    BY <1>3 DEF ChnInv, CountPart
  <2>. HIDE DEF m
  <2>. QED BY <2>2, <2>3, <2>4
<1>15. PollPart'
  <2>1. \A x \in Channel \ {c} : nc'.chn[x] = nc.chn[x]
    BY <1>5, <1>10 DEF Beside
  <2>. QED BY <1>1, <1>2, <1>14, <2>1 DEF PollPart, Channel
<1>16. PoolPart' /\ FilePart'
  BY <1>1, <1>2 DEF PoolPart, FilePart
<1>. QED BY <1>11, <1>12, <1>13, <1>15, <1>16 DEF IInv

----------------------------------------------------------------------------
(* The theorems.                                                           *)

LEMMA StepInv ==
  ASSUME IInv, [Next]_vars
  PROVE  IInv'
<1>1. CASE UNCHANGED vars
  <2>1. UNCHANGED <<fw, free_rops, free_pops, nc, image, file, shm, ram, n>>
    BY <1>1 DEF vars
  <2>2. TypeOK' /\ CtrlPart(nc', fw', image')
    BY <2>1 DEF IInv, TypeOK
  <2>. QED BY <2>1, <2>2 DEF IInv, PollPart, PoolPart, FilePart
<1>2. CASE \E kind \in Kinds, b \in Batches : BeginOp(kind, b)
  BY <1>2, BeginInv
<1>3. CASE \E c \in Channel, k \in Chip : OperationComplete(c, k)
  BY <1>3, OperationInv
<1>. QED BY <1>1, <1>2, <1>3, InitializeInv, EmptyInv, IssueInv, PollInv, ShutdownInv, DmaInv DEF Next

LEMMA Invariance == Spec => []IInv
<1>1. Init => IInv
  BY InitInv
<1>2. IInv /\ [Next]_vars => IInv'
  BY StepInv
<1>. QED BY <1>1, <1>2, PTL DEF Spec

\* Registers, rings and counters keep their ranges, and a waiting room never
\* holds more than the commands of one operation: its 1024 entries cannot run
\* out.
THEOREM TypeCorrect == Spec => []TypeOK
<1>1. IInv => TypeOK
  BY DEF IInv
<1>. QED BY <1>1, Invariance, PTL

\* The count the driver polls is exact: active_nand_ops is the number of the
\* channel's scheduled completions, the DMA it waits for included.
THEOREM CountCorrect == Spec => []ActiveExact
<1>1. ASSUME IInv PROVE ActiveExact
  <2>1. \A c \in Channel : CountPart(nc.chn[c], nc.chip[c])
    BY <1>1 DEF IInv, CtrlPart, ChnInv
  <2>2. \A c \in Channel : Scheduled(c) = Timed(nc.chip[c])
    BY DEF Scheduled, Timed
  <2>. QED BY <2>1, <2>2 DEF ActiveExact, CountPart
<1>. QED BY <1>1, Invariance, PTL

\* No command lies in a waiting room, and no channel waits for its DMA, with
\* no event scheduled that will go on with it.
THEOREM AwakeCorrect == Spec => []NobodySleeps
<1>1. ASSUME IInv PROVE NobodySleeps
  <2>1. /\ fw \in Firmware /\ nc \in Ctrl /\ FwPart(fw) /\ CtrlPart(nc, fw, image)
    BY <1>1, Types DEF IInv
  <2>2. SUFFICES ASSUME NEW c \in Channel
        PROVE  /\ nc.chn[c].room # <<>> => Blocked(nc, c)
               /\ nc.chn[c].wait_dma => DmaRunning
    BY DEF NobodySleeps
  <2>3. nc.chn[c].room # <<>> => Blocked(nc, c)
    <3>1. nc.chn[c].room \in Seq(Command)
      BY <2>1, CtrlFields DEF NC_Channel
    <3>2. Awake(nc.chn[c], nc.chip[c])
      BY <2>1 DEF CtrlPart
    <3>3. \A q \in Seq(Command) : q # <<>> => Head(q) = q[1]
      OBVIOUS
    <3>. QED BY <3>1, <3>2, <3>3 DEF Blocked, Awake
  <2>4. ASSUME nc.chn[c].wait_dma PROVE DmaRunning
    <3>. DEFINE d == nc.current_chn
    <3>1. d # None /\ d \in Channel \cup {None} /\ nc.chn[d].wait_dma
      BY <2>1, <2>4 DEF CtrlPart, Engine, Ctrl
    <3>2. d \in Channel
      BY <3>1
    <3>3. DmaPart(nc.chn[d], nc.chip[d], fw, image, d)
      BY <2>1, <3>2 DEF CtrlPart, ChnInv
    <3>4. /\ nc.chn[d].ram_ptr \in 1 .. Len(fw.pages)
          /\ nc.chn[d].read_dma = (fw.kind = "PROGRAM") /\ nc.chn[d].write_dma = (fw.kind = "READ")
      BY <3>1, <3>3 DEF DmaPart, Mine
    <3>5. fw.pages # <<>>
      BY <3>4
    <3>6. fw.kind \in Kinds
      BY <2>1, <3>5 DEF FwPart, Firmware
    <3>. QED BY <3>1, <3>4, <3>6 DEF DmaRunning, Kinds
  <2>. QED BY <2>3, <2>4
<1>. QED BY <1>1, Invariance, PTL

\* A ring of m entries, counted from any of them, has each once.
LEMMA RingStep ==
  ASSUME NEW m \in Nat, NEW h \in 0 .. m - 1, NEW i \in 0 .. m - 1
  PROVE  (h + i) % m = IF h + i < m THEN h + i ELSE h + i - m
<1>1. m > 0 /\ h \in Nat /\ i \in Nat /\ h < m /\ i < m
  OBVIOUS
<1>. DEFINE x == h + i  q == IF h + i < m THEN 0 ELSE 1  r == x - q * m
<1>2. x = q * m + r /\ r \in 0 .. m - 1 /\ q \in Nat
  BY <1>1
<1>3. \A a \in Nat : a = (a \div m) * m + (a % m) /\ a % m \in 0 .. m - 1 /\ a \div m \in Nat
  BY <1>1
<1>4. x \in Nat
  BY <1>1
<1>. HIDE DEF x, q, r
<1>5. r = x % m
  <2>1. /\ x = (x \div m) * m + (x % m) /\ x % m \in 0 .. m - 1 /\ x \div m \in Nat
    BY <1>3, <1>4
  <2>. QED BY <1>2, <2>1, MixedRadix
<1>6. r = IF h + i < m THEN h + i ELSE h + i - m
  BY <1>1 DEF r, q, x
<1>. QED BY <1>5, <1>6 DEF x

\* The pool of read operations never hands out an object that is in use, and
\* never loses one.
THEOREM PoolCorrect == Spec => []ReadPoolExact
<1>1. ASSUME IInv PROVE ReadPoolExact
  <2>. DEFINE M == MAX_OPS
              used == IF fw.kind = "READ" THEN 1 ELSE 0
              h == free_rops.head
              free == [i \in 0 .. M - 1 - used |-> free_rops.objs[(h + i) % M]]
  <2>1. free_rops \in Pool /\ PoolPart /\ M \in Nat /\ M > 0 /\ fw \in Firmware
    BY <1>1, Types, Limits DEF IInv
  <2>2. /\ h \in 0 .. M - 1 /\ free_rops.tail \in 0 .. M - 1
    BY <2>1 DEF Pool
  <2>3. \A i \in 0 .. M - 1 : free_rops.objs[i] = i + 1
    BY <2>1, InitPoolTypes DEF PoolPart
  <2>4. used \in {0, 1}
    OBVIOUS
  <2>5. ASSUME NEW i \in 0 .. M - 1
        PROVE  (h + i) % M = (IF h + i < M THEN h + i ELSE h + i - M) /\ (h + i) % M \in 0 .. M - 1
    <3>1. (h + i) % M = IF h + i < M THEN h + i ELSE h + i - M
      BY <2>1, <2>2, RingStep
    <3>. QED BY <2>1, <2>2, <3>1
  <2>6. ASSUME NEW i \in 0 .. M - 1 - used
        PROVE  i \in 0 .. M - 1 /\ free[i] = (IF h + i < M THEN h + i ELSE h + i - M) + 1
    <3>1. i \in 0 .. M - 1
      BY <2>1, <2>4
    <3>2. free[i] = free_rops.objs[(h + i) % M]
      OBVIOUS
    <3>. HIDE DEF free, used, h, M
    <3>. QED BY <2>3, <2>5, <3>1, <3>2
  <2>7. used = 1 => fw.obj = free_rops.tail + 1 /\ h = (free_rops.tail + 1) % M
    BY <2>1 DEF PoolPart
  <2>8. used = 1 => h = (IF free_rops.tail + 1 < M THEN free_rops.tail + 1 ELSE free_rops.tail + 1 - M)
    <3>1. CASE M = 1
      <4>1. used = 1 => h = 0 /\ free_rops.tail = 0
        BY <2>2, <3>1
      <4>. QED BY <3>1, <4>1
    <3>2. CASE M # 1
      <4>1. 1 \in 0 .. M - 1
        BY <2>1, <3>2
      <4>2. (free_rops.tail + 1) % M = IF free_rops.tail + 1 < M THEN free_rops.tail + 1
                                       ELSE free_rops.tail + 1 - M
        BY <2>1, <2>2, <4>1, RingStep
      <4>. QED BY <2>7, <4>2
    <3>. QED BY <3>1, <3>2
  <2>. DEFINE busy == IF used = 1 THEN {fw.obj} ELSE {}
              t == free_rops.tail
  <2>9. Range(free) = {free[i] : i \in 0 .. M - 1 - used}
    BY DEF Range
  <2>. HIDE DEF free, h, used, t, M
  <2>10. t \in 0 .. M - 1 /\ h \in 0 .. M - 1 /\ (used = 1 => fw.obj = t + 1)
         /\ (used = 1 => h = IF t + 1 < M THEN t + 1 ELSE t + 1 - M)
    BY <2>2, <2>7, <2>8 DEF t
  <2>11. ASSUME NEW i \in 0 .. M - 1 - used PROVE free[i] \in (1 .. M) \ busy
    <3>1. i \in 0 .. M - 1 /\ free[i] = (IF h + i < M THEN h + i ELSE h + i - M) + 1
      BY <2>6
    <3>2. free[i] \in 1 .. M
      BY <2>1, <2>10, <3>1
    <3>3. used = 1 => free[i] # t + 1
      BY <2>1, <2>10, <3>1
    <3>. QED BY <2>10, <3>2, <3>3
  <2>12. ASSUME NEW v \in (1 .. M) \ busy PROVE \E i \in 0 .. M - 1 - used : free[i] = v
    <3>. DEFINE i == IF v - 1 >= h THEN v - 1 - h ELSE v - 1 - h + M
    <3>1. used = 1 => v # t + 1
      BY <2>10
    <3>2. i \in 0 .. M - 1 - used
      BY <2>1, <2>4, <2>10, <3>1
    <3>3. (IF h + i < M THEN h + i ELSE h + i - M) + 1 = v
      BY <2>1, <2>10
    <3>. HIDE DEF i
    <3>4. free[i] = v
      BY <2>6, <3>2, <3>3
    <3>. QED BY <3>2, <3>4
  <2>13. Range(free) = (1 .. M) \ busy
    BY <2>9, <2>11, <2>12
  <2>14. used = 1 => fw.obj # 0
    BY <2>10
  <2>. QED BY <2>13, <2>14 DEF ReadPoolExact, free, h, used, M
<1>. QED BY <1>1, Invariance, PTL

----------------------------------------------------------------------------
(* The promise of the NAND I/O layer.                                      *)

\* The content of the pages, as the layer's caller sees it.
Flash == [p \in Ppa |-> (IF fw.pc = "off" THEN file ELSE image)
                          [ImgPage(p.chn, p.chip, AddressCycle(p))]]

\* The pages of f that are not moved: their commands are not all sent, or a
\* channel of s has the second one.
Left(f, s) == {i \in DOMAIN f.pages : f.k < 6 * i \/ \E c \in Channel : i \in Held(s.chn[c])}

LEMMA TodoIs ==
  ASSUME fw \in Firmware, FwPart(fw)
  PROVE  Todo = Left(fw, nc)
<1>1. Len(Script) = 6
  BY DEF Script
<1>2. \A i \in DOMAIN fw.pages : i \in Buf
  <2>1. fw.pages \in Seq(Ppa) /\ Len(fw.pages) \in Nat /\ Len(fw.pages) <= MAX_PAGES
    BY DEF Firmware, FwPart
  <2>2. DOMAIN fw.pages = 1 .. Len(fw.pages)
    BY <2>1
  <2>. QED BY <2>1, <2>2, Limits DEF Buf
<1>. QED BY <1>1, <1>2 DEF Todo, Left, Held

\* A channel has commands of its own pages only.
LEMMA HeldMine ==
  ASSUME NEW f \in Firmware, FwPart(f), NEW img, NEW s, CtrlPart(s, f, img), NEW c \in Channel,
         NEW i \in Held(s.chn[c])
  PROVE  Mine(f, c, i)
<1>. DEFINE ch == s.chn[c]  cs == s.chip[c]
<1>1. ch \in NC_Channel /\ ChnInv(ch, cs, f, img, c)
  BY CtrlFields DEF CtrlPart
<1>. HIDE DEF ch, cs
<1>2. i # None /\ (ch.ram_ptr = i \/ \E j \in DOMAIN ch.room : ch.room[j].ram_ptr = i)
  <2>1. \A b \in Buf : b # None
    BY Limits DEF Buf, None
  <2>. QED BY <2>1 DEF Held, ch
<1>3. CASE ch.ram_ptr = i
  BY <1>1, <1>2, <1>3 DEF ChnInv, DmaPart
<1>4. ASSUME NEW j \in DOMAIN ch.room, ch.room[j].ram_ptr = i PROVE Mine(f, c, i)
  <2>1. j \in 1 .. Len(ch.room)
    BY <1>1 DEF NC_Channel
  <2>2. Cell(ch, cs, f, img, c, j)
    BY <1>1, <2>1 DEF ChnInv, RoomPart
  <2>. QED BY <1>2, <1>4, <2>2 DEF Cell
<1>. QED BY <1>2, <1>3, <1>4

\* A quiet controller has none.
LEMMA QuietHolds ==
  ASSUME NEW s, AllQuiet(s), NEW c \in Channel
  PROVE  Held(s.chn[c]) = {}
<1>1. s.chn[c].room = <<>> /\ s.chn[c].ram_ptr = None
  BY DEF AllQuiet, Quiet
<1>2. \A b \in Buf : b # None
  BY Limits DEF Buf, None
<1>3. DOMAIN <<>> = {}
  OBVIOUS
<1>. QED BY <1>1, <1>2, <1>3 DEF Held

LEMMA NoPagesLeft ==
  ASSUME NEW f, f.pages = <<>>, NEW s
  PROVE  Left(f, s) = {}
<1>1. DOMAIN <<>> = {}
  OBVIOUS
<1>. QED BY <1>1 DEF Left

SameOps ==
  /\ Flash' = Flash /\ ram' = ram /\ fw'.kind = fw.kind /\ fw'.pages = fw.pages
  /\ Left(fw', nc') = Left(fw, nc)

\* The parts of the invariant the refinement looks at, before and after a step.
LEMMA Parts ==
  ASSUME IInv
  PROVE  /\ fw \in Firmware /\ FwPart(fw) /\ CtrlPart(nc, fw, image) /\ FilePart
         /\ ram \in [Buf -> Data] /\ image \in [ImgPages -> Data] /\ Todo = Left(fw, nc)
<1>1. fw \in Firmware /\ ram \in [Buf -> Data] /\ image \in [ImgPages -> Data]
  BY Types DEF IInv
<1>. QED BY <1>1, TodoIs DEF IInv

LEMMA PartsNext ==
  ASSUME IInv'
  PROVE  FwPart(fw') /\ ram' \in [Buf -> Data] /\ Todo' = Left(fw', nc')
<1>1. fw' \in Firmware /\ ram' \in [Buf -> Data] /\ FwPart(fw')
  BY DEF IInv, TypeOK
<1>2. Len(Script) = 6
  BY DEF Script
<1>3. \A i \in DOMAIN fw'.pages : i \in Buf
  <2>1. fw'.pages \in Seq(Ppa) /\ Len(fw'.pages) \in Nat /\ Len(fw'.pages) <= MAX_PAGES
    BY <1>1 DEF Firmware, FwPart
  <2>2. DOMAIN fw'.pages = 1 .. Len(fw'.pages)
    BY <2>1
  <2>. QED BY <2>1, <2>2, Limits DEF Buf
<1>4. Todo' = Left(fw', nc')
  BY <1>2, <1>3 DEF Todo, Left, Held
<1>. QED BY <1>1, <1>4

LEMMA StutterOps ==
  ASSUME IInv, IInv', SameOps
  PROVE  UNCHANGED Ops!opVars
<1>1. Todo = Left(fw, nc)
  BY Parts
<1>2. Todo' = Left(fw', nc')
  BY PartsNext
<1>. QED BY <1>1, <1>2 DEF SameOps, Flash, Ops!opVars

\* A register that is written moves nothing.
LEMMA IssueOps ==
  ASSUME IInv, IssueRegister
  PROVE  SameOps
<1>1. fw \in Firmware /\ FwPart(fw)
  BY Parts
<1>2. fw' \in Firmware /\ Wrote(fw, fw')
  BY <1>1, IssueFw
<1>3. UNCHANGED <<image, file, ram>>
  BY DEF IssueRegister
<1>4. \A x \in Channel : Held(nc'.chn[x])
        = Held(nc.chn[x]) \cup (IF x = fw.pages[At(fw)].chn THEN NewPage(fw) ELSE {})
  BY IssueCtrl
<1>5. /\ At(fw) \in 1 .. Len(fw.pages) /\ fw.pages[At(fw)] \in Ppa /\ fw.k \in Nat
      /\ fw.k % 6 \in 0 .. 5 /\ fw.k = 6 * (At(fw) - 1) + (fw.k % 6)
  BY <1>1, <1>2, WroteIs
<1>6. fw'.pages = fw.pages /\ fw'.kind = fw.kind /\ fw'.k = fw.k + 1 /\ fw.pc # "off" /\ fw'.pc # "off"
  BY <1>2 DEF Wrote
<1>7. fw.pages[At(fw)].chn \in Channel
  BY <1>5 DEF Ppa
<1>8. ASSUME NEW i \in DOMAIN fw.pages
      PROVE  (fw.k < 6 * i \/ \E c \in Channel : i \in Held(nc.chn[c]))
               <=> (fw.k + 1 < 6 * i \/ \E c \in Channel : i \in Held(nc'.chn[c]))
  <2>1. i \in Nat
    <3>1. DOMAIN fw.pages = 1 .. Len(fw.pages)
      BY <1>1 DEF Firmware
    <3>. QED BY <3>1
  <2>2. CASE fw.k % 6 = 5 /\ i = At(fw)
    <3>1. i \in NewPage(fw) /\ fw.k < 6 * i
      BY <1>5, <2>2 DEF NewPage
    <3>2. i \in Held(nc'.chn[fw.pages[At(fw)].chn])
      BY <1>4, <1>7, <3>1
    <3>. QED BY <1>7, <3>1, <3>2
  <2>3. CASE ~(fw.k % 6 = 5 /\ i = At(fw))
    <3>1. i \notin NewPage(fw)
      BY <2>3 DEF NewPage
    <3>2. \A c \in Channel : i \in Held(nc.chn[c]) <=> i \in Held(nc'.chn[c])
      BY <1>4, <3>1
    <3>3. fw.k < 6 * i <=> fw.k + 1 < 6 * i
      <4>. DEFINE at == At(fw)  ph == fw.k % 6
      <4>1. /\ at \in Nat /\ ph \in 0 .. 5 /\ fw.k = 6 * (at - 1) + ph /\ fw.k \in Nat
            /\ ~(ph = 5 /\ i = at)
        BY <1>5, <2>3
      <4>. HIDE DEF at, ph
      <4>. QED BY <2>1, <4>1
    <3>. QED BY <3>2, <3>3
  <2>. QED BY <2>2, <2>3
<1>9. Left(fw', nc') = Left(fw, nc)
  BY <1>6, <1>8 DEF Left
<1>10. Flash' = Flash
  BY <1>3, <1>6 DEF Flash
<1>. QED BY <1>3, <1>6, <1>9, <1>10 DEF SameOps

\* Nor does the end of a chip's operation.
LEMMA OperationOps ==
  ASSUME IInv, NEW c \in Channel, NEW k \in Chip, OperationComplete(c, k)
  PROVE  SameOps
<1>1. UNCHANGED <<fw, image, file, ram>>
  BY DEF OperationComplete
<1>2. \A x \in Channel : Held(nc'.chn[x]) = Held(nc.chn[x])
  BY OperationInv
<1>3. Left(fw', nc') = Left(fw, nc) /\ Flash' = Flash
  BY <1>1, <1>2 DEF Left, Flash
<1>. QED BY <1>1, <1>3 DEF SameOps

\* Nor the start and the stop of the device, which keep the content.
LEMMA PowerOps ==
  ASSUME IInv, InitializeNandCtrl \/ ShutdownNand
  PROVE  SameOps
<1>1. fw.pc \in {"off", "idle"} /\ fw'.kind = NoOp /\ fw'.pages = <<>> /\ ram' = ram
  BY DEF InitializeNandCtrl, ShutdownNand, Idle
<1>2. fw.kind = NoOp /\ fw.pages = <<>>
  BY <1>1, Parts DEF FwPart
<1>3. Left(fw', nc') = Left(fw, nc)
  BY <1>1, <1>2, NoPagesLeft
<1>4. Flash' = Flash
  <2>1. CASE InitializeNandCtrl
    <3>1. fw.pc = "off" /\ fw'.pc = "idle" /\ image' = file
      BY <2>1 DEF InitializeNandCtrl, Idle
    <3>. QED BY <3>1 DEF Flash
  <2>2. CASE ShutdownNand
    <3>1. fw.pc = "idle" /\ fw'.pc = "off" /\ file' = IF shm THEN image ELSE file
      BY <2>2 DEF ShutdownNand, FileAfterShutdown, Idle
    <3>2. file' = image
      BY <3>1, Parts DEF FilePart
    <3>. QED BY <3>1, <3>2 DEF Flash
  <2>. QED BY <2>1, <2>2
<1>. QED BY <1>1, <1>2, <1>3, <1>4 DEF SameOps

\* begin_*_op starts an operation with all of its pages to do.
LEMMA BeginOps ==
  ASSUME IInv, IInv', NEW kind \in Kinds, NEW b \in Batches, BeginOp(kind, b)
  PROVE  Ops!Start
<1>1. /\ fw.pages = <<>> /\ fw.pc = "idle" /\ fw'.pages \in Seq(Ppa) /\ AllQuiet(nc)
  BY BeginInv
<1>2. fw.kind = "none"
  BY <1>1, Parts DEF FwPart, NoOp
<1>3. fw'.kind = kind /\ fw'.k = 0 /\ fw'.pc = "issue" /\ UNCHANGED <<nc, image, file>>
  BY DEF BeginOp, Idle
<1>4. Len(fw'.pages) \in 0 .. MAX_PAGES /\ fw'.pages \in [1 .. Len(fw'.pages) -> Ppa]
  <2>1. FwPart(fw')
    BY PartsNext
  <2>2. Len(fw'.pages) <= MAX_PAGES
    BY <2>1 DEF FwPart
  <2>. QED BY <1>1, <2>2, Limits
<1>5. fw'.pages \in UNION {[1 .. m -> Ppa] : m \in 0 .. MAX_PAGES}
  BY <1>4
<1>6. Left(fw', nc') = DOMAIN fw'.pages
  <2>1. DOMAIN fw'.pages = 1 .. Len(fw'.pages)
    BY <1>1
  <2>2. \A i \in DOMAIN fw'.pages : 0 < 6 * i
    BY <2>1
  <2>. QED BY <1>3, <2>2 DEF Left
<1>7. Todo' = DOMAIN fw'.pages
  BY <1>6, PartsNext
<1>8. DOMAIN ram' = DOMAIN ram
  <2>1. ram \in [Buf -> Data]
    BY Parts
  <2>2. ram' \in [Buf -> Data]
    BY PartsNext
  <2>. QED BY <2>1, <2>2
<1>9. fw'.kind = "READ" => ram' = ram
  BY <1>3 DEF BeginOp
<1>10. Flash' = Flash
  BY <1>1, <1>3 DEF Flash
<1>. QED BY <1>2, <1>3, <1>5, <1>7, <1>8, <1>9, <1>10 DEF Ops!Start, Flash

\* The call returns when nothing is left to do.
LEMMA ReturnOps ==
  ASSUME IInv, IInv', fw.pc \in {"issue", "poll"}, fw.pc = "issue" => fw.pages = <<>>, AllQuiet(nc),
         fw'.pages = <<>>, fw'.kind = NoOp, fw'.pc = "idle", fw.kind # NoOp,
         UNCHANGED <<nc, image, file, ram>>
  PROVE  Ops!Return
<1>1. Left(fw, nc) = {}
  <2>1. CASE fw.pages = <<>>
    BY <2>1, NoPagesLeft
  <2>2. CASE fw.pages # <<>>
    <3>1. fw \in Firmware /\ FwPart(fw)
      BY Parts
    <3>2. fw.k = 6 * Len(fw.pages)
      BY <2>2, <3>1 DEF FwPart
    <3>3. DOMAIN fw.pages = 1 .. Len(fw.pages) /\ Len(fw.pages) \in Nat
      BY <3>1 DEF Firmware
    <3>4. \A i \in DOMAIN fw.pages : ~(fw.k < 6 * i)
      BY <3>2, <3>3
    <3>5. \A c \in Channel : Held(nc.chn[c]) = {}
      BY QuietHolds
    <3>. QED BY <3>4, <3>5 DEF Left
  <2>. QED BY <2>1, <2>2
<1>2. Todo = {}
  BY <1>1, Parts
<1>3. Todo' = {}
  <2>1. Todo' = Left(fw', nc')
    BY PartsNext
  <2>2. Left(fw', nc') = {}
    BY NoPagesLeft
  <2>. QED BY <2>1, <2>2
<1>4. Flash' = Flash
  BY DEF Flash
<1>. QED BY <1>2, <1>3, <1>4 DEF Ops!Return, Flash, NoOp

\* The end of a DMA moves its page.
LEMMA MoveOps ==
  ASSUME IInv, IInv', DmaComplete
  PROVE  \E i \in Todo : Ops!Move(i)
<1>. DEFINE c == nc.current_chn
            p == nc.chn[c].ram_ptr
            pg == fw.pages[p]
            a == ImgPage(pg.chn, pg.chip, AddressCycle(pg))
<1>1. /\ c \in Channel /\ fw.kind \in Kinds /\ fw' = fw /\ MovedPage(c)
  BY DmaState
<1>2. /\ p \in 1 .. Len(fw.pages) /\ p \in Buf /\ 6 * p <= fw.k /\ pg \in Ppa /\ a \in ImgPages
      /\ fw.kind = "READ" => image' = image /\ ram' = [ram EXCEPT ![p] = image[a]]
      /\ fw.kind = "PROGRAM" => image' = [image EXCEPT ![a] = ram[p]] /\ ram' = ram
  BY <1>1 DEF MovedPage
<1>3. /\ \A x \in Channel \ {c} : nc'.chn[x] = nc.chn[x]
      /\ Held(nc'.chn[c]) = Held(nc.chn[c]) \ {p} /\ p \in Held(nc.chn[c])
  BY DmaCtrl
<1>4. fw \in Firmware /\ FwPart(fw) /\ CtrlPart(nc, fw, image) /\ image \in [ImgPages -> Data]
  BY Parts
<1>. HIDE DEF c, p, a
<1>5. \A x \in Channel \ {c} : p \notin Held(nc.chn[x])
  <2>1. \A x \in Channel : p \in Held(nc.chn[x]) => pg.chn = x
    BY <1>4, HeldMine DEF Mine
  <2>. QED BY <1>1, <1>3, <2>1
<1>6. p \in DOMAIN fw.pages /\ fw.k \in Nat /\ p \in Nat
  BY <1>2, <1>4 DEF Firmware
<1>7. p \in Left(fw, nc)
  BY <1>1, <1>3, <1>6 DEF Left
<1>8. Left(fw', nc') = Left(fw, nc) \ {p}
  <2>1. ~(fw.k < 6 * p)
    BY <1>2, <1>6
  <2>2. \A i \in DOMAIN fw.pages : (\E x \in Channel : i \in Held(nc'.chn[x]))
          <=> i # p /\ \E x \in Channel : i \in Held(nc.chn[x])
    BY <1>1, <1>3, <1>5
  <2>. QED BY <1>1, <1>6, <2>1, <2>2 DEF Left
<1>9. Todo = Left(fw, nc) /\ Todo' = Left(fw', nc')
  BY Parts, PartsNext
<1>10. fw.pc # "off"
  BY <1>1, <1>4 DEF FwPart, Kinds, NoOp
<1>11. CASE fw.kind = "READ"
  <2>1. Flash' = Flash /\ Flash[pg] = image[a]
    BY <1>1, <1>2, <1>10, <1>11 DEF Flash, a
  <2>2. ram' = [ram EXCEPT ![p] = Flash[fw.pages[p]]]
    BY <1>2, <1>11, <2>1
  <2>3. Ops!Move(p)
    BY <1>1, <1>7, <1>8, <1>9, <1>11, <2>1, <2>2 DEF Ops!Move, Flash
  <2>. QED BY <1>7, <1>9, <2>3
<1>12. CASE fw.kind = "PROGRAM"
  <2>1. image' = [image EXCEPT ![a] = ram[p]] /\ ram' = ram
    BY <1>2, <1>12
  <2>2. ASSUME NEW q \in Ppa
        PROVE  Flash'[q] = IF q = pg THEN ram[p] ELSE Flash[q]
    <3>. DEFINE b == ImgPage(q.chn, q.chip, AddressCycle(q))
    <3>1. b \in ImgPages /\ (b = a <=> q = pg)
      BY <1>2, ImgPageType, ImgPageOnce DEF a
    <3>2. Flash'[q] = image'[b] /\ Flash[q] = image[b]
      BY <1>1, <1>10 DEF Flash
    <3>. HIDE DEF b
    <3>. QED BY <1>2, <1>4, <2>1, <3>1, <3>2
  <2>3. Flash' = [Flash EXCEPT ![fw.pages[p]] = ram[p]]
    <3>1. DOMAIN Flash' = Ppa /\ DOMAIN Flash = Ppa
      BY DEF Flash
    <3>2. PICK g, h : g = Flash' /\ h = Flash
      OBVIOUS
    <3>3. g = [q \in Ppa |-> g[q]] /\ h = [q \in Ppa |-> h[q]]
      BY <3>2 DEF Flash
    <3>4. \A q \in Ppa : g[q] = IF q = pg THEN ram[p] ELSE h[q]
      BY <2>2, <3>2
    <3>5. g = [h EXCEPT ![pg] = ram[p]]
      BY <3>3, <3>4
    <3>. QED BY <3>2, <3>5
  <2>4. Ops!Move(p)
    BY <1>1, <1>7, <1>8, <1>9, <1>12, <2>1, <2>3 DEF Ops!Move, Flash
  <2>. QED BY <1>7, <1>9, <2>4
<1>. QED BY <1>1, <1>11, <1>12 DEF Kinds

LEMMA StepOps ==
  ASSUME IInv, [Next]_vars
  PROVE  [Ops!OpNext]_(Ops!opVars)
<1>1. IInv'
  BY StepInv
<1>2. CASE SameOps
  BY <1>1, <1>2, StutterOps
<1>3. CASE UNCHANGED vars
  <2>1. UNCHANGED <<fw, nc, image, file, ram>>
    BY <1>3 DEF vars
  <2>2. SameOps
    BY <2>1 DEF SameOps, Flash, Left
  <2>. QED BY <1>2, <2>2
<1>4. CASE InitializeNandCtrl \/ ShutdownNand
  BY <1>2, <1>4, PowerOps
<1>5. CASE \E kind \in Kinds, b \in Batches : BeginOp(kind, b)
  BY <1>1, <1>5, BeginOps DEF Ops!OpNext
<1>6. CASE EmptyOp
  <2>1. fw.pc = "issue" /\ fw.pages = <<>> /\ UNCHANGED <<nc, image, file, ram>>
    BY <1>6 DEF EmptyOp
  <2>2. fw'.pages = <<>> /\ fw'.kind = NoOp /\ fw'.pc = "idle" /\ fw.kind # NoOp /\ AllQuiet(nc)
    BY <1>6, EmptyInv
  <2>3. Ops!Return
    BY <1>1, <2>1, <2>2, ReturnOps
  <2>. QED BY <2>3 DEF Ops!OpNext
<1>7. CASE IssueRegister
  BY <1>2, <1>7, IssueOps
<1>8. CASE PollChannel
  <2>1. fw.pc = "poll" /\ UNCHANGED <<nc, image, file, ram>>
    BY <1>8 DEF PollChannel
  <2>2. CASE fw'.kind = fw.kind /\ fw'.pages = fw.pages /\ fw'.k = fw.k /\ fw'.pc = fw.pc
    <3>1. SameOps
      BY <2>1, <2>2 DEF SameOps, Flash, Left
    <3>. QED BY <1>2, <3>1
  <2>3. CASE /\ fw'.pages = <<>> /\ fw'.kind = NoOp /\ fw'.pc = "idle"
             /\ fw.kind # NoOp /\ AllQuiet(nc)
    <3>1. Ops!Return
      BY <1>1, <2>1, <2>3, ReturnOps
    <3>. QED BY <3>1 DEF Ops!OpNext
  <2>. QED BY <1>8, <2>2, <2>3, PollInv
<1>9. CASE DmaComplete
  BY <1>1, <1>9, MoveOps DEF Ops!OpNext
<1>10. CASE \E c \in Channel, k \in Chip : OperationComplete(c, k)
  BY <1>2, <1>10, OperationOps
<1>. QED BY <1>3, <1>4, <1>5, <1>6, <1>7, <1>8, <1>9, <1>10 DEF Next

\* A call of the NAND I/O layer moves exactly the pages it was given, each
\* once, and returns after all of them were moved, whatever the order of the
\* events; a shutdown and a new start keep what was programmed.
THEOREM OpsImplemented == Spec => ImplementsOps
<1>1. Init => Ops!OpInit
  <2>1. SUFFICES ASSUME Init PROVE Ops!OpInit
    OBVIOUS
  <2>2. IInv
    BY <2>1, InitInv
  <2>3. fw.kind = "none" /\ fw.pages = <<>>
    BY <2>1 DEF Init, Idle, NoOp
  <2>4. Todo = {}
    BY <2>2, <2>3, Parts, NoPagesLeft
  <2>. QED BY <2>3, <2>4 DEF Ops!OpInit
<1>2. IInv /\ [Next]_vars => [Ops!OpNext]_(Ops!opVars)
  BY StepOps
<1>. QED BY <1>1, <1>2, Invariance, PTL DEF Spec, ImplementsOps, Ops!OpSpec

=============================================================================
