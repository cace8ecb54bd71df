----------------------------- MODULE FtlProofs -----------------------------
(***************************************************************************)
(* The allocator and the mapping tables are correct for every geometry,    *)
(* every number of logical pages and every number of stores and restarts.  *)
(*                                                                         *)
(* The point of the argument is that find_free_page, whose block index may *)
(* run one past the plane, never does: the round-robin over the planes     *)
(* keeps every cursor within one page of every other, so that a plane is   *)
(* exhausted only when all of them are.                                    *)
(***************************************************************************)
EXTENDS Ftl, FiniteSetTheorems, TLAPS

----------------------------------------------------------------------------
(* The order in which a round visits the planes. *)

LEMMA NextPlaneType ==
  ASSUME NEW y \in Plane
  PROVE  NextPlane(y) \in Plane
<1>1. CASE y.chn + 1 < NUM_CHANNELS
  BY <1>1, GeometryAssumption DEF NextPlane, Plane
<1>2. CASE ~(y.chn + 1 < NUM_CHANNELS) /\ y.die + 1 < DIES_PER_CHANNEL
  <2>1. NextPlane(y) = [chn |-> 0, die |-> y.die + 1, plane |-> y.plane]
    BY <1>2 DEF NextPlane, Plane
  <2> QED BY <1>2, <2>1, GeometryAssumption DEF Plane
<1>3. CASE ~(y.chn + 1 < NUM_CHANNELS) /\ ~(y.die + 1 < DIES_PER_CHANNEL)
  BY <1>3, GeometryAssumption DEF NextPlane, Plane
<1> QED BY <1>1, <1>2, <1>3

\* The last plane of a round.
LastOfRound(y) == /\ y.chn + 1 = NUM_CHANNELS /\ y.die + 1 = DIES_PER_CHANNEL
                  /\ y.plane + 1 = PLANES_PER_DIE

LEMMA AfterLast ==
  ASSUME NEW y \in Plane, LastOfRound(y), NEW x \in Plane
  PROVE  /\ AtOrBefore(x, y)
         /\ AtOrBefore(x, NextPlane(y)) <=> x = NextPlane(y)
  BY GeometryAssumption DEF LastOfRound, NextPlane, Plane, AtOrBefore

LEMMA AfterOther ==
  ASSUME NEW y \in Plane, ~LastOfRound(y), NEW x \in Plane
  PROVE  /\ ~AtOrBefore(NextPlane(y), y)
         /\ AtOrBefore(x, NextPlane(y)) <=> AtOrBefore(x, y) \/ x = NextPlane(y)
<1>1. CASE y.chn + 1 < NUM_CHANNELS
  <2>1. NextPlane(y) = [chn |-> y.chn + 1, die |-> y.die, plane |-> y.plane]
    BY <1>1 DEF NextPlane, Plane
  <2> QED BY <2>1, GeometryAssumption DEF AtOrBefore, Plane
<1>2. CASE ~(y.chn + 1 < NUM_CHANNELS) /\ y.die + 1 < DIES_PER_CHANNEL
  <2>1. NextPlane(y) = [chn |-> 0, die |-> y.die + 1, plane |-> y.plane]
    BY <1>2 DEF NextPlane, Plane
  <2> QED BY <1>2, <2>1, GeometryAssumption DEF AtOrBefore, Plane
<1>3. CASE ~(y.chn + 1 < NUM_CHANNELS) /\ ~(y.die + 1 < DIES_PER_CHANNEL)
  <2>1. y.plane + 1 < PLANES_PER_DIE
    BY <1>3, GeometryAssumption DEF LastOfRound, Plane
  <2>2. NextPlane(y) = [chn |-> 0, die |-> 0, plane |-> y.plane + 1]
    BY <1>3, <2>1 DEF NextPlane, Plane
  <2> QED BY <1>3, <2>2, GeometryAssumption DEF AtOrBefore, Plane
<1> QED BY <1>1, <1>2, <1>3

LEMMA FirstPageType ==
  /\ FirstPlane \in Plane /\ FirstPage \in Ppa
  /\ FirstPage.pl = FirstPlane /\ FirstPage.block = 0 /\ FirstPage.page = 0
<1>1. FirstPlane \in Plane
  BY GeometryAssumption DEF FirstPlane, Plane
<1> QED BY <1>1, GeometryAssumption DEF FirstPage, PpaAt, Ppa

LEMMA FlashFinite == IsFiniteSet(Ppa) /\ Cardinality(Ppa) \in Nat
<1>1. /\ IsFiniteSet(0 .. NUM_CHANNELS - 1) /\ IsFiniteSet(0 .. DIES_PER_CHANNEL - 1)
      /\ IsFiniteSet(0 .. PLANES_PER_DIE - 1) /\ IsFiniteSet(0 .. BLOCKS_PER_PLANE - 1)
      /\ IsFiniteSet(0 .. PAGES_PER_BLOCK - 1)
  BY FS_Interval, GeometryAssumption
<1> DEFINE T == (0 .. NUM_CHANNELS - 1) \X ((0 .. DIES_PER_CHANNEL - 1) \X
                 ((0 .. PLANES_PER_DIE - 1) \X
                  ((0 .. BLOCKS_PER_PLANE - 1) \X (0 .. PAGES_PER_BLOCK - 1))))
           f == [t \in T |-> PpaAt([chn |-> t[1], die |-> t[2][1], plane |-> t[2][2][1]],
                                   t[2][2][2][1], t[2][2][2][2])]
<1>2. IsFiniteSet(T)
  BY <1>1, FS_Product
<1>3. \A p \in Ppa : \E t \in T : f[t] = p
  <2> SUFFICES ASSUME NEW p \in Ppa PROVE \E t \in T : f[t] = p
    OBVIOUS
  <2> DEFINE t == <<p.pl.chn, <<p.pl.die, <<p.pl.plane, <<p.block, p.page>>>>>>>>
  <2>1. t \in T
    BY DEF Ppa, Plane
  <2>2. f[t] = p
    BY <2>1 DEF Ppa, Plane, PpaAt
  <2> QED BY <2>1, <2>2
<1>4. f \in Surjection(T, Ppa)
  <2>1. \A t \in T : f[t] \in Ppa
    BY DEF Ppa, Plane, PpaAt
  <2> QED BY <1>3, <2>1 DEF Surjection
<1>5. IsFiniteSet(Ppa)
  BY <1>2, <1>4, FS_Surjection
<1> QED BY <1>5, FS_CardinalityType

LEMMA LocInside ==
  ASSUME NEW p \in Ppa
  PROVE  Loc(p) = p /\ BlockOf(p) \in Block /\ p.pl \in Plane
  BY GeometryAssumption DEF Loc, Ppa, Block, BlockOf

LEMMA MemNextType ==
  ASSUME NEW y \in Plane
  PROVE  MemNext(y) \in Plane
<1>1. CASE y.plane + 1 < PLANES_PER_DIE
  <2>1. MemNext(y) = [chn |-> y.chn, die |-> y.die, plane |-> y.plane + 1]
    BY <1>1 DEF MemNext, Plane
  <2> QED BY <1>1, <2>1, GeometryAssumption DEF Plane
<1>2. CASE ~(y.plane + 1 < PLANES_PER_DIE) /\ y.die + 1 < DIES_PER_CHANNEL
  <2>1. MemNext(y) = [chn |-> y.chn, die |-> y.die + 1, plane |-> 0]
    BY <1>2 DEF MemNext, Plane
  <2> QED BY <1>2, <2>1, GeometryAssumption DEF Plane
<1>3. CASE ~(y.plane + 1 < PLANES_PER_DIE) /\ ~(y.die + 1 < DIES_PER_CHANNEL)
  BY <1>3, GeometryAssumption DEF MemNext, Plane
<1> QED BY <1>1, <1>2, <1>3

----------------------------------------------------------------------------
(* The outcome of a search. *)

\* The cursors the allocator works with.
AllocState ==
  /\ ppa_table \in [Ppa -> Entry]
  /\ last_page_per_plane \in [Plane -> Cursor]
  /\ last_searched_channel \in Plane
  /\ RoundBalanced \/ Full
  /\ FreeBeyondCursor

\* Unless the flash is full, the plane the search turns to has room.
LEMMA SearchCursor ==
  ASSUME AllocState, ~Full
  PROVE  LET c == last_page_per_plane[SearchPlane] IN
         /\ RoundBalanced
         /\ c.block < BLOCKS_PER_PLANE
         /\ \/ c.page < PAGES_PER_BLOCK
            \/ c.page = PAGES_PER_BLOCK /\ c.block + 1 < BLOCKS_PER_PLANE
<1> DEFINE y == last_searched_channel
           s == SearchPlane
           cur == last_page_per_plane[y]
           c == last_page_per_plane[s]
<1>1. s \in Plane /\ s = NextPlane(y) /\ y \in Plane
  BY NextPlaneType DEF AllocState, SearchPlane
<1>2. /\ RoundBalanced /\ cur \in Cursor /\ c \in Cursor
      /\ cur.block < BLOCKS_PER_PLANE /\ cur.page >= 1
  BY <1>1 DEF AllocState, RoundBalanced
<1>3. CASE LastOfRound(y)
  <2>1. \A pl \in Plane : last_page_per_plane[pl] = cur
    BY <1>1, <1>2, <1>3, AfterLast DEF RoundBalanced
  <2>2. cur # LastCursor
    BY <2>1 DEF Full
  <2>3. cur.page < PAGES_PER_BLOCK \/ cur.block + 1 < BLOCKS_PER_PLANE
    BY <1>2, <2>2, GeometryAssumption DEF LastCursor, Cursor
  <2> QED BY <1>1, <1>2, <2>1, <2>3, GeometryAssumption DEF Cursor
<1>4. CASE ~LastOfRound(y)
  <2>1. c = PrevCursor(cur)
    BY <1>1, <1>2, <1>4, AfterOther DEF RoundBalanced
  <2>2. cur.block \in Nat /\ cur.page \in Nat /\ cur.page <= PAGES_PER_BLOCK
    BY <1>2, GeometryAssumption DEF Cursor
  <2> QED BY <1>2, <2>1, <2>2, GeometryAssumption DEF PrevCursor
<1> QED BY <1>3, <1>4

\* A full flash has no free page, and the search finds none.
LEMMA FullSearch ==
  ASSUME AllocState, Full
  PROVE  NoFreePage /\ ~FindSucceeds
<1>1. NoFreePage
  <2> SUFFICES ASSUME NEW p \in Ppa PROVE ppa_table[p] # FREE_PPA
    BY DEF NoFreePage
  <2>1. last_page_per_plane[p.pl] = LastCursor
    BY LocInside DEF Full
  <2> QED BY <2>1, GeometryAssumption DEF AllocState, FreeBeyondCursor, LastCursor, Ppa
<1>2. SearchPlane \in Plane
  BY NextPlaneType DEF AllocState, SearchPlane
<1>3. last_page_per_plane[SearchPlane] = LastCursor
  BY <1>2 DEF Full
<1>4. ASSUME NEW t \in (0 .. BLOCKS_PER_PLANE - 1) \X (0 .. PAGES_PER_BLOCK - 1)
      PROVE  ~IsFree(PpaAt(SearchPlane, BlockAt(BLOCKS_PER_PLANE - 1, t[1]), t[2]))
             \/ (t[1] = 0 /\ ~(t[2] >= PAGES_PER_BLOCK))
  <2> DEFINE b == BlockAt(BLOCKS_PER_PLANE - 1, t[1])
             p == PpaAt(SearchPlane, b, t[2])
  <2>1. b \in 0 .. BLOCKS_PER_PLANE /\ t[2] \in 0 .. PAGES_PER_BLOCK - 1
    BY GeometryAssumption DEF BlockAt
  <2>2. Loc(p) \in Ppa
    BY <1>2, <2>1, MemNextType, GeometryAssumption DEF Loc, PpaAt, Ppa
  <2> QED BY <1>1, <2>2 DEF IsFree, NoFreePage
<1>5. FreeSteps(SearchPlane) = {}
  BY <1>3, <1>4 DEF FreeSteps, LastCursor
<1> QED BY <1>1, <1>5 DEF FindSucceeds

\* The search returns its earliest free page.
LEMMA EarliestFree ==
  ASSUME NEW m \in FreeSteps(SearchPlane),
         \A t \in FreeSteps(SearchPlane) : Earlier(m, t)
  PROVE  /\ FindSucceeds
         /\ NewPpa = PpaAt(SearchPlane,
                           BlockAt(last_page_per_plane[SearchPlane].block, m[1]), m[2])
<1> DEFINE fs == FreeSteps(SearchPlane)
           s  == CHOOSE x \in fs : \A t \in fs : Earlier(x, t)
<1>1. s \in fs /\ \A t \in fs : Earlier(s, t)
  OBVIOUS
<1>2. Earlier(s, m) /\ Earlier(m, s)
  BY <1>1
<1>3. \A x \in fs : x \in (0 .. BLOCKS_PER_PLANE - 1) \X (0 .. PAGES_PER_BLOCK - 1)
  BY DEF FreeSteps
<1>4. s[1] = m[1] /\ s[2] = m[2]
  BY <1>1, <1>2, <1>3, GeometryAssumption DEF Earlier
<1> QED BY <1>4 DEF NewPpa, FindSucceeds

\* Otherwise the page found is the one at the cursor, or the first of the
\* next block when the cursor is past the end of its own.
LEMMA SearchOutcome ==
  ASSUME AllocState, ~Full
  PROVE  LET c == last_page_per_plane[SearchPlane] IN
         /\ FindSucceeds
         /\ NewPpa \in Ppa /\ NewPpa.pl = SearchPlane /\ ppa_table[NewPpa] = FREE_PPA
         /\ \/ c.page < PAGES_PER_BLOCK /\ NewPpa.block = c.block /\ NewPpa.page = c.page
            \/ c.page = PAGES_PER_BLOCK /\ NewPpa.block = c.block + 1 /\ NewPpa.page = 0
<1> DEFINE s == SearchPlane
           c == last_page_per_plane[s]
<1>1. s \in Plane /\ c \in Cursor
  BY NextPlaneType DEF AllocState, SearchPlane
<1>2. c.block \in 0 .. BLOCKS_PER_PLANE - 1 /\ c.page \in Nat
  BY <1>1, SearchCursor, GeometryAssumption DEF Cursor
<1>3. CASE c.page < PAGES_PER_BLOCK
  <2> DEFINE p == PpaAt(s, c.block, c.page)
             m == <<0, c.page>>
  <2>1. p \in Ppa /\ p.pl = s /\ p.block = c.block /\ p.page = c.page
    BY <1>1, <1>2, <1>3, GeometryAssumption DEF PpaAt, Ppa
  <2>2. ppa_table[p] = FREE_PPA
    BY <1>2, <2>1 DEF AllocState, FreeBeyondCursor
  <2>3. BlockAt(c.block, 0) = c.block
    BY <1>2, GeometryAssumption DEF BlockAt
  <2>4. IsFree(p)
    BY <1>2, <2>1, <2>2, LocInside, GeometryAssumption DEF IsFree, PastTheTable
  <2>5. m \in FreeSteps(s)
    BY <1>2, <1>3, <2>3, <2>4, GeometryAssumption DEF FreeSteps
  <2>6. \A t \in FreeSteps(s) : Earlier(m, t)
    BY <1>2, GeometryAssumption DEF FreeSteps, Earlier
  <2> QED BY <1>3, <2>1, <2>2, <2>3, <2>5, <2>6, EarliestFree
<1>4. CASE c.page = PAGES_PER_BLOCK /\ c.block + 1 < BLOCKS_PER_PLANE
  <2> DEFINE p == PpaAt(s, c.block + 1, 0)
             m == <<1, 0>>
  <2>1. p \in Ppa /\ p.pl = s /\ p.block = c.block + 1 /\ p.page = 0
    BY <1>1, <1>2, <1>4, GeometryAssumption DEF PpaAt, Ppa
  <2>2. ppa_table[p] = FREE_PPA
    BY <1>2, <2>1 DEF AllocState, FreeBeyondCursor
  <2>3. BlockAt(c.block, 1) = c.block + 1
    BY <1>2, <1>4, GeometryAssumption DEF BlockAt
  <2>4. IsFree(p)
    BY <1>2, <1>4, <2>1, <2>2, LocInside, GeometryAssumption DEF IsFree, PastTheTable
  <2>5. m \in FreeSteps(s)
    BY <1>2, <1>4, <2>3, <2>4, GeometryAssumption DEF FreeSteps
  <2>6. \A t \in FreeSteps(s) : Earlier(m, t)
    BY <1>2, <1>4, GeometryAssumption DEF FreeSteps, Earlier
  <2> QED BY <1>4, <2>1, <2>2, <2>3, <2>5, <2>6, EarliestFree
<1> QED BY <1>3, <1>4, SearchCursor

\* The cursor a successful search leaves is its round's, and the cursor
\* before it the one the search started from.
LEMMA NewCursor ==
  ASSUME AllocState, ~Full
  PROVE  LET cur == last_page_per_plane[last_searched_channel]
             n   == [block |-> NewPpa.block, page |-> NewPpa.page + 1]
         IN  /\ n \in Cursor /\ n.block < BLOCKS_PER_PLANE /\ n.page >= 1
             /\ LastOfRound(last_searched_channel) => PrevCursor(n) = cur
             /\ ~LastOfRound(last_searched_channel) => n = cur
<1> DEFINE y == last_searched_channel
           cur == last_page_per_plane[y]
           c == last_page_per_plane[SearchPlane]
           n == [block |-> NewPpa.block, page |-> NewPpa.page + 1]
<1>1. SearchPlane \in Plane /\ SearchPlane = NextPlane(y) /\ y \in Plane
  BY NextPlaneType DEF AllocState, SearchPlane
<1>2. /\ cur \in Cursor /\ c \in Cursor
      /\ cur.block < BLOCKS_PER_PLANE /\ cur.page >= 1
  BY <1>1, SearchCursor DEF AllocState, RoundBalanced
<1>3. n \in Cursor /\ n.block < BLOCKS_PER_PLANE /\ n.page >= 1
  BY SearchOutcome, GeometryAssumption DEF Cursor, Ppa
<1>4. /\ c.block \in Nat /\ c.page \in Nat /\ cur.block \in Nat /\ cur.page \in Nat
      /\ cur.page <= PAGES_PER_BLOCK
      /\ c = [block |-> c.block, page |-> c.page]
      /\ cur = [block |-> cur.block, page |-> cur.page]
  BY <1>2, GeometryAssumption DEF Cursor
<1>5. \/ c.page < PAGES_PER_BLOCK /\ n = [block |-> c.block, page |-> c.page + 1]
      \/ c.page = PAGES_PER_BLOCK /\ n = [block |-> c.block + 1, page |-> 1]
  BY SearchOutcome
<1>6. ASSUME LastOfRound(y) PROVE PrevCursor(n) = cur
  <2>1. c = cur
    BY <1>1, <1>6, SearchCursor, AfterLast DEF RoundBalanced
  <2> QED BY <1>2, <1>4, <1>5, <2>1, GeometryAssumption DEF PrevCursor
<1>7. ASSUME ~LastOfRound(y) PROVE n = cur
  <2>1. c = PrevCursor(cur)
    BY <1>1, <1>7, SearchCursor, AfterOther DEF RoundBalanced
  <2> QED BY <1>2, <1>4, <1>5, <2>1, GeometryAssumption DEF PrevCursor
<1> QED BY <1>3, <1>6, <1>7

\* Taking the page that was found, whatever its entry becomes, keeps the
\* round balanced and the pages behind the cursors taken.
LEMMA AdvanceKeeps ==
  ASSUME AllocState, FindSucceeds, Advance(NewPpa),
         ppa_table' \in [Ppa -> Entry],
         ppa_table'[NewPpa] # FREE_PPA,
         \A p \in Ppa \ {NewPpa} : ppa_table'[p] = FREE_PPA <=> ppa_table[p] = FREE_PPA
  PROVE  AllocState'
<1> DEFINE y == last_searched_channel
           s == SearchPlane
           cur == last_page_per_plane[y]
           c == last_page_per_plane[s]
           n == [block |-> NewPpa.block, page |-> NewPpa.page + 1]
<1>1. ~Full
  BY FullSearch
<1>2. s \in Plane /\ s = NextPlane(y) /\ y \in Plane
  BY NextPlaneType DEF AllocState, SearchPlane
<1>3. /\ NewPpa \in Ppa /\ NewPpa.pl = s /\ ppa_table[NewPpa] = FREE_PPA
      /\ \/ c.page < PAGES_PER_BLOCK /\ NewPpa.block = c.block /\ NewPpa.page = c.page
         \/ c.page = PAGES_PER_BLOCK /\ NewPpa.block = c.block + 1 /\ NewPpa.page = 0
  BY <1>1, SearchOutcome
<1>4. /\ n \in Cursor /\ n.block < BLOCKS_PER_PLANE /\ n.page >= 1
      /\ LastOfRound(y) => PrevCursor(n) = cur
      /\ ~LastOfRound(y) => n = cur
  BY <1>1, NewCursor
<1>5. /\ last_page_per_plane' = [last_page_per_plane EXCEPT ![s] = n]
      /\ last_searched_channel' = s
  BY <1>3 DEF Advance
<1>6. last_page_per_plane' \in [Plane -> Cursor] /\ last_searched_channel' \in Plane
  BY <1>2, <1>4, <1>5 DEF AllocState
<1>7. /\ last_page_per_plane'[s] = n
      /\ \A pl \in Plane \ {s} : last_page_per_plane'[pl] = last_page_per_plane[pl]
  BY <1>2, <1>5 DEF AllocState
<1>8. RoundBalanced'
  <2>1. ASSUME NEW pl \in Plane
        PROVE  last_page_per_plane'[pl] = IF AtOrBefore(pl, s) THEN n ELSE PrevCursor(n)
    <3>1. CASE pl = s
      BY <1>2, <1>7, <3>1, AfterLast, AfterOther
    <3>2. CASE pl # s /\ LastOfRound(y)
      BY <1>1, <1>2, <1>4, <1>7, <3>2, AfterLast, SearchCursor DEF RoundBalanced
    <3>3. CASE pl # s /\ ~LastOfRound(y)
      BY <1>1, <1>2, <1>4, <1>7, <3>3, AfterOther, SearchCursor DEF RoundBalanced
    <3> QED BY <3>1, <3>2, <3>3
  <2> QED BY <1>4, <1>5, <1>7, <2>1 DEF RoundBalanced
<1>9. FreeBeyondCursor'
  <2> SUFFICES ASSUME NEW p \in Ppa
               PROVE  LET d == last_page_per_plane'[p.pl] IN
                      ppa_table'[p] = FREE_PPA <=>
                        p.block > d.block \/ (p.block = d.block /\ p.page >= d.page)
    BY DEF FreeBeyondCursor
  <2>1. p.pl \in Plane /\ p.block \in Int /\ p.page \in 0 .. PAGES_PER_BLOCK - 1
    BY GeometryAssumption DEF Ppa
  <2>2. CASE p.pl # s
    BY <1>3, <1>7, <2>1, <2>2 DEF AllocState, FreeBeyondCursor
  <2>3. CASE p = NewPpa
    BY <1>3, <1>7, <2>1, <2>3
  <2>4. CASE p.pl = s /\ p # NewPpa
    <3>1. ppa_table'[p] = FREE_PPA <=>
            p.block > c.block \/ (p.block = c.block /\ p.page >= c.page)
      BY <2>4 DEF AllocState, FreeBeyondCursor
    <3>2. p.block # NewPpa.block \/ p.page # NewPpa.page
      BY <1>3, <2>4 DEF Ppa
    <3>3. c.block \in Int /\ c.page \in Int
      BY <1>2, GeometryAssumption DEF AllocState, Cursor
    <3> QED BY <1>3, <1>7, <2>1, <2>4, <3>1, <3>2, <3>3, GeometryAssumption
  <2> QED BY <2>2, <2>3, <2>4
<1> QED BY <1>6, <1>8, <1>9 DEF AllocState

----------------------------------------------------------------------------
(* The inductive invariant. *)

IInv == TypeOK /\ MappingConsistent /\ AllocatorInv

LEMMA InvGivesAlloc ==
  ASSUME IInv
  PROVE  AllocState
  BY DEF IInv, AllocState, TypeOK, AllocatorInv

LEMMA AllocStutters ==
  ASSUME AllocState, UNCHANGED <<ppa_table, last_page_per_plane, last_searched_channel>>
  PROVE  AllocState'
  BY DEF AllocState, RoundBalanced, Full, FreeBeyondCursor

\* Freshly generated tables satisfy the invariant.
LEMMA InitIInv == Init => IInv
<1> SUFFICES ASSUME Init PROVE IInv
  OBVIOUS
<1>1. /\ FirstPlane \in Plane /\ FirstPage \in Ppa
      /\ FirstPage.pl = FirstPlane /\ FirstPage.block = 0 /\ FirstPage.page = 0
  BY FirstPageType
<1>2. TypeOK
  <2>1. last_page_per_plane \in [Plane -> Cursor]
    BY GeometryAssumption DEF Init, Cursor
  <2>2. ftl_config \in FtlConfig
    <3>1. TotalPages - 1 \in Int
      BY FlashFinite DEF TotalPages
    <3> QED BY <1>1, <3>1 DEF Init, FtlConfig
  <2>3. valid_pgs \in [Block -> U16] /\ invalid_pgs \in [Block -> U16]
    BY DEF Init, U16
  <2>4. lpa_table \in [Lpn -> Ppa \cup {UNMAPPED}] /\ ppa_table \in [Ppa -> Entry]
    BY DEF Init, Entry
  <2>5. todo \in Seq(TodoItem) /\ op \in Seq(OpItem)
    BY DEF Init
  <2> QED BY <1>1, <2>1, <2>2, <2>3, <2>4, <2>5 DEF Init, TypeOK
<1>3. MappingConsistent
  BY EntryAssumption DEF Init, MappingConsistent
<1>4. AllocatorInv
  <2>1. RoundBalanced
    <3>1. ASSUME NEW pl \in Plane
          PROVE  AtOrBefore(pl, FirstPlane) <=> pl = FirstPlane
      BY GeometryAssumption DEF AtOrBefore, FirstPlane, Plane
    <3> QED BY <1>1, <3>1, GeometryAssumption DEF Init, RoundBalanced, PrevCursor
  <2>2. FreeBeyondCursor
    <3> SUFFICES ASSUME NEW p \in Ppa
                 PROVE  LET d == last_page_per_plane[p.pl] IN
                        ppa_table[p] = FREE_PPA <=>
                          p.block > d.block \/ (p.block = d.block /\ p.page >= d.page)
      BY DEF FreeBeyondCursor
    <3>1. p.pl \in Plane /\ p.block \in Nat /\ p.page \in Nat
      BY GeometryAssumption DEF Ppa
    <3>2. p = FirstPage <=> p.pl = FirstPlane /\ p.block = 0 /\ p.page = 0
      BY DEF FirstPage, PpaAt, Ppa
    <3> QED BY <3>1, <3>2, EntryAssumption DEF Init
  <2> QED BY <2>1, <2>2 DEF AllocatorInv, StoreProgress, StoredImage, Init
<1> QED BY <1>2, <1>3, <1>4 DEF IInv

----------------------------------------------------------------------------
(* The steps. *)

\* uint16_t arithmetic. The bound has a name of its own, as the provers
\* would list the elements of a range between two literals.
LEMMA U16Range ==
  ASSUME NEW k \in Int
  PROVE  k \in U16 <=> 0 <= k /\ k <= 65535
<1> DEFINE m == 65535
<1>1. U16 = 0 .. m
  BY DEF U16
<1>2. m \in Int /\ (k <= m <=> k <= 65535)
  BY SMT
<1> HIDE DEF m
<1>3. k \in 0 .. m <=> 0 <= k /\ k <= m
  BY <1>2, SMT
<1> QED BY <1>1, <1>2, <1>3

LEMMA U16Int ==
  ASSUME NEW k \in U16
  PROVE  k \in Int
<1> DEFINE m == 65535
<1>1. U16 = 0 .. m
  BY DEF U16
<1>2. m \in Int
  BY SMT
<1> HIDE DEF m
<1> QED BY <1>1, <1>2, SMT

LEMMA U16Wrap ==
  /\ \A k \in U16 : k \in Int
  /\ \A k \in Int : k % 65536 \in U16
<1>1. \A k \in Int : k % 65536 \in Int /\ 0 <= k % 65536 /\ k % 65536 <= 65535
  BY SMT
<1>2. ASSUME NEW k \in Int PROVE k % 65536 \in U16
  <2> DEFINE r == k % 65536
  <2>1. r \in Int /\ 0 <= r /\ r <= 65535
    BY <1>1
  <2> HIDE DEF r
  <2> QED BY <2>1, U16Range
<1> QED BY <1>2, U16Int

LEMMA CounterStep ==
  ASSUME NEW f \in [Block -> U16], NEW b \in Block
  PROVE  /\ [f EXCEPT ![b] = (@ + 1) % 65536] \in [Block -> U16]
         /\ [f EXCEPT ![b] = (@ - 1) % 65536] \in [Block -> U16]
<1>1. f[b] \in U16
  OBVIOUS
<1>2. f[b] + 1 \in Int /\ f[b] - 1 \in Int
  BY <1>1, U16Wrap
<1>3. (f[b] + 1) % 65536 \in U16 /\ (f[b] - 1) % 65536 \in U16
  BY <1>2, U16Wrap
<1> QED BY <1>3

\* The update of ftl_config when a page of pl was mapped.
LEMMA ConfigCounted ==
  ASSUME ftl_config \in FtlConfig, NEW pl \in Plane,
         \/ ftl_config' = [ftl_config EXCEPT !.total_valid = @ + 1, !.total_free = @ - 1,
                                             !.last_selected = pl]
         \/ ftl_config' = [ftl_config EXCEPT !.total_invalid = @ + 1, !.total_free = @ - 1,
                                             !.last_selected = pl]
  PROVE  ftl_config' \in FtlConfig
<1> DEFINE v == ftl_config.total_valid + 1
           i == ftl_config.total_invalid + 1
           w == ftl_config.total_free - 1
<1>1. v \in Int /\ i \in Int /\ w \in Int
  BY DEF FtlConfig
<1>2. \/ ftl_config' = [ftl_config EXCEPT !.total_valid = v, !.total_free = w,
                                          !.last_selected = pl]
      \/ ftl_config' = [ftl_config EXCEPT !.total_invalid = i, !.total_free = w,
                                          !.last_selected = pl]
  OBVIOUS
<1> HIDE DEF v, i, w
<1>3. CASE ftl_config' = [ftl_config EXCEPT !.total_valid = v, !.total_free = w,
                                            !.last_selected = pl]
  BY <1>1, <1>3 DEF FtlConfig
<1>4. CASE ftl_config' = [ftl_config EXCEPT !.total_invalid = i, !.total_free = w,
                                            !.last_selected = pl]
  BY <1>1, <1>4 DEF FtlConfig
<1> QED BY <1>2, <1>3, <1>4

LEMMA ConfigTaken ==
  ASSUME ftl_config \in FtlConfig, NEW pl \in Plane, NEW mt \in Seq(Ppa),
         ftl_config' = [ftl_config EXCEPT !.mapping_tables = mt, !.last_selected = pl]
  PROVE  /\ ftl_config' \in FtlConfig
         /\ ftl_config'.mapping_tables = mt /\ ftl_config'.last_selected = pl
  BY DEF FtlConfig

LEMMA FunctionIsSeq ==
  ASSUME NEW S, NEW n \in Nat, NEW f \in [1 .. n -> S]
  PROVE  f \in Seq(S)
  OBVIOUS

LEMMA ProgramRequestKeeps ==
  ASSUME IInv, NEW lpn \in Lpn, NEW n \in 1 .. MDTS_PAGES, lpn + n <= LOGICAL_PAGES,
         ProgramRequest(lpn, n)
  PROVE  IInv'
<1>1. todo' \in Seq(TodoItem)
  <2>1. n \in Nat /\ ver \in Nat /\ lpn \in Nat
    BY SizeAssumption DEF IInv, TypeOK, Lpn
  <2>2. \A i \in 1 .. n : [lpn |-> lpn + i - 1, val |-> ver + i] \in TodoItem
    BY <2>1, SizeAssumption DEF Lpn, TodoItem
  <2>3. todo' \in [1 .. n -> TodoItem]
    BY <2>2 DEF ProgramRequest
  <2> QED BY <2>1, <2>3, FunctionIsSeq
<1>2. ver' \in Nat
  BY SizeAssumption DEF IInv, TypeOK, ProgramRequest
<1>3. TypeOK'
  <2>1. /\ stage' = "map" /\ op' = <<>> /\ clean' = FALSE
    BY DEF ProgramRequest
  <2>2. UNCHANGED <<lpa_table, ppa_table, valid_pgs, invalid_pgs, last_page_per_plane,
                    last_searched_channel, ftl_config, stores>>
    BY DEF ProgramRequest, tables
  <2>3. /\ (lpa_table \in [Lpn -> Ppa \cup {UNMAPPED}])' /\ (ppa_table \in [Ppa -> Entry])'
        /\ (valid_pgs \in [Block -> U16])' /\ (invalid_pgs \in [Block -> U16])'
        /\ (last_page_per_plane \in [Plane -> Cursor])'
        /\ last_searched_channel' \in Plane /\ ftl_config' \in FtlConfig /\ stores' \in Nat
    BY <2>2 DEF IInv, TypeOK
  <2>4. op' \in Seq(OpItem)
    BY <2>1
  <2>5. clean' \in BOOLEAN /\ stage' \in {"idle", "map", "store", "corrupt"}
    BY <2>1
  <2> QED BY <1>1, <1>2, <2>3, <2>4, <2>5 DEF TypeOK
<1>4. MappingConsistent'
  BY DEF IInv, MappingConsistent, ProgramRequest, tables
<1>5. AllocState'
  BY InvGivesAlloc, AllocStutters DEF ProgramRequest, tables
<1>6. AllocatorInv'
  BY <1>5 DEF AllocState, AllocatorInv, StoreProgress, StoredImage, ProgramRequest
<1> QED BY <1>3, <1>4, <1>6 DEF IInv

\* What mapping a page does to ppa_table: the new page was free, the old one,
\* if there is one, becomes stale.
LEMMA MapPageTable ==
  ASSUME IInv, MapPage
  PROVE  LET lpn == Head(todo).lpn
             old == lpa_table[lpn]
             new == NewPpa
         IN  /\ new \in Ppa /\ ppa_table[new] = FREE_PPA /\ new.pl = SearchPlane
             /\ lpn \in Lpn /\ Head(todo).val \in Nat /\ todo' \in Seq(TodoItem)
             /\ Loc(new) = new /\ BlockOf(new) \in Block /\ new.pl \in Plane
             /\ old # UNMAPPED =>
                  old \in Ppa /\ Loc(old) = old /\ BlockOf(old) \in Block /\ ppa_table[old] = lpn
             /\ new # old
             /\ ppa_table' = [p \in Ppa |-> IF p = new THEN lpn
                                            ELSE IF p = old THEN INVALID_PPA ELSE ppa_table[p]]
<1> DEFINE lpn == Head(todo).lpn
           old == lpa_table[lpn]
           new == NewPpa
<1>1. AllocState
  BY InvGivesAlloc
<1>2. /\ new \in Ppa /\ ppa_table[new] = FREE_PPA /\ new.pl = SearchPlane
  BY <1>1, FullSearch, SearchOutcome DEF MapPage
<1>3. lpn \in Lpn /\ Head(todo).val \in Nat /\ todo' \in Seq(TodoItem)
  <2>1. todo \in Seq(TodoItem) /\ todo # <<>> /\ todo' = Tail(todo)
    BY DEF IInv, TypeOK, MapPage
  <2>2. Head(todo) \in TodoItem /\ Tail(todo) \in Seq(TodoItem)
    BY <2>1
  <2> QED BY <2>1, <2>2 DEF TodoItem
<1>4. Loc(new) = new /\ BlockOf(new) \in Block /\ new.pl \in Plane
  BY <1>2, LocInside
<1>5. old # UNMAPPED =>
        old \in Ppa /\ Loc(old) = old /\ BlockOf(old) \in Block /\ ppa_table[old] = lpn
  BY <1>3, LocInside DEF IInv, TypeOK, MappingConsistent
<1>6. \A l \in Lpn : l \in Entry /\ l # FREE_PPA /\ l # INVALID_PPA
  BY EntryAssumption DEF Entry
<1>7. new # old
  BY <1>2, <1>3, <1>5, <1>6, UnmappedAssumption
<1>8. ppa_table' = [p \in Ppa |-> IF p = new THEN lpn
                                  ELSE IF p = old THEN INVALID_PPA ELSE ppa_table[p]]
  <2>1. CASE old = UNMAPPED
    BY <1>2, <1>4, <2>1, UnmappedAssumption DEF MapPage, MapUnmapped, IInv, TypeOK
  <2>2. CASE old # UNMAPPED
    BY <1>2, <1>4, <1>5, <1>7, <2>2 DEF MapPage, MapMapped, IInv, TypeOK
  <2> QED BY <2>1, <2>2
<1> QED BY <1>2, <1>3, <1>4, <1>5, <1>7, <1>8

\* A page of a request is mapped.
LEMMA MapPageKeeps ==
  ASSUME IInv, MapPage
  PROVE  IInv'
<1> DEFINE lpn == Head(todo).lpn
           old == lpa_table[lpn]
           new == NewPpa
<1>1. AllocState
  BY InvGivesAlloc
<1>2. /\ new \in Ppa /\ ppa_table[new] = FREE_PPA /\ new.pl = SearchPlane
  BY MapPageTable
<1>3. lpn \in Lpn /\ Head(todo).val \in Nat /\ todo' \in Seq(TodoItem)
  BY MapPageTable
<1>4. Loc(new) = new /\ BlockOf(new) \in Block /\ new.pl \in Plane
  BY MapPageTable
<1>5. old # UNMAPPED =>
        old \in Ppa /\ Loc(old) = old /\ BlockOf(old) \in Block /\ ppa_table[old] = lpn
  BY MapPageTable
<1>6. \A l \in Lpn : l \in Entry /\ l # FREE_PPA /\ l # INVALID_PPA
  BY EntryAssumption DEF Entry
<1>7. new # old
  BY MapPageTable
<1>8. ppa_table' = [p \in Ppa |-> IF p = new THEN lpn
                                  ELSE IF p = old THEN INVALID_PPA ELSE ppa_table[p]]
  BY MapPageTable
<1>9. ppa_table' \in [Ppa -> Entry]
  BY <1>3, <1>6, <1>8 DEF IInv, TypeOK, Entry
<1>10. lpa_table' = [lpa_table EXCEPT ![lpn] = new]
  BY DEF MapPage
<1>11. AllocState'
  <2>1. ppa_table'[new] # FREE_PPA
    BY <1>2, <1>3, <1>6, <1>8
  <2>2. \A p \in Ppa \ {new} : ppa_table'[p] = FREE_PPA <=> ppa_table[p] = FREE_PPA
    <3> SUFFICES ASSUME NEW p \in Ppa, p # new
                 PROVE  ppa_table'[p] = FREE_PPA <=> ppa_table[p] = FREE_PPA
      OBVIOUS
    <3>1. CASE p = old
      <4>1. ppa_table'[p] = INVALID_PPA
        BY <1>8, <3>1
      <4>2. ppa_table[p] # FREE_PPA
        BY <1>3, <1>5, <1>6, <3>1, UnmappedAssumption
      <4> QED BY <4>1, <4>2, EntryAssumption
    <3>2. CASE p # old
      BY <1>8, <3>2
    <3> QED BY <3>1, <3>2
  <2> QED BY <1>1, <1>9, <2>1, <2>2, AdvanceKeeps DEF MapPage
<1>12. TypeOK'
  <2>1. lpa_table' \in [Lpn -> Ppa \cup {UNMAPPED}]
    BY <1>2, <1>10 DEF IInv, TypeOK
  <2>2. op' \in Seq(OpItem)
    <3>1. op \in Seq(OpItem) /\ op' = Append(op, [ppa |-> new, val |-> Head(todo).val])
      BY DEF IInv, TypeOK, MapPage
    <3>2. [ppa |-> new, val |-> Head(todo).val] \in OpItem
      BY <1>2, <1>3 DEF OpItem
    <3> QED BY <3>1, <3>2
  <2>3. valid_pgs' \in [Block -> U16] /\ invalid_pgs' \in [Block -> U16]
    <3>1. CASE old = UNMAPPED
      <4>1. MapUnmapped(lpn, new)
        BY <3>1 DEF MapPage
      <4>2. valid_pgs \in [Block -> U16] /\ invalid_pgs \in [Block -> U16]
        BY DEF IInv, TypeOK
      <4> QED BY <1>4, <4>1, <4>2, CounterStep DEF MapUnmapped
    <3>2. CASE old # UNMAPPED
      <4>1. MapMapped(lpn, new, old)
        BY <3>2 DEF MapPage
      <4>2. valid_pgs \in [Block -> U16] /\ invalid_pgs \in [Block -> U16]
        BY DEF IInv, TypeOK
      <4>3. valid_pgs' = [b \in Block |->
               (valid_pgs[b] + (IF b = BlockOf(Loc(new)) THEN 1 ELSE 0)
                             - (IF b = BlockOf(Loc(old)) THEN 1 ELSE 0)) % 65536]
        BY <4>1 DEF MapMapped
      <4>4. invalid_pgs' = [invalid_pgs EXCEPT ![BlockOf(Loc(old))] = (@ + 1) % 65536]
        BY <4>1 DEF MapMapped
      <4>5. valid_pgs' \in [Block -> U16]
        <5>1. ASSUME NEW b \in Block
              PROVE  (valid_pgs[b] + (IF b = BlockOf(Loc(new)) THEN 1 ELSE 0)
                                   - (IF b = BlockOf(Loc(old)) THEN 1 ELSE 0)) % 65536 \in U16
          <6>1. valid_pgs[b] \in U16
            BY <4>2
          <6>2. valid_pgs[b] \in Int
            BY <6>1, U16Wrap
          <6>3. valid_pgs[b] + (IF b = BlockOf(Loc(new)) THEN 1 ELSE 0)
                             - (IF b = BlockOf(Loc(old)) THEN 1 ELSE 0) \in Int
            BY <6>2
          <6> QED BY <6>3, U16Wrap
        <5> QED BY <4>3, <5>1
      <4>6. invalid_pgs' \in [Block -> U16]
        BY <1>5, <3>2, <4>2, <4>4, CounterStep
      <4> QED BY <4>5, <4>6
    <3> QED BY <3>1, <3>2
  <2>4. ftl_config' \in FtlConfig
    <3>1. ftl_config \in FtlConfig /\ new.pl \in Plane
      BY <1>4 DEF IInv, TypeOK
    <3>2. CASE old = UNMAPPED
      <4>1. MapUnmapped(lpn, new)
        BY <3>2 DEF MapPage
      <4>2. ftl_config' = [ftl_config EXCEPT !.total_valid = @ + 1, !.total_free = @ - 1,
                                             !.last_selected = new.pl]
        BY <4>1 DEF MapUnmapped
      <4> QED BY <3>1, <4>2, ConfigCounted
    <3>3. CASE old # UNMAPPED
      <4>1. MapMapped(lpn, new, old)
        BY <3>3 DEF MapPage
      <4>2. ftl_config' = [ftl_config EXCEPT !.total_invalid = @ + 1, !.total_free = @ - 1,
                                             !.last_selected = new.pl]
        BY <4>1 DEF MapMapped
      <4> QED BY <3>1, <4>2, ConfigCounted
    <3> QED BY <3>2, <3>3
  <2>5. UNCHANGED <<stage, ver, stores, clean>>
    BY DEF MapPage
  <2>6. last_page_per_plane' \in [Plane -> Cursor] /\ last_searched_channel' \in Plane
    BY <1>11 DEF AllocState
  <2> QED BY <1>3, <1>9, <2>1, <2>2, <2>3, <2>4, <2>5, <2>6 DEF IInv, TypeOK
<1>13. MappingConsistent'
  <2>1. ASSUME NEW l \in Lpn, lpa_table'[l] # UNMAPPED
        PROVE  ppa_table'[lpa_table'[l]] = l
    <3>1. CASE l = lpn
      BY <1>2, <1>3, <1>8, <1>10, <3>1 DEF IInv, TypeOK
    <3>2. CASE l # lpn
      <4>1. lpa_table'[l] = lpa_table[l] /\ lpa_table[l] \in Ppa
            /\ ppa_table[lpa_table[l]] = l
        BY <1>10, <2>1, <3>2 DEF IInv, TypeOK, MappingConsistent
      <4>2. lpa_table[l] # new /\ lpa_table[l] # old
        BY <1>2, <1>5, <1>6, <3>2, <4>1, UnmappedAssumption
      <4> QED BY <1>8, <4>1, <4>2
    <3> QED BY <3>1, <3>2
  <2>2. ASSUME NEW p \in Ppa, ppa_table'[p] \in Lpn
        PROVE  lpa_table'[ppa_table'[p]] = p
    <3>1. CASE p = new
      BY <1>3, <1>8, <1>10, <3>1 DEF IInv, TypeOK
    <3>2. CASE p # new
      <4>1. p # old /\ ppa_table'[p] = ppa_table[p]
        BY <1>6, <1>8, <2>2, <3>2
      <4>2. lpa_table[ppa_table[p]] = p
        BY <2>2, <4>1 DEF IInv, MappingConsistent
      <4> QED BY <1>3, <1>10, <2>2, <4>1, <4>2 DEF IInv, TypeOK
    <3> QED BY <3>1, <3>2
  <2> QED BY <2>1, <2>2 DEF MappingConsistent
<1>14. AllocatorInv'
  <2>1. stage = "map" /\ ~clean /\ stage' = stage /\ clean' = clean
    BY DEF MapPage, IInv, AllocatorInv, StoredImage
  <2> QED BY <1>11, <2>1 DEF AllocState, AllocatorInv, StoreProgress, StoredImage
<1> QED BY <1>12, <1>13, <1>14 DEF IInv

\* The mapping tables are left alone by all steps but two.
LEMMA TablesStutter ==
  ASSUME IInv, UNCHANGED tables
  PROVE  /\ (lpa_table \in [Lpn -> Ppa \cup {UNMAPPED}])' /\ (ppa_table \in [Ppa -> Entry])'
         /\ (valid_pgs \in [Block -> U16])' /\ (invalid_pgs \in [Block -> U16])'
         /\ (last_page_per_plane \in [Plane -> Cursor])'
         /\ MappingConsistent'
<1>1. UNCHANGED <<lpa_table, ppa_table, valid_pgs, invalid_pgs, last_page_per_plane>>
  BY DEF tables
<1>2. MappingConsistent'
  BY <1>1 DEF IInv, MappingConsistent
<1> QED BY <1>1, <1>2 DEF IInv, TypeOK

LEMMA ProgramPagesKeeps ==
  ASSUME IInv, ProgramPages
  PROVE  IInv'
<1>1. UNCHANGED tables /\ UNCHANGED <<ftl_config, last_searched_channel, todo, ver, stores>>
  BY DEF ProgramPages
<1>2. stage' = "idle" /\ op' = <<>>
  BY DEF ProgramPages
<1>3. clean = FALSE /\ clean' = FALSE
  BY DEF ProgramPages, IInv, TypeOK, AllocatorInv, StoredImage
<1>4. op' \in Seq(OpItem)
  BY <1>2
<1>5. /\ last_searched_channel' \in Plane /\ ftl_config' \in FtlConfig
      /\ todo' \in Seq(TodoItem) /\ ver' \in Nat /\ stores' \in Nat
  BY <1>1 DEF IInv, TypeOK
<1>6. clean' \in BOOLEAN /\ stage' \in {"idle", "map", "store", "corrupt"}
  BY <1>2, <1>3
<1>7. TypeOK'
  BY <1>1, <1>4, <1>5, <1>6, TablesStutter DEF TypeOK
<1>8. AllocState'
  BY <1>1, InvGivesAlloc, AllocStutters DEF tables
<1>9. AllocatorInv'
  BY <1>2, <1>3, <1>8 DEF AllocState, AllocatorInv, StoreProgress, StoredImage
<1> QED BY <1>1, <1>7, <1>9, TablesStutter DEF IInv

\* A search that finds nothing moves the round-robin on; it happens only when
\* the flash is full.
LEMMA SpinKeeps ==
  ASSUME IInv, Spin
  PROVE  IInv'
<1>1. UNCHANGED tables /\ UNCHANGED <<ftl_config, nand, stage, todo, op, ver, stores, clean>>
  BY DEF Spin
<1>2. Full
  BY InvGivesAlloc, SearchOutcome DEF Spin
<1>3. last_searched_channel' \in Plane
  BY NextPlaneType DEF Spin, SearchPlane, IInv, TypeOK
<1>4. TypeOK'
  BY <1>1, <1>3, TablesStutter DEF IInv, TypeOK
<1>5. Full' /\ FreeBeyondCursor'
  BY <1>1, <1>2 DEF Full, FreeBeyondCursor, tables, IInv, AllocatorInv
<1>6. clean = FALSE /\ clean' = FALSE
  BY DEF Spin, IInv, TypeOK, AllocatorInv, StoredImage
<1>7. StoreProgress'
  BY <1>1 DEF Spin, StoreProgress, IInv, AllocatorInv, tables
<1>8. AllocatorInv'
  BY <1>5, <1>6, <1>7 DEF AllocatorInv, StoredImage
<1> QED BY <1>1, <1>4, <1>8, TablesStutter DEF IInv

LEMMA StoreBeginKeeps ==
  ASSUME IInv, StoreBegin
  PROVE  IInv'
<1>1. UNCHANGED tables /\ UNCHANGED <<last_searched_channel, todo, op, ver>>
  BY DEF StoreBegin
<1>2. /\ stage' = "store" /\ clean' = FALSE /\ stores' = stores + 1
      /\ ftl_config' = [ftl_config EXCEPT !.mapping_tables = <<>>]
  BY DEF StoreBegin
<1>3. ftl_config \in FtlConfig /\ stores \in Nat
  BY DEF IInv, TypeOK
<1>4. ftl_config' \in FtlConfig /\ ftl_config'.mapping_tables = <<>>
  <2>1. <<>> \in Seq(Ppa)
    OBVIOUS
  <2> QED BY <1>2, <1>3, <2>1 DEF FtlConfig
<1>5. /\ clean' \in BOOLEAN /\ stage' \in {"idle", "map", "store", "corrupt"}
      /\ stores' \in Nat
  <2>1. stores' \in Nat
    BY <1>2, <1>3
  <2>2. clean' \in BOOLEAN /\ stage' \in {"idle", "map", "store", "corrupt"}
    BY <1>2
  <2> QED BY <2>1, <2>2
<1>6. last_searched_channel' \in Plane /\ todo' \in Seq(TodoItem) /\ op' \in Seq(OpItem)
      /\ ver' \in Nat
  BY <1>1 DEF IInv, TypeOK
<1>7. TypeOK'
  BY <1>1, <1>4, <1>5, <1>6, TablesStutter DEF TypeOK
<1>8. AllocState'
  BY <1>1, InvGivesAlloc, AllocStutters DEF tables
<1>9. StoreProgress'
  BY <1>4, SizeAssumption DEF StoreProgress
<1>10. AllocatorInv'
  BY <1>2, <1>8, <1>9 DEF AllocState, AllocatorInv, StoredImage
<1> QED BY <1>1, <1>7, <1>10, TablesStutter DEF IInv

\* A page is taken for the tables.
LEMMA TakeTablePageKeeps ==
  ASSUME IInv, TakeTablePage
  PROVE  IInv'
<1> DEFINE new == NewPpa
           mt  == ftl_config.mapping_tables
<1>1. AllocState
  BY InvGivesAlloc
<1>2. /\ new \in Ppa /\ ppa_table[new] = FREE_PPA /\ new.pl = SearchPlane
  BY <1>1, FullSearch, SearchOutcome DEF TakeTablePage
<1>3. Loc(new) = new /\ BlockOf(new) \in Block /\ new.pl \in Plane
  BY <1>2, LocInside
<1>4. ppa_table \in [Ppa -> Entry] /\ ppa_table' = [ppa_table EXCEPT ![new] = INVALID_PPA]
  BY <1>3 DEF TakeTablePage, IInv, TypeOK
<1>5. ppa_table' \in [Ppa -> Entry]
  BY <1>2, <1>4 DEF Entry
<1>6. AllocState'
  <2>1. ppa_table'[new] # FREE_PPA
    BY <1>2, <1>4, EntryAssumption
  <2>2. \A p \in Ppa \ {new} : ppa_table'[p] = FREE_PPA <=> ppa_table[p] = FREE_PPA
    BY <1>4
  <2> QED BY <1>1, <1>5, <2>1, <2>2, AdvanceKeeps DEF TakeTablePage
<1>7. ftl_config \in FtlConfig /\ mt \in Seq(Ppa)
  BY DEF IInv, TypeOK, FtlConfig
<1>8. /\ ftl_config' \in FtlConfig
      /\ ftl_config'.mapping_tables = Append(mt, new)
      /\ ftl_config'.last_selected = new.pl
  <2> DEFINE nmt == Append(mt, new)
  <2>1. nmt \in Seq(Ppa)
    BY <1>2, <1>7
  <2>2. ftl_config' = [ftl_config EXCEPT !.mapping_tables = nmt, !.last_selected = new.pl]
    BY DEF TakeTablePage
  <2> HIDE DEF nmt
  <2>3. /\ ftl_config' \in FtlConfig /\ ftl_config'.mapping_tables = nmt
        /\ ftl_config'.last_selected = new.pl
    BY <1>3, <1>7, <2>1, <2>2, ConfigTaken
  <2> QED BY <2>3 DEF nmt
<1>9. TypeOK'
  <2>1. valid_pgs \in [Block -> U16] /\ invalid_pgs \in [Block -> U16]
    BY DEF IInv, TypeOK
  <2>2. /\ valid_pgs' = [valid_pgs EXCEPT ![BlockOf(new)] = (@ - 1) % 65536]
        /\ invalid_pgs' = [invalid_pgs EXCEPT ![BlockOf(new)] = (@ + 1) % 65536]
    BY <1>3 DEF TakeTablePage
  <2>3. valid_pgs' \in [Block -> U16] /\ invalid_pgs' \in [Block -> U16]
    BY <1>3, <2>1, <2>2, CounterStep
  <2>4. UNCHANGED <<lpa_table, stage, todo, op, ver, stores, clean>>
    BY DEF TakeTablePage
  <2>5. last_page_per_plane' \in [Plane -> Cursor] /\ last_searched_channel' \in Plane
    BY <1>6 DEF AllocState
  <2> QED BY <1>5, <1>8, <2>3, <2>4, <2>5 DEF IInv, TypeOK
<1>10. MappingConsistent'
  <2>1. lpa_table' = lpa_table /\ lpa_table \in [Lpn -> Ppa \cup {UNMAPPED}]
    BY DEF TakeTablePage, IInv, TypeOK
  <2>2. INVALID_PPA \notin Lpn /\ FREE_PPA \notin Lpn
    BY EntryAssumption
  <2>3. ASSUME NEW l \in Lpn, lpa_table[l] # UNMAPPED
        PROVE  ppa_table'[lpa_table[l]] = l
    <3>1. ppa_table[lpa_table[l]] = l /\ lpa_table[l] \in Ppa
      BY <2>1, <2>3 DEF IInv, MappingConsistent
    <3> QED BY <1>2, <1>4, <2>2, <3>1
  <2>4. ASSUME NEW p \in Ppa, ppa_table'[p] \in Lpn
        PROVE  lpa_table[ppa_table'[p]] = p
    <3>1. ppa_table'[p] = ppa_table[p]
      BY <1>2, <1>4, <2>2, <2>4
    <3> QED BY <2>4, <3>1 DEF IInv, MappingConsistent
  <2> QED BY <2>1, <2>3, <2>4 DEF MappingConsistent
<1>11. AllocatorInv'
  <2>1. stage = "store" /\ stage' = "store"
    BY DEF TakeTablePage
  <2>2. clean = FALSE /\ clean' = FALSE
    BY DEF TakeTablePage, IInv, TypeOK, AllocatorInv, StoredImage
  <2>3. /\ \A i \in DOMAIN mt : mt[i] \in Ppa /\ ppa_table[mt[i]] # FREE_PPA
        /\ \A i, j \in DOMAIN mt : mt[i] = mt[j] => i = j
    BY <1>7, <2>1 DEF IInv, AllocatorInv, StoreProgress
  <2>4. StoreProgress'
    <3> DEFINE nmt == Append(mt, new)
    <3>1. /\ Len(mt) \in Nat /\ DOMAIN mt = 1 .. Len(mt)
          /\ DOMAIN nmt = 1 .. Len(mt) + 1
          /\ nmt[Len(mt) + 1] = new
          /\ \A i \in DOMAIN mt : nmt[i] = mt[i]
      BY <1>2, <1>7
    <3>2. \A i \in DOMAIN nmt : i \in DOMAIN mt \/ i = Len(mt) + 1
      BY <3>1
    <3>3. \A i \in DOMAIN mt : mt[i] # new /\ ppa_table'[mt[i]] # FREE_PPA
      BY <1>2, <1>4, <2>3
    <3>4. \A i \in DOMAIN nmt : ppa_table'[nmt[i]] # FREE_PPA
      BY <1>2, <1>4, <3>1, <3>2, <3>3, EntryAssumption
    <3>5. \A i, j \in DOMAIN nmt : nmt[i] = nmt[j] => i = j
      BY <2>3, <3>1, <3>2, <3>3
    <3>6. last_searched_channel' = ftl_config'.last_selected
      BY <1>8 DEF TakeTablePage, Advance
    <3> QED BY <1>8, <3>4, <3>5, <3>6 DEF StoreProgress
  <2> QED BY <1>6, <2>2, <2>4 DEF AllocState, AllocatorInv, StoredImage
<1> QED BY <1>9, <1>10, <1>11 DEF IInv

\* The tables and the configuration are programmed.
LEMMA StoreTablesKeeps ==
  ASSUME IInv, StoreTables
  PROVE  IInv'
<1> DEFINE mt == ftl_config.mapping_tables
<1>1. UNCHANGED tables /\ UNCHANGED <<ftl_config, last_searched_channel, todo, op, ver, stores>>
  BY DEF StoreTables
<1>2. stage' = "idle" /\ clean' = TRUE /\ nand' = StoredNand
  BY DEF StoreTables
<1>3. clean' \in BOOLEAN /\ stage' \in {"idle", "map", "store", "corrupt"}
  BY <1>2
<1>4. /\ last_searched_channel' \in Plane /\ ftl_config' \in FtlConfig
      /\ todo' \in Seq(TodoItem) /\ op' \in Seq(OpItem) /\ ver' \in Nat /\ stores' \in Nat
  BY <1>1 DEF IInv, TypeOK
<1>5. TypeOK'
  BY <1>1, <1>3, <1>4, TablesStutter DEF TypeOK
<1>6. AllocState'
  BY <1>1, InvGivesAlloc, AllocStutters DEF tables
<1>7. mt \in Seq(Ppa) /\ Len(mt) = RPP_MAP_TABLES
  BY DEF IInv, TypeOK, FtlConfig, StoreTables
<1>8. /\ \A i, j \in DOMAIN mt : mt[i] = mt[j] => i = j
      /\ last_searched_channel = ftl_config.last_selected
  BY DEF IInv, AllocatorInv, StoreProgress, StoreTables
<1>9. Tables' = Tables
  BY <1>1 DEF Tables, tables
<1>10. nand'[FirstPage] = Config(ftl_config, 0)
  <2>1. FirstPage \in ConfigPages
    BY DEF FirstPage, ConfigPages
  <2> QED BY <1>2, <2>1, FirstPageType DEF StoredNand
<1>11. ASSUME NEW i \in DOMAIN mt
       PROVE  nand'[mt[i]] = Piece(Tables, i) \/ nand'[mt[i]].kind = "config"
  <2>1. mt[i] \in Ppa /\ \A j \in DOMAIN mt : mt[j] \in Ppa
    BY <1>7
  <2>2. \A j \in DOMAIN mt : Loc(mt[j]) = mt[j]
    BY <2>1, LocInside
  <2>3. CASE mt[i] \in ConfigPages
    BY <1>2, <2>1, <2>3 DEF StoredNand, Config
  <2>4. CASE mt[i] \notin ConfigPages
    <3>1. \E j \in DOMAIN mt : Loc(mt[j]) = mt[i]
      BY <2>2
    <3>2. (CHOOSE j \in DOMAIN mt : Loc(mt[j]) = mt[i]) = i
      BY <1>8, <2>2
    <3> QED BY <1>2, <2>1, <2>4, <3>1, <3>2 DEF StoredNand
  <2> QED BY <2>3, <2>4
<1>12. StoredImage'
  BY <1>1, <1>2, <1>7, <1>8, <1>9, <1>10, <1>11 DEF StoredImage
<1>13. AllocatorInv'
  BY <1>2, <1>6, <1>12 DEF AllocState, AllocatorInv, StoreProgress
<1> QED BY <1>1, <1>5, <1>13, TablesStutter DEF IInv

\* Loading a stored image whose pages can be read restores the RAM's tables.
LEMMA RestartRestores ==
  ASSUME IInv, Restart
  PROVE  /\ UNCHANGED tables
         /\ UNCHANGED <<ftl_config, last_searched_channel, nand, todo, op, ver, stores, clean>>
         /\ stage' \in {"idle", "corrupt"} /\ clean
<1> DEFINE mt == ftl_config.mapping_tables
<1>1. /\ clean /\ nand[FirstPage] = Config(ftl_config, 0)
      /\ Len(mt) = RPP_MAP_TABLES /\ last_searched_channel = ftl_config.last_selected
      /\ \A i \in DOMAIN mt : nand[mt[i]] = Piece(Tables, i) \/ nand[mt[i]].kind = "config"
  BY DEF Restart, IInv, AllocatorInv, StoredImage
<1>2. nand[FirstPage].val = ftl_config
  BY <1>1 DEF Config
<1>3. 1 \in DOMAIN mt /\ mt[1] \in Ppa
  <2>1. mt \in Seq(Ppa)
    BY DEF IInv, TypeOK, FtlConfig
  <2> QED BY <1>1, <2>1, SizeAssumption
<1>4. Loc(mt[1]) = mt[1]
  BY <1>3, LocInside
<1>5. CASE TablesReadable
  <2>1. nand[mt[1]].kind = "map"
    BY <1>2, <1>3, <1>4, <1>5 DEF TablesReadable
  <2>2. nand[mt[1]] = Piece(Tables, 1)
    BY <1>1, <1>3, <2>1
  <2>3. nand[Loc(mt[1])].val = Tables
    BY <1>4, <2>2 DEF Piece
  <2>4. /\ ftl_config' = ftl_config /\ last_searched_channel' = ftl_config.last_selected
        /\ lpa_table' = Tables.lpa /\ ppa_table' = Tables.ppa
        /\ valid_pgs' = Tables.valid /\ invalid_pgs' = Tables.invalid
        /\ last_page_per_plane' = Tables.last /\ stage' = "idle"
    BY <1>2, <1>5, <2>3 DEF Restart
  <2> QED BY <1>1, <2>4 DEF Tables, tables, Restart
<1>6. CASE ~TablesReadable
  BY <1>1, <1>6 DEF Restart
<1> QED BY <1>5, <1>6

LEMMA RestartKeeps ==
  ASSUME IInv, Restart
  PROVE  IInv'
<1>1. /\ UNCHANGED tables
      /\ UNCHANGED <<ftl_config, last_searched_channel, nand, todo, op, ver, stores, clean>>
      /\ stage' \in {"idle", "corrupt"} /\ clean
  BY RestartRestores
<1>2. TypeOK'
  BY <1>1, TablesStutter DEF IInv, TypeOK
<1>3. AllocState'
  BY <1>1, InvGivesAlloc, AllocStutters DEF tables
<1>4. StoredImage'
  <2>1. Tables' = Tables
    BY <1>1 DEF Tables, tables
  <2>2. StoredImage
    BY DEF IInv, AllocatorInv
  <2> QED BY <1>1, <2>1, <2>2 DEF StoredImage
<1>5. AllocatorInv'
  BY <1>1, <1>3, <1>4 DEF AllocState, AllocatorInv, StoreProgress
<1> QED BY <1>1, <1>2, <1>5, TablesStutter DEF IInv

LEMMA StutterKeeps ==
  ASSUME IInv, UNCHANGED vars
  PROVE  IInv'
<1>1. UNCHANGED tables /\ UNCHANGED <<ftl_config, last_searched_channel, nand, stage, todo, op,
                                      ver, stores, clean>>
  BY DEF vars
<1>2. TypeOK'
  BY <1>1, TablesStutter DEF IInv, TypeOK
<1>3. AllocState'
  BY <1>1, InvGivesAlloc, AllocStutters DEF tables
<1>4. StoreProgress' /\ StoredImage'
  <2>1. Tables' = Tables
    BY <1>1 DEF Tables, tables
  <2>2. StoredImage /\ StoreProgress
    BY DEF IInv, AllocatorInv
  <2> QED BY <1>1, <2>1, <2>2 DEF StoredImage, StoreProgress, tables
<1>5. AllocatorInv'
  BY <1>3, <1>4 DEF AllocState, AllocatorInv
<1> QED BY <1>1, <1>2, <1>5, TablesStutter DEF IInv

LEMMA NextIInv == IInv /\ [Next]_vars => IInv'
<1> SUFFICES ASSUME IInv, [Next]_vars PROVE IInv'
  OBVIOUS
<1>1. ASSUME NEW lpn \in Lpn, NEW n \in 1 .. MDTS_PAGES,
             lpn + n <= LOGICAL_PAGES, ProgramRequest(lpn, n)
      PROVE  IInv'
  BY <1>1, ProgramRequestKeeps
<1>2. CASE MapPage BY <1>2, MapPageKeeps
<1>3. CASE ProgramPages BY <1>3, ProgramPagesKeeps
<1>4. CASE Spin BY <1>4, SpinKeeps
<1>5. CASE StoreBegin BY <1>5, StoreBeginKeeps
<1>6. CASE TakeTablePage BY <1>6, TakeTablePageKeeps
<1>7. CASE StoreTables BY <1>7, StoreTablesKeeps
<1>8. CASE Restart BY <1>8, RestartKeeps
<1>9. CASE RunCorrupt BY <1>9, StutterKeeps DEF RunCorrupt
<1>10. CASE UNCHANGED vars BY <1>10, StutterKeeps
<1> QED BY <1>1, <1>2, <1>3, <1>4, <1>5, <1>6, <1>7, <1>8, <1>9, <1>10 DEF Next

----------------------------------------------------------------------------
(* The theorems. *)

LEMMA Invariance == Spec => []IInv
  BY InitIInv, NextIInv, PTL DEF Spec

\* Type correctness: in particular every address in lpa_table, in a program
\* operation and in the list of table pages lies inside the flash.
THEOREM TypeCorrect == Spec => []TypeOK
<1>1. IInv => TypeOK
  BY DEF IInv
<1> QED BY <1>1, Invariance, PTL

\* make_new_mapping, store_mapping_tables and restore_mapping_tables keep
\* lpa_table and ppa_table inverse to each other.
THEOREM MappingCorrect == Spec => []MappingConsistent
<1>1. IInv => MappingConsistent
  BY DEF IInv
<1> QED BY <1>1, Invariance, PTL

\* The planes are filled in balanced rounds, no free page is left behind a
\* cursor, and a stored image equals the tables in RAM.
THEOREM AllocatorCorrect == Spec => []AllocatorInv
<1>1. IInv => AllocatorInv
  BY DEF IInv
<1> QED BY <1>1, Invariance, PTL

\* find_free_page, asked for a single plane, fails only on a full flash, and
\* what it returns is a page of the flash.
THEOREM SearchCorrect == Spec => []SearchExact
<1>1. IInv => SearchExact
  <2> SUFFICES ASSUME IInv PROVE SearchExact
    OBVIOUS
  <2>1. AllocState
    BY InvGivesAlloc
  <2>2. CASE Full
    BY <2>1, <2>2, FullSearch DEF SearchExact
  <2>3. CASE ~Full
    BY <2>1, <2>3, SearchOutcome DEF SearchExact
  <2> QED BY <2>2, <2>3
<1> QED BY <1>1, Invariance, PTL

----------------------------------------------------------------------------
(***************************************************************************)
(* What the flash holds. For every geometry and every sequence of writes,  *)
(* stores and restarts, a NAND page outside the configuration is           *)
(* programmed at most once, and what was last written is what is read.     *)
(*                                                                         *)
(* Neither is inductive by itself: a page is still erased when it is taken *)
(* from the allocator, stays so while the program operation or the list of *)
(* table pages that will program it is put together, and belongs to that   *)
(* operation alone.                                                        *)
(***************************************************************************)

\* A free page is erased: find_free_page hands out nothing that was programmed.
FreeErased ==
  \A p \in Ppa \ ConfigPages : ppa_table[p] = FREE_PPA => nand[p] = Erased

\* The pages of the program operation are distinct, taken and still erased.
OpErased ==
  /\ \A i \in DOMAIN op : ppa_table[op[i].ppa] # FREE_PPA
  /\ \A i, j \in DOMAIN op : op[i].ppa = op[j].ppa => i = j
  /\ \A i \in DOMAIN op : op[i].ppa \notin ConfigPages => nand[op[i].ppa] = Erased

\* So are the pages taken for the tables, until they are programmed.
StoreErased ==
  LET mt == ftl_config.mapping_tables IN
  stage = "store" =>
    \A i \in DOMAIN mt : mt[i] \notin ConfigPages => nand[mt[i]] = Erased

\* Outside a program request no page waits to be mapped or programmed.
Quiet == stage # "map" => todo = <<>> /\ op = <<>>

\* The pages of a request still to be mapped are distinct and carry the
\* versions the host wrote last.
TodoLatest ==
  /\ written \in [Lpn -> Nat]
  /\ \A i, j \in DOMAIN todo : todo[i].lpn = todo[j].lpn => i = j
  /\ \A i \in DOMAIN todo : todo[i].val = written[todo[i].lpn]

Waiting(l) == \E i \in DOMAIN todo : todo[i].lpn = l

\* The last version of l is where lpa_table says, or about to be programmed
\* there, unless that is a page the configuration overwrites.
Settled(l) ==
  \/ lpa_table[l] = UNMAPPED /\ written[l] = 0
  \/ lpa_table[l] \in ConfigPages
  \/ \E i \in DOMAIN op : op[i].ppa = lpa_table[l] /\ op[i].val = written[l]
  \/ lpa_table[l] \in Ppa /\ nand[lpa_table[l]] = User(written[l])

DataInv ==
  /\ FreeErased
  /\ OpErased
  /\ StoreErased
  /\ Quiet
  /\ TodoLatest
  /\ \A l \in Lpn : Waiting(l) \/ Settled(l)
----------------------------------------------------------------------------
(* What a program operation and a table store do to the flash. *)

LEMMA ContentsDiffer ==
  ASSUME NEW v
  PROVE  User(v) # Erased
<1>1. User(v).kind = "user" /\ Erased.kind = "erased"
  BY DEF User, Erased
<1> QED BY <1>1

LEMMA OpInside ==
  ASSUME IInv, NEW i \in DOMAIN op
  PROVE  op[i].ppa \in Ppa /\ Loc(op[i].ppa) = op[i].ppa
<1>1. op[i] \in OpItem
  BY DEF IInv, TypeOK
<1>2. op[i].ppa \in Ppa
  BY <1>1 DEF OpItem
<1> QED BY <1>2, LocInside

LEMMA TablePagesInside ==
  ASSUME IInv, NEW i \in DOMAIN ftl_config.mapping_tables
  PROVE  /\ ftl_config.mapping_tables[i] \in Ppa
         /\ Loc(ftl_config.mapping_tables[i]) = ftl_config.mapping_tables[i]
<1>1. ftl_config.mapping_tables \in Seq(Ppa)
  BY DEF IInv, TypeOK, FtlConfig
<1>2. ftl_config.mapping_tables[i] \in Ppa
  BY <1>1
<1> QED BY <1>2, LocInside

\* sync_end_program_op programs the pages of the operation and no other.
LEMMA OperationProgrammed ==
  ASSUME IInv, OpErased, ProgramPages
  PROVE  /\ \A i \in DOMAIN op : nand'[op[i].ppa] = User(op[i].val)
         /\ \A p \in Ppa : (\A i \in DOMAIN op : op[i].ppa # p) => nand'[p] = nand[p]
<1> DEFINE hits(p) == { i \in DOMAIN op : Loc(op[i].ppa) = p }
<1>1. nand' = [p \in Ppa |->
         IF hits(p) = {} THEN nand[p]
         ELSE User(op[CHOOSE i \in hits(p) : \A j \in hits(p) : j <= i].val)]
  BY DEF ProgramPages
<1>2. ASSUME NEW i \in DOMAIN op
      PROVE  nand'[op[i].ppa] = User(op[i].val)
  <2>1. op[i].ppa \in Ppa
    BY OpInside
  <2>2. \A j \in hits(op[i].ppa) : j = i
    BY OpInside DEF OpErased
  <2>3. i \in hits(op[i].ppa)
    BY OpInside
  <2>4. i \in Nat
    BY DEF IInv, TypeOK
  <2>5. (CHOOSE k \in hits(op[i].ppa) : \A j \in hits(op[i].ppa) : j <= k) = i
    BY <2>2, <2>3, <2>4
  <2> QED BY <1>1, <2>1, <2>3, <2>5
<1>3. ASSUME NEW p \in Ppa, \A i \in DOMAIN op : op[i].ppa # p
      PROVE  nand'[p] = nand[p]
  <2>1. hits(p) = {}
    BY <1>3, OpInside
  <2> QED BY <1>1, <2>1
<1> QED BY <1>2, <1>3

\* store_mapping_tables programs the pages it took and the configuration's.
LEMMA TablesProgrammed ==
  ASSUME IInv, StoreTables,
         NEW p \in Ppa, p \notin ConfigPages,
         \A i \in DOMAIN ftl_config.mapping_tables : ftl_config.mapping_tables[i] # p
  PROVE  nand'[p] = nand[p]
<1> DEFINE mt == ftl_config.mapping_tables
<1>1. ~\E i \in DOMAIN mt : Loc(mt[i]) = p
  BY TablePagesInside
<1> QED BY <1>1 DEF StoreTables, StoredNand

----------------------------------------------------------------------------
(* The steps. *)

LEMMA InitData == Init => DataInv
<1> SUFFICES ASSUME Init PROVE DataInv
  OBVIOUS
<1>1. todo = <<>> /\ op = <<>> /\ stage = "idle"
  BY DEF Init
<1>2. FreeErased
  BY DEF Init, FreeErased
<1>3. OpErased
  BY <1>1 DEF OpErased
<1>4. TodoLatest
  BY <1>1 DEF Init, TodoLatest
<1>5. \A l \in Lpn : Settled(l)
  BY DEF Init, Settled
<1> QED BY <1>1, <1>2, <1>3, <1>4, <1>5 DEF DataInv, StoreErased, Quiet

LEMMA ProgramRequestData ==
  ASSUME IInv, DataInv, NEW lpn \in Lpn, NEW n \in 1 .. MDTS_PAGES,
         lpn + n <= LOGICAL_PAGES, ProgramRequest(lpn, n)
  PROVE  DataInv'
<1>1. /\ n \in Nat /\ ver \in Nat /\ lpn \in Nat
      /\ \A l \in Lpn : l \in Nat
  BY SizeAssumption DEF IInv, TypeOK, Lpn
<1>2. /\ stage = "idle" /\ stage' = "map" /\ op = <<>> /\ op' = <<>>
      /\ UNCHANGED <<lpa_table, ppa_table, ftl_config, nand>>
  BY DEF ProgramRequest, tables, DataInv, Quiet
<1>3. todo' = [i \in 1 .. n |-> [lpn |-> lpn + i - 1, val |-> ver + i]]
  BY DEF ProgramRequest
<1>4. written' = [l \in Lpn |-> IF l \in lpn .. lpn + n - 1 THEN ver + 1 + (l - lpn)
                                ELSE written[l]]
  BY DEF ProgramRequest
<1>5. \A i \in 1 .. n : lpn + i - 1 \in Lpn /\ lpn + i - 1 \in lpn .. lpn + n - 1
  BY <1>1, SizeAssumption DEF Lpn
<1>6. FreeErased' /\ OpErased' /\ StoreErased' /\ Quiet'
  BY <1>2 DEF DataInv, FreeErased, OpErased, StoreErased, Quiet
<1>7. TodoLatest'
  <2>1. written' \in [Lpn -> Nat]
    <3>1. ASSUME NEW l \in Lpn
          PROVE  (IF l \in lpn .. lpn + n - 1 THEN ver + 1 + (l - lpn) ELSE written[l]) \in Nat
      BY <1>1, <3>1 DEF DataInv, TodoLatest
    <3> QED BY <1>4, <3>1
  <2>2. DOMAIN todo' = 1 .. n
    BY <1>3
  <2>3. \A i \in 1 .. n : todo'[i].lpn = lpn + i - 1 /\ todo'[i].val = ver + i
    BY <1>3
  <2>4. \A i \in 1 .. n : written'[lpn + i - 1] = ver + i
    BY <1>1, <1>4, <1>5
  <2> QED BY <1>1, <2>1, <2>2, <2>3, <2>4, SMTT(30) DEF TodoLatest
<1>8. ASSUME NEW l \in Lpn PROVE Waiting(l)' \/ Settled(l)'
  <2>1. CASE l \in lpn .. lpn + n - 1
    <3> DEFINE i == l - lpn + 1
    <3>1. i \in 1 .. n /\ lpn + i - 1 = l
      BY <1>1, <2>1
    <3>2. todo'[i].lpn = l
      BY <1>3, <3>1
    <3> QED BY <1>3, <3>1, <3>2 DEF Waiting
  <2>2. CASE l \notin lpn .. lpn + n - 1
    <3>1. written'[l] = written[l]
      BY <1>4, <2>2
    <3>2. todo = <<>>
      BY <1>2 DEF DataInv, Quiet
    <3>3. Settled(l)
      BY <3>2 DEF DataInv, Waiting
    <3> QED BY <1>2, <3>1, <3>3 DEF Settled
  <2> QED BY <2>1, <2>2
<1> QED BY <1>6, <1>7, <1>8 DEF DataInv

\* A page taken from the allocator is erased and belongs to nobody.
LEMMA TakenPage ==
  ASSUME IInv, DataInv, FindSucceeds
  PROVE  /\ NewPpa \in Ppa /\ ppa_table[NewPpa] = FREE_PPA /\ Loc(NewPpa) = NewPpa
         /\ NewPpa \notin ConfigPages => nand[NewPpa] = Erased
         /\ \A i \in DOMAIN op : op[i].ppa # NewPpa
<1>1. NewPpa \in Ppa /\ ppa_table[NewPpa] = FREE_PPA
  BY InvGivesAlloc, FullSearch, SearchOutcome
<1> QED BY <1>1, LocInside DEF DataInv, FreeErased, OpErased

LEMMA MapPageData ==
  ASSUME IInv, DataInv, MapPage
  PROVE  DataInv'
<1> DEFINE lpn == Head(todo).lpn
           v   == Head(todo).val
           new == NewPpa
           old == lpa_table[lpn]
<1>1. /\ new \in Ppa /\ ppa_table[new] = FREE_PPA /\ Loc(new) = new
      /\ new \notin ConfigPages => nand[new] = Erased
      /\ \A i \in DOMAIN op : op[i].ppa # new
  BY TakenPage DEF MapPage
<1>2. /\ stage = "map" /\ todo # <<>> /\ todo \in Seq(TodoItem) /\ op \in Seq(OpItem)
      /\ todo' = Tail(todo) /\ op' = Append(op, [ppa |-> new, val |-> v])
      /\ lpa_table' = [lpa_table EXCEPT ![lpn] = new]
      /\ UNCHANGED <<nand, stage, written>>
  BY DEF MapPage, IInv, TypeOK
<1>3. Head(todo) = todo[1] /\ 1 \in DOMAIN todo /\ lpn \in Lpn /\ v \in Nat
  <2>1. Head(todo) \in TodoItem
    BY <1>2
  <2> QED BY <1>2, <2>1 DEF TodoItem
<1>4. lpa_table \in [Lpn -> Ppa \cup {UNMAPPED}] /\ ppa_table \in [Ppa -> Entry]
  BY DEF IInv, TypeOK
<1>5. old # UNMAPPED => old \in Ppa /\ Loc(old) = old
  BY <1>3, <1>4, LocInside
<1>7. /\ ppa_table'[new] = lpn \/ ppa_table'[new] = INVALID_PPA
      /\ \A p \in Ppa \ {new} : ppa_table'[p] = ppa_table[p] \/ ppa_table'[p] = INVALID_PPA
  <2>1. CASE old = UNMAPPED
    BY <1>1, <1>4, <2>1 DEF MapPage, MapUnmapped
  <2>2. CASE old # UNMAPPED
    BY <1>1, <1>4, <1>5, <2>2 DEF MapPage, MapMapped
  <2> QED BY <2>1, <2>2
<1>8. lpn # FREE_PPA /\ INVALID_PPA # FREE_PPA
  BY <1>3, EntryAssumption
<1>9. FreeErased'
  BY <1>1, <1>2, <1>7, <1>8 DEF DataInv, FreeErased
<1>10. /\ Len(op) \in Nat /\ DOMAIN op = 1 .. Len(op) /\ DOMAIN op' = 1 .. Len(op) + 1
       /\ op'[Len(op) + 1] = [ppa |-> new, val |-> v]
       /\ \A i \in DOMAIN op : op'[i] = op[i]
       /\ \A i \in DOMAIN op' : i \in DOMAIN op \/ i = Len(op) + 1
  BY <1>2
<1>11. OpErased'
  <2>1. \A i \in DOMAIN op' : ppa_table'[op'[i].ppa] # FREE_PPA
    BY <1>7, <1>8, <1>10, OpInside DEF DataInv, OpErased
  <2>2. \A i, j \in DOMAIN op' : op'[i].ppa = op'[j].ppa => i = j
    BY <1>1, <1>10 DEF DataInv, OpErased
  <2>3. \A i \in DOMAIN op' : op'[i].ppa \notin ConfigPages => nand'[op'[i].ppa] = Erased
    BY <1>1, <1>2, <1>10 DEF DataInv, OpErased
  <2> QED BY <2>1, <2>2, <2>3 DEF OpErased
<1>12. StoreErased' /\ Quiet'
  BY <1>2 DEF StoreErased, Quiet
<1>13. /\ Len(todo) \in Nat \ {0} /\ DOMAIN todo = 1 .. Len(todo)
       /\ DOMAIN todo' = 1 .. Len(todo) - 1
       /\ \A i \in DOMAIN todo' : i + 1 \in DOMAIN todo /\ todo'[i] = todo[i + 1]
  BY <1>2
<1>14. TodoLatest'
  BY <1>2, <1>13, SMTT(30) DEF DataInv, TodoLatest
<1>15. ASSUME NEW l \in Lpn PROVE Waiting(l)' \/ Settled(l)'
  <2>1. CASE l = lpn
    <3>1. v = written[lpn]
      BY <1>3 DEF DataInv, TodoLatest
    <3>2. lpa_table'[l] = new
      BY <1>2, <1>3, <1>4, <2>1
    <3>3. /\ Len(op) + 1 \in DOMAIN op' /\ op'[Len(op) + 1].ppa = lpa_table'[l]
          /\ op'[Len(op) + 1].val = written'[l]
      BY <1>2, <1>10, <2>1, <3>1, <3>2
    <3>4. \E i \in DOMAIN op' : op'[i].ppa = lpa_table'[l] /\ op'[i].val = written'[l]
      BY <3>3
    <3> QED BY <3>4 DEF Settled
  <2>2. CASE l # lpn /\ Waiting(l)
    <3>1. PICK i \in DOMAIN todo : todo[i].lpn = l
      BY <2>2 DEF Waiting
    <3>2. i # 1 /\ i - 1 \in DOMAIN todo' /\ todo'[i - 1].lpn = l
      BY <1>3, <1>13, <2>2, <3>1
    <3> QED BY <3>2 DEF Waiting
  <2>3. CASE l # lpn /\ Settled(l)
    <3>1. lpa_table'[l] = lpa_table[l]
      BY <1>2, <1>4, <2>3
    <3>2. (\E i \in DOMAIN op : op[i].ppa = lpa_table[l] /\ op[i].val = written[l])
          => (\E i \in DOMAIN op' : op'[i].ppa = lpa_table[l] /\ op'[i].val = written[l])
      BY <1>10
    <3> QED BY <1>2, <2>3, <3>1, <3>2 DEF Settled
  <2> QED BY <2>1, <2>2, <2>3 DEF DataInv
<1> QED BY <1>9, <1>11, <1>12, <1>14, <1>15 DEF DataInv

LEMMA ProgramPagesData ==
  ASSUME IInv, DataInv, ProgramPages
  PROVE  DataInv'
<1>1. /\ stage = "map" /\ todo = <<>> /\ todo' = <<>> /\ stage' = "idle" /\ op' = <<>>
      /\ UNCHANGED <<lpa_table, ppa_table, written>>
  BY DEF ProgramPages, tables
<1>2. /\ \A i \in DOMAIN op : nand'[op[i].ppa] = User(op[i].val)
      /\ \A p \in Ppa : (\A i \in DOMAIN op : op[i].ppa # p) => nand'[p] = nand[p]
  BY OperationProgrammed DEF DataInv
<1>3. FreeErased'
  <2> SUFFICES ASSUME NEW p \in Ppa \ ConfigPages, ppa_table[p] = FREE_PPA
               PROVE  nand'[p] = Erased
    BY <1>1 DEF FreeErased
  <2>1. \A i \in DOMAIN op : op[i].ppa # p
    BY DEF DataInv, OpErased
  <2> QED BY <1>2, <2>1 DEF DataInv, FreeErased
<1>4. OpErased' /\ StoreErased' /\ Quiet'
  BY <1>1 DEF OpErased, StoreErased, Quiet
<1>5. TodoLatest'
  BY <1>1 DEF TodoLatest, DataInv
<1>6. ASSUME NEW l \in Lpn PROVE Settled(l)'
  <2>1. Settled(l)
    BY <1>1 DEF DataInv, Waiting
  <2>2. CASE \E i \in DOMAIN op : op[i].ppa = lpa_table[l] /\ op[i].val = written[l]
    <3>1. PICK i \in DOMAIN op : op[i].ppa = lpa_table[l] /\ op[i].val = written[l]
      BY <2>2
    <3>2. nand'[lpa_table[l]] = User(written[l]) /\ lpa_table[l] \in Ppa
      BY <1>2, <3>1, OpInside
    <3> QED BY <1>1, <3>2 DEF Settled
  <2>3. CASE /\ lpa_table[l] \in Ppa /\ nand[lpa_table[l]] = User(written[l])
             /\ lpa_table[l] \notin ConfigPages
    <3>1. \A i \in DOMAIN op : op[i].ppa # lpa_table[l]
      BY <2>3, ContentsDiffer DEF DataInv, OpErased
    <3>2. nand'[lpa_table[l]] = User(written[l])
      BY <1>2, <2>3, <3>1
    <3> QED BY <1>1, <2>3, <3>2 DEF Settled
  <2>4. CASE lpa_table[l] \in ConfigPages \/ (lpa_table[l] = UNMAPPED /\ written[l] = 0)
    BY <1>1, <2>4 DEF Settled
  <2> QED BY <2>1, <2>2, <2>3, <2>4 DEF Settled
<1> QED BY <1>3, <1>4, <1>5, <1>6 DEF DataInv

\* Steps that leave the request, the mapping and the flash alone.
LEMMA DataStutters ==
  ASSUME DataInv, StoreErased',
         UNCHANGED <<lpa_table, ppa_table, nand, todo, op, written>>,
         stage' = stage \/ (todo = <<>> /\ op = <<>>)
  PROVE  DataInv'
<1>1. FreeErased' /\ OpErased' /\ Quiet'
  BY DEF DataInv, FreeErased, OpErased, Quiet
<1>2. TodoLatest'
  BY DEF DataInv, TodoLatest
<1>3. \A l \in Lpn : Waiting(l)' \/ Settled(l)'
  BY DEF DataInv, Waiting, Settled
<1> QED BY <1>1, <1>2, <1>3 DEF DataInv

LEMMA SpinData ==
  ASSUME IInv, DataInv, Spin
  PROVE  DataInv'
<1>1. UNCHANGED <<lpa_table, ppa_table, ftl_config, nand, stage, todo, op, written>>
  BY DEF Spin, tables
<1> QED BY <1>1, DataStutters DEF DataInv, StoreErased

LEMMA StoreBeginData ==
  ASSUME IInv, DataInv, StoreBegin
  PROVE  DataInv'
<1>1. /\ UNCHANGED <<lpa_table, ppa_table, nand, todo, op, written>>
      /\ ftl_config' = [ftl_config EXCEPT !.mapping_tables = <<>>]
      /\ todo = <<>> /\ op = <<>>
  BY DEF StoreBegin, tables, DataInv, Quiet
<1>2. ftl_config'.mapping_tables = <<>>
  BY <1>1 DEF IInv, TypeOK, FtlConfig
<1> QED BY <1>1, <1>2, DataStutters DEF StoreErased

LEMMA TakeTablePageData ==
  ASSUME IInv, DataInv, TakeTablePage
  PROVE  DataInv'
<1> DEFINE new == NewPpa
           mt  == ftl_config.mapping_tables
<1>1. /\ new \in Ppa /\ ppa_table[new] = FREE_PPA /\ Loc(new) = new
      /\ new \notin ConfigPages => nand[new] = Erased
  BY TakenPage DEF TakeTablePage
<1>2. /\ stage = "store" /\ UNCHANGED <<lpa_table, nand, stage, todo, op, written>>
      /\ todo = <<>> /\ op = <<>>
      /\ ppa_table' = [ppa_table EXCEPT ![new] = INVALID_PPA]
      /\ ppa_table \in [Ppa -> Entry]
  BY <1>1 DEF TakeTablePage, DataInv, Quiet, IInv, TypeOK
<1>3. FreeErased'
  BY <1>1, <1>2, EntryAssumption DEF DataInv, FreeErased
<1>4. OpErased' /\ Quiet'
  BY <1>2 DEF OpErased, Quiet
<1>5. TodoLatest'
  BY <1>2 DEF DataInv, TodoLatest
<1>6. mt \in Seq(Ppa) /\ ftl_config'.mapping_tables = Append(mt, new)
  BY DEF IInv, TypeOK, FtlConfig, TakeTablePage
<1>7. StoreErased'
  <2>1. \A i \in DOMAIN Append(mt, new) :
          \/ i \in DOMAIN mt /\ Append(mt, new)[i] = mt[i]
          \/ Append(mt, new)[i] = new
    BY <1>6
  <2>2. \A i \in DOMAIN Append(mt, new) : Append(mt, new)[i] \notin ConfigPages
                                            => nand[Append(mt, new)[i]] = Erased
    BY <1>1, <1>2, <2>1 DEF DataInv, StoreErased
  <2> QED BY <1>2, <1>6, <2>2 DEF StoreErased
<1>8. \A l \in Lpn : Waiting(l)' \/ Settled(l)'
  BY <1>2 DEF DataInv, Waiting, Settled
<1> QED BY <1>3, <1>4, <1>5, <1>7, <1>8 DEF DataInv

LEMMA StoreTablesData ==
  ASSUME IInv, DataInv, StoreTables
  PROVE  DataInv'
<1> DEFINE mt == ftl_config.mapping_tables
<1>1. /\ stage = "store" /\ stage' = "idle" /\ todo = <<>> /\ op = <<>>
      /\ UNCHANGED <<lpa_table, ppa_table, todo, op, written>>
  BY DEF StoreTables, tables, DataInv, Quiet
<1>2. \A i \in DOMAIN mt : /\ ppa_table[mt[i]] # FREE_PPA
                           /\ mt[i] \notin ConfigPages => nand[mt[i]] = Erased
  BY <1>1 DEF IInv, AllocatorInv, StoreProgress, DataInv, StoreErased
<1>3. FreeErased'
  <2> SUFFICES ASSUME NEW p \in Ppa \ ConfigPages, ppa_table[p] = FREE_PPA
               PROVE  nand'[p] = Erased
    BY <1>1 DEF FreeErased
  <2>1. \A i \in DOMAIN mt : mt[i] # p
    BY <1>2
  <2>2. nand[p] = Erased
    BY DEF DataInv, FreeErased
  <2> QED BY <2>1, <2>2, TablesProgrammed
<1>4. OpErased' /\ StoreErased' /\ Quiet'
  BY <1>1 DEF OpErased, StoreErased, Quiet
<1>5. TodoLatest'
  BY <1>1 DEF DataInv, TodoLatest
<1>6. ASSUME NEW l \in Lpn PROVE Settled(l)'
  <2>1. Settled(l)
    BY <1>1 DEF DataInv, Waiting
  <2>2. CASE /\ lpa_table[l] \in Ppa /\ nand[lpa_table[l]] = User(written[l])
             /\ lpa_table[l] \notin ConfigPages
    <3>1. \A i \in DOMAIN mt : mt[i] # lpa_table[l]
      BY <1>2, <2>2, ContentsDiffer
    <3>2. nand'[lpa_table[l]] = User(written[l])
      BY <2>2, <3>1, TablesProgrammed
    <3> QED BY <1>1, <2>2, <3>2 DEF Settled
  <2>3. CASE lpa_table[l] \in ConfigPages \/ (lpa_table[l] = UNMAPPED /\ written[l] = 0)
    BY <1>1, <2>3 DEF Settled
  <2> QED BY <1>1, <2>1, <2>2, <2>3 DEF Settled
<1> QED BY <1>3, <1>4, <1>5, <1>6 DEF DataInv

LEMMA RestartData ==
  ASSUME IInv, DataInv, Restart
  PROVE  DataInv'
<1>1. /\ UNCHANGED <<lpa_table, ppa_table, nand, todo, op, written>>
      /\ todo = <<>> /\ op = <<>> /\ stage' \in {"idle", "corrupt"}
  BY RestartRestores DEF Restart, tables, DataInv, Quiet
<1> QED BY <1>1, DataStutters DEF StoreErased

LEMMA NextData == IInv /\ DataInv /\ [Next]_vars => DataInv'
<1> SUFFICES ASSUME IInv, DataInv, [Next]_vars PROVE DataInv'
  OBVIOUS
<1>1. ASSUME NEW lpn \in Lpn, NEW n \in 1 .. MDTS_PAGES,
             lpn + n <= LOGICAL_PAGES, ProgramRequest(lpn, n)
      PROVE  DataInv'
  BY <1>1, ProgramRequestData
<1>2. CASE MapPage BY <1>2, MapPageData
<1>3. CASE ProgramPages BY <1>3, ProgramPagesData
<1>4. CASE Spin BY <1>4, SpinData
<1>5. CASE StoreBegin BY <1>5, StoreBeginData
<1>6. CASE TakeTablePage BY <1>6, TakeTablePageData
<1>7. CASE StoreTables BY <1>7, StoreTablesData
<1>8. CASE Restart BY <1>8, RestartData
<1>9. CASE UNCHANGED vars
  <2>1. UNCHANGED <<lpa_table, ppa_table, ftl_config, nand, stage, todo, op, written>>
    BY <1>9 DEF vars, tables
  <2> QED BY <2>1, DataStutters DEF DataInv, StoreErased
<1>10. CASE RunCorrupt BY <1>9, <1>10 DEF RunCorrupt
<1> QED BY <1>1, <1>2, <1>3, <1>4, <1>5, <1>6, <1>7, <1>8, <1>9, <1>10 DEF Next

----------------------------------------------------------------------------
(* The theorems. *)

LEMMA DataInvariance == Spec => [](IInv /\ DataInv)
<1>1. Init => IInv /\ DataInv
  BY InitIInv, InitData
<1>2. (IInv /\ DataInv) /\ [Next]_vars => (IInv /\ DataInv)'
  BY NextIInv, NextData
<1> QED BY <1>1, <1>2, PTL DEF Spec

\* A read returns the host's last write across requests, table stores and
\* restarts, but for the pages store_mapping_tables overwrites with the
\* configuration.
THEOREM DataCorrect == Spec => []DataIntact
<1>1. IInv /\ DataInv => DataIntact
  <2> SUFFICES ASSUME IInv, DataInv, stage = "idle", NEW l \in Lpn
               PROVE  ReadPage(l) = User(written[l]) \/ lpa_table[l] \in ConfigPages
    BY DEF DataIntact
  <2>1. todo = <<>> /\ op = <<>>
    BY DEF DataInv, Quiet
  <2>2. Settled(l)
    BY <2>1 DEF DataInv, Waiting
  <2>3. CASE lpa_table[l] = UNMAPPED /\ written[l] = 0
    BY <2>3 DEF ReadPage
  <2>4. CASE lpa_table[l] \in Ppa /\ nand[lpa_table[l]] = User(written[l])
    BY <2>4, LocInside, UnmappedAssumption DEF ReadPage
  <2> QED BY <2>1, <2>2, <2>3, <2>4 DEF Settled
<1> QED BY <1>1, DataInvariance, PTL

\* No step programs a NAND page outside the configuration a second time: the
\* firmware never erases a block, so that would destroy its content.
THEOREM ProgramOnceCorrect == Spec => ProgramOnce
<1> DEFINE Once == \A p \in Ppa \ ConfigPages : nand[p] # Erased => nand'[p] = nand[p]
<1>1. IInv /\ DataInv /\ [Next]_vars => [Once]_vars
  <2> SUFFICES ASSUME IInv, DataInv, Next, NEW p \in Ppa \ ConfigPages, nand[p] # Erased
               PROVE  nand'[p] = nand[p]
    OBVIOUS
  <2>1. CASE ProgramPages
    <3>1. \A i \in DOMAIN op : op[i].ppa # p
      BY DEF DataInv, OpErased
    <3> QED BY <2>1, <3>1, OperationProgrammed DEF DataInv
  <2>2. CASE StoreTables
    <3>1. \A i \in DOMAIN ftl_config.mapping_tables : ftl_config.mapping_tables[i] # p
      BY <2>2 DEF StoreTables, DataInv, StoreErased
    <3> QED BY <2>2, <3>1, TablesProgrammed
  <2>3. CASE ~ProgramPages /\ ~StoreTables
    BY <2>3 DEF Next, ProgramRequest, MapPage, Spin, StoreBegin, TakeTablePage, Restart,
                RunCorrupt, vars
  <2> QED BY <2>1, <2>2, <2>3
<1> QED BY <1>1, DataInvariance, PTL DEF Spec, ProgramOnce
----------------------------------------------------------------------------
(* The counters of blk_table and ftl_config. They are exact until the      *)
(* tables are first stored; TakeTablePage then counts a page as one valid  *)
(* page less although it was free.                                         *)

Marked(e) == { p \in Ppa : ppa_table[p] = e }
PagesOf(b) == { p \in Ppa : BlockOf(p) = b }
StaleIn(b) == { p \in PagesOf(b) : ppa_table[p] = INVALID_PPA }
LiveIn(b) == { p \in PagesOf(b) : ppa_table[p] \notin {INVALID_PPA, FREE_PPA} }

TotalsExact ==
  /\ ftl_config.total_free = Cardinality(Marked(FREE_PPA))
  /\ ftl_config.total_invalid = Cardinality(Marked(INVALID_PPA))
  /\ ftl_config.total_valid =
       Cardinality(Ppa) - Cardinality(Marked(FREE_PPA)) - Cardinality(Marked(INVALID_PPA))

BlocksExact ==
  \A b \in Block : /\ invalid_pgs[b] = Cardinality(StaleIn(b))
                   /\ valid_pgs[b] = Cardinality(LiveIn(b))

AccountInv ==
  stores = 0 => TotalsExact /\ BlocksExact /\ clean = FALSE /\ stage # "store"

LEMMA NoWrap ==
  ASSUME NEW k \in U16
  PROVE  k % 65536 = k
<1>1. k \in Int /\ 0 <= k /\ k <= 65535
  BY U16Range, U16Int
<1> QED BY <1>1, SMT

\* A block has PAGES_PER_BLOCK pages, so that no uint16_t counter of it wraps.
LEMMA BlockSize ==
  ASSUME NEW b \in Block, NEW S \in SUBSET PagesOf(b)
  PROVE  IsFiniteSet(S) /\ Cardinality(S) \in U16
<1> DEFINE n == PAGES_PER_BLOCK
           f == [i \in 1 .. n |-> PpaAt(b.pl, b.block, i - 1)]
<1>1. IsFiniteSet(1 .. n) /\ Cardinality(1 .. n) = n
  BY FS_Interval, GeometryAssumption
<1>2. \A i \in 1 .. n : f[i] \in PagesOf(b)
  BY GeometryAssumption DEF PpaAt, PagesOf, Ppa, BlockOf, Block
<1>3. ASSUME NEW p \in PagesOf(b) PROVE \E i \in 1 .. n : f[i] = p
  <2>1. p \in Ppa /\ BlockOf(p) = b
    BY DEF PagesOf
  <2>2. p.page \in Int /\ p.page + 1 \in 1 .. n
    BY <2>1, GeometryAssumption DEF Ppa
  <2>3. b.pl = p.pl /\ b.block = p.block
    BY <2>1 DEF BlockOf
  <2>4. PICK i \in 1 .. n : i = p.page + 1
    BY <2>2
  <2>5. i - 1 = p.page
    BY <2>2, <2>4
  <2>6. f[i] = PpaAt(p.pl, p.block, p.page)
    BY <2>3, <2>5 DEF PpaAt
  <2>7. PpaAt(p.pl, p.block, p.page) = p
    BY <2>1 DEF PpaAt, Ppa
  <2> QED BY <2>6, <2>7
<1>4. f \in Surjection(1 .. n, PagesOf(b))
  BY <1>2, <1>3 DEF Surjection
<1>5. IsFiniteSet(PagesOf(b)) /\ Cardinality(PagesOf(b)) <= n
  BY <1>1, <1>4, FS_Surjection
<1>6. IsFiniteSet(S) /\ Cardinality(S) <= Cardinality(PagesOf(b))
  BY <1>5, FS_Subset
<1>7. Cardinality(S) \in Nat /\ Cardinality(PagesOf(b)) \in Nat
  BY <1>5, <1>6, FS_CardinalityType
<1>8. n \in Nat /\ n <= 65535
  BY GeometryAssumption, WidthAssumption, SMT
<1> DEFINE c == Cardinality(S)
           d == Cardinality(PagesOf(b))
<1> HIDE DEF c, d, n
<1>9. c \in Nat /\ d \in Nat /\ c <= d /\ d <= n
  BY <1>5, <1>6, <1>7 DEF c, d
<1>10. c \in U16
  <2>1. c \in Int /\ 0 <= c /\ c <= 65535
    BY <1>8, <1>9, SMT
  <2> QED BY <2>1, U16Range
<1> QED BY <1>6, <1>10 DEF c

LEMMA MarkedFinite ==
  ASSUME NEW e
  PROVE  IsFiniteSet(Marked(e)) /\ Cardinality(Marked(e)) \in Nat
<1>1. Marked(e) \in SUBSET Ppa
  BY DEF Marked
<1>2. IsFiniteSet(Marked(e))
  BY <1>1, FlashFinite, FS_Subset
<1> QED BY <1>2, FS_CardinalityType

LEMMA InitAccount == Init => AccountInv
<1> SUFFICES ASSUME Init PROVE AccountInv
  OBVIOUS
<1>1. ppa_table = [p \in Ppa |-> IF p = FirstPage THEN RESERVED_PPA ELSE FREE_PPA]
  BY DEF Init
<1>2. FirstPage \in Ppa /\ IsFiniteSet(Ppa) /\ Cardinality(Ppa) \in Nat
  BY FirstPageType, FlashFinite
<1>3. Marked(FREE_PPA) = Ppa \ {FirstPage}
  BY <1>1, EntryAssumption DEF Marked
<1>4. Marked(INVALID_PPA) = {}
  BY <1>1, EntryAssumption DEF Marked
<1>5. Cardinality(Marked(FREE_PPA)) = Cardinality(Ppa) - 1 /\ Cardinality(Marked(INVALID_PPA)) = 0
  BY <1>2, <1>3, <1>4, FS_RemoveElement, FS_EmptySet
<1>6. TotalsExact
  BY <1>2, <1>5 DEF TotalsExact, Init, TotalPages
<1>7. ASSUME NEW b \in Block
      PROVE  invalid_pgs[b] = Cardinality(StaleIn(b)) /\ valid_pgs[b] = Cardinality(LiveIn(b))
  <2>1. StaleIn(b) = {}
    BY <1>1, EntryAssumption DEF StaleIn, PagesOf
  <2>2. LiveIn(b) = IF b = BlockOf(FirstPage) THEN {FirstPage} ELSE {}
    BY <1>1, <1>2, EntryAssumption DEF LiveIn, PagesOf
  <2> QED BY <2>1, <2>2, FS_EmptySet, FS_Singleton DEF Init
<1> QED BY <1>6, <1>7 DEF AccountInv, BlocksExact, Init

LEMMA MapPageTotals ==
  ASSUME IInv, TotalsExact, MapPage
  PROVE  TotalsExact'
<1> DEFINE lpn == Head(todo).lpn
           old == lpa_table[lpn]
           new == NewPpa
           free == Marked(FREE_PPA)
           stale == Marked(INVALID_PPA)
<1>1. /\ new \in Ppa /\ ppa_table[new] = FREE_PPA /\ new # old /\ lpn \in Lpn
      /\ old # UNMAPPED => old \in Ppa /\ ppa_table[old] = lpn
      /\ ppa_table' = [p \in Ppa |-> IF p = new THEN lpn
                                     ELSE IF p = old THEN INVALID_PPA ELSE ppa_table[p]]
  BY MapPageTable
<1>2. lpn # FREE_PPA /\ lpn # INVALID_PPA /\ FREE_PPA # INVALID_PPA
  BY <1>1, EntryAssumption
<1>3. ftl_config \in FtlConfig
  BY DEF IInv, TypeOK
<1>4. /\ IsFiniteSet(free) /\ Cardinality(free) \in Nat
      /\ IsFiniteSet(stale) /\ Cardinality(stale) \in Nat /\ Cardinality(Ppa) \in Nat
  BY MarkedFinite, FlashFinite
<1>5. new \in free /\ Marked(FREE_PPA)' = free \ {new}
  <2>1. old # UNMAPPED => ppa_table[old] # FREE_PPA
    BY <1>1, <1>2
  <2>2. new \in free
    BY <1>1 DEF Marked
  <2>3. Marked(FREE_PPA)' = { p \in Ppa : ppa_table'[p] = FREE_PPA }
    BY DEF Marked
  <2>4. \A p \in Ppa : ppa_table'[p] = FREE_PPA <=> ppa_table[p] = FREE_PPA /\ p # new
    BY <1>1, <1>2, <2>1, UnmappedAssumption
  <2> QED BY <2>2, <2>3, <2>4 DEF Marked
<1>6. Cardinality(Marked(FREE_PPA)') = Cardinality(free) - 1
  BY <1>4, <1>5, FS_RemoveElement
<1>7. CASE old = UNMAPPED
  <2>1. Marked(INVALID_PPA)' = stale
    BY <1>1, <1>2, <1>7, UnmappedAssumption DEF Marked
  <2>2. ftl_config' = [ftl_config EXCEPT !.total_valid = @ + 1, !.total_free = @ - 1,
                                         !.last_selected = new.pl]
    BY <1>7 DEF MapPage, MapUnmapped
  <2>3. /\ ftl_config'.total_free = ftl_config.total_free - 1
        /\ ftl_config'.total_invalid = ftl_config.total_invalid
        /\ ftl_config'.total_valid = ftl_config.total_valid + 1
    BY <1>3, <2>2 DEF FtlConfig
  <2> QED BY <1>4, <1>6, <2>1, <2>3 DEF TotalsExact
<1>8. CASE old # UNMAPPED
  <2>1. old \notin stale /\ Marked(INVALID_PPA)' = stale \cup {old}
    BY <1>1, <1>2, <1>8 DEF Marked
  <2>2. Cardinality(Marked(INVALID_PPA)') = Cardinality(stale) + 1
    BY <1>4, <2>1, FS_AddElement
  <2>3. ftl_config' = [ftl_config EXCEPT !.total_invalid = @ + 1, !.total_free = @ - 1,
                                         !.last_selected = new.pl]
    BY <1>8 DEF MapPage, MapMapped
  <2>4. /\ ftl_config'.total_free = ftl_config.total_free - 1
        /\ ftl_config'.total_invalid = ftl_config.total_invalid + 1
        /\ ftl_config'.total_valid = ftl_config.total_valid
    BY <1>3, <2>3 DEF FtlConfig
  <2> QED BY <1>4, <1>6, <2>2, <2>4 DEF TotalsExact
<1> QED BY <1>7, <1>8

LEMMA MapPageBlocks ==
  ASSUME IInv, BlocksExact, MapPage
  PROVE  BlocksExact'
<1> DEFINE lpn == Head(todo).lpn
           old == lpa_table[lpn]
           new == NewPpa
<1>1. /\ new \in Ppa /\ ppa_table[new] = FREE_PPA /\ new # old /\ lpn \in Lpn
      /\ Loc(new) = new /\ BlockOf(new) \in Block
      /\ old # UNMAPPED => /\ old \in Ppa /\ ppa_table[old] = lpn /\ Loc(old) = old
                           /\ BlockOf(old) \in Block
      /\ ppa_table' = [p \in Ppa |-> IF p = new THEN lpn
                                     ELSE IF p = old THEN INVALID_PPA ELSE ppa_table[p]]
  BY MapPageTable
<1>2. lpn # FREE_PPA /\ lpn # INVALID_PPA /\ FREE_PPA # INVALID_PPA
  BY <1>1, EntryAssumption
<1>3. valid_pgs \in [Block -> U16] /\ invalid_pgs \in [Block -> U16]
  BY DEF IInv, TypeOK
<1> SUFFICES ASSUME NEW b \in Block
             PROVE  /\ invalid_pgs'[b] = Cardinality(StaleIn(b)')
                    /\ valid_pgs'[b] = Cardinality(LiveIn(b)')
  BY DEF BlocksExact
<1> DEFINE s == Cardinality(StaleIn(b))
           v == Cardinality(LiveIn(b))
           toNew == IF b = BlockOf(new) THEN 1 ELSE 0
           ofOld == IF old # UNMAPPED /\ b = BlockOf(old) THEN 1 ELSE 0
<1>4. /\ IsFiniteSet(StaleIn(b)) /\ IsFiniteSet(LiveIn(b)) /\ s \in U16 /\ v \in U16
      /\ Cardinality(StaleIn(b)') \in U16 /\ Cardinality(LiveIn(b)') \in U16
      /\ invalid_pgs[b] = s /\ valid_pgs[b] = v
  <2>1. /\ StaleIn(b) \in SUBSET PagesOf(b) /\ LiveIn(b) \in SUBSET PagesOf(b)
        /\ StaleIn(b)' \in SUBSET PagesOf(b) /\ LiveIn(b)' \in SUBSET PagesOf(b)
    BY DEF StaleIn, LiveIn, PagesOf
  <2>2. /\ IsFiniteSet(StaleIn(b)) /\ s \in U16
        /\ IsFiniteSet(LiveIn(b)) /\ v \in U16
    BY <2>1, BlockSize, Zenon
  <2>3. Cardinality(StaleIn(b)') \in U16 /\ Cardinality(LiveIn(b)') \in U16
    BY <2>1, BlockSize, Zenon
  <2> QED BY <2>2, <2>3 DEF BlocksExact
<1>5. Cardinality(StaleIn(b)') = s + ofOld
  <2>1. CASE old # UNMAPPED /\ b = BlockOf(old)
    <3>1. old \notin StaleIn(b) /\ StaleIn(b)' = StaleIn(b) \cup {old}
      BY <1>1, <1>2, <2>1 DEF StaleIn, PagesOf
    <3>2. Cardinality(StaleIn(b)') = Cardinality(StaleIn(b)) + 1
      BY <1>4, <3>1, FS_AddElement
    <3> QED BY <2>1, <3>2
  <2>2. CASE ~(old # UNMAPPED /\ b = BlockOf(old))
    <3>1. StaleIn(b)' = StaleIn(b)
      BY <1>1, <1>2, <2>2, UnmappedAssumption DEF StaleIn, PagesOf
    <3> QED BY <1>4, <2>2, <3>1, U16Wrap
  <2> QED BY <2>1, <2>2
<1>6. Cardinality(LiveIn(b)') = v + toNew - ofOld
  <2> DEFINE L == IF b = BlockOf(new) THEN LiveIn(b) \cup {new} ELSE LiveIn(b)
  <2>1. IsFiniteSet(L) /\ Cardinality(L) = v + toNew
    <3>1. new \notin LiveIn(b)
      BY <1>1 DEF LiveIn
    <3> QED BY <1>4, <3>1, FS_AddElement, U16Wrap
  <2>2. CASE old # UNMAPPED /\ b = BlockOf(old)
    <3>1. old \in L
      BY <1>1, <1>2, <2>2 DEF LiveIn, PagesOf
    <3>2. LiveIn(b)' = L \ {old}
      BY <1>1, <1>2, <2>2 DEF LiveIn, PagesOf
    <3> HIDE DEF L
    <3>3. Cardinality(LiveIn(b)') = Cardinality(L) - 1
      BY <2>1, <3>1, <3>2, FS_RemoveElement, ZenonT(60)
    <3>4. v \in Int
      BY <1>4, U16Wrap
    <3> QED BY <2>1, <2>2, <3>3, <3>4
  <2>3. CASE ~(old # UNMAPPED /\ b = BlockOf(old))
    <3>1. LiveIn(b)' = L
      BY <1>1, <1>2, <2>3, UnmappedAssumption DEF LiveIn, PagesOf
    <3> QED BY <1>4, <2>1, <2>3, <3>1, U16Wrap
  <2> QED BY <2>2, <2>3
<1>7. invalid_pgs'[b] = s + ofOld /\ valid_pgs'[b] = v + toNew - ofOld
  <2> HIDE DEF s, v, toNew, ofOld
  <2>1. /\ s + ofOld \in U16 /\ v + toNew - ofOld \in U16
        /\ s \in Int /\ v \in Int
    BY <1>4, <1>5, <1>6, U16Wrap, SMT
  <2>2. (s + ofOld) % 65536 = s + ofOld /\ (v + toNew - ofOld) % 65536 = v + toNew - ofOld
    BY <2>1, NoWrap, SMT
  <2>3. CASE old = UNMAPPED
    <3>1. MapUnmapped(lpn, new) /\ ofOld = 0
      BY <2>3 DEF MapPage, ofOld
    <3>2. /\ invalid_pgs' = invalid_pgs
          /\ valid_pgs' = [valid_pgs EXCEPT ![BlockOf(Loc(new))] = (@ + 1) % 65536]
      BY <3>1, SMT DEF MapUnmapped
    <3>3. invalid_pgs'[b] = s + ofOld
      BY <1>4, <2>1, <3>1, <3>2, SMT
    <3>4. CASE b = BlockOf(new)
      <4>1. valid_pgs'[b] = (v + 1) % 65536
        BY <1>1, <1>3, <1>4, <3>2, <3>4, SMT
      <4> QED BY <2>1, <1>4, <2>2, <3>1, <3>3, <3>4, <4>1, SMT DEF toNew
    <3>5. CASE b # BlockOf(new)
      <4>1. valid_pgs'[b] = v
        BY <1>1, <1>3, <1>4, <3>2, <3>5, SMT
      <4> QED BY <2>1, <1>4, <3>1, <3>3, <3>5, <4>1, SMT DEF toNew
    <3> QED BY <3>4, <3>5
  <2>4. CASE old # UNMAPPED
    <3>1. MapMapped(lpn, new, old)
      BY <2>4 DEF MapPage
    <3>2. /\ invalid_pgs' = [invalid_pgs EXCEPT ![BlockOf(Loc(old))] = (@ + 1) % 65536]
          /\ valid_pgs' = [c \in Block |->
               (valid_pgs[c] + (IF c = BlockOf(Loc(new)) THEN 1 ELSE 0)
                             - (IF c = BlockOf(Loc(old)) THEN 1 ELSE 0)) % 65536]
      BY <3>1, SMT DEF MapMapped
    <3>3. valid_pgs'[b] = (v + toNew - ofOld) % 65536
      BY <1>1, <1>4, <2>4, <3>2, SMT DEF toNew, ofOld
    <3>4. CASE b = BlockOf(old)
      <4>1. invalid_pgs'[b] = (s + 1) % 65536
        BY <1>1, <1>3, <1>4, <2>4, <3>2, <3>4, SMT
      <4> QED BY <2>1, <1>4, <2>2, <2>4, <3>3, <3>4, <4>1, SMT DEF ofOld
    <3>5. CASE b # BlockOf(old)
      <4>1. invalid_pgs'[b] = s
        BY <1>1, <1>3, <1>4, <2>4, <3>2, <3>5, SMT
      <4> QED BY <2>1, <1>4, <2>2, <3>3, <3>5, <4>1, SMT DEF ofOld
    <3> QED BY <3>4, <3>5
  <2> QED BY <2>3, <2>4
<1> QED BY <1>5, <1>6, <1>7

LEMMA NextAccount == IInv /\ AccountInv /\ [Next]_vars => AccountInv'
<1> SUFFICES ASSUME IInv, AccountInv, [Next]_vars, stores' = 0
             PROVE  TotalsExact' /\ BlocksExact' /\ clean' = FALSE /\ stage' # "store"
  BY DEF AccountInv
<1>1. stores = 0
  <2>1. stores \in Nat
    BY DEF IInv, TypeOK
  <2>2. CASE StoreBegin
    BY <2>1, <2>2 DEF StoreBegin
  <2>3. CASE \E lpn \in Lpn, n \in 1 .. MDTS_PAGES : ProgramRequest(lpn, n)
    BY <2>3 DEF ProgramRequest
  <2>4. CASE MapPage \/ Spin
    BY <2>4 DEF MapPage, Spin
  <2>5. CASE ProgramPages \/ TakeTablePage \/ StoreTables
    BY <2>5 DEF ProgramPages, TakeTablePage, StoreTables
  <2>6. CASE Restart
    BY <2>6 DEF Restart
  <2>7. CASE RunCorrupt \/ UNCHANGED vars
    BY <2>7 DEF RunCorrupt, vars
  <2> QED BY <2>2, <2>3, <2>4, <2>5, <2>6, <2>7 DEF Next
<1>2. TotalsExact /\ BlocksExact /\ clean = FALSE /\ stage # "store"
  BY <1>1 DEF AccountInv
<1>3. CASE MapPage
  BY <1>2, <1>3, MapPageTotals, MapPageBlocks DEF MapPage
<1>4. CASE ~MapPage
  <2>1. ~StoreBegin /\ ~TakeTablePage /\ ~StoreTables /\ ~Restart
    <3>1. ~StoreBegin
      BY <1>1 DEF StoreBegin
    <3> QED BY <1>2, <3>1 DEF TakeTablePage, StoreTables, Restart
  <2>2. /\ UNCHANGED <<ppa_table, valid_pgs, invalid_pgs, ftl_config>>
        /\ clean' = FALSE /\ stage' # "store"
    BY <1>2, <1>4, <2>1 DEF Next, ProgramRequest, ProgramPages, Spin, RunCorrupt, vars, tables
  <2>3. TotalsExact'
    BY <1>2, <2>2 DEF TotalsExact, Marked
  <2>4. BlocksExact'
    BY <1>2, <2>2 DEF BlocksExact, StaleIn, LiveIn, PagesOf
  <2> QED BY <2>2, <2>3, <2>4
<1> QED BY <1>3, <1>4

\* Until the first store the totals and the per-block counters that
\* make_new_mapping maintains agree with ppa_table, and no uint16_t wraps.
THEOREM AccountingCorrect == Spec => []AccountingExact
<1>1. Init => IInv /\ AccountInv
  BY InitIInv, InitAccount
<1>2. (IInv /\ AccountInv) /\ [Next]_vars => (IInv /\ AccountInv)'
  BY NextIInv, NextAccount
<1>3. IInv /\ AccountInv => AccountingExact
  <2> SUFFICES ASSUME AccountInv, stores = 0
               PROVE  AccountingExact
    BY DEF AccountingExact
  <2> QED BY DEF AccountInv, AccountingExact, TotalsExact, BlocksExact, Marked, StaleIn,
                 LiveIn, PagesOf
<1> QED BY <1>1, <1>2, <1>3, PTL DEF Spec
=============================================================================
