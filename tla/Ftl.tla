-------------------------------- MODULE Ftl --------------------------------
(***************************************************************************)
(* The page-mapping flash translation layer (ftl_page_mapping/ftl.c, ftl.h *)
(* and equal.pages.c): logical pages are mapped to never-programmed NAND   *)
(* pages picked round-robin over channels, dies and planes; the tables are *)
(* kept in RAM and written to flash only when the host shuts the drive     *)
(* down.                                                                   *)
(*                                                                         *)
(* A step of this module is one iteration of a loop over the pages of a    *)
(* request (one make_new_mapping, one table page taken) or one synchronous *)
(* NAND operation: those are the points where the FTL thread may be left   *)
(* waiting.                                                                *)
(***************************************************************************)
EXTENDS Integers, Sequences, FiniteSets

CONSTANTS
  NUM_CHANNELS,       \* geometry of the flash (global_macro.h)
  DIES_PER_CHANNEL,
  PLANES_PER_DIE,
  BLOCKS_PER_PLANE,
  PAGES_PER_BLOCK,
  LOGICAL_PAGES,      \* logical pages the host uses: lpn 0 .. LOGICAL_PAGES-1
  MDTS_PAGES,         \* most pages of one program request
  RPP_MAP_TABLES,     \* ftl_config.rpp_map_tables: NAND pages the tables take
  MaxStores,          \* bound: how many times the tables are stored
  UNMAPPED,           \* lpa_table entry whose chn byte is 0xFF
  FREE_PPA, INVALID_PPA, RESERVED_PPA    \* the reserved ppa_table entries

ASSUME GeometryAssumption ==
  /\ NUM_CHANNELS \in Nat \ {0}
  /\ DIES_PER_CHANNEL \in Nat \ {0}
  /\ PLANES_PER_DIE \in Nat \ {0}
  /\ BLOCKS_PER_PLANE \in Nat \ {0}
  /\ PAGES_PER_BLOCK \in Nat /\ PAGES_PER_BLOCK >= 3   \* the config takes 3 pages

ASSUME SizeAssumption ==
  /\ LOGICAL_PAGES \in Nat
  /\ MDTS_PAGES \in Nat \ {0}
  /\ RPP_MAP_TABLES \in Nat \ {0}
  /\ MaxStores \in Nat

\* The page number of an address and the counters of blk_table are uint16_t.
ASSUME WidthAssumption == PAGES_PER_BLOCK <= 65535

Lpn == 0 .. LOGICAL_PAGES - 1

ASSUME EntryAssumption ==
  /\ FREE_PPA # INVALID_PPA /\ FREE_PPA # RESERVED_PPA /\ INVALID_PPA # RESERVED_PPA
  /\ {FREE_PPA, INVALID_PPA, RESERVED_PPA} \cap Lpn = {}

----------------------------------------------------------------------------
(* Addresses. A plane is named by its path; a ppa is a plane, a block and  *)
(* a page. find_free_page can step to block BLOCKS_PER_PLANE, one past the *)
(* plane, so a raw address ranges over one block more than the flash has.  *)

Plane == [chn: 0 .. NUM_CHANNELS - 1, die: 0 .. DIES_PER_CHANNEL - 1,
          plane: 0 .. PLANES_PER_DIE - 1]
Ppa == [pl: Plane, block: 0 .. BLOCKS_PER_PLANE - 1, page: 0 .. PAGES_PER_BLOCK - 1]
Block == [pl: Plane, block: 0 .. BLOCKS_PER_PLANE - 1]

ASSUME UnmappedAssumption == UNMAPPED \notin Ppa

PpaAt(pl, b, g) == [pl |-> pl, block |-> b, page |-> g]
BlockOf(p) == [pl |-> p.pl, block |-> p.block]

FirstPlane == [chn |-> 0, die |-> 0, plane |-> 0]
\* "write first n(3) page in flash": where the configuration is written
ConfigPages == { PpaAt(FirstPlane, 0, g) : g \in 0 .. 2 }

\* The plane whose entries follow pl's in ppa_table[chn][die][plane][..][..]
\* (pl itself if pl's are the last of the array).
MemNext(pl) ==
  IF pl.plane + 1 < PLANES_PER_DIE THEN [pl EXCEPT !.plane = @ + 1]
  ELSE IF pl.die + 1 < DIES_PER_CHANNEL THEN [pl EXCEPT !.die = @ + 1, !.plane = 0]
  ELSE IF pl.chn + 1 < NUM_CHANNELS THEN [chn |-> pl.chn + 1, die |-> 0, plane |-> 0]
  ELSE pl

\* The table entry an address with a block index one too large really names.
\* Past the array's end lie blk_table's counters or the MMU table (linkerS.ld):
\* neither can hold FREE_PPA.
Loc(p) == IF p.block < BLOCKS_PER_PLANE THEN p ELSE PpaAt(MemNext(p.pl), 0, p.page)
PastTheTable(p) == p.block >= BLOCKS_PER_PLANE /\ MemNext(p.pl) = p.pl

----------------------------------------------------------------------------
VARIABLES
  lpa_table,              \* lpn -> ppa or UNMAPPED
  ppa_table,              \* ppa -> lpn or FREE_PPA, INVALID_PPA, RESERVED_PPA
  valid_pgs, invalid_pgs, \* blk_table: uint16_t counters per block
  last_page_per_plane,    \* per plane, where the next search starts
  ftl_config,             \* totals, last_selected_ppa's plane, table pages
  last_searched_channel,  \* plane of the last search
  nand,                   \* content of the flash
  stage,                  \* what the FTL is doing
  todo,                   \* pages of the request still to be mapped
  op,                     \* the NAND program operation being put together
  written,                \* history: the last version the host wrote per lpn
  ver,                    \* history: versions handed out so far
  stores,                 \* table stores so far (bounded by MaxStores)
  clean                   \* nothing was mapped since the last table store

tables == <<lpa_table, ppa_table, valid_pgs, invalid_pgs, last_page_per_plane>>
vars == <<tables, ftl_config, last_searched_channel, nand, stage, todo, op,
          written, ver, stores, clean>>

Entry == Lpn \cup {FREE_PPA, INVALID_PPA, RESERVED_PPA}
\* A search may leave a cursor one page past the end of its block.
Cursor == [block: 0 .. BLOCKS_PER_PLANE, page: 0 .. PAGES_PER_BLOCK]
U16 == 0 .. 65535
FtlConfig == [total_valid: Int, total_invalid: Int, total_free: Int,
              last_selected: Plane, mapping_tables: Seq(Ppa)]

\* A page of a request still to be mapped; a page of a program operation.
TodoItem == [lpn: Lpn, val: Nat]
OpItem == [ppa: Ppa, val: Nat]

\* Contents of a NAND page.
Erased == [kind |-> "erased"]
User(v) == [kind |-> "user", val |-> v]
Piece(t, i) == [kind |-> "map", val |-> t, piece |-> i]
Config(c, i) == [kind |-> "config", val |-> c, part |-> i]

\* What the "mapping_tables" section holds when it is copied to flash.
Tables == [lpa |-> lpa_table, ppa |-> ppa_table, valid |-> valid_pgs,
           invalid |-> invalid_pgs, last |-> last_page_per_plane]

----------------------------------------------------------------------------
(* Looking for a free page. *)

\* Mutant: the die and the plane are never advanced.
NextPlane_channels_only(pl) ==
  [pl EXCEPT !.chn = IF pl.chn + 1 < NUM_CHANNELS THEN pl.chn + 1 ELSE 0]

\* find_free_page: the next plane, channels first, then dies, then planes
NextPlane(pl) ==
  IF pl.chn + 1 < NUM_CHANNELS THEN [pl EXCEPT !.chn = @ + 1]
  ELSE IF pl.die + 1 < DIES_PER_CHANNEL THEN [pl EXCEPT !.chn = 0, !.die = @ + 1]
  ELSE [chn |-> 0, die |-> 0,
        plane |-> IF pl.plane + 1 < PLANES_PER_DIE THEN pl.plane + 1 ELSE 0]

SearchPlane == NextPlane(last_searched_channel)

\* The i-th block the search visits: `if (block > BLOCKS_PER_PLANE) block = 0`
\* lets the index reach BLOCKS_PER_PLANE itself.
BlockAt(b, i) == IF b + i <= BLOCKS_PER_PLANE THEN b + i ELSE b + i - (BLOCKS_PER_PLANE + 1)

\* Mutant: a stale page counts as free.
IsFree_or_stale(p) == ~PastTheTable(p) /\ ppa_table[Loc(p)] \in {FREE_PPA, INVALID_PPA}

IsFree(p) == ~PastTheTable(p) /\ ppa_table[Loc(p)] = FREE_PPA

\* The free pages the search would meet, as <<block step, page>>.
FreeSteps(pl) ==
  LET cur == last_page_per_plane[pl] IN
  { s \in (0 .. BLOCKS_PER_PLANE - 1) \X (0 .. PAGES_PER_BLOCK - 1) :
      /\ s[1] = 0 => s[2] >= cur.page
      /\ IsFree(PpaAt(pl, BlockAt(cur.block, s[1]), s[2])) }

Earlier(s, t) == s[1] < t[1] \/ (s[1] = t[1] /\ s[2] <= t[2])

FindSucceeds == FreeSteps(SearchPlane) # {}

\* find_free_page's *new_ppa
NewPpa ==
  LET pl == SearchPlane
      fs == FreeSteps(pl)
      s  == CHOOSE x \in fs : \A y \in fs : Earlier(x, y)
  IN  PpaAt(pl, BlockAt(last_page_per_plane[pl].block, s[1]), s[2])

\* Mutant: the channel to search next is stored without the wrap.
Advance_no_wrap(p) ==
  /\ last_page_per_plane' = [last_page_per_plane EXCEPT ![p.pl] =
                               [block |-> p.block, page |-> p.page + 1]]
  /\ last_searched_channel' = [p.pl EXCEPT !.chn = @ + 1]

\* find_free_page's assignments on success
Advance(p) ==
  /\ last_page_per_plane' = [last_page_per_plane EXCEPT ![p.pl] =
                               [block |-> p.block, page |-> p.page + 1]]
  /\ last_searched_channel' = p.pl

----------------------------------------------------------------------------
(* Initial state: initialize_ftl on new flash media, the tables as         *)
(* gen_mapping_tables.cpp generates them.                                  *)

FirstPage == PpaAt(FirstPlane, 0, 0)
TotalPages == Cardinality(Ppa)

Init ==
  /\ lpa_table = [l \in Lpn |-> UNMAPPED]
  /\ ppa_table = [p \in Ppa |-> IF p = FirstPage THEN RESERVED_PPA ELSE FREE_PPA]
  /\ valid_pgs = [b \in Block |-> IF b = BlockOf(FirstPage) THEN 1 ELSE 0]
  /\ invalid_pgs = [b \in Block |-> 0]
  /\ last_page_per_plane = [pl \in Plane |->
        [block |-> 0, page |-> IF pl = FirstPlane THEN 1 ELSE 0]]
  /\ ftl_config = [total_valid |-> 1, total_invalid |-> 0, total_free |-> TotalPages - 1,
                   last_selected |-> FirstPlane, mapping_tables |-> <<>>]
  /\ last_searched_channel = FirstPlane
  /\ nand = [p \in Ppa |-> Erased]
  /\ stage = "idle"
  /\ todo = <<>> /\ op = <<>>
  /\ written = [l \in Lpn |-> 0]
  /\ ver = 0 /\ stores = 0 /\ clean = FALSE

----------------------------------------------------------------------------
(* Program requests: a write-back-cache flush or an ISP program request.   *)

\* process_req_cbk picks up a request for n pages from lpn on.
ProgramRequest(lpn, n) ==
  /\ stage = "idle"
  /\ stage' = "map"
  /\ todo' = [i \in 1 .. n |-> [lpn |-> lpn + i - 1, val |-> ver + i]]
  /\ op' = <<>>
  /\ written' = [l \in Lpn |-> IF l \in lpn .. lpn + n - 1 THEN ver + 1 + (l - lpn)
                               ELSE written[l]]
  /\ ver' = ver + n
  /\ clean' = FALSE
  /\ UNCHANGED <<tables, ftl_config, last_searched_channel, nand, stores>>

MapUnmapped(lpn, new) ==
  /\ ppa_table' = [ppa_table EXCEPT ![Loc(new)] = lpn]
  /\ valid_pgs' = [valid_pgs EXCEPT ![BlockOf(Loc(new))] = (@ + 1) % 65536]
  /\ UNCHANGED invalid_pgs
  /\ ftl_config' = [ftl_config EXCEPT !.total_valid = @ + 1, !.total_free = @ - 1,
                                      !.last_selected = new.pl]

\* Mutant: the page that was mapped is forgotten without being invalidated.
MapMapped_keeps_old(lpn, new, old) ==
  /\ ppa_table' = [ppa_table EXCEPT ![Loc(new)] = lpn]
  /\ valid_pgs' = [valid_pgs EXCEPT ![BlockOf(Loc(new))] = (@ + 1) % 65536]
  /\ UNCHANGED invalid_pgs
  /\ ftl_config' = [ftl_config EXCEPT !.total_invalid = @ + 1, !.total_free = @ - 1,
                                      !.last_selected = new.pl]

\* Mutant: the old block keeps counting the stale page as valid.
MapMapped_no_dec(lpn, new, old) ==
  /\ ppa_table' = [ppa_table EXCEPT ![Loc(old)] = INVALID_PPA, ![Loc(new)] = lpn]
  /\ valid_pgs' = [valid_pgs EXCEPT ![BlockOf(Loc(new))] = (@ + 1) % 65536]
  /\ invalid_pgs' = [invalid_pgs EXCEPT ![BlockOf(Loc(old))] = (@ + 1) % 65536]
  /\ ftl_config' = [ftl_config EXCEPT !.total_invalid = @ + 1, !.total_free = @ - 1,
                                      !.last_selected = new.pl]

MapMapped(lpn, new, old) ==
  /\ ppa_table' = [ppa_table EXCEPT ![Loc(old)] = INVALID_PPA, ![Loc(new)] = lpn]
  /\ valid_pgs' = [b \in Block |->
       (valid_pgs[b] + (IF b = BlockOf(Loc(new)) THEN 1 ELSE 0)
                     - (IF b = BlockOf(Loc(old)) THEN 1 ELSE 0)) % 65536]
  /\ invalid_pgs' = [invalid_pgs EXCEPT ![BlockOf(Loc(old))] = (@ + 1) % 65536]
  /\ ftl_config' = [ftl_config EXCEPT !.total_invalid = @ + 1, !.total_free = @ - 1,
                                      !.last_selected = new.pl]

\* make_new_mapping for the next page of the request, and the page's place
\* in the program operation (add_program_op_page).
MapPage ==
  /\ stage = "map" /\ todo # <<>>
  /\ FindSucceeds
  /\ LET lpn == Head(todo).lpn
         new == NewPpa
     IN  /\ Advance(new)
         /\ lpa_table' = [lpa_table EXCEPT ![lpn] = new]
         /\ IF lpa_table[lpn] = UNMAPPED THEN MapUnmapped(lpn, new)
                                         ELSE MapMapped(lpn, new, lpa_table[lpn])
         /\ op' = Append(op, [ppa |-> new, val |-> Head(todo).val])
  /\ todo' = Tail(todo)
  /\ UNCHANGED <<nand, stage, written, ver, stores, clean>>

\* sync_end_program_op, and the completion pushed to the NVMe driver.
ProgramPages ==
  /\ stage = "map" /\ todo = <<>>
  /\ nand' = [p \in Ppa |->
       LET hits == { i \in DOMAIN op : Loc(op[i].ppa) = p } IN
       IF hits = {} THEN nand[p]
       ELSE User(op[CHOOSE i \in hits : \A j \in hits : j <= i].val)]
  /\ stage' = "idle"
  /\ op' = <<>>
  /\ UNCHANGED <<tables, ftl_config, last_searched_channel, todo, written, ver,
                 stores, clean>>

\* get_free_ppa goes on to the next plane when find_free_page fails; with
\* no garbage collector it leaves this loop only if a page becomes free.
Spin ==
  /\ \/ stage = "map" /\ todo # <<>>
     \/ stage = "store" /\ Len(ftl_config.mapping_tables) < RPP_MAP_TABLES
  /\ ~FindSucceeds
  /\ last_searched_channel' = SearchPlane
  /\ UNCHANGED <<tables, ftl_config, nand, stage, todo, op, written, ver, stores, clean>>

----------------------------------------------------------------------------
(* Reading. ftl_process_read_io and __sync_read_pages change no state of   *)
(* the FTL: a page is read from its mapped NAND page, or as zeroes.        *)

ReadPage(lpn) ==
  IF lpa_table[lpn] = UNMAPPED THEN User(0) ELSE nand[Loc(lpa_table[lpn])]

----------------------------------------------------------------------------
(* Storing the tables on shutdown and loading them at the next start.      *)

StoreBegin ==
  /\ stage = "idle" /\ stores < MaxStores
  /\ stage' = "store"
  /\ stores' = stores + 1
  /\ clean' = FALSE
  /\ ftl_config' = [ftl_config EXCEPT !.mapping_tables = <<>>]
  /\ UNCHANGED <<tables, last_searched_channel, nand, todo, op, written, ver>>

\* One turn of "get free pages and mark them as INVALID in mapping table".
TakeTablePage ==
  /\ stage = "store" /\ Len(ftl_config.mapping_tables) < RPP_MAP_TABLES
  /\ FindSucceeds
  /\ LET new == NewPpa
     IN  /\ Advance(new)
         /\ ppa_table' = [ppa_table EXCEPT ![Loc(new)] = INVALID_PPA]
         /\ invalid_pgs' = [invalid_pgs EXCEPT ![BlockOf(Loc(new))] = (@ + 1) % 65536]
         /\ valid_pgs' = [valid_pgs EXCEPT ![BlockOf(Loc(new))] = (@ - 1) % 65536]
         /\ ftl_config' = [ftl_config EXCEPT !.mapping_tables = Append(@, new),
                                             !.last_selected = new.pl]
  /\ UNCHANGED <<lpa_table, nand, stage, todo, op, written, ver, stores, clean>>

\* Mutant: the configuration takes one page more, in the next block.
StoredNand_spills ==
  LET mt == ftl_config.mapping_tables IN
  [p \in Ppa |->
     IF p \in ConfigPages \/ p = PpaAt(FirstPlane, 1, 0)
     THEN Config(ftl_config, p.page)
     ELSE IF \E i \in DOMAIN mt : Loc(mt[i]) = p
          THEN Piece(Tables, CHOOSE i \in DOMAIN mt : Loc(mt[i]) = p)
          ELSE nand[p]]

\* Content of the flash after the table pages, then the configuration pages,
\* are programmed.
StoredNand ==
  LET mt == ftl_config.mapping_tables IN
  [p \in Ppa |->
     IF p \in ConfigPages THEN Config(ftl_config, p.page)
     ELSE IF \E i \in DOMAIN mt : Loc(mt[i]) = p
          THEN Piece(Tables, CHOOSE i \in DOMAIN mt : Loc(mt[i]) = p)
          ELSE nand[p]]

StoreTables ==
  /\ stage = "store" /\ Len(ftl_config.mapping_tables) = RPP_MAP_TABLES
  /\ nand' = StoredNand
  /\ stage' = "idle"
  /\ clean' = TRUE
  /\ UNCHANGED <<tables, ftl_config, last_searched_channel, todo, op, written, ver, stores>>

\* Each page the stored configuration names holds its piece of the tables.
TablesReadable ==
  LET mt == nand[FirstPage].val.mapping_tables IN
  \A i \in DOMAIN mt : nand[Loc(mt[i])].kind = "map" /\ nand[Loc(mt[i])].piece = i

\* A power cycle after a completed store: initialize_ftl finds a configuration
\* on the first page and restore_mapping_tables loads the tables. When a table
\* page was overwritten the firmware copies whatever it holds into the tables;
\* the model stops there, with stage "corrupt".
Restart ==
  /\ stage = "idle" /\ clean
  /\ IF TablesReadable
     THEN LET cfg == nand[FirstPage].val
              t   == nand[Loc(cfg.mapping_tables[1])].val
          IN  /\ ftl_config' = cfg
              /\ last_searched_channel' = cfg.last_selected
              /\ lpa_table' = t.lpa /\ ppa_table' = t.ppa
              /\ valid_pgs' = t.valid /\ invalid_pgs' = t.invalid
              /\ last_page_per_plane' = t.last
              /\ stage' = "idle"
     ELSE /\ stage' = "corrupt"
          /\ UNCHANGED <<tables, ftl_config, last_searched_channel>>
  /\ UNCHANGED <<nand, todo, op, written, ver, stores, clean>>

\* The firmware runs on with tables it cannot trust: nothing more is modelled.
RunCorrupt == stage = "corrupt" /\ UNCHANGED vars

----------------------------------------------------------------------------
Next ==
  \/ \E lpn \in Lpn, n \in 1 .. MDTS_PAGES :
       lpn + n <= LOGICAL_PAGES /\ ProgramRequest(lpn, n)
  \/ MapPage \/ ProgramPages \/ Spin
  \/ StoreBegin \/ TakeTablePage \/ StoreTables
  \/ Restart
  \/ RunCorrupt

Spec == Init /\ [][Next]_vars

----------------------------------------------------------------------------
(* Properties. *)

\* Every variable has the type the source declares for it.
TypeOK ==
  /\ lpa_table \in [Lpn -> Ppa \cup {UNMAPPED}]
  /\ ppa_table \in [Ppa -> Entry]
  /\ valid_pgs \in [Block -> U16] /\ invalid_pgs \in [Block -> U16]
  /\ last_page_per_plane \in [Plane -> Cursor]
  /\ last_searched_channel \in Plane
  /\ ftl_config \in FtlConfig
  /\ stage \in {"idle", "map", "store", "corrupt"} /\ clean \in BOOLEAN
  /\ todo \in Seq(TodoItem) /\ op \in Seq(OpItem)
  /\ ver \in Nat /\ stores \in Nat

\* lpa_table and ppa_table are inverse to each other: what make_new_mapping
\* maps, re-maps and invalidates never leaves two lpns on a page or a page
\* claimed by an lpn that moved, and a store and a restart keep it so.
MappingConsistent ==
  /\ \A l \in Lpn : lpa_table[l] # UNMAPPED => ppa_table[lpa_table[l]] = l
  /\ \A p \in Ppa : ppa_table[p] \in Lpn => lpa_table[ppa_table[p]] = p

NoFreePage == \A p \in Ppa : ppa_table[p] # FREE_PPA

\* get_free_ppa's loop turns more than once only when the flash is full, and
\* the page it returns lies inside the flash, although find_free_page looks
\* at a single plane and its block index may run one past the plane.
SearchExact ==
  /\ ~FindSucceeds => NoFreePage
  /\ FindSucceeds => NewPpa \in Ppa

\* Until the tables are first stored, blk_table and the totals of ftl_config
\* agree with ppa_table.
AccountingExact ==
  stores = 0 =>
    LET Count(e) == Cardinality({p \in Ppa : ppa_table[p] = e})
        In(b)    == {p \in Ppa : BlockOf(p) = b}
    IN  /\ ftl_config.total_free = Count(FREE_PPA)
        /\ ftl_config.total_invalid = Count(INVALID_PPA)
        /\ ftl_config.total_valid = Cardinality(Ppa) - Count(FREE_PPA) - Count(INVALID_PPA)
        /\ \A b \in Block :
             /\ invalid_pgs[b] = Cardinality({p \in In(b) : ppa_table[p] = INVALID_PPA})
             /\ valid_pgs[b] = Cardinality({p \in In(b) :
                                 ppa_table[p] \notin {INVALID_PPA, FREE_PPA}})

\* When the FTL is idle a read returns the host's last write, across stores
\* and restarts, for every page that store_mapping_tables does not overwrite
\* with the configuration.
DataIntact ==
  stage = "idle" =>
    \A l \in Lpn : ReadPage(l) = User(written[l]) \/ lpa_table[l] \in ConfigPages

\* A NAND page is programmed at most once (there is no erase in the firmware),
\* the three configuration pages excepted.
ProgramOnce ==
  [][\A p \in Ppa \ ConfigPages : nand[p] # Erased => nand'[p] = nand[p]]_vars

\* What a clean shutdown is for: after the tables are stored and loaded again
\* every page reads as last written. The code does not provide this: pages 1
\* and 2 of the first block are programmed with the configuration although
\* only page 0 was reserved for it.
DataSurvivesShutdown ==
  /\ stage # "corrupt"
  /\ stage = "idle" => \A l \in Lpn : ReadPage(l) = User(written[l])

----------------------------------------------------------------------------
(* The inductive strengthening: allocation is perfectly balanced. *)

\* The order in which a round visits the planes.
AtOrBefore(x, y) ==
  \/ x.plane < y.plane
  \/ x.plane = y.plane /\ x.die < y.die
  \/ x.plane = y.plane /\ x.die = y.die /\ x.chn <= y.chn

LastCursor == [block |-> BLOCKS_PER_PLANE - 1, page |-> PAGES_PER_BLOCK]

\* The cursor a plane had one allocation earlier.
PrevCursor(c) ==
  IF c.page > 1 THEN [block |-> c.block, page |-> c.page - 1]
  ELSE IF c.block > 0 THEN [block |-> c.block - 1, page |-> PAGES_PER_BLOCK]
  ELSE [block |-> 0, page |-> 0]

\* Planes already visited in this round are one page ahead of the others.
RoundBalanced ==
  LET cur == last_page_per_plane[last_searched_channel] IN
  /\ cur.block < BLOCKS_PER_PLANE /\ cur.page >= 1
  /\ \A pl \in Plane : last_page_per_plane[pl] =
       IF AtOrBefore(pl, last_searched_channel) THEN cur ELSE PrevCursor(cur)

Full == \A pl \in Plane : last_page_per_plane[pl] = LastCursor

\* A page is free exactly if it lies at or after its plane's cursor.
FreeBeyondCursor ==
  \A p \in Ppa :
    LET cur == last_page_per_plane[p.pl] IN
    ppa_table[p] = FREE_PPA <=>
      \/ p.block > cur.block
      \/ p.block = cur.block /\ p.page >= cur.page

\* While the tables are being stored, their pages are distinct and taken, and
\* once they are complete the last search is the last successful one.
StoreProgress ==
  LET mt == ftl_config.mapping_tables IN
  stage = "store" =>
    /\ \A i \in DOMAIN mt : ppa_table[mt[i]] # FREE_PPA
    /\ \A i, j \in DOMAIN mt : mt[i] = mt[j] => i = j
    /\ Len(mt) = RPP_MAP_TABLES => last_searched_channel = ftl_config.last_selected

\* After a store the flash holds the tables and the configuration of RAM,
\* but for table pages that were configuration pages.
StoredImage ==
  LET mt == ftl_config.mapping_tables IN
  clean =>
    /\ stage \in {"idle", "corrupt"}
    /\ nand[FirstPage] = Config(ftl_config, 0)
    /\ Len(mt) = RPP_MAP_TABLES
    /\ last_searched_channel = ftl_config.last_selected
    /\ \A i \in DOMAIN mt : nand[mt[i]] = Piece(Tables, i) \/ nand[mt[i]].kind = "config"

\* What find_free_page relies on: balanced rounds and nothing free behind a
\* cursor; and what restore_mapping_tables relies on: a stored image that
\* equals RAM.
AllocatorInv ==
  /\ RoundBalanced \/ Full
  /\ FreeBeyondCursor
  /\ StoreProgress
  /\ StoredImage
=============================================================================
