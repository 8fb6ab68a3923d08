--------------------------- MODULE TableFileProofs --------------------------
(***************************************************************************)
(* One table file under INSERT, rollback, LOAD and scans, for any number   *)
(* of sessions, scanners, rows, pages and lines: TableFile keeps RowsStay  *)
(* and ScanIsExact whatever the sessions do, and TableInv as long as they  *)
(* do not insert into a page that LOAD has left full.                      *)
(*                                                                         *)
(* Rows stay because LOAD fills a page from its first free slot on         *)
(* (LoadInv) and INSERT takes a free slot.  Scans are exact because no row *)
(* is ever in two places, and none comes back (RowsInv): behind a scan are *)
(* the rows it has seen, before it those it has not (ScanInv).  No room is *)
(* lost because the list of free pages is a chain without a cycle that has *)
(* every page with a free slot, and no page from which a row may be taken  *)
(* back is on it and full (ListInvariant).                                 *)
(***************************************************************************)
EXTENDS TableFile, RecordFileProofs

Cells == {NoRow} \cup 1 .. MaxRows

Places == [page_no : Nat, slot_no : 0 .. SlotsPerPage]

Lines == [ok : BOOLEAN, row : 1 .. MaxRows]

LoadStates ==
    [step : LoadSteps, lines : Seq(Lines), batch : SUBSET (1 .. MaxRows), wanted : SUBSET Int,
     page_no : Int, pos : Int, to_load : Int]

ScanStates ==
    [on : BOOLEAN, page_no : Nat, slot_no : -1 .. SlotsPerPage - 1,
     began : SUBSET (1 .. MaxRows), seen : SUBSET (1 .. MaxRows), count : Nat]

-----------------------------------------------------------------------------
(* The inductive invariant *)

(* Links lead to pages of the file. *)
LinksIn(f) ==
    /\ f.first_free_page_no \in {NoPage} \cup DOMAIN f.pages
    /\ \A p \in DOMAIN f.pages : f.pages[p].next_free_page_no \in {NoPage} \cup DOMAIN f.pages

Types ==
    /\ file \in Files(Cells, Int) /\ LinksIn(file)
    /\ made \in 0 .. MaxRows
    /\ status \in [Sessions -> {"idle", "running", "undoing"}]
    /\ write_set \in [Sessions -> Seq(Places)]
    /\ load \in LoadStates
    /\ scan \in [Scanners -> ScanStates]

(* A session has something to take back unless it is idle. *)
SessionsInv ==
    \A w \in Sessions :
        /\ status[w] = "idle" <=> write_set[w] = << >>
        /\ \A k \in DOMAIN write_set[w] : write_set[w][k].page_no \in DOMAIN file.pages

(* The slots of a page are taken in ascending order. *)
FilledUp(page) == \E k \in 0 .. SlotsPerPage : FreeSlots(page) = k .. SlotsPerPage - 1

LoadInv ==
    /\ load.step \in {"none", "open", "parse"} => load.batch = {}
    /\ Loading =>
        /\ \A w \in Sessions : status[w] = "idle"
        /\ \A p \in DOMAIN file.pages : FilledUp(file.pages[p])
        /\ load.step \in {"page", "row"} => load.page_no \in DOMAIN file.pages
        /\ load.step = "row" =>
              /\ load.pos \in 0 .. SlotsPerPage
              /\ FreeSlots(file.pages[load.page_no]) = load.pos .. SlotsPerPage - 1
              /\ load.to_load \in 0 .. SlotsPerPage - load.pos
              /\ load.to_load <= Cardinality(load.batch)

(* Rows that LOAD has still to write *)
LineRows == {load.lines[i].row : i \in DOMAIN load.lines}

Pending == IF Loading THEN load.batch \cup LineRows ELSE {}

(* Rows that are or were in the file *)
Used == RowsOf(file) \cup UNION {scan[r].began \cup scan[r].seen : r \in Scanners}

RowsInv ==
    /\ Used \subseteq 1 .. made /\ Pending \subseteq 1 .. made
    /\ Used \cap Pending = {}
    /\ \A p, q \in RidsOf(file) : (row(file, p) # NoRow /\ row(file, p) = row(file, q)) => p = q
    /\ Loading =>
          /\ load.batch \cap LineRows = {}
          /\ \A i, j \in DOMAIN load.lines : load.lines[i].row = load.lines[j].row => i = j

(* The places a scan has not come to *)
Ahead(s, rid) ==
    rid.page_no > s.page_no \/ (rid.page_no = s.page_no /\ rid.slot_no > s.slot_no)

ScanInv(s, f) ==
    /\ s.count = Cardinality(s.seen) /\ s.page_no \in 0 .. num_pages(f)
    /\ s.on =>
          /\ s.page_no \in 1 .. num_pages(f)
          /\ \A rid \in RidsOf(f) : Ahead(s, rid) => row(f, rid) \notin s.seen
          /\ \A rid \in RidsOf(f) : row(f, rid) \in s.began => row(f, rid) \in s.seen \/ Ahead(s, rid)

TableIndInv ==
    /\ Types /\ SessionsInv /\ LoadInv /\ RowsInv
    /\ \A r \in Scanners : ScanInv(scan[r], file)

(* The list of free pages: L[1], ..., L[n], no page twice *)
Chain(f, n, L) ==
    /\ \A i, j \in 1 .. n : L[i] = L[j] => i = j
    /\ f.first_free_page_no = IF n = 0 THEN NoPage ELSE L[1]
    /\ \A i \in 1 .. n : f.pages[L[i]].next_free_page_no = IF i = n THEN NoPage ELSE L[i + 1]

(* It has all pages with a free slot, and no page of taken is on it full. *)
IsList(f, taken, n, L) ==
    /\ Chain(f, n, L)
    /\ \A p \in DOMAIN f.pages : FreeSlots(f.pages[p]) # {} => \E i \in 1 .. n : L[i] = p
    /\ \A i \in 1 .. n : L[i] \in taken => FreeSlots(f.pages[L[i]]) # {}

ListOf(f, taken) ==
    \E n \in Nat : \E L \in [1 .. n -> DOMAIN f.pages] : IsList(f, taken, n, L)

(* The pages from which a row may be taken back *)
Taken == {p \in DOMAIN file.pages :
             \E w \in Sessions : \E k \in DOMAIN write_set[w] : write_set[w][k].page_no = p}

ListInvariant ==
    /\ ListOf(file, Taken)
    /\ \A w \in Sessions : \A k \in DOMAIN write_set[w] : write_set[w][k].slot_no \in Slots

-----------------------------------------------------------------------------
(* What the operations do to the rows *)

(* g has the rows of f, or some of them, and in free slots those of X. *)
Changed(f, g, X) ==
    /\ DOMAIN f.pages \subseteq DOMAIN g.pages
    /\ Len(f.pages) <= Len(g.pages)
    /\ \A q \in RidsOf(g) :
          row(g, q) \in {NoRow} \cup X \/ (q \in RidsOf(f) /\ row(g, q) = row(f, q))
    /\ \A p, q \in RidsOf(g) : (row(g, p) \in X /\ row(g, p) = row(g, q)) => p = q

(* g has all rows of f where they were. *)
Kept(f, g) == \A q \in RidsOf(f) : row(f, q) # NoRow => row(g, q) = row(f, q)

(* Facts about a file of TableFile *)
LEMMA FileFacts ==
    ASSUME NEW f \in Files(Cells, Int)
    PROVE  /\ f.first_free_page_no \in Int
           /\ Len(f.pages) \in Nat
           /\ DOMAIN f.pages = 1 .. Len(f.pages)
           /\ num_pages(f) = Len(f.pages) + 1
           /\ \A p \in DOMAIN f.pages : f.pages[p] \in Pages(Cells, Int)
           /\ \A rid \in RidsOf(f) : row(f, rid) \in Cells
           /\ \A rid \in RidsOf(f) : rid.page_no \in DOMAIN f.pages /\ rid.slot_no \in Slots
  BY PagesOfFile DEF RidsOf

(* create_new_page_handle adds an empty page. *)
LEMMA PageAdded ==
    ASSUME NEW f \in Files(Cells, Int), LinksIn(f)
    PROVE  LET g == create_new_page_handle(f)
               n == Len(f.pages) + 1
           IN  /\ g \in Files(Cells, Int) /\ LinksIn(g)
               /\ Changed(f, g, {}) /\ Kept(f, g)
               /\ Len(g.pages) = n /\ DOMAIN g.pages = 1 .. n
               /\ g.first_free_page_no = n
               /\ g.pages[n] = EmptyPage(f.first_free_page_no)
               /\ \A q \in DOMAIN f.pages : g.pages[q] = f.pages[q]
<1> DEFINE g == create_new_page_handle(f)
           n == Len(f.pages) + 1
<1>1. Len(f.pages) \in Nat /\ DOMAIN f.pages = 1 .. Len(f.pages) /\ num_pages(f) = n
  BY FileFacts
<1>2. /\ g \in Files(Cells, Int)
      /\ Len(g.pages) = n
      /\ g.first_free_page_no = n
      /\ \A q \in DOMAIN f.pages : g.pages[q] = f.pages[q]
      /\ g.pages[n] = EmptyPage(f.first_free_page_no)
      /\ \A rid \in RidsOf(f) : rid \in RidsOf(g) /\ row(g, rid) = row(f, rid)
      /\ \A rid \in RidsOf(g) : rid.page_no = n => row(g, rid) = NoRow
      /\ \A rid \in RidsOf(g) : rid.page_no # n => rid \in RidsOf(f)
  <2>1. NoRow \in Cells /\ num_pages(f) \in Int
    BY <1>1 DEF Cells
  <2> QED
    BY <2>1, NewPage
<1>3. DOMAIN g.pages = 1 .. n
  BY <1>2, FileFacts
<1> HIDE DEF g
<1>4. LinksIn(g)
  <2>1. \A q \in DOMAIN g.pages : g.pages[q].next_free_page_no =
           IF q = n THEN f.first_free_page_no ELSE f.pages[q].next_free_page_no
    BY <1>1, <1>2, <1>3 DEF EmptyPage
  <2> QED
    BY <1>1, <1>2, <1>3, <2>1 DEF LinksIn
<1>5. Changed(f, g, {})
  BY <1>1, <1>2, <1>3 DEF Changed
<1>6. Kept(f, g)
  BY <1>2 DEF Kept
<1> QED
  BY <1>2, <1>3, <1>4, <1>5, <1>6 DEF g

(* A write of one slot that was free *)
LEMMA PutChanges ==
    ASSUME NEW f, NEW m, NEW g, NEW rid \in RidsOf(m), NEW x, x # NoRow,
           Changed(f, m, {}), Kept(f, m), DOMAIN g.pages = DOMAIN m.pages, Len(g.pages) = Len(m.pages),
           Wrote(m, g, rid, x), row(m, rid) = NoRow,
           \A q \in RidsOf(f) : q \in RidsOf(m),
           \A q \in RidsOf(f) : row(f, q) # x
    PROVE  Changed(f, g, {x}) /\ Kept(f, g)
<1>1. RidsOf(g) = RidsOf(m)
  BY DEF RidsOf
<1>2. \A q \in RidsOf(m) : row(g, q) = IF q = rid THEN x ELSE row(m, q)
  BY DEF Wrote
<1>3. \A q \in RidsOf(m) : row(m, q) = NoRow \/ (q \in RidsOf(f) /\ row(m, q) = row(f, q))
  BY DEF Changed
<1>4. \A q \in RidsOf(m) : row(g, q) = x => q = rid
  BY <1>2, <1>3
<1>5. Changed(f, g, {x})
  BY <1>1, <1>2, <1>3, <1>4 DEF Changed
<1>6. Kept(f, g)
  BY <1>2 DEF Kept
<1> QED
  BY <1>5, <1>6

(* insert_record puts the row into a free slot, or behind the last slot of *)
(* a full page, which is none.                                             *)
LEMMA InsertChanges ==
    ASSUME NEW f \in Files(Cells, Int), LinksIn(f), NEW x \in Cells, x # NoRow,
           \A q \in RidsOf(f) : row(f, q) # x
    PROVE  LET g == insert_record(f, x)
           IN  /\ g \in Files(Cells, Int) /\ LinksIn(g)
               /\ Changed(f, g, {x}) /\ Kept(f, g)
               /\ FreeRid(f) \in Places /\ FreeRid(f).page_no \in DOMAIN g.pages
<1> DEFINE m == Room(f)
           p == m.first_free_page_no
           rid == FreeRid(f)
           g == insert_record(f, x)
<1>1. NoRow \in Cells /\ NoPage \in Int /\ num_pages(f) \in Int
  <2>1. Len(f.pages) \in Nat /\ num_pages(f) = Len(f.pages) + 1
    BY FileFacts
  <2> QED
    BY <2>1 DEF Cells, NoPage
<1>2. rid = [page_no |-> p, slot_no |-> first_bit(m.pages[p])]
  BY DEF FreeRid
<1>3. CASE HeadOpen(f)
  <2>1. InsertedRow(f, g, x) /\ g \in Files(Cells, Int)
    BY <1>1, <1>3, Inserted
  <2>2. /\ m \in Files(Cells, Int) /\ LinksIn(m)
        /\ Changed(f, m, {}) /\ Kept(f, m)
        /\ \A q \in RidsOf(f) : q \in RidsOf(m)
    <3>1. CASE f.first_free_page_no = NoPage
      <4>1. m = create_new_page_handle(f)
        BY <3>1 DEF Room
      <4>2. m \in Files(Cells, Int) /\ LinksIn(m) /\ Changed(f, m, {}) /\ Kept(f, m)
        BY <4>1, PageAdded
      <4> QED
        BY <4>2 DEF Changed, RidsOf
    <3>2. CASE f.first_free_page_no # NoPage
      <4>1. m = f
        BY <3>2 DEF Room
      <4>2. Changed(f, f, {}) /\ Kept(f, f)
        BY FileFacts DEF Changed, Kept
      <4> QED
        BY <4>1, <4>2
    <3> QED
      BY <3>1, <3>2
  <2> HIDE DEF m, rid, g
  <2>3. /\ DOMAIN g.pages = DOMAIN m.pages /\ Len(g.pages) = Len(m.pages)
        /\ rid \in RidsOf(m) /\ rid.page_no = p /\ row(m, rid) = NoRow
        /\ Wrote(m, g, rid, x)
    BY <2>1 DEF InsertedRow, m, rid
  <2>4. \/ SameList(m, g)
        \/ /\ g.first_free_page_no = m.pages[p].next_free_page_no
           /\ \A q \in DOMAIN m.pages :
                 g.pages[q].next_free_page_no =
                    IF q = p THEN NoPage ELSE m.pages[q].next_free_page_no
    BY <2>1 DEF InsertedRow, m
  <2>5. p \in DOMAIN m.pages
    BY <2>3 DEF RidsOf
  <2>6. LinksIn(g)
    BY <2>2, <2>3, <2>4, <2>5 DEF LinksIn, SameList
  <2>7. Changed(f, g, {x}) /\ Kept(f, g)
    BY <2>2, <2>3, PutChanges
  <2>8. rid \in Places
    BY <1>2, <2>2, <2>3, FileFacts, PagesHaveSlots DEF RidsOf, Places, Slots
  <2> QED
    BY <2>1, <2>3, <2>5, <2>6, <2>7, <2>8 DEF g, rid
<1>4. CASE ~HeadOpen(f)
  <2>1. /\ m = f /\ p \in DOMAIN f.pages /\ FreeSlots(f.pages[p]) = {}
    BY <1>4 DEF HeadOpen, LinksIn, Room
  <2>2. first_bit(m.pages[p]) = SlotsPerPage
    BY <2>1 DEF first_bit
  <2>3. rid = [page_no |-> p, slot_no |-> SlotsPerPage]
    BY <1>2, <2>2
  <2>4. SlotsPerPage \notin Slots
    BY PagesHaveSlots DEF Slots
  <2>5. g = f
    BY <2>3, <2>4 DEF insert_record
  <2>6. Changed(f, f, {x}) /\ Kept(f, f)
    BY FileFacts DEF Changed, Kept
  <2>7. rid \in Places /\ rid.page_no \in DOMAIN f.pages
    BY <2>1, <2>3, FileFacts, PagesHaveSlots DEF Places
  <2> QED
    BY <2>5, <2>6, <2>7
<1> QED
  BY <1>3, <1>4

(* A write outside of the slots of a page changes nothing. *)
LEMMA NoSlot ==
    ASSUME NEW f \in Files(Cells, Int), NEW rid \in Places, rid.page_no \in DOMAIN f.pages,
           rid.slot_no \notin Slots, NEW x
    PROVE  SetRow(f, rid, x) = f
<1> DEFINE p == rid.page_no
           s == rid.slot_no
           old == f.pages[p]
<1>1. old \in Pages(Cells, Int)
  BY FileFacts
<1>2. [old EXCEPT !.rows[s] = x] = old
  BY <1>1 DEF Pages
<1>3. [f.pages EXCEPT ![p] = old] = f.pages
  <2>1. f.pages \in Seq(Pages(Cells, Int))
    BY PagesOfFile
  <2> DEFINE S == Pages(Cells, Int)
             t == f.pages
  <2> HIDE DEF S, t
  <2>2. t \in Seq(S) => [t EXCEPT ![p] = t[p]] = t
    OBVIOUS
  <2> QED
    BY <2>1, <2>2 DEF S, t
<1>4. f = [first_free_page_no |-> f.first_free_page_no, pages |-> f.pages]
  BY FileFields
<1>5. SetRow(f, rid, x) = [f EXCEPT !.pages = [f.pages EXCEPT ![p] = [old EXCEPT !.rows[s] = x]]]
  BY DEF SetRow
<1> QED
  BY <1>2, <1>3, <1>4, <1>5

(* delete_record takes at most the row in that slot. *)
LEMMA DeleteChanges ==
    ASSUME NEW f \in Files(Cells, Int), LinksIn(f), NEW rid \in Places, rid.page_no \in DOMAIN f.pages
    PROVE  LET g == delete_record(f, rid)
           IN  /\ g \in Files(Cells, Int) /\ LinksIn(g)
               /\ Changed(f, g, {})
               /\ \A q \in RidsOf(f) : row(g, q) = row(f, q) \/ (q = rid /\ row(g, q) = NoRow)
<1> DEFINE p == rid.page_no
           g == delete_record(f, rid)
<1>1. NoRow \in Cells /\ p \in Int
  BY DEF Cells, Places
<1>2. /\ g \in Files(Cells, Int)
      /\ DOMAIN g.pages = DOMAIN f.pages /\ Len(g.pages) = Len(f.pages)
      /\ \A q \in RidsOf(f) : row(g, q) = row(f, q) \/ (q = rid /\ row(g, q) = NoRow)
      /\ \/ SameList(f, g)
         \/ /\ g.first_free_page_no = p
            /\ \A q \in DOMAIN f.pages : g.pages[q].next_free_page_no =
                  IF q = p THEN f.first_free_page_no ELSE f.pages[q].next_free_page_no
  <2>1. CASE rid.slot_no \in Slots
    <3>1. rid \in RidsOf(f)
      BY <2>1 DEF Places, RidsOf
    <3>2. DeletedRow(f, g, rid) /\ g \in Files(Cells, Int)
      BY <1>1, <3>1, Deleted
    <3> HIDE DEF g
    <3> QED
      BY <3>2 DEF DeletedRow, Wrote
  <2>2. CASE rid.slot_no \notin Slots
    <3>1. SetRow(f, rid, NoRow) = f
      BY <2>2, NoSlot
    <3>2. g = f \/ (g = release_page_handle(f, p) /\ f.first_free_page_no # p)
      BY <3>1 DEF delete_record, release_page_handle
    <3> HIDE DEF g
    <3>3. CASE g = f
      BY <3>3 DEF SameList
    <3>4. CASE g = release_page_handle(f, p) /\ f.first_free_page_no # p
      <4>1. /\ g \in Files(Cells, Int)
            /\ Len(g.pages) = Len(f.pages)
            /\ \A q \in DOMAIN f.pages : g.pages[q].rows = f.pages[q].rows
            /\ g.first_free_page_no = p
            /\ \A q \in DOMAIN f.pages : g.pages[q].next_free_page_no =
                  IF q = p THEN f.first_free_page_no ELSE f.pages[q].next_free_page_no
        BY <1>1, <3>4, ReleaseLinks
      <4>2. DOMAIN g.pages = 1 .. Len(g.pages) /\ DOMAIN f.pages = 1 .. Len(f.pages)
        BY <4>1, FileFacts
      <4>3. \A q \in RidsOf(f) : row(g, q) = row(f, q)
        BY <4>1 DEF RidsOf, row
      <4> QED
        BY <4>1, <4>2, <4>3
    <3> QED
      BY <3>2, <3>3, <3>4
  <2> QED
    BY <2>1, <2>2
<1> HIDE DEF g
<1>3. LinksIn(g)
  BY <1>2 DEF LinksIn, SameList
<1>4. Changed(f, g, {})
  <2>1. Len(f.pages) \in Nat
    BY FileFacts
  <2>2. RidsOf(g) = RidsOf(f)
    BY <1>2 DEF RidsOf
  <2> QED
    BY <1>2, <2>1, <2>2 DEF Changed
<1> QED
  BY <1>2, <1>3, <1>4 DEF g

(* A write into a free slot *)
LEMMA RowPut ==
    ASSUME NEW f \in Files(Cells, Int), LinksIn(f), NEW rid \in RidsOf(f), row(f, rid) = NoRow,
           NEW x \in Cells, x # NoRow, \A q \in RidsOf(f) : row(f, q) # x
    PROVE  LET g == SetRow(f, rid, x)
           IN  /\ g \in Files(Cells, Int) /\ LinksIn(g)
               /\ Changed(f, g, {x}) /\ Kept(f, g)
               /\ SameList(f, g)
               /\ DOMAIN g.pages = DOMAIN f.pages
               /\ \A q \in DOMAIN f.pages : q # rid.page_no => g.pages[q] = f.pages[q]
               /\ FreeSlots(g.pages[rid.page_no]) = FreeSlots(f.pages[rid.page_no]) \ {rid.slot_no}
<1> DEFINE g == SetRow(f, rid, x)
<1>1. /\ g \in Files(Cells, Int) /\ Len(g.pages) = Len(f.pages)
      /\ Wrote(f, g, rid, x) /\ SameList(f, g)
      /\ \A q \in DOMAIN f.pages : q # rid.page_no => g.pages[q] = f.pages[q]
  BY SetRowWrites
<1> HIDE DEF g
<1>2. DOMAIN g.pages = DOMAIN f.pages
  BY <1>1 DEF Wrote
<1>3. LinksIn(g)
  BY <1>1, <1>2 DEF LinksIn, SameList
<1>4. Changed(f, f, {}) /\ Kept(f, f)
  BY FileFacts DEF Changed, Kept
<1>5. Changed(f, g, {x}) /\ Kept(f, g)
  BY <1>1, <1>2, <1>4, PutChanges
<1>6. \A q \in DOMAIN f.pages : \A s \in Slots :
         g.pages[q].rows[s] = IF q = rid.page_no /\ s = rid.slot_no THEN x
                              ELSE f.pages[q].rows[s]
  <2>1. Wrote(f, g, rid, x)
    BY <1>1
  <2> QED
    BY <2>1, WroteSlots
<1>7. rid.page_no \in DOMAIN f.pages
  BY DEF RidsOf
<1>8. FreeSlots(g.pages[rid.page_no]) = FreeSlots(f.pages[rid.page_no]) \ {rid.slot_no}
  BY <1>6, <1>7 DEF FreeSlots
<1> QED
  BY <1>1, <1>2, <1>3, <1>5, <1>8 DEF g

-----------------------------------------------------------------------------
(* Rows and scans under a change *)

(* The scans stay exact when rows go, or new ones come into free slots. *)
LEMMA RowsChange ==
    ASSUME Types, RowsInv, NEW X \in SUBSET (1 .. MaxRows), NEW g \in Files(Cells, Int),
           Changed(file, g, X), X \cap Used = {}
    PROVE  /\ RowsOf(g) \subseteq RowsOf(file) \cup X
           /\ \A p, q \in RidsOf(g) : (row(g, p) # NoRow /\ row(g, p) = row(g, q)) => p = q
           /\ \A r \in Scanners : ScanInv(scan[r], file) => ScanInv(scan[r], g)
<1>1. \A q \in RidsOf(g) :
          row(g, q) \in {NoRow} \cup X \/ (q \in RidsOf(file) /\ row(g, q) = row(file, q))
  BY DEF Changed
<1>2. RowsOf(g) \subseteq RowsOf(file) \cup X
  BY <1>1 DEF RowsOf
<1>3. NoRow \notin X
  BY EmptySlotIsNoRow
<1>4. \A q \in RidsOf(file) : row(file, q) # NoRow => row(file, q) \in Used
  BY DEF RowsOf, Used
<1>5. ASSUME NEW p \in RidsOf(g), NEW q \in RidsOf(g), row(g, p) # NoRow, row(g, p) = row(g, q)
      PROVE  p = q
  <2>1. CASE row(g, p) \in X
    BY <1>5, <2>1 DEF Changed
  <2>2. CASE row(g, p) \notin X
    BY <1>1, <1>5, <2>2 DEF RowsInv
  <2> QED
    BY <2>1, <2>2
<1>6. ASSUME NEW r \in Scanners, ScanInv(scan[r], file)
      PROVE  ScanInv(scan[r], g)
  <2> DEFINE s == scan[r]
  <2>1. s.seen \subseteq Used /\ s.began \subseteq Used
    BY DEF Used
  <2>2. NoRow \notin s.seen /\ NoRow \notin s.began
    <3>1. s \in ScanStates
      BY DEF Types
    <3> QED
      BY <3>1, EmptySlotIsNoRow DEF ScanStates
  <2>3. \A x \in X : x \notin s.seen /\ x \notin s.began
    BY <2>1
  <2> HIDE DEF s
  <2>4. \A q \in RidsOf(g) : row(g, q) \in s.seen \cup s.began =>
           q \in RidsOf(file) /\ row(g, q) = row(file, q)
    BY <1>1, <2>2, <2>3
  <2>5. ScanInv(s, file)
    BY <1>6 DEF s
  <2>6. s.page_no \in 0 .. num_pages(g) /\ (s.on => s.page_no \in 1 .. num_pages(g))
    <3>1. Len(file.pages) \in Nat /\ num_pages(file) = Len(file.pages) + 1
      BY FileFacts DEF Types
    <3>2. Len(g.pages) \in Nat /\ num_pages(g) = Len(g.pages) + 1
      BY FileFacts
    <3> QED
      BY <2>5, <3>1, <3>2 DEF ScanInv, Changed
  <2> QED
    BY <2>4, <2>5, <2>6 DEF ScanInv, s
<1> QED
  BY <1>2, <1>5, <1>6

-----------------------------------------------------------------------------
(* The sessions *)

(* What a step that changes the file only in free slots, or takes rows     *)
(* away, does to the rows used and to the scans.                           *)
LEMMA FileStep ==
    ASSUME TableIndInv, NEW X \in SUBSET (1 .. MaxRows), file' \in Files(Cells, Int),
           Changed(file, file', X), X \cap Used = {}, scan' = scan
    PROVE  /\ Used' \subseteq Used \cup X
           /\ \A p, q \in RidsOf(file') :
                 (row(file', p) # NoRow /\ row(file', p) = row(file', q)) => p = q
           /\ \A r \in Scanners : ScanInv(scan'[r], file')
<1>1. Types /\ RowsInv /\ \A r \in Scanners : ScanInv(scan[r], file)
  BY DEF TableIndInv
<1>2. /\ RowsOf(file') \subseteq RowsOf(file) \cup X
      /\ \A p, q \in RidsOf(file') :
            (row(file', p) # NoRow /\ row(file', p) = row(file', q)) => p = q
      /\ \A r \in Scanners : ScanInv(scan[r], file) => ScanInv(scan[r], file')
  BY <1>1, RowsChange
<1>3. Used' \subseteq Used \cup X
  BY <1>2 DEF Used
<1> QED
  BY <1>1, <1>2, <1>3

(* insert_record under the latch keeps the invariant. *)
LEMMA InsertKeeps ==
    ASSUME TableIndInv, NEW w \in Sessions, insert(w)
    PROVE  TableIndInv' /\ Kept(file, file')
<1> USE BoundsAreNumbers
<1> DEFINE x == made + 1
           rid == FreeRid(file)
<1>1. Types /\ SessionsInv /\ RowsInv
  BY DEF TableIndInv
<1>2. /\ ~Loading /\ made < MaxRows /\ status[w] \in {"idle", "running"}
      /\ file' = insert_record(file, x) /\ made' = x
      /\ status' = [status EXCEPT ![w] = "running"]
      /\ write_set' = [write_set EXCEPT ![w] = Append(@, rid)]
      /\ load' = load /\ scan' = scan
  BY DEF insert
<1>3. x \in 1 .. MaxRows /\ x \in Cells /\ x # NoRow /\ {x} \in SUBSET (1 .. MaxRows)
  BY <1>1, <1>2, EmptySlotIsNoRow DEF Types, Cells
<1>4. {x} \cap Used = {}
  BY <1>1, <1>2 DEF Types, RowsInv
<1>5. \A q \in RidsOf(file) : row(file, q) # x
  BY <1>3, <1>4 DEF Used, RowsOf
<1>6. /\ file' \in Files(Cells, Int) /\ LinksIn(file')
      /\ Changed(file, file', {x}) /\ Kept(file, file')
      /\ rid \in Places /\ rid.page_no \in DOMAIN file'.pages
  BY <1>1, <1>2, <1>3, <1>5, InsertChanges DEF Types
<1>7. /\ Used' \subseteq Used \cup {x}
      /\ \A p, q \in RidsOf(file') :
            (row(file', p) # NoRow /\ row(file', p) = row(file', q)) => p = q
      /\ \A r \in Scanners : ScanInv(scan'[r], file')
  BY <1>2, <1>3, <1>4, <1>6, FileStep
<1> HIDE DEF rid
<1>8. /\ \A v \in Sessions : v # w => write_set'[v] = write_set[v] /\ status'[v] = status[v]
      /\ write_set'[w] = Append(write_set[w], rid) /\ status'[w] = "running"
      /\ write_set[w] \in Seq(Places)
  BY <1>1, <1>2 DEF Types
<1>9. write_set'[w] \in Seq(Places)
  BY <1>6, <1>8
<1>10. Types'
  <2>1. write_set' \in [Sessions -> Seq(Places)]
    BY <1>1, <1>2, <1>8, <1>9 DEF Types
  <2>2. status' \in [Sessions -> {"idle", "running", "undoing"}]
    BY <1>1, <1>2 DEF Types
  <2>3. made' \in 0 .. MaxRows
    BY <1>2, <1>3
  <2> QED
    BY <1>1, <1>2, <1>6, <2>1, <2>2, <2>3 DEF Types
<1>11. SessionsInv'
  <2>1. DOMAIN file.pages \subseteq DOMAIN file'.pages
    BY <1>6 DEF Changed
  <2>2. ASSUME NEW v \in Sessions
        PROVE  /\ status'[v] = "idle" <=> write_set'[v] = << >>
               /\ \A k \in DOMAIN write_set'[v] : write_set'[v][k].page_no \in DOMAIN file'.pages
    <3>1. CASE v # w
      BY <1>1, <1>8, <2>1, <3>1 DEF SessionsInv
    <3>2. CASE v = w
      <4>1. Append(write_set[w], rid) # << >>
        BY <1>8
      <4>2. \A k \in DOMAIN write_set'[w] :
               write_set'[w][k] = rid \/ (k \in DOMAIN write_set[w] /\ write_set'[w][k] = write_set[w][k])
        BY <1>8
      <4> QED
        BY <1>1, <1>6, <1>8, <2>1, <3>2, <4>1, <4>2 DEF SessionsInv
    <3> QED
      BY <3>1, <3>2
  <2> QED
    BY <2>2 DEF SessionsInv
<1>12. LoadInv'
  BY <1>2 DEF LoadInv, Loading, TableIndInv
<1>13. RowsInv'
  <2>1. Used' \subseteq 1 .. made'
    BY <1>1, <1>2, <1>3, <1>7 DEF RowsInv, Types
  <2>2. ~Loading' /\ Pending' = {}
    BY <1>2 DEF Pending, Loading
  <2> QED
    BY <1>7, <2>1, <2>2 DEF RowsInv
<1> QED
  BY <1>6, <1>7, <1>10, <1>11, <1>12, <1>13 DEF TableIndInv

(* commit and abort change the sessions only. *)
LEMMA EndKeeps ==
    ASSUME TableIndInv, NEW w \in Sessions, commit(w) \/ abort(w)
    PROVE  TableIndInv' /\ file' = file
<1>1. Types /\ SessionsInv /\ LoadInv /\ RowsInv /\ \A r \in Scanners : ScanInv(scan[r], file)
  BY DEF TableIndInv
<1>2. /\ file' = file /\ made' = made /\ load' = load /\ scan' = scan
      /\ status[w] = "running"
      /\ \A v \in Sessions \ {w} : status'[v] = status[v] /\ write_set'[v] = write_set[v]
      /\ \/ status'[w] = "idle" /\ write_set'[w] = << >>
         \/ status'[w] = "undoing" /\ write_set'[w] = write_set[w]
  BY <1>1 DEF Types, commit, abort
<1>3. Types'
  <2>1. write_set' \in [Sessions -> Seq(Places)]
    <3>1. << >> \in Seq(Places) /\ write_set \in [Sessions -> Seq(Places)]
      BY <1>1 DEF Types
    <3>2. write_set' = write_set \/ write_set' = [write_set EXCEPT ![w] = << >>]
      BY DEF commit, abort
    <3> QED
      BY <3>1, <3>2
  <2>2. status' \in [Sessions -> {"idle", "running", "undoing"}]
    BY <1>1 DEF Types, commit, abort
  <2> QED
    BY <1>1, <1>2, <2>1, <2>2 DEF Types
<1>4. SessionsInv'
  <2>1. ASSUME NEW v \in Sessions
        PROVE  /\ status'[v] = "idle" <=> write_set'[v] = << >>
               /\ \A k \in DOMAIN write_set'[v] : write_set'[v][k].page_no \in DOMAIN file'.pages
    <3>1. CASE v # w
      BY <1>1, <1>2, <3>1 DEF SessionsInv
    <3>2. CASE v = w
      BY <1>1, <1>2, <3>2 DEF SessionsInv
    <3> QED
      BY <3>1, <3>2
  <2> QED
    BY <2>1 DEF SessionsInv
<1>5. LoadInv'
  <2>1. ~Loading
    BY <1>1, <1>2 DEF LoadInv
  <2> QED
    BY <1>1, <1>2, <2>1 DEF LoadInv, Loading
<1>6. RowsInv'
  BY <1>1, <1>2 DEF RowsInv, Used, Pending, Loading, LineRows
<1>7. \A r \in Scanners : ScanInv(scan'[r], file')
  BY <1>1, <1>2
<1> QED
  BY <1>2, <1>3, <1>4, <1>5, <1>6, <1>7 DEF TableIndInv

(* The empty sequence is the one of length 0. *)
LEMMA EmptyOrNot ==
    ASSUME NEW S, NEW s \in Seq(S)
    PROVE  s = << >> <=> Len(s) = 0
<1>1. s = << >> => Len(s) = 0
  OBVIOUS
<1>2. Len(s) = 0 => s = << >>
  OBVIOUS
<1> QED
  BY <1>1, <1>2

(* Front leaves out the last member. *)
LEMMA FrontOf ==
    ASSUME NEW S, NEW s \in Seq(S), s # << >>
    PROVE  /\ Front(s) \in Seq(S)
           /\ Front(s) = << >> <=> Len(s) = 1
           /\ \A k \in DOMAIN Front(s) : k \in DOMAIN s /\ Front(s)[k] = s[k]
<1> DEFINE n == Len(s)
           t == SubSeq(s, 1, n - 1)
<1>1. Front(s) = t
  BY DEF Front
<1>2. n \in Nat /\ n > 0 /\ DOMAIN s = 1 .. n
  OBVIOUS
<1>3. t \in Seq(S) /\ Len(t) = n - 1
  BY <1>2
<1>4. DOMAIN t = 1 .. n - 1 /\ \A k \in 1 .. n - 1 : t[k] = s[k]
  BY <1>2
<1> HIDE DEF t
<1>5. t = << >> <=> Len(t) = 0
  <2>1. t \in Seq(S)
    BY <1>3
  <2> QED
    BY <2>1, EmptyOrNot
<1>6. n - 1 = 0 <=> n = 1
  BY <1>2
<1> QED
  BY <1>1, <1>2, <1>3, <1>4, <1>5, <1>6

(* The rollback of one insert takes the row of that session's last place, *)
(* and no other.                                                          *)
LEMMA RollbackKeeps ==
    ASSUME TableIndInv, NEW w \in Sessions, rollback_insert(w)
    PROVE  /\ TableIndInv'
           /\ \A q \in RidsOf(file) :
                 row(file', q) = row(file, q) \/ (q = Last(write_set[w]) /\ row(file', q) = NoRow)
<1> DEFINE ws == write_set[w]
           n  == Len(ws)
           rid == Last(ws)
<1>1. Types /\ SessionsInv /\ LoadInv /\ RowsInv
  BY DEF TableIndInv
<1>2. /\ status[w] = "undoing"
      /\ file' = delete_record(file, rid)
      /\ write_set' = [write_set EXCEPT ![w] = Front(@)]
      /\ status' = [status EXCEPT ![w] = IF n = 1 THEN "idle" ELSE @]
      /\ made' = made /\ load' = load /\ scan' = scan
  BY DEF rollback_insert
<1>3. ws \in Seq(Places) /\ ws # << >> /\ n \in Nat /\ n > 0
  <2>1. ws \in Seq(Places) /\ ws # << >>
    BY <1>1, <1>2 DEF Types, SessionsInv
  <2> HIDE DEF ws
  <2> QED
    BY <2>1
<1>4. rid \in Places /\ rid.page_no \in DOMAIN file.pages
  <2>1. n \in DOMAIN ws /\ rid = ws[n] /\ ws[n] \in Places
    BY <1>3 DEF Last
  <2> QED
    BY <1>1, <2>1 DEF SessionsInv
<1>5. /\ Front(ws) \in Seq(Places)
      /\ Front(ws) = << >> <=> n = 1
      /\ \A k \in DOMAIN Front(ws) : k \in DOMAIN ws /\ Front(ws)[k] = ws[k]
  BY <1>3, FrontOf
<1>6. /\ file' \in Files(Cells, Int) /\ LinksIn(file')
      /\ Changed(file, file', {})
      /\ \A q \in RidsOf(file) :
            row(file', q) = row(file, q) \/ (q = rid /\ row(file', q) = NoRow)
  BY <1>1, <1>2, <1>4, DeleteChanges DEF Types
<1>7. /\ Used' \subseteq Used \cup {}
      /\ \A p, q \in RidsOf(file') :
            (row(file', p) # NoRow /\ row(file', p) = row(file', q)) => p = q
      /\ \A r \in Scanners : ScanInv(scan'[r], file')
  BY <1>2, <1>6, FileStep
<1> HIDE DEF ws, rid
<1>8. /\ \A v \in Sessions : v # w => write_set'[v] = write_set[v] /\ status'[v] = status[v]
      /\ write_set'[w] = Front(ws) /\ status'[w] = IF n = 1 THEN "idle" ELSE "undoing"
  BY <1>1, <1>2 DEF Types, ws
<1>9. Types'
  <2>1. write_set' \in [Sessions -> Seq(Places)]
    BY <1>1, <1>2, <1>5, <1>8 DEF Types
  <2>2. status' \in [Sessions -> {"idle", "running", "undoing"}]
    BY <1>1, <1>2, <1>8 DEF Types
  <2> QED
    BY <1>1, <1>2, <1>6, <2>1, <2>2 DEF Types
<1>10. SessionsInv'
  <2>1. DOMAIN file.pages \subseteq DOMAIN file'.pages
    BY <1>6 DEF Changed
  <2>2. ASSUME NEW v \in Sessions
        PROVE  /\ status'[v] = "idle" <=> write_set'[v] = << >>
               /\ \A k \in DOMAIN write_set'[v] : write_set'[v][k].page_no \in DOMAIN file'.pages
    <3>1. CASE v # w
      BY <1>1, <1>8, <2>1, <3>1 DEF SessionsInv
    <3>2. CASE v = w
      BY <1>1, <1>5, <1>8, <2>1, <3>2 DEF SessionsInv, ws
    <3> QED
      BY <3>1, <3>2
  <2> QED
    BY <2>2 DEF SessionsInv
<1>11. LoadInv'
  <2>1. ~Loading
    BY <1>1, <1>2 DEF LoadInv
  <2> QED
    BY <1>1, <1>2, <2>1 DEF LoadInv, Loading
<1>12. RowsInv'
  <2>1. Loading' = Loading /\ Pending' = Pending /\ LineRows' = LineRows
    BY <1>2 DEF Loading, Pending, LineRows
  <2> QED
    BY <1>1, <1>2, <1>7, <2>1 DEF RowsInv
<1> QED
  BY <1>6, <1>7, <1>9, <1>10, <1>11, <1>12 DEF TableIndInv, rid, ws

-----------------------------------------------------------------------------
(* LOAD *)

(* LOAD starts on a file without rows, with numbers that nobody has had. *)
LEMMA LoadTableKeeps ==
    ASSUME TableIndInv, NEW lines \in Csvs, load_table(lines)
    PROVE  TableIndInv' /\ file' = file
<1> USE BoundsAreNumbers
<1> DEFINE n == Len(lines)
           new == [i \in DOMAIN lines |-> [ok |-> lines[i], row |-> made + i]]
           wanted == {made + i : i \in Parsed(lines)}
<1>1. Types /\ SessionsInv /\ LoadInv /\ RowsInv /\ \A r \in Scanners : ScanInv(scan[r], file)
  BY DEF TableIndInv
<1>2. n \in Nat /\ DOMAIN lines = 1 .. n /\ \A i \in 1 .. n : lines[i] \in BOOLEAN
  <2>1. PICK m \in 1 .. MaxLines : lines \in [1 .. m -> BOOLEAN]
    BY DEF Csvs
  <2>2. lines \in Seq(BOOLEAN)
    BY <2>1
  <2> QED
    BY <2>2
<1>3. /\ load.step = "none" /\ RowsOf(file) = {} /\ \A w \in Sessions : status[w] = "idle"
      /\ made + n <= MaxRows /\ made' = made + n
      /\ load' = [load EXCEPT !.step = "open", !.lines = new, !.wanted = wanted]
      /\ file' = file /\ status' = status /\ write_set' = write_set /\ scan' = scan
  BY DEF load_table
<1>4. made \in Nat /\ made + n \in 0 .. MaxRows
  BY <1>1, <1>2, <1>3 DEF Types
<1>5. new \in Seq(Lines) /\ DOMAIN new = 1 .. n /\ \A i \in 1 .. n : new[i].row = made + i
  <2>1. \A i \in 1 .. n : [ok |-> lines[i], row |-> made + i] \in Lines
    BY <1>2, <1>4 DEF Lines
  <2>2. new \in [1 .. n -> Lines]
    BY <1>2, <2>1
  <2>3. \A S : \A f \in [1 .. n -> S] : f \in Seq(S)
    BY <1>2
  <2> QED
    BY <1>2, <2>2, <2>3
<1>6. wanted \in SUBSET Int
  BY <1>2, <1>4 DEF Parsed
<1>7. /\ load'.step = "open" /\ load'.lines = new /\ load'.batch = {}
      /\ load' \in LoadStates
  <2>1. load \in LoadStates /\ load.batch = {}
    BY <1>1, <1>3 DEF Types, LoadInv
  <2> HIDE DEF new, wanted
  <2> QED
    BY <1>3, <1>5, <1>6, <2>1 DEF LoadStates, LoadSteps
<1> HIDE DEF new, wanted
<1>8. Loading' /\ LineRows' = {made + i : i \in 1 .. n} /\ Pending' = {made + i : i \in 1 .. n}
  BY <1>5, <1>7 DEF Loading, LineRows, Pending
<1>9. Types'
  BY <1>1, <1>3, <1>4, <1>7 DEF Types
<1>10. SessionsInv'
  BY <1>1, <1>3 DEF SessionsInv
<1>11. LoadInv'
  <2>1. ASSUME NEW p \in DOMAIN file.pages PROVE FilledUp(file.pages[p])
    <3>1. \A s \in Slots : file.pages[p].rows[s] = NoRow
      <4> TAKE s \in Slots
      <4> DEFINE q == [page_no |-> p, slot_no |-> s]
      <4>1. q \in RidsOf(file) /\ row(file, q) = file.pages[p].rows[s]
        BY DEF RidsOf, row
      <4> QED
        BY <1>3, <4>1 DEF RowsOf
    <3>2. FreeSlots(file.pages[p]) = 0 .. SlotsPerPage - 1
      BY <3>1 DEF FreeSlots, Slots
    <3> QED
      BY <3>2, PagesHaveSlots DEF FilledUp
  <2> QED
    BY <1>3, <1>7, <2>1 DEF LoadInv
<1>12. RowsInv'
  <2>1. Used' = Used
    BY <1>3 DEF Used
  <2>2. Used \subseteq 1 .. made
    BY <1>1 DEF RowsInv
  <2>3. Pending' \subseteq 1 .. made' /\ Used' \cap Pending' = {} /\ Used' \subseteq 1 .. made'
    BY <1>2, <1>3, <1>4, <1>8, <2>1, <2>2
  <2>4. load'.batch \cap LineRows' = {}
    BY <1>7
  <2>5. \A i, j \in DOMAIN load'.lines : load'.lines[i].row = load'.lines[j].row => i = j
    BY <1>2, <1>4, <1>5, <1>7
  <2> QED
    BY <1>1, <1>3, <2>3, <2>4, <2>5 DEF RowsInv
<1> QED
  BY <1>1, <1>3, <1>9, <1>10, <1>11, <1>12 DEF TableIndInv

(* A step of LOAD that leaves the file and the rows to load as they are,   *)
(* or loads some of them no more.                                          *)
LEMMA LoadStep ==
    ASSUME TableIndInv, file' = file, made' = made, status' = status, write_set' = write_set,
           scan' = scan, load' \in LoadStates,
           LoadInv', Pending' \subseteq Pending,
           Loading' => /\ load'.batch \cap LineRows' = {}
                       /\ \A i, j \in DOMAIN load'.lines :
                             load'.lines[i].row = load'.lines[j].row => i = j
    PROVE  TableIndInv'
<1>1. Types /\ SessionsInv /\ RowsInv /\ \A r \in Scanners : ScanInv(scan[r], file)
  BY DEF TableIndInv
<1>2. Types'
  BY <1>1 DEF Types
<1>3. SessionsInv'
  BY <1>1 DEF SessionsInv
<1>4. Used' = Used
  BY DEF Used
<1>5. RowsInv'
  BY <1>1, <1>4 DEF RowsInv
<1> QED
  BY <1>1, <1>2, <1>3, <1>5 DEF TableIndInv

(* The file of lines is opened, or LOAD ends. *)
LEMMA OpenKeeps ==
    ASSUME TableIndInv, open_csv
    PROVE  TableIndInv' /\ file' = file
<1>1. Types /\ LoadInv /\ RowsInv /\ load \in LoadStates
  BY DEF TableIndInv, Types
<1>2. /\ file' = file /\ made' = made /\ status' = status /\ write_set' = write_set /\ scan' = scan
      /\ load.step = "open"
  BY DEF open_csv
<1>3. Loading /\ load.batch = {}
  BY <1>1, <1>2 DEF Loading, LoadInv
<1>4. CASE load' = [load EXCEPT !.step = "parse"]
  <2>1. /\ load' \in LoadStates /\ load'.step = "parse" /\ load'.batch = load.batch
        /\ load'.lines = load.lines
    BY <1>1, <1>4 DEF LoadStates, LoadSteps
  <2>2. Loading' /\ LineRows' = LineRows /\ Pending' = Pending
    BY <1>3, <2>1 DEF Loading, LineRows, Pending
  <2>3. LoadInv'
    BY <1>1, <1>2, <1>3, <2>1 DEF LoadInv
  <2>4. /\ load'.batch \cap LineRows' = {}
        /\ \A i, j \in DOMAIN load'.lines : load'.lines[i].row = load'.lines[j].row => i = j
    BY <1>1, <1>3, <2>1, <2>2 DEF RowsInv
  <2> QED
    BY <1>2, <2>1, <2>2, <2>3, <2>4, LoadStep
<1>5. CASE load' = [load EXCEPT !.step = "none", !.lines = << >>, !.wanted = {}]
  <2>1. load' \in LoadStates /\ load'.step = "none" /\ load'.batch = {}
    <3>1. << >> \in Seq(Lines) /\ {} \in SUBSET Int
      OBVIOUS
    <3> DEFINE no == << >>
    <3> HIDE DEF no
    <3>2. load' = [load EXCEPT !.step = "none", !.lines = no, !.wanted = {}] /\ no \in Seq(Lines)
      BY <1>5, <3>1 DEF no
    <3> QED
      BY <1>1, <1>3, <3>1, <3>2 DEF LoadStates, LoadSteps
  <2>2. ~Loading' /\ Pending' = {}
    BY <2>1 DEF Loading, Pending
  <2>3. LoadInv'
    BY <2>1, <2>2 DEF LoadInv
  <2> QED
    BY <1>2, <2>1, <2>2, <2>3, LoadStep
<1> QED
  BY <1>2, <1>4, <1>5 DEF open_csv

(* A sequence without its first members *)
LEMMA RestOf ==
    ASSUME NEW S, NEW s \in Seq(S), NEW b \in Nat
    PROVE  LET t == SubSeq(s, b + 1, Len(s))
           IN  /\ t \in Seq(S)
               /\ \A i \in DOMAIN t : i \in Nat /\ i > 0 /\ i + b \in DOMAIN s /\ t[i] = s[i + b]
<1> DEFINE n == Len(s)
           t == SubSeq(s, b + 1, n)
<1>1. n \in Nat /\ DOMAIN s = 1 .. n
  OBVIOUS
<1>2. t \in Seq(S)
  BY <1>1
<1>3. Len(t) = IF b + 1 <= n THEN n - b ELSE 0
  BY <1>1
<1>4. \A i \in 1 .. Len(t) : t[i] = s[i + b]
  BY <1>1, <1>3
<1>5. DOMAIN t = 1 .. Len(t)
  BY <1>2
<1> HIDE DEF t
<1> DEFINE m == Len(t)
<1>6. m = IF b + 1 <= n THEN n - b ELSE 0
  BY <1>3
<1> HIDE DEF m, n
<1>7. \A i \in 1 .. m : i \in Nat /\ i > 0 /\ i + b \in 1 .. n
  BY <1>1, <1>6
<1> QED
  BY <1>1, <1>2, <1>4, <1>5, <1>7 DEF t, m, n

(* A batch takes the next lines, and no line twice. *)
LEMMA ReadKeeps ==
    ASSUME TableIndInv, read_batch
    PROVE  TableIndInv' /\ file' = file
<1> USE BoundsAreNumbers
<1> DEFINE n == Len(load.lines)
           picked == {j \in 1 .. n : j <= BatchSize /\ load.lines[j].ok}
           batch == {load.lines[i].row : i \in picked}
           rest == SubSeq(load.lines, BatchSize + 1, n)
<1>1. Types /\ LoadInv /\ RowsInv /\ load \in LoadStates
  BY DEF TableIndInv, Types
<1>2. /\ file' = file /\ made' = made /\ status' = status /\ write_set' = write_set /\ scan' = scan
      /\ load.step = "parse"
      /\ load' = IF batch = {} THEN [load EXCEPT !.step = "done"]
                 ELSE [load EXCEPT !.step = "insert", !.batch = batch, !.lines = rest]
  BY DEF read_batch
<1>3. Loading
  BY <1>2 DEF Loading
<1>4. load.lines \in Seq(Lines)
  BY <1>1 DEF LoadStates
<1>5. /\ rest \in Seq(Lines)
      /\ \A i \in DOMAIN rest : /\ i \in Nat /\ i > 0
                                /\ i + BatchSize \in DOMAIN load.lines
                                /\ rest[i] = load.lines[i + BatchSize]
  BY <1>4, RestOf
<1>6. DOMAIN load.lines = 1 .. n /\ \A i \in 1 .. n : load.lines[i] \in Lines
  BY <1>4
<1>7. batch \in SUBSET (1 .. MaxRows)
  BY <1>6 DEF Lines
<1>8. \A i, j \in DOMAIN load.lines : load.lines[i].row = load.lines[j].row => i = j
  BY <1>1, <1>3 DEF RowsInv
<1>9. CASE batch = {}
  <2>1. load' = [load EXCEPT !.step = "done"]
    BY <1>2, <1>9
  <2>2. load' \in LoadStates /\ load'.step = "done"
    BY <1>1, <2>1 DEF LoadStates, LoadSteps
  <2>3. ~Loading' /\ Pending' = {}
    BY <2>2 DEF Loading, Pending
  <2>4. LoadInv'
    BY <2>2, <2>3 DEF LoadInv
  <2> QED
    BY <1>2, <2>2, <2>3, <2>4, LoadStep
<1>10. CASE batch # {}
  <2> HIDE DEF rest, batch
  <2>1. load' = [load EXCEPT !.step = "insert", !.batch = batch, !.lines = rest]
    BY <1>2, <1>10
  <2>2. load' \in LoadStates /\ load'.step = "insert" /\ load'.batch = batch /\ load'.lines = rest
    BY <1>1, <1>5, <1>7, <2>1 DEF LoadStates, LoadSteps
  <2>3. Loading'
    BY <2>2 DEF Loading
  <2>4. LineRows' = {rest[i].row : i \in DOMAIN rest}
    BY <2>2 DEF LineRows
  <2>5. batch \subseteq LineRows /\ LineRows' \subseteq LineRows
    BY <1>5, <1>6, <2>4 DEF LineRows, batch
  <2>6. Pending' \subseteq Pending
    BY <1>3, <2>2, <2>3, <2>5 DEF Pending
  <2>7. load'.batch \cap LineRows' = {}
    <3>1. SUFFICES ASSUME NEW i \in picked, NEW j \in DOMAIN rest, load.lines[i].row = rest[j].row
                   PROVE  FALSE
      BY <2>2, <2>4 DEF batch
    <3>2. i = j + BatchSize
      BY <1>5, <1>6, <1>8, <3>1
    <3> QED
      BY <1>5, <3>2
  <2>8. \A i, j \in DOMAIN load'.lines : load'.lines[i].row = load'.lines[j].row => i = j
    <3>1. SUFFICES ASSUME NEW i \in DOMAIN rest, NEW j \in DOMAIN rest, rest[i].row = rest[j].row
                   PROVE  i = j
      BY <2>2
    <3>2. i + BatchSize = j + BatchSize
      BY <1>5, <1>8, <3>1
    <3> QED
      BY <1>5, <3>2
  <2>9. LoadInv'
    BY <1>1, <1>2, <1>3, <2>2 DEF LoadInv
  <2> QED
    BY <1>2, <2>2, <2>6, <2>7, <2>8, <2>9, LoadStep
<1> QED
  BY <1>9, <1>10

(* A new page is filled up to its first slot. *)
LEMMA NewPageFilledUp ==
    ASSUME NEW link
    PROVE  FreeSlots(EmptyPage(link)) = Slots /\ FilledUp(EmptyPage(link))
<1>1. FreeSlots(EmptyPage(link)) = Slots
  BY DEF FreeSlots, EmptyPage
<1> QED
  BY <1>1, PagesHaveSlots DEF FilledUp, Slots

(* A step of LOAD that adds a page, or none. *)
LEMMA PageStep ==
    ASSUME TableIndInv, Loading, file' = file \/ file' = create_new_page_handle(file),
           made' = made, status' = status, write_set' = write_set, scan' = scan,
           load' \in LoadStates, load'.lines = load.lines, load'.batch = load.batch,
           load'.step \in {"parse", "page"}, load'.step = "parse" => load.batch = {},
           load'.step = "page" => load'.page_no \in DOMAIN file'.pages
    PROVE  TableIndInv' /\ Kept(file, file')
<1>1. Types /\ SessionsInv /\ LoadInv /\ RowsInv
  BY DEF TableIndInv
<1>2. /\ file' \in Files(Cells, Int) /\ LinksIn(file')
      /\ Changed(file, file', {}) /\ Kept(file, file')
      /\ \A p \in DOMAIN file'.pages :
            \/ p \in DOMAIN file.pages /\ file'.pages[p] = file.pages[p]
            \/ \E link : file'.pages[p] = EmptyPage(link)
  <2>1. file \in Files(Cells, Int) /\ LinksIn(file)
    BY <1>1 DEF Types
  <2>2. CASE file' = file
    <3>1. Changed(file, file, {}) /\ Kept(file, file)
      BY <2>1, FileFacts DEF Changed, Kept
    <3> QED
      BY <2>1, <2>2, <3>1
  <2>3. CASE file' = create_new_page_handle(file)
    <3> DEFINE n == Len(file.pages) + 1
    <3>1. /\ file' \in Files(Cells, Int) /\ LinksIn(file')
          /\ Changed(file, file', {}) /\ Kept(file, file')
          /\ DOMAIN file'.pages = 1 .. n
          /\ file'.pages[n] = EmptyPage(file.first_free_page_no)
          /\ \A q \in DOMAIN file.pages : file'.pages[q] = file.pages[q]
      BY <2>1, <2>3, PageAdded
    <3>2. Len(file.pages) \in Nat /\ DOMAIN file.pages = 1 .. Len(file.pages)
      BY <2>1, FileFacts
    <3>3. \A p \in 1 .. n : p = n \/ p \in DOMAIN file.pages
      BY <3>2
    <3> QED
      BY <3>1, <3>3
  <2> QED
    BY <2>2, <2>3
<1>3. /\ Used' \subseteq Used \cup {}
      /\ \A p, q \in RidsOf(file') :
            (row(file', p) # NoRow /\ row(file', p) = row(file', q)) => p = q
      /\ \A r \in Scanners : ScanInv(scan'[r], file')
  BY <1>2, FileStep
<1>4. Types'
  BY <1>1, <1>2 DEF Types
<1>5. SessionsInv'
  BY <1>1, <1>2 DEF SessionsInv, Changed
<1>6. Loading' /\ LineRows' = LineRows /\ Pending' = Pending
  BY DEF Loading, LineRows, Pending
<1>7. LoadInv'
  <2>1. \A p \in DOMAIN file'.pages : FilledUp(file'.pages[p])
    BY <1>1, <1>2, NewPageFilledUp DEF LoadInv
  <2> QED
    BY <1>1, <2>1 DEF LoadInv
<1>8. RowsInv'
  BY <1>1, <1>3, <1>6 DEF RowsInv
<1> QED
  BY <1>2, <1>3, <1>4, <1>5, <1>7, <1>8 DEF TableIndInv

(* insert_records comes to a page. *)
LEMMA RecordsKeeps ==
    ASSUME TableIndInv, insert_records
    PROVE  TableIndInv' /\ Kept(file, file')
<1>1. file \in Files(Cells, Int) /\ LinksIn(file) /\ load \in LoadStates
  BY DEF TableIndInv, Types
<1>2. /\ load.step = "insert"
      /\ file' = IF file.first_free_page_no = NoPage THEN create_new_page_handle(file) ELSE file
      /\ load' = [load EXCEPT !.step = "page", !.page_no = file'.first_free_page_no]
      /\ made' = made /\ status' = status /\ write_set' = write_set /\ scan' = scan
  BY DEF insert_records
<1>3. file'.first_free_page_no \in DOMAIN file'.pages /\ file'.first_free_page_no \in Int
  <2>1. CASE file.first_free_page_no = NoPage
    <3> DEFINE n == Len(file.pages) + 1
    <3>1. file' = create_new_page_handle(file)
      BY <1>2, <2>1
    <3>2. DOMAIN file'.pages = 1 .. n /\ file'.first_free_page_no = n
      BY <1>1, <3>1, PageAdded
    <3>3. Len(file.pages) \in Nat
      BY <1>1, FileFacts
    <3> QED
      BY <3>2, <3>3
  <2>2. CASE file.first_free_page_no # NoPage
    <3>1. file' = file
      BY <1>2, <2>2
    <3>2. file.first_free_page_no \in Int
      BY <1>1, FileFacts
    <3> QED
      BY <1>1, <2>2, <3>1, <3>2 DEF LinksIn
  <2> QED
    BY <2>1, <2>2
<1>4. /\ load' \in LoadStates /\ load'.lines = load.lines /\ load'.batch = load.batch
      /\ load'.step = "page" /\ load'.page_no = file'.first_free_page_no
  BY <1>1, <1>2, <1>3 DEF LoadStates, LoadSteps
<1>5. Loading /\ (file' = file \/ file' = create_new_page_handle(file))
  BY <1>2 DEF Loading
<1> QED
  BY <1>2, <1>3, <1>4, <1>5, PageStep

(* The next page is the same, or a new one when that is full. *)
LEMMA FilledKeeps ==
    ASSUME TableIndInv, page_filled
    PROVE  TableIndInv' /\ Kept(file, file')
<1>1. file \in Files(Cells, Int) /\ LinksIn(file) /\ load \in LoadStates /\ LoadInv
  BY DEF TableIndInv, Types
<1>2. /\ load.step = "row"
      /\ file' = IF FreeSlots(file.pages[load.page_no]) = {}
                   THEN create_new_page_handle(file) ELSE file
      /\ load' = [load EXCEPT !.step = IF load.batch = {} THEN "parse" ELSE "page",
                              !.page_no = IF file' = file THEN @ ELSE file'.first_free_page_no]
      /\ made' = made /\ status' = status /\ write_set' = write_set /\ scan' = scan
  BY DEF page_filled
<1>3. Loading /\ load.page_no \in DOMAIN file.pages
  BY <1>1, <1>2 DEF Loading, LoadInv
<1> DEFINE no == IF file' = file THEN load.page_no ELSE file'.first_free_page_no
<1>4. no \in DOMAIN file'.pages /\ no \in Int
  <2>1. CASE file' = file
    BY <1>1, <1>3, <2>1 DEF LoadStates
  <2>2. CASE file' # file
    <3> DEFINE n == Len(file.pages) + 1
    <3>1. file' = create_new_page_handle(file)
      BY <1>2, <2>2
    <3>2. DOMAIN file'.pages = 1 .. n /\ file'.first_free_page_no = n
      BY <1>1, <3>1, PageAdded
    <3>3. Len(file.pages) \in Nat
      BY <1>1, FileFacts
    <3> QED
      BY <2>2, <3>2, <3>3
  <2> QED
    BY <2>1, <2>2
<1>5. load' = [load EXCEPT !.step = IF load.batch = {} THEN "parse" ELSE "page", !.page_no = no]
  BY <1>2
<1> HIDE DEF no
<1>6. /\ load' \in LoadStates /\ load'.lines = load.lines /\ load'.batch = load.batch
      /\ load'.step = (IF load.batch = {} THEN "parse" ELSE "page") /\ load'.page_no = no
  BY <1>1, <1>4, <1>5 DEF LoadStates, LoadSteps
<1>7. file' = file \/ file' = create_new_page_handle(file)
  BY <1>2
<1> QED
  BY <1>2, <1>3, <1>4, <1>6, <1>7, PageStep

(* LOAD sees how many rows go into the page. *)
LEMMA LoadPageKeeps ==
    ASSUME TableIndInv, load_page
    PROVE  TableIndInv' /\ file' = file
<1> USE BoundsAreNumbers, PagesHaveSlots
<1> DEFINE page == file.pages[load.page_no]
           avail == Cardinality(FreeSlots(page))
           P == {avail, Cardinality(load.batch)}
<1>1. Types /\ LoadInv /\ RowsInv /\ load \in LoadStates
  BY DEF TableIndInv, Types
<1>2. /\ file' = file /\ made' = made /\ status' = status /\ write_set' = write_set /\ scan' = scan
      /\ load.step = "page"
      /\ load' = [load EXCEPT !.step = "row", !.pos = SlotsPerPage - avail, !.to_load = Min(P)]
  BY DEF load_page
<1>3. Loading /\ load.page_no \in DOMAIN file.pages /\ FilledUp(page)
  BY <1>1, <1>2 DEF Loading, LoadInv
<1>4. PICK k \in 0 .. SlotsPerPage : FreeSlots(page) = k .. SlotsPerPage - 1
  BY <1>3 DEF FilledUp
<1>5. avail = SlotsPerPage - k
  BY <1>4, FS_Interval
<1>6. Cardinality(load.batch) \in Nat
  <2>1. load.batch \in SUBSET (1 .. MaxRows)
    BY <1>1 DEF LoadStates
  <2>2. IsFiniteSet(1 .. MaxRows)
    BY FS_Interval
  <2>3. IsFiniteSet(load.batch)
    BY <2>1, <2>2, FS_Subset
  <2> QED
    BY <2>3, FS_CardinalityType
<1>7. Min(P) \in P /\ \A j \in P : Min(P) <= j
  <2>1. P \in SUBSET Nat /\ P # {}
    BY <1>5, <1>6
  <2> QED
    BY <2>1, LeastMember
<1> DEFINE m == Min(P)
<1>8. m \in 0 .. SlotsPerPage - k /\ m <= Cardinality(load.batch)
  BY <1>5, <1>6, <1>7
<1>9. load' = [load EXCEPT !.step = "row", !.pos = k, !.to_load = m]
  <2> HIDE DEF P, avail
  <2>1. SlotsPerPage - avail = k
    BY <1>5
  <2> QED
    BY <1>2, <2>1
<1> HIDE DEF m
<1>10. /\ load' \in LoadStates /\ load'.step = "row" /\ load'.pos = k /\ load'.to_load = m
       /\ load'.lines = load.lines /\ load'.batch = load.batch /\ load'.page_no = load.page_no
  <2>1. m \in Int /\ k \in Int
    BY <1>8
  <2> QED
    BY <1>1, <1>9, <2>1 DEF LoadStates, LoadSteps
<1>11. Loading' /\ LineRows' = LineRows /\ Pending' = Pending
  BY <1>3, <1>10 DEF Loading, LineRows, Pending
<1>12. LoadInv'
  BY <1>1, <1>2, <1>3, <1>4, <1>8, <1>10 DEF LoadInv
<1>13. /\ load'.batch \cap LineRows' = {}
       /\ \A i, j \in DOMAIN load'.lines : load'.lines[i].row = load'.lines[j].row => i = j
  BY <1>1, <1>3, <1>10, <1>11 DEF RowsInv
<1> QED
  BY <1>2, <1>10, <1>11, <1>12, <1>13, LoadStep

(* One row of a batch goes into the first free slot. *)
LEMMA LoadRowKeeps ==
    ASSUME TableIndInv, load_row
    PROVE  TableIndInv' /\ Kept(file, file')
<1> USE BoundsAreNumbers, PagesHaveSlots
<1> DEFINE p == load.page_no
           pos == load.pos
           x == Min(load.batch)
           rid == [page_no |-> p, slot_no |-> pos]
<1>1. Types /\ SessionsInv /\ LoadInv /\ RowsInv /\ load \in LoadStates
  BY DEF TableIndInv, Types
<1>2. /\ made' = made /\ status' = status /\ write_set' = write_set /\ scan' = scan
      /\ load.step = "row" /\ load.to_load > 0
      /\ file' = SetRow(file, rid, x)
      /\ load' = [load EXCEPT !.pos = pos + 1, !.to_load = load.to_load - 1,
                              !.batch = load.batch \ {x}]
  BY DEF load_row
<1>3. /\ Loading /\ p \in DOMAIN file.pages
      /\ pos \in 0 .. SlotsPerPage
      /\ FreeSlots(file.pages[p]) = pos .. SlotsPerPage - 1
      /\ load.to_load \in 0 .. SlotsPerPage - pos
      /\ load.to_load <= Cardinality(load.batch)
      /\ \A q \in DOMAIN file.pages : FilledUp(file.pages[q])
      /\ \A w \in Sessions : status[w] = "idle"
  BY <1>1, <1>2 DEF Loading, LoadInv
<1>4. load.batch \in SUBSET (1 .. MaxRows) /\ IsFiniteSet(load.batch)
  <2>1. load.batch \in SUBSET (1 .. MaxRows)
    BY <1>1 DEF LoadStates
  <2>2. IsFiniteSet(1 .. MaxRows)
    BY FS_Interval
  <2> QED
    BY <2>1, <2>2, FS_Subset
<1>5. x \in load.batch
  <2>1. load.batch # {}
    <3>1. Cardinality({}) = 0
      BY FS_EmptySet
    <3>2. load.to_load \in Int /\ load.to_load > 0 /\ load.to_load <= Cardinality(load.batch)
      BY <1>2, <1>3
    <3>3. SUFFICES ASSUME load.batch = {} PROVE FALSE
      OBVIOUS
    <3>4. Cardinality(load.batch) = 0
      BY <3>1, <3>3
    <3> QED
      BY <3>2, <3>4
  <2>2. load.batch \in SUBSET Nat
    BY <1>4
  <2> QED
    BY <2>1, <2>2, LeastMember
<1> HIDE DEF x
<1>6. Cardinality(load.batch) \in Nat /\ Cardinality(load.batch \ {x}) = Cardinality(load.batch) - 1
  BY <1>4, <1>5, FS_CardinalityType, FS_RemoveElement
<1>7. x \in 1 .. MaxRows /\ x \in Cells /\ x # NoRow /\ {x} \in SUBSET (1 .. MaxRows)
  BY <1>4, <1>5, EmptySlotIsNoRow DEF Cells
<1>8. x \in Pending /\ {x} \cap Used = {}
  BY <1>1, <1>3, <1>5 DEF Pending, RowsInv
<1>9. \A q \in RidsOf(file) : row(file, q) # x
  BY <1>7, <1>8 DEF Used, RowsOf
<1>10. pos \in Slots /\ pos \in FreeSlots(file.pages[p])
  BY <1>2, <1>3 DEF Slots
<1>11. rid \in RidsOf(file) /\ row(file, rid) = NoRow
  BY <1>3, <1>10 DEF RidsOf, row, FreeSlots
<1>12. /\ file' \in Files(Cells, Int) /\ LinksIn(file')
       /\ Changed(file, file', {x}) /\ Kept(file, file')
       /\ DOMAIN file'.pages = DOMAIN file.pages
       /\ \A q \in DOMAIN file.pages : q # p => file'.pages[q] = file.pages[q]
       /\ FreeSlots(file'.pages[p]) = FreeSlots(file.pages[p]) \ {pos}
  <2>1. file \in Files(Cells, Int) /\ LinksIn(file)
    BY <1>1 DEF Types
  <2>2. rid.page_no = p /\ rid.slot_no = pos
    OBVIOUS
  <2> HIDE DEF rid, p, pos
  <2> QED
    BY <1>2, <1>7, <1>9, <1>11, <2>1, <2>2, RowPut
<1>13. /\ Used' \subseteq Used \cup {x}
       /\ \A a, b \in RidsOf(file') :
             (row(file', a) # NoRow /\ row(file', a) = row(file', b)) => a = b
       /\ \A r \in Scanners : ScanInv(scan'[r], file')
  BY <1>2, <1>7, <1>8, <1>12, FileStep
<1>14. /\ load' \in LoadStates /\ load'.step = "row" /\ load'.pos = pos + 1
       /\ load'.to_load = load.to_load - 1
       /\ load'.lines = load.lines /\ load'.batch = load.batch \ {x} /\ load'.page_no = p
  <2> DEFINE a == pos + 1
             b == load.to_load - 1
             c == load.batch \ {x}
  <2>1. a \in Int /\ b \in Int /\ c \in SUBSET (1 .. MaxRows)
    BY <1>3, <1>4
  <2>2. load' = [load EXCEPT !.pos = a, !.to_load = b, !.batch = c]
    BY <1>2
  <2> HIDE DEF a, b, c
  <2>3. /\ load' \in LoadStates /\ load'.step = load.step /\ load'.pos = a
        /\ load'.to_load = b
        /\ load'.lines = load.lines /\ load'.batch = c /\ load'.page_no = load.page_no
    BY <1>1, <2>1, <2>2 DEF LoadStates
  <2> QED
    BY <1>2, <2>3 DEF a, b, c
<1>15. /\ Loading' /\ LineRows' = LineRows
       /\ Pending' \subseteq Pending
  BY <1>3, <1>14 DEF Loading, LineRows, Pending
<1>16. x \notin Pending'
  <2>1. x \notin LineRows
    BY <1>1, <1>3, <1>5 DEF RowsInv
  <2> QED
    BY <1>14, <1>15, <2>1 DEF Pending
<1>17. Types'
  BY <1>1, <1>2, <1>12, <1>14 DEF Types
<1>18. SessionsInv'
  BY <1>1, <1>2, <1>12 DEF SessionsInv
<1>19. LoadInv'
  <2>1. FreeSlots(file'.pages[p]) = pos + 1 .. SlotsPerPage - 1
    BY <1>3, <1>12
  <2>2. pos + 1 \in 0 .. SlotsPerPage
    BY <1>3, <1>10 DEF Slots
  <2>3. FilledUp(file'.pages[p])
    BY <2>1, <2>2 DEF FilledUp
  <2>4. \A q \in DOMAIN file'.pages : FilledUp(file'.pages[q])
    BY <1>3, <1>12, <2>3
  <2>5. load.to_load - 1 \in 0 .. SlotsPerPage - (pos + 1)
    BY <1>2, <1>3
  <2>6. load.to_load - 1 <= Cardinality(load.batch \ {x})
    BY <1>2, <1>3, <1>6
  <2> QED
    BY <1>2, <1>3, <1>12, <1>14, <2>1, <2>2, <2>4, <2>5, <2>6 DEF LoadInv
<1>20. RowsInv'
  <2>1. Used' \subseteq 1 .. made /\ Pending' \subseteq 1 .. made
    BY <1>1, <1>8, <1>13, <1>15 DEF RowsInv
  <2>2. Used' \cap Pending' = {}
    BY <1>1, <1>13, <1>15, <1>16 DEF RowsInv
  <2>3. load'.batch \cap LineRows' = {}
    BY <1>1, <1>3, <1>14, <1>15 DEF RowsInv
  <2>4. \A i, j \in DOMAIN load'.lines : load'.lines[i].row = load'.lines[j].row => i = j
    BY <1>1, <1>3, <1>14 DEF RowsInv
  <2> QED
    BY <1>2, <1>13, <2>1, <2>2, <2>3, <2>4 DEF RowsInv
<1> QED
  BY <1>12, <1>13, <1>17, <1>18, <1>19, <1>20 DEF TableIndInv

-----------------------------------------------------------------------------
(* The scans *)

(* A step of a scan changes the scans only. *)
LEMMA ScanStep ==
    ASSUME TableIndInv, file' = file, made' = made, status' = status, write_set' = write_set,
           load' = load, NEW r \in Scanners, NEW s \in ScanStates, scan' = [scan EXCEPT ![r] = s],
           s.began \cup s.seen \subseteq Used, ScanInv(s, file)
    PROVE  TableIndInv'
<1>1. Types /\ SessionsInv /\ LoadInv /\ RowsInv /\ \A q \in Scanners : ScanInv(scan[q], file)
  BY DEF TableIndInv
<1>2. Types'
  BY <1>1 DEF Types
<1>3. SessionsInv'
  BY <1>1 DEF SessionsInv
<1>4. LoadInv'
  BY <1>1 DEF LoadInv, Loading
<1>5. \A q \in Scanners : scan'[q] = IF q = r THEN s ELSE scan[q]
  BY <1>1 DEF Types
<1>6. Used' \subseteq Used
  BY <1>5 DEF Used
<1>7. Pending' = Pending /\ LineRows' = LineRows /\ Loading' = Loading
  BY DEF Pending, LineRows, Loading
<1>8. RowsInv'
  BY <1>1, <1>6, <1>7 DEF RowsInv
<1>9. \A q \in Scanners : ScanInv(scan'[q], file')
  BY <1>1, <1>5
<1> QED
  BY <1>2, <1>3, <1>4, <1>8, <1>9 DEF TableIndInv

(* A scan begins before the first slot of the first page. *)
LEMMA ScanKeeps ==
    ASSUME TableIndInv, NEW r \in Scanners, rm_scan(r)
    PROVE  TableIndInv' /\ file' = file
<1> USE PagesHaveSlots, BoundsAreNumbers
<1> DEFINE s == [on |-> TRUE, page_no |-> 1, slot_no |-> -1, began |-> RowsOf(file),
                 seen |-> {}, count |-> 0]
<1>1. Types /\ RowsInv /\ file \in Files(Cells, Int)
  BY DEF TableIndInv, Types
<1>2. RowsOf(file) \subseteq Used /\ RowsOf(file) \subseteq 1 .. MaxRows
  <2>1. \A rid \in RidsOf(file) : row(file, rid) \in Cells
    BY <1>1, FileFacts
  <2> QED
    BY <2>1 DEF Used, RowsOf, Cells
<1>3. s \in ScanStates
  BY <1>2 DEF ScanStates
<1>4. ScanInv(s, file)
  <2>1. Cardinality({}) = 0
    BY FS_EmptySet
  <2>2. Len(file.pages) \in Nat /\ DOMAIN file.pages = 1 .. Len(file.pages)
        /\ num_pages(file) = Len(file.pages) + 1
    BY <1>1, FileFacts
  <2>3. \A rid \in RidsOf(file) : Ahead(s, rid)
    BY <2>2 DEF RidsOf, Ahead, Slots
  <2>4. s.page_no = 1 /\ s.seen = {} /\ s.count = 0
    OBVIOUS
  <2> HIDE DEF s
  <2>5. 1 \in 1 .. num_pages(file) /\ 1 \in 0 .. num_pages(file)
    BY <2>2
  <2> QED
    BY <2>1, <2>3, <2>4, <2>5 DEF ScanInv
<1>5. s.began \cup s.seen \subseteq Used
  BY <1>2
<1>6. /\ file' = file /\ made' = made /\ status' = status /\ write_set' = write_set /\ load' = load
      /\ scan' = [scan EXCEPT ![r] = s]
  BY DEF rm_scan
<1> HIDE DEF s
<1> QED
  BY <1>3, <1>4, <1>5, <1>6, ScanStep

(* What is known of a scan that goes on *)
LEMMA ScanOn ==
    ASSUME TableIndInv, NEW r \in Scanners, scan[r].on, scan[r].page_no < num_pages(file)
    PROVE  /\ scan[r] \in ScanStates /\ file \in Files(Cells, Int) /\ ScanInv(scan[r], file)
           /\ scan[r].page_no \in DOMAIN file.pages /\ scan[r].page_no + 1 \in 1 .. num_pages(file)
           /\ scan[r].page_no \in Nat
           /\ scan[r].began \cup scan[r].seen \subseteq Used
           /\ NoRow \notin scan[r].began
<1>1. scan[r] \in ScanStates /\ file \in Files(Cells, Int) /\ ScanInv(scan[r], file)
  BY DEF TableIndInv, Types
<1>2. Len(file.pages) \in Nat /\ DOMAIN file.pages = 1 .. Len(file.pages)
      /\ num_pages(file) = Len(file.pages) + 1
  BY <1>1, FileFacts
<1>3. scan[r].page_no \in 1 .. num_pages(file)
  BY <1>1 DEF ScanInv
<1>4. scan[r].page_no \in DOMAIN file.pages /\ scan[r].page_no + 1 \in 1 .. num_pages(file)
  BY <1>2, <1>3
<1>5. scan[r].began \cup scan[r].seen \subseteq Used
  BY DEF Used
<1>6. NoRow \notin scan[r].began /\ scan[r].page_no \in Nat
  BY <1>1, EmptySlotIsNoRow DEF ScanStates
<1> QED
  BY <1>1, <1>4, <1>5, <1>6

(* A scan leaves a page when it has no row behind the slot it is at. *)
LEMMA NextPageKeeps ==
    ASSUME TableIndInv, NEW r \in Scanners, next_page(r)
    PROVE  TableIndInv' /\ file' = file
<1> USE PagesHaveSlots
<1> DEFINE old == scan[r]
           p   == old.page_no
           s   == [old EXCEPT !.page_no = p + 1, !.slot_no = -1]
<1>1. /\ file' = file /\ made' = made /\ status' = status /\ write_set' = write_set /\ load' = load
      /\ scan' = [scan EXCEPT ![r] = s]
      /\ old.on /\ p < num_pages(file) /\ NextBits(r) = {}
  <2>1. scan' = [scan EXCEPT ![r].page_no = p + 1, ![r].slot_no = -1]
    BY DEF next_page
  <2>2. scan \in [Scanners -> ScanStates]
    BY DEF TableIndInv, Types
  <2>3. scan' = [scan EXCEPT ![r] = s]
    BY <2>1, <2>2
  <2> QED
    BY <2>3 DEF next_page
<1>2. /\ old \in ScanStates /\ file \in Files(Cells, Int) /\ ScanInv(old, file)
      /\ p \in DOMAIN file.pages /\ p + 1 \in 1 .. num_pages(file) /\ p \in Nat
      /\ old.began \cup old.seen \subseteq Used /\ NoRow \notin old.began
  BY <1>1, ScanOn
<1>3. /\ s \in ScanStates /\ s.page_no = p + 1 /\ s.slot_no = -1 /\ s.on = old.on
      /\ s.began = old.began /\ s.seen = old.seen /\ s.count = old.count
  <2> DEFINE a == p + 1
             b == -1
  <2>1. a \in Nat /\ b \in -1 .. SlotsPerPage - 1
    BY <1>2
  <2> HIDE DEF a, b, old
  <2>2. LET t == [old EXCEPT !.page_no = a, !.slot_no = b]
        IN  /\ t \in ScanStates /\ t.page_no = a /\ t.slot_no = b /\ t.on = old.on
            /\ t.began = old.began /\ t.seen = old.seen /\ t.count = old.count
    BY <1>2, <2>1 DEF ScanStates
  <2> QED
    BY <2>2 DEF a, b, old
<1>4. \A z \in Slots : z > old.slot_no => file.pages[p].rows[z] = NoRow
  BY <1>1 DEF NextBits
<1> HIDE DEF s, old
<1>5. ScanInv(s, file)
  <2>1. \A rid \in RidsOf(file) : rid.page_no \in Int /\ rid.slot_no \in Slots /\ Slots \subseteq Nat
    <3>1. DOMAIN file.pages \subseteq Int
      BY <1>2, FileFacts
    <3> QED
      BY <3>1 DEF RidsOf, Slots
  <2>2. ASSUME NEW rid \in RidsOf(file), Ahead(s, rid)
        PROVE  row(file, rid) \notin s.seen
    <3>1. Ahead(old, rid)
      BY <1>2, <1>3, <2>1, <2>2 DEF Ahead
    <3> QED
      BY <1>1, <1>2, <1>3, <3>1 DEF ScanInv
  <2>3. ASSUME NEW rid \in RidsOf(file), row(file, rid) \in s.began
        PROVE  row(file, rid) \in s.seen \/ Ahead(s, rid)
    <3>1. row(file, rid) \in s.seen \/ Ahead(old, rid)
      BY <1>1, <1>2, <1>3, <2>3 DEF ScanInv
    <3>2. rid.page_no = p => ~(rid.slot_no > old.slot_no)
      BY <1>2, <1>3, <1>4, <2>1, <2>3 DEF row
    <3> QED
      BY <1>2, <1>3, <2>1, <3>1, <3>2 DEF Ahead
  <2>4. s.page_no \in 0 .. num_pages(file)
    BY <1>2, <1>3
  <2> QED
    BY <1>1, <1>2, <1>3, <2>2, <2>3, <2>4 DEF ScanInv
<1> QED
  BY <1>1, <1>2, <1>3, <1>5, ScanStep

(* A scan returns the next row of its page, which it has not seen. *)
LEMMA NextKeeps ==
    ASSUME TableIndInv, NEW r \in Scanners, next(r)
    PROVE  TableIndInv' /\ file' = file
<1> USE PagesHaveSlots, BoundsAreNumbers
<1> DEFINE old == scan[r]
           p   == old.page_no
           z   == Min(NextBits(r))
           x   == file.pages[p].rows[z]
           c   == old.count + 1
           n   == old.seen \cup {x}
           s   == [old EXCEPT !.slot_no = z, !.count = c, !.seen = n]
           here == [page_no |-> p, slot_no |-> z]
<1>1. /\ file' = file /\ made' = made /\ status' = status /\ write_set' = write_set /\ load' = load
      /\ scan' = [scan EXCEPT ![r] = s]
      /\ old.on /\ p < num_pages(file) /\ NextBits(r) # {}
  <2>1. scan' = [scan EXCEPT ![r].slot_no = z, ![r].count = @ + 1, ![r].seen = @ \cup {x}]
    BY DEF next
  <2>2. scan \in [Scanners -> ScanStates]
    BY DEF TableIndInv, Types
  <2> HIDE DEF z, x
  <2>3. scan' = [scan EXCEPT ![r] = s]
    BY <2>1, <2>2 DEF ScanStates
  <2> QED
    BY <2>3 DEF next, z, x
<1>2. /\ old \in ScanStates /\ file \in Files(Cells, Int) /\ ScanInv(old, file)
      /\ p \in DOMAIN file.pages /\ p \in Nat
      /\ old.began \cup old.seen \subseteq Used /\ NoRow \notin old.began
  BY <1>1, ScanOn
<1>3. /\ z \in Slots /\ z > old.slot_no /\ x # NoRow
      /\ \A y \in Slots : y > old.slot_no /\ file.pages[p].rows[y] # NoRow => z <= y
  <2>1. NextBits(r) \in SUBSET Nat
    BY DEF NextBits, Slots
  <2>2. z \in NextBits(r) /\ \A j \in NextBits(r) : z <= j
    BY <1>1, <2>1, LeastMember
  <2> HIDE DEF z
  <2> QED
    BY <2>2 DEF NextBits
<1> HIDE DEF z
<1>4. here \in RidsOf(file) /\ row(file, here) = x /\ here.page_no = p /\ here.slot_no = z
  BY <1>2, <1>3 DEF RidsOf, row
<1>5. x \in RowsOf(file) /\ x \in Used /\ x \in 1 .. MaxRows
  <2>1. \A rid \in RidsOf(file) : row(file, rid) \in Cells
    BY <1>2, FileFacts
  <2> QED
    BY <1>3, <1>4, <2>1 DEF RowsOf, Used, Cells
<1>6. z \in -1 .. SlotsPerPage - 1 /\ c \in Nat /\ n \in SUBSET (1 .. MaxRows)
  BY <1>2, <1>3, <1>5 DEF ScanStates, Slots
<1> HIDE DEF x, here
<1>7. x \notin old.seen
  <2>1. Ahead(old, here)
    BY <1>3, <1>4 DEF Ahead
  <2> QED
    BY <1>1, <1>2, <1>4, <2>1 DEF ScanInv
<1>8. c = Cardinality(n)
  <2>1. IsFiniteSet(old.seen)
    <3>1. IsFiniteSet(1 .. MaxRows)
      BY FS_Interval
    <3>2. old.seen \subseteq 1 .. MaxRows
      BY <1>2 DEF ScanStates
    <3> QED
      BY <3>1, <3>2, FS_Subset
  <2>2. Cardinality(old.seen \cup {x}) = Cardinality(old.seen) + 1
    BY <1>7, <2>1, FS_AddElement
  <2> QED
    BY <1>2, <2>2 DEF ScanInv
<1> HIDE DEF c, n, old
<1>9. /\ s \in ScanStates /\ s.page_no = p /\ s.slot_no = z /\ s.on = old.on
      /\ s.began = old.began /\ s.seen = n /\ s.count = c
  BY <1>2, <1>6 DEF ScanStates
<1> HIDE DEF s
<1>10. ScanInv(s, file)
  <2>1. \A rid \in RidsOf(file) : rid.page_no \in Int /\ rid.slot_no \in Slots /\ Slots \subseteq Nat
    <3>1. DOMAIN file.pages \subseteq Int
      BY <1>2, FileFacts
    <3> QED
      BY <3>1 DEF RidsOf, Slots
  <2>7. old.slot_no \in Int /\ z \in Int
    BY <1>2, <1>6 DEF ScanStates
  <2>2. ASSUME NEW rid \in RidsOf(file), Ahead(s, rid)
        PROVE  row(file, rid) \notin s.seen
    <3>1. Ahead(old, rid)
      <4>1. rid.page_no > p \/ (rid.page_no = p /\ rid.slot_no > z)
        BY <1>9, <2>2 DEF Ahead
      <4>2. rid.slot_no \in Int
        BY <2>1
      <4>3. rid.slot_no > z => rid.slot_no > old.slot_no
        BY <1>3, <2>7, <4>2
      <4> QED
        BY <4>1, <4>3 DEF Ahead
    <3>2. rid # here
      BY <1>4, <1>9, <2>1, <2>2, <2>7, <1>2 DEF Ahead
    <3>3. row(file, rid) # x
      BY <1>3, <1>4, <3>2 DEF TableIndInv, RowsInv
    <3> QED
      BY <1>1, <1>2, <1>9, <3>1, <3>3 DEF ScanInv, n
  <2>3. ASSUME NEW rid \in RidsOf(file), row(file, rid) \in s.began
        PROVE  row(file, rid) \in s.seen \/ Ahead(s, rid)
    <3>1. row(file, rid) \in old.seen \/ Ahead(old, rid)
      BY <1>1, <1>2, <1>9, <2>3 DEF ScanInv
    <3>2. ASSUME rid.page_no = p, rid.slot_no > old.slot_no PROVE rid.slot_no >= z
      BY <1>2, <1>3, <1>9, <2>1, <2>3, <2>7, <3>2 DEF row
    <3>3. CASE rid.page_no = p /\ rid.slot_no = z
      <4>1. row(file, rid) = x
        BY <3>3 DEF row, x
      <4> QED
        BY <1>9, <4>1 DEF n
    <3>4. CASE ~(rid.page_no = p /\ rid.slot_no = z)
      BY <1>2, <1>9, <2>1, <2>7, <3>1, <3>2, <3>4 DEF Ahead, n
    <3> QED
      BY <3>3, <3>4
  <2>4. p \in 0 .. num_pages(file) /\ p \in 1 .. num_pages(file)
    BY <1>1, <1>2 DEF ScanInv
  <2> QED
    BY <1>8, <1>9, <2>2, <2>3, <2>4 DEF ScanInv
<1>11. s.began \cup s.seen \subseteq Used
  BY <1>2, <1>5, <1>9 DEF n
<1> QED
  BY <1>1, <1>9, <1>10, <1>11, ScanStep

(* A scan ends. *)
LEMMA ScanEndKeeps ==
    ASSUME TableIndInv, NEW r \in Scanners, scan_end(r)
    PROVE  TableIndInv' /\ file' = file
<1> DEFINE old == scan[r]
           s   == [old EXCEPT !.on = FALSE]
<1>1. /\ file' = file /\ made' = made /\ status' = status /\ write_set' = write_set /\ load' = load
      /\ scan' = [scan EXCEPT ![r] = s]
  BY DEF scan_end
<1>2. old \in ScanStates /\ ScanInv(old, file) /\ old.began \cup old.seen \subseteq Used
  BY DEF TableIndInv, Types, Used
<1>3. s \in ScanStates /\ ~s.on /\ s.began = old.began /\ s.seen = old.seen /\ s.count = old.count
      /\ s.page_no = old.page_no
  BY <1>2 DEF ScanStates
<1> HIDE DEF s, old
<1>4. ScanInv(s, file)
  BY <1>2, <1>3 DEF ScanInv
<1> QED
  BY <1>1, <1>2, <1>3, <1>4, ScanStep

-----------------------------------------------------------------------------
(* Every step *)

(* A new file *)
LEMMA InitKeeps ==
    ASSUME Init
    PROVE  TableIndInv
<1> USE PagesHaveSlots, BoundsAreNumbers
<1> DEFINE no == << >>
<1>1. /\ file.first_free_page_no = NoPage /\ file.pages = no /\ DOMAIN file.pages = {}
      /\ file = [first_free_page_no |-> NoPage, pages |-> no]
      /\ Len(file.pages) = 0
  BY DEF Init
<1>2. \A S : no \in Seq(S)
  OBVIOUS
<1> HIDE DEF no
<1>3. file \in Files(Cells, Int) /\ LinksIn(file)
  BY <1>1, <1>2 DEF Files, LinksIn, NoPage
<1>4. load \in LoadStates /\ load.step = "none" /\ load.batch = {}
  BY <1>2 DEF Init, LoadStates, LoadSteps, NoPage, no
<1>5. write_set \in [Sessions -> Seq(Places)] /\ \A w \in Sessions : write_set[w] = << >>
  BY <1>2 DEF Init, no
<1>6. \A r \in Scanners : /\ ~scan[r].on /\ scan[r].page_no = 0
                          /\ scan[r].began = {} /\ scan[r].seen = {} /\ scan[r].count = 0
  BY DEF Init
<1>7. scan \in [Scanners -> ScanStates]
  BY DEF Init, ScanStates
<1>8. Types
  BY <1>3, <1>4, <1>5, <1>7 DEF Types, Init
<1>9. SessionsInv
  BY <1>5 DEF SessionsInv, Init
<1>10. LoadInv /\ ~Loading
  BY <1>4 DEF LoadInv, Loading
<1>11. RidsOf(file) = {}
  BY <1>1 DEF RidsOf
<1>12. RowsInv
  BY <1>6, <1>10, <1>11 DEF RowsInv, Used, Pending, RowsOf
<1>13. \A r \in Scanners : ScanInv(scan[r], file)
  <2>1. Cardinality({}) = 0
    BY FS_EmptySet
  <2>2. 0 \in 0 .. num_pages(file)
    BY <1>1 DEF num_pages
  <2> QED
    BY <1>6, <2>1, <2>2 DEF ScanInv
<1> QED
  BY <1>8, <1>9, <1>10, <1>12, <1>13 DEF TableIndInv

(* What RowsStay says of one step *)
RowStays(rid) ==
    row(file, rid) \notin {NoRow, row(file', rid)} =>
       /\ row(file', rid) = NoRow
       /\ \E w \in Sessions : status[w] = "undoing" /\ Last(write_set[w]) = rid

(* Every step keeps the invariant, and rows leave their slots only by a    *)
(* rollback.                                                               *)
LEMMA StepKeeps ==
    ASSUME TableIndInv, [Next]_vars
    PROVE  TableIndInv' /\ \A rid \in RidsOf(file) : RowStays(rid)
<1>1. Kept(file, file') => \A rid \in RidsOf(file) : RowStays(rid)
  BY DEF Kept, RowStays
<1>2. file' = file => Kept(file, file')
  BY DEF Kept
<1>3. ASSUME NEW w \in Sessions, insert(w) \/ commit(w) \/ abort(w)
      PROVE  TableIndInv' /\ Kept(file, file')
  BY <1>2, <1>3, InsertKeeps, EndKeeps
<1>4. ASSUME NEW w \in Sessions, rollback_insert(w)
      PROVE  TableIndInv' /\ \A rid \in RidsOf(file) : RowStays(rid)
  <2>1. /\ TableIndInv' /\ status[w] = "undoing"
        /\ \A q \in RidsOf(file) :
              row(file', q) = row(file, q) \/ (q = Last(write_set[w]) /\ row(file', q) = NoRow)
    BY <1>4, RollbackKeeps DEF rollback_insert
  <2> QED
    BY <2>1 DEF RowStays
<1>5. ASSUME NEW lines \in Csvs, load_table(lines)
      PROVE  TableIndInv' /\ Kept(file, file')
  BY <1>2, <1>5, LoadTableKeeps
<1>6. ASSUME Load
      PROVE  TableIndInv' /\ Kept(file, file')
  BY <1>2, <1>6, OpenKeeps, ReadKeeps, RecordsKeeps, LoadPageKeeps, LoadRowKeeps, FilledKeeps
     DEF Load
<1>7. ASSUME NEW r \in Scanners, rm_scan(r) \/ next_page(r) \/ next(r) \/ scan_end(r)
      PROVE  TableIndInv' /\ Kept(file, file')
  BY <1>2, <1>7, ScanKeeps, NextPageKeeps, NextKeeps, ScanEndKeeps
<1>8. CASE UNCHANGED vars
  <2>1. /\ file' = file /\ made' = made /\ status' = status /\ write_set' = write_set
        /\ load' = load /\ scan' = scan
    BY <1>8 DEF vars
  <2>2. TableIndInv'
    <3>1. Types' /\ SessionsInv' /\ LoadInv'
      BY <2>1 DEF TableIndInv, Types, SessionsInv, LoadInv, Loading
    <3>2. Used' = Used /\ Pending' = Pending /\ LineRows' = LineRows /\ Loading' = Loading
      BY <2>1 DEF Used, Pending, LineRows, Loading
    <3>3. RowsInv'
      BY <2>1, <3>2 DEF TableIndInv, RowsInv
    <3> QED
      BY <2>1, <3>1, <3>3 DEF TableIndInv
  <2> QED
    BY <1>1, <1>2, <2>1, <2>2
<1> QED
  BY <1>1, <1>3, <1>4, <1>5, <1>6, <1>7, <1>8 DEF Next

(* In a scan that is at its end everything is behind it. *)
LEMMA ScansExact ==
    ASSUME TableIndInv
    PROVE  ScanIsExact
<1>1. SUFFICES ASSUME NEW r \in Scanners
               PROVE  /\ scan[r].count = Cardinality(scan[r].seen)
                      /\ scan[r].on /\ scan[r].page_no >= num_pages(file) =>
                            scan[r].began \cap RowsOf(file) \subseteq scan[r].seen
  BY DEF ScanIsExact
<1>2. ScanInv(scan[r], file) /\ file \in Files(Cells, Int) /\ scan[r] \in ScanStates
  BY DEF TableIndInv, Types
<1>3. ASSUME scan[r].on, scan[r].page_no >= num_pages(file)
      PROVE  scan[r].began \cap RowsOf(file) \subseteq scan[r].seen
  <2>1. /\ Len(file.pages) \in Nat /\ DOMAIN file.pages = 1 .. Len(file.pages)
        /\ num_pages(file) = Len(file.pages) + 1
    BY <1>2, FileFacts
  <2>2. scan[r].page_no \in Int
    BY <1>2 DEF ScanStates
  <2>3. \A rid \in RidsOf(file) : ~Ahead(scan[r], rid)
    <3>1. \A rid \in RidsOf(file) : rid.page_no \in 1 .. Len(file.pages)
      BY <2>1 DEF RidsOf
    <3> QED
      BY <1>3, <2>1, <2>2, <3>1 DEF Ahead
  <2> QED
    BY <1>2, <1>3, <2>3 DEF ScanInv, RowsOf
<1> QED
  BY <1>2, <1>3 DEF ScanInv

(* The inductive invariant holds in every state: rows have one place and   *)
(* never come back, LOAD fills its pages upwards, and every scan has seen  *)
(* exactly the rows behind it that were there when it began.               *)
THEOREM TableFileInductive == Spec => []TableIndInv
<1>1. Init => TableIndInv
  BY InitKeeps
<1>2. TableIndInv /\ [Next]_vars => TableIndInv'
  BY StepKeeps
<1> QED
  BY <1>1, <1>2, PTL DEF Spec

(* RmScan returns no row twice and misses none that was there from its     *)
(* begin to its end, however INSERT, rollback and LOAD go on under it, and *)
(* whether or not rows are lost behind full pages.                         *)
THEOREM ScansAreExact == Spec => []ScanIsExact
<1>1. TableIndInv => ScanIsExact
  BY ScansExact
<1> QED
  BY <1>1, TableFileInductive, PTL

(* No row is ever overwritten by insert_record or LOAD; it leaves its slot *)
(* only by the rollback of the insert that put it there.                   *)
THEOREM RowsAreNotOverwritten == Spec => RowsStay
<1>1. TableIndInv /\ [Next]_vars =>
         [\A rid \in RidsOf(file) :
            row(file, rid) \notin {NoRow, row(file', rid)} =>
               /\ row(file', rid) = NoRow
               /\ \E w \in Sessions : status[w] = "undoing" /\ Last(write_set[w]) = rid]_vars
  BY StepKeeps DEF RowStays
<1> QED
  BY <1>1, TableFileInductive, PTL DEF Spec, RowsStay

-----------------------------------------------------------------------------
(* The list of free pages *)

HasRoom(f, p) == FreeSlots(f.pages[p]) # {}

(* The same links: the list stays, as long as no page gets its first free  *)
(* slot.                                                                   *)
LEMMA ListSame ==
    ASSUME NEW f, NEW g, NEW T, NEW U, ListOf(f, T), SameList(f, g), DOMAIN g.pages = DOMAIN f.pages,
           \A p \in DOMAIN f.pages : HasRoom(g, p) => HasRoom(f, p),
           \A p \in DOMAIN f.pages : p \in U =>
              HasRoom(g, p) \/ (p \in T /\ (HasRoom(f, p) => HasRoom(g, p)))
    PROVE  ListOf(g, U)
<1>a. PICK n \in Nat : \E L \in [1 .. n -> DOMAIN f.pages] : IsList(f, T, n, L)
  BY DEF ListOf
<1>b. PICK L \in [1 .. n -> DOMAIN f.pages] : IsList(f, T, n, L)
  BY <1>a
<1>1. /\ n \in Nat /\ L \in [1 .. n -> DOMAIN f.pages]
      /\ Chain(f, n, L)
      /\ \A p \in DOMAIN f.pages : FreeSlots(f.pages[p]) # {} => \E i \in 1 .. n : L[i] = p
      /\ \A i \in 1 .. n : L[i] \in T => FreeSlots(f.pages[L[i]]) # {}
  BY <1>b DEF IsList
<1>2. L \in [1 .. n -> DOMAIN g.pages]
  BY <1>1
<1>3. \A i \in 1 .. n : L[i] \in DOMAIN f.pages
  BY <1>1
<1>4. Chain(g, n, L)
  BY <1>1, <1>3 DEF Chain, SameList
<1>5. \A p \in DOMAIN g.pages : FreeSlots(g.pages[p]) # {} => \E i \in 1 .. n : L[i] = p
  BY <1>1 DEF HasRoom
<1>6. \A i \in 1 .. n : L[i] \in U => FreeSlots(g.pages[L[i]]) # {}
  BY <1>1, <1>3 DEF HasRoom
<1> QED
  <2>1. IsList(g, U, n, L)
    BY <1>4, <1>5, <1>6 DEF IsList
  <2> QED
    BY <1>2, <2>1 DEF ListOf

(* A page that was not on the list becomes its head. *)
LEMMA ListPush ==
    ASSUME NEW f, NEW g, NEW T, NEW U, NEW p \in DOMAIN g.pages, ListOf(f, T),
           DOMAIN g.pages = DOMAIN f.pages \cup {p},
           DOMAIN f.pages \subseteq Nat,
           p \in DOMAIN f.pages => p \in T /\ ~HasRoom(f, p),
           g.first_free_page_no = p,
           g.pages[p].next_free_page_no = f.first_free_page_no,
           \A q \in DOMAIN f.pages \ {p} :
              /\ g.pages[q].next_free_page_no = f.pages[q].next_free_page_no
              /\ HasRoom(g, q) <=> HasRoom(f, q),
           U \subseteq T \cup {p}, HasRoom(g, p)
    PROVE  ListOf(g, U)
<1>a. PICK n \in Nat : \E L \in [1 .. n -> DOMAIN f.pages] : IsList(f, T, n, L)
  BY DEF ListOf
<1>b. PICK L \in [1 .. n -> DOMAIN f.pages] : IsList(f, T, n, L)
  BY <1>a
<1>1. /\ n \in Nat /\ L \in [1 .. n -> DOMAIN f.pages]
      /\ Chain(f, n, L)
      /\ \A q \in DOMAIN f.pages : FreeSlots(f.pages[q]) # {} => \E i \in 1 .. n : L[i] = q
      /\ \A i \in 1 .. n : L[i] \in T => FreeSlots(f.pages[L[i]]) # {}
  BY <1>b DEF IsList
<1> DEFINE m == n + 1
           M == [i \in 1 .. m |-> IF i = 1 THEN p ELSE L[i - 1]]
<1>2. \A i \in 1 .. n : L[i] \in DOMAIN f.pages \ {p}
  BY <1>1 DEF HasRoom
<1>3. m \in Nat /\ 1 \in 1 .. m /\ \A i \in 1 .. m : i = 1 \/ i - 1 \in 1 .. n
  BY <1>1
<1>4. M \in [1 .. m -> DOMAIN g.pages]
  BY <1>2, <1>3
<1>5. M[1] = p /\ \A i \in 1 .. n : i + 1 \in 1 .. m /\ M[i + 1] = L[i]
  <2>1. \A i \in 1 .. n : i + 1 \in 1 .. m /\ i + 1 # 1 /\ i + 1 - 1 = i
    BY <1>1
  <2> QED
    BY <1>3, <2>1
<1>6. \A i \in 1 .. m : i # 1 => M[i] = L[i - 1]
  BY <1>3
<1> HIDE DEF M
<1>7. ASSUME NEW i \in 1 .. m, NEW j \in 1 .. m, M[i] = M[j] PROVE i = j
  <2>1. CASE i = 1 \/ j = 1
    BY <1>2, <1>3, <1>5, <1>6, <1>7, <2>1
  <2>2. CASE i # 1 /\ j # 1
    <3>1. i - 1 \in 1 .. n /\ j - 1 \in 1 .. n /\ L[i - 1] = L[j - 1]
      BY <1>3, <1>6, <1>7, <2>2
    <3>2. i - 1 = j - 1
      BY <1>1, <3>1 DEF Chain
    <3> QED
      BY <3>2
  <2> QED
    BY <2>1, <2>2
<1>8. ASSUME NEW i \in 1 .. m
      PROVE  g.pages[M[i]].next_free_page_no = IF i = m THEN NoPage ELSE M[i + 1]
  <2>1. CASE i = 1
    <3>1. CASE n = 0
      BY <1>1, <1>5, <2>1, <3>1 DEF Chain
    <3>2. CASE n # 0
      <4>1. 1 \in 1 .. n /\ i # m
        BY <1>1, <2>1, <3>2
      <4>2. M[i + 1] = L[1]
        BY <1>5, <2>1, <4>1
      <4> QED
        BY <1>1, <1>5, <2>1, <3>2, <4>1, <4>2 DEF Chain
    <3> QED
      BY <3>1, <3>2
  <2>2. CASE i # 1
    <3> DEFINE k == i - 1
    <3>1. k \in 1 .. n /\ M[i] = L[k] /\ (i = m <=> k = n)
      BY <1>1, <1>3, <1>6, <2>2
    <3>2. g.pages[L[k]].next_free_page_no = IF k = n THEN NoPage ELSE L[k + 1]
      BY <1>1, <1>2, <3>1 DEF Chain
    <3>3. k # n => M[i + 1] = L[k + 1]
      <4>1. k # n => k + 1 \in 1 .. n /\ k + 1 + 1 = i + 1
        BY <1>1, <3>1
      <4> QED
        BY <1>5, <4>1
    <3> QED
      BY <3>1, <3>2, <3>3
  <2> QED
    BY <2>1, <2>2
<1>9. Chain(g, m, M)
  BY <1>1, <1>5, <1>7, <1>8 DEF Chain
<1>10. \A q \in DOMAIN g.pages : FreeSlots(g.pages[q]) # {} => \E i \in 1 .. m : M[i] = q
  <2> TAKE q \in DOMAIN g.pages
  <2>1. CASE q = p
    BY <1>3, <1>5, <2>1
  <2>2. CASE q # p /\ FreeSlots(g.pages[q]) # {}
    <3>1. PICK i \in 1 .. n : L[i] = q
      BY <1>1, <2>2 DEF HasRoom
    <3> QED
      BY <1>5, <3>1
  <2> QED
    BY <2>1, <2>2
<1>11. \A i \in 1 .. m : M[i] \in U => FreeSlots(g.pages[M[i]]) # {}
  <2> TAKE i \in 1 .. m
  <2>1. CASE i = 1
    BY <1>5, <2>1 DEF HasRoom
  <2>2. CASE i # 1
    <3>1. i - 1 \in 1 .. n /\ M[i] = L[i - 1]
      BY <1>3, <1>6, <2>2
    <3>2. L[i - 1] \in DOMAIN f.pages \ {p} /\ (L[i - 1] \in T => HasRoom(f, L[i - 1]))
      BY <1>1, <1>2, <3>1 DEF HasRoom
    <3> QED
      BY <3>1, <3>2 DEF HasRoom
  <2> QED
    BY <2>1, <2>2
<1> QED
  <2>1. IsList(g, U, m, M)
    BY <1>9, <1>10, <1>11 DEF IsList
  <2> QED
    BY <1>3, <1>4, <2>1 DEF ListOf

(* The head of the list has become full and leaves it. *)
LEMMA ListPop ==
    ASSUME NEW f, NEW g, NEW T, NEW U, NEW p \in DOMAIN f.pages, ListOf(f, T),
           DOMAIN g.pages = DOMAIN f.pages, DOMAIN f.pages \subseteq Nat,
           f.first_free_page_no = p,
           g.first_free_page_no = f.pages[p].next_free_page_no,
           \A q \in DOMAIN f.pages \ {p} :
              /\ g.pages[q].next_free_page_no = f.pages[q].next_free_page_no
              /\ HasRoom(g, q) <=> HasRoom(f, q),
           U \subseteq T \cup {p}, ~HasRoom(g, p)
    PROVE  ListOf(g, U)
<1>a. PICK n \in Nat : \E L \in [1 .. n -> DOMAIN f.pages] : IsList(f, T, n, L)
  BY DEF ListOf
<1>b. PICK L \in [1 .. n -> DOMAIN f.pages] : IsList(f, T, n, L)
  BY <1>a
<1>1. /\ n \in Nat /\ L \in [1 .. n -> DOMAIN f.pages]
      /\ Chain(f, n, L)
      /\ \A q \in DOMAIN f.pages : FreeSlots(f.pages[q]) # {} => \E i \in 1 .. n : L[i] = q
      /\ \A i \in 1 .. n : L[i] \in T => FreeSlots(f.pages[L[i]]) # {}
  BY <1>b DEF IsList
<1>2. n # 0 /\ L[1] = p
  <2>1. p # NoPage
    BY DEF NoPage
  <2> QED
    BY <1>1, <2>1 DEF Chain
<1> DEFINE m == n - 1
           M == [i \in 1 .. m |-> L[i + 1]]
<1>3. m \in Nat /\ \A i \in 1 .. m : i + 1 \in 1 .. n /\ i + 1 # 1 /\ i \in Int
  BY <1>1, <1>2
<1>4. \A i \in 1 .. m : M[i] = L[i + 1] /\ M[i] \in DOMAIN f.pages \ {p}
  <2>1. 1 \in 1 .. n
    BY <1>1, <1>2
  <2>2. \A i \in 1 .. n : L[i] = L[1] => i = 1
    BY <1>1, <2>1 DEF Chain
  <2>3. \A i \in 1 .. m : L[i + 1] \in DOMAIN f.pages /\ L[i + 1] # p
    BY <1>1, <1>2, <1>3, <2>2
  <2> QED
    BY <2>3
<1>5. M \in [1 .. m -> DOMAIN g.pages]
  BY <1>4
<1> HIDE DEF M
<1>6. ASSUME NEW i \in 1 .. m, NEW j \in 1 .. m, M[i] = M[j] PROVE i = j
  <2>1. i + 1 = j + 1
    BY <1>1, <1>3, <1>4, <1>6 DEF Chain
  <2> QED
    BY <1>3, <2>1
<1>7. ASSUME NEW i \in 1 .. m
      PROVE  g.pages[M[i]].next_free_page_no = IF i = m THEN NoPage ELSE M[i + 1]
  <2>1. /\ i + 1 \in 1 .. n /\ (i = m <=> i + 1 = n)
    BY <1>1, <1>3
  <2>2. f.pages[L[i + 1]].next_free_page_no = IF i + 1 = n THEN NoPage ELSE L[i + 1 + 1]
    BY <1>1, <2>1 DEF Chain
  <2>3. i # m => i + 1 \in 1 .. m
    BY <1>3
  <2> QED
    BY <1>4, <2>1, <2>2, <2>3
<1>8. g.first_free_page_no = IF m = 0 THEN NoPage ELSE M[1]
  <2>1. 1 \in 1 .. n /\ (m = 0 <=> n = 1) /\ (m # 0 => 1 \in 1 .. m) /\ 1 + 1 = 2
    BY <1>1, <1>2
  <2>2. f.pages[p].next_free_page_no = IF 1 = n THEN NoPage ELSE L[1 + 1]
    BY <1>1, <1>2, <2>1 DEF Chain
  <2> QED
    BY <1>4, <2>1, <2>2
<1>9. Chain(g, m, M)
  BY <1>6, <1>7, <1>8 DEF Chain
<1>10. \A q \in DOMAIN g.pages : FreeSlots(g.pages[q]) # {} => \E i \in 1 .. m : M[i] = q
  <2>1. SUFFICES ASSUME NEW q \in DOMAIN f.pages, HasRoom(g, q) PROVE \E i \in 1 .. m : M[i] = q
    BY DEF HasRoom
  <2>2. q # p /\ HasRoom(f, q)
    BY <2>1
  <2>3. PICK i \in 1 .. n : L[i] = q
    BY <1>1, <2>2 DEF HasRoom
  <2>4. i - 1 \in 1 .. m /\ i - 1 + 1 = i
    BY <1>1, <1>2, <2>2, <2>3
  <2>5. M[i - 1] = q
    BY <1>4, <2>3, <2>4
  <2> QED
    BY <2>4, <2>5
<1>11. \A i \in 1 .. m : M[i] \in U => FreeSlots(g.pages[M[i]]) # {}
  <2> TAKE i \in 1 .. m
  <2>1. M[i] \in T => HasRoom(f, M[i])
    <3>1. i + 1 \in 1 .. n /\ M[i] = L[i + 1]
      BY <1>3, <1>4
    <3>2. L[i + 1] \in T => FreeSlots(f.pages[L[i + 1]]) # {}
      BY <1>1, <3>1
    <3> QED
      BY <3>1, <3>2 DEF HasRoom
  <2> QED
    BY <1>4, <2>1 DEF HasRoom
<1> QED
  <2>1. IsList(g, U, m, M)
    BY <1>9, <1>10, <1>11 DEF IsList
  <2> QED
    BY <1>3, <1>5, <2>1 DEF ListOf

-----------------------------------------------------------------------------
(* The list under the operations *)

(* Pages are numbers. *)
LEMMA PageNumbers ==
    ASSUME NEW f \in Files(Cells, Int)
    PROVE  DOMAIN f.pages \subseteq Nat /\ Len(f.pages) + 1 \notin DOMAIN f.pages
<1>1. Len(f.pages) \in Nat /\ DOMAIN f.pages = 1 .. Len(f.pages)
  BY FileFacts
<1> QED
  BY <1>1

(* A new page goes before the others. *)
LEMMA ListPageAdded ==
    ASSUME NEW f \in Files(Cells, Int), LinksIn(f), NEW T, ListOf(f, T)
    PROVE  ListOf(create_new_page_handle(f), T)
<1> DEFINE g == create_new_page_handle(f)
           n == Len(f.pages) + 1
<1>1. /\ g \in Files(Cells, Int)
      /\ DOMAIN g.pages = 1 .. n
      /\ g.first_free_page_no = n
      /\ g.pages[n] = EmptyPage(f.first_free_page_no)
      /\ \A q \in DOMAIN f.pages : g.pages[q] = f.pages[q]
  BY PageAdded
<1>2. DOMAIN f.pages \subseteq Nat /\ n \notin DOMAIN f.pages
  BY PageNumbers
<1>3. DOMAIN f.pages = 1 .. Len(f.pages) /\ Len(f.pages) \in Nat
  BY FileFacts
<1>4. DOMAIN g.pages = DOMAIN f.pages \cup {n} /\ n \in DOMAIN g.pages
  BY <1>1, <1>3
<1> HIDE DEF g, n
<1>5. HasRoom(g, n)
  <2>1. 0 \in Slots
    BY PagesHaveSlots DEF Slots
  <2> QED
    BY <1>1, <2>1, NewPageFilledUp DEF HasRoom
<1>6. g.pages[n].next_free_page_no = f.first_free_page_no
  BY <1>1 DEF EmptyPage
<1>7. \A q \in DOMAIN f.pages \ {n} :
         /\ g.pages[q].next_free_page_no = f.pages[q].next_free_page_no
         /\ HasRoom(g, q) <=> HasRoom(f, q)
  BY <1>1 DEF HasRoom
<1>8. T \subseteq T \cup {n}
  OBVIOUS
<1>9. ListOf(g, T)
  BY <1>1, <1>2, <1>4, <1>5, <1>6, <1>7, <1>8, ListPush
<1> QED
  BY <1>9 DEF g

(* insert_record keeps the list when the head has a free slot. *)
LEMMA ListInsert ==
    ASSUME NEW f \in Files(Cells, Int), LinksIn(f), NEW x \in Cells, x # NoRow, HeadOpen(f),
           NEW T, ListOf(f, T), NEW U, U \subseteq T \cup {FreeRid(f).page_no}
    PROVE  ListOf(insert_record(f, x), U) /\ FreeRid(f).slot_no \in Slots
<1> DEFINE m == Room(f)
           p == m.first_free_page_no
           rid == FreeRid(f)
           g == insert_record(f, x)
<1>1. NoRow \in Cells /\ NoPage \in Int /\ num_pages(f) \in Int
  <2>1. Len(f.pages) \in Nat /\ num_pages(f) = Len(f.pages) + 1
    BY FileFacts
  <2> QED
    BY <2>1 DEF Cells, NoPage
<1>2. InsertedRow(f, g, x)
  BY <1>1, Inserted
<1>3. m \in Files(Cells, Int) /\ ListOf(m, T)
  <2>1. CASE f.first_free_page_no = NoPage
    <3>1. m = create_new_page_handle(f)
      BY <2>1 DEF Room
    <3>2. ListOf(create_new_page_handle(f), T)
      BY ListPageAdded
    <3>3. create_new_page_handle(f) \in Files(Cells, Int)
      BY PageAdded
    <3> QED
      BY <3>1, <3>2, <3>3
  <2>2. CASE f.first_free_page_no # NoPage
    BY <2>2 DEF Room
  <2> QED
    BY <2>1, <2>2
<1>4. /\ DOMAIN g.pages = DOMAIN m.pages
      /\ rid \in RidsOf(m) /\ rid.page_no = p /\ row(m, rid) = NoRow
      /\ \A q \in DOMAIN m.pages : q # p => g.pages[q].rows = m.pages[q].rows
      /\ \/ FreeSlots(g.pages[p]) # {} /\ SameList(m, g)
         \/ /\ FreeSlots(g.pages[p]) = {}
            /\ g.first_free_page_no = m.pages[p].next_free_page_no
            /\ \A q \in DOMAIN m.pages :
                  g.pages[q].next_free_page_no =
                     IF q = p THEN NoPage ELSE m.pages[q].next_free_page_no
  <2> HIDE DEF g
  <2> QED
    BY <1>2 DEF InsertedRow
<1>5. p \in DOMAIN m.pages /\ rid.slot_no \in Slots /\ HasRoom(m, p)
  BY <1>4 DEF RidsOf, HasRoom, FreeSlots, row
<1>6. DOMAIN m.pages \subseteq Nat
  BY <1>3, PageNumbers
<1>7. U \subseteq T \cup {p}
  BY <1>4
<1> SUFFICES ListOf(g, U)
  BY <1>5
<1> HIDE DEF m, g, rid
<1>8. \A q \in DOMAIN m.pages : q # p => FreeSlots(g.pages[q]) = FreeSlots(m.pages[q])
  BY <1>4 DEF FreeSlots
<1>9. \A q \in DOMAIN m.pages \ {p} : HasRoom(g, q) <=> HasRoom(m, q)
  BY <1>8 DEF HasRoom
<1>10. CASE FreeSlots(g.pages[p]) # {} /\ SameList(m, g)
  <2>1. \A q \in DOMAIN m.pages : HasRoom(g, q) => HasRoom(m, q)
    BY <1>5, <1>9
  <2>2. \A q \in DOMAIN m.pages : q \in U =>
           HasRoom(g, q) \/ (q \in T /\ (HasRoom(m, q) => HasRoom(g, q)))
    BY <1>7, <1>9, <1>10 DEF HasRoom
  <2> QED
    BY <1>3, <1>4, <1>10, <2>1, <2>2, ListSame
<1>11. CASE /\ FreeSlots(g.pages[p]) = {}
            /\ g.first_free_page_no = m.pages[p].next_free_page_no
            /\ \A q \in DOMAIN m.pages :
                  g.pages[q].next_free_page_no =
                     IF q = p THEN NoPage ELSE m.pages[q].next_free_page_no
  <2>1. ~HasRoom(g, p)
    BY <1>11 DEF HasRoom
  <2>2. \A q \in DOMAIN m.pages \ {p} :
           /\ g.pages[q].next_free_page_no = m.pages[q].next_free_page_no
           /\ HasRoom(g, q) <=> HasRoom(m, q)
    BY <1>9, <1>11
  <2>3. g.first_free_page_no = m.pages[p].next_free_page_no
    BY <1>11
  <2> QED
    BY <1>3, <1>4, <1>5, <1>6, <1>7, <2>1, <2>2, <2>3, ListPop
<1> QED
  BY <1>4, <1>10, <1>11

(* delete_record keeps the list: a full page of T is not on it. *)
LEMMA ListDelete ==
    ASSUME NEW f \in Files(Cells, Int), NEW rid \in RidsOf(f), NEW T, rid.page_no \in T,
           ListOf(f, T), NEW U, U \subseteq T
    PROVE  ListOf(delete_record(f, rid), U)
<1> DEFINE p == rid.page_no
           g == delete_record(f, rid)
<1>1. NoRow \in Cells /\ p \in DOMAIN f.pages /\ p \in Int /\ rid.slot_no \in Slots
      /\ DOMAIN f.pages \subseteq Nat
  <2>1. p \in DOMAIN f.pages /\ rid.slot_no \in Slots
    BY DEF RidsOf
  <2>2. DOMAIN f.pages \subseteq Nat
    BY PageNumbers
  <2> QED
    BY <2>1, <2>2 DEF Cells
<1>2. DeletedRow(f, g, rid)
  BY <1>1, Deleted
<1> SUFFICES ListOf(g, U)
  OBVIOUS
<1> HIDE DEF g
<1>3. Wrote(f, g, rid, NoRow) /\ DOMAIN g.pages = DOMAIN f.pages
  BY <1>2 DEF DeletedRow, Wrote
<1>4. HasRoom(g, p)
  <2>1. \A q \in DOMAIN f.pages : \A s \in Slots :
           g.pages[q].rows[s] = IF q = rid.page_no /\ s = rid.slot_no THEN NoRow
                                ELSE f.pages[q].rows[s]
    BY <1>3, WroteSlots
  <2> QED
    BY <1>1, <2>1 DEF FreeSlots, HasRoom
<1>5. \A q \in DOMAIN f.pages \ {p} : HasRoom(g, q) <=> HasRoom(f, q)
  BY <1>2 DEF DeletedRow, HasRoom, FreeSlots
<1>6. PICK n \in Nat : \E L \in [1 .. n -> DOMAIN f.pages] : IsList(f, T, n, L)
  BY DEF ListOf
<1>7. PICK L \in [1 .. n -> DOMAIN f.pages] : IsList(f, T, n, L)
  BY <1>6
<1>8. f.first_free_page_no = p => HasRoom(f, p)
  <2>1. p # NoPage
    BY <1>1 DEF NoPage
  <2>2. f.first_free_page_no = p => n # 0 /\ L[1] = p
    BY <1>7, <2>1 DEF IsList, Chain
  <2>3. n # 0 => 1 \in 1 .. n
    BY <1>6
  <2> QED
    BY <1>7, <2>2, <2>3 DEF IsList, HasRoom
<1>9. CASE HasRoom(f, p)
  <2>1. SameList(f, g)
    BY <1>2, <1>9 DEF DeletedRow, HasRoom
  <2>2. \A q \in DOMAIN f.pages : HasRoom(g, q) => HasRoom(f, q)
    BY <1>5, <1>9
  <2>3. \A q \in DOMAIN f.pages : q \in U =>
           HasRoom(g, q) \/ (q \in T /\ (HasRoom(f, q) => HasRoom(g, q)))
    BY <1>4, <1>5
  <2> QED
    BY <1>3, <2>1, <2>2, <2>3, ListSame
<1>10. CASE ~HasRoom(f, p)
  <2>1. /\ g.first_free_page_no = p
        /\ \A q \in DOMAIN f.pages :
              g.pages[q].next_free_page_no =
                 IF q = p THEN f.first_free_page_no ELSE f.pages[q].next_free_page_no
    BY <1>2, <1>8, <1>10 DEF DeletedRow, HasRoom
  <2>2. g.pages[p].next_free_page_no = f.first_free_page_no
    BY <1>1, <2>1
  <2>3. \A q \in DOMAIN f.pages \ {p} :
           /\ g.pages[q].next_free_page_no = f.pages[q].next_free_page_no
           /\ HasRoom(g, q) <=> HasRoom(f, q)
    BY <1>5, <2>1
  <2>4. DOMAIN g.pages = DOMAIN f.pages \cup {p} /\ p \in DOMAIN g.pages /\ U \subseteq T \cup {p}
    BY <1>1, <1>3
  <2> QED
    BY <1>1, <1>4, <1>10, <2>1, <2>2, <2>3, <2>4, ListPush
<1> QED
  BY <1>9, <1>10

-----------------------------------------------------------------------------
(* No room is lost, as long as no session inserts into a full page *)

(* The file stays, and nothing new may be taken back. *)
LEMMA ListStays ==
    ASSUME ListInvariant, file' = file,
           \A w \in Sessions : \A k \in DOMAIN write_set'[w] :
              k \in DOMAIN write_set[w] /\ write_set'[w][k] = write_set[w][k]
    PROVE  ListInvariant'
<1>1. Taken' \subseteq Taken
  BY DEF Taken
<1>2. SameList(file, file)
  BY DEF SameList
<1>3. \A p \in DOMAIN file.pages : p \in Taken' =>
         HasRoom(file, p) \/ (p \in Taken /\ (HasRoom(file, p) => HasRoom(file, p)))
  BY <1>1
<1>4. ListOf(file, Taken)
  BY DEF ListInvariant
<1>5. ListOf(file, Taken')
  BY <1>2, <1>3, <1>4, ListSame
<1> QED
  BY <1>5 DEF ListInvariant

(* While LOAD runs nothing may be taken back. *)
LEMMA NothingTaken ==
    ASSUME TableIndInv, Loading
    PROVE  Taken = {} /\ \A w \in Sessions : write_set[w] = << >>
<1>1. \A w \in Sessions : write_set[w] = << >>
  BY DEF TableIndInv, LoadInv, SessionsInv
<1> QED
  BY <1>1 DEF Taken

(* A step of LOAD that adds a page, or none *)
LEMMA ListPages ==
    ASSUME TableIndInv, ListInvariant, Loading, write_set' = write_set,
           file' = file \/ file' = create_new_page_handle(file)
    PROVE  ListInvariant'
<1>1. CASE file' = file
  BY <1>1, ListStays
<1>2. CASE file' = create_new_page_handle(file)
  <2>1. Taken = {} /\ \A w \in Sessions : write_set[w] = << >>
    BY NothingTaken
  <2>2. Taken' = {}
    BY <2>1 DEF Taken
  <2>3. ListOf(file, {}) /\ file \in Files(Cells, Int) /\ LinksIn(file)
    BY <2>1 DEF ListInvariant, TableIndInv, Types
  <2>4. ListOf(file', {})
    BY <1>2, <2>3, ListPageAdded
  <2> QED
    BY <2>1, <2>2, <2>4 DEF ListInvariant
<1> QED
  BY <1>1, <1>2

(* LOAD writes a row and leaves the links. *)
LEMMA ListRow ==
    ASSUME TableIndInv, ListInvariant, load_row
    PROVE  ListInvariant'
<1> USE PagesHaveSlots
<1> DEFINE rid == [page_no |-> load.page_no, slot_no |-> load.pos]
           x == Min(load.batch)
           p == load.page_no
<1>1. Types /\ LoadInv /\ load.step = "row" /\ load.to_load > 0
      /\ file' = SetRow(file, rid, x) /\ write_set' = write_set
  BY DEF TableIndInv, load_row
<1>2. /\ Loading /\ p \in DOMAIN file.pages
      /\ load.pos \in 0 .. SlotsPerPage /\ load.to_load \in 0 .. SlotsPerPage - load.pos
      /\ load.to_load <= Cardinality(load.batch)
  BY <1>1 DEF Loading, LoadInv
<1>3. rid \in RidsOf(file)
  BY <1>1, <1>2 DEF RidsOf, Slots
<1>4. x \in Cells /\ x # NoRow
  <2>1. load.batch \in SUBSET (1 .. MaxRows)
    BY <1>1 DEF Types, LoadStates
  <2>2. load.batch # {}
    <3>1. SUFFICES ASSUME load.batch = {} PROVE FALSE
      OBVIOUS
    <3>2. Cardinality(load.batch) = 0
      BY <3>1, FS_EmptySet
    <3>3. load.to_load \in Int /\ load.to_load > 0 /\ load.to_load <= Cardinality(load.batch)
      BY <1>1, <1>2
    <3> QED
      BY <3>2, <3>3
  <2>3. load.batch \in SUBSET Nat
    BY <2>1
  <2>4. x \in load.batch
    BY <2>2, <2>3, LeastMember
  <2> QED
    BY <2>1, <2>4, EmptySlotIsNoRow DEF Cells
<1>5. Wrote(file, file', rid, x) /\ SameList(file, file')
  <2>1. file \in Files(Cells, Int)
    BY <1>1 DEF Types
  <2> HIDE DEF rid, x
  <2> QED
    BY <1>1, <1>3, <1>4, <2>1, SetRowWrites
<1>6. DOMAIN file'.pages = DOMAIN file.pages
  BY <1>5 DEF Wrote
<1>7. \A q \in DOMAIN file.pages : HasRoom(file', q) => HasRoom(file, q)
  <2>1. \A q \in DOMAIN file.pages : \A s \in Slots :
           file'.pages[q].rows[s] = IF q = rid.page_no /\ s = rid.slot_no THEN x
                                    ELSE file.pages[q].rows[s]
    <3> HIDE DEF rid, x
    <3>1. Wrote(file, file', rid, x)
      BY <1>5
    <3> QED
      BY <1>3, <3>1, WroteSlots
  <2> HIDE DEF rid, x
  <2> QED
    BY <1>4, <2>1 DEF HasRoom, FreeSlots
<1>8. Taken = {} /\ \A w \in Sessions : write_set[w] = << >>
  BY <1>2, NothingTaken
<1>9. Taken' = {}
  BY <1>1, <1>8 DEF Taken
<1>10. ListOf(file, {})
  BY <1>8 DEF ListInvariant
<1>11. ListOf(file', {})
  BY <1>5, <1>6, <1>7, <1>10, ListSame
<1> QED
  BY <1>1, <1>8, <1>9, <1>11 DEF ListInvariant

(* INSERT into a page with a free slot *)
LEMMA ListInsertKeeps ==
    ASSUME ~FillsPages, TableIndInv, ListInvariant, NEW w \in Sessions, insert(w)
    PROVE  ListInvariant'
<1> DEFINE x == made + 1
           rid == FreeRid(file)
<1>1. /\ Types /\ SessionsInv /\ HeadHasRoom /\ made < MaxRows
      /\ file' = insert_record(file, x)
      /\ write_set' = [write_set EXCEPT ![w] = Append(@, rid)]
  BY DEF TableIndInv, insert
<1>2. x \in Cells /\ x # NoRow
  BY <1>1, EmptySlotIsNoRow, BoundsAreNumbers DEF Types, Cells
<1>3. file \in Files(Cells, Int) /\ LinksIn(file) /\ HeadOpen(file)
  BY <1>1 DEF Types, LinksIn, HeadOpen, HeadHasRoom
<1>4. /\ write_set'[w] = Append(write_set[w], rid)
      /\ \A v \in Sessions : v # w => write_set'[v] = write_set[v]
      /\ write_set[w] \in Seq(Places)
  BY <1>1 DEF Types
<1> HIDE DEF rid
<1>5. ASSUME NEW v \in Sessions, NEW k \in DOMAIN write_set'[v]
      PROVE  \/ write_set'[v][k] = rid
             \/ k \in DOMAIN write_set[v] /\ write_set'[v][k] = write_set[v][k]
  <2>1. CASE v = w
    BY <1>4, <1>5, <2>1
  <2>2. CASE v # w
    BY <1>4, <1>5, <2>2
  <2> QED
    BY <2>1, <2>2
<1>6. Taken' \subseteq Taken \cup {rid.page_no}
  BY <1>1, <1>5 DEF Taken, SessionsInv
<1>7. ListOf(file, Taken)
  BY DEF ListInvariant
<1>8. ListOf(file', Taken') /\ rid.slot_no \in Slots
  BY <1>1, <1>2, <1>3, <1>6, <1>7, ListInsert DEF rid
<1> QED
  BY <1>5, <1>8 DEF ListInvariant

(* A rollback *)
LEMMA ListRollbackKeeps ==
    ASSUME TableIndInv, ListInvariant, NEW w \in Sessions, rollback_insert(w)
    PROVE  ListInvariant'
<1> DEFINE ws == write_set[w]
           rid == Last(ws)
<1>1. /\ Types /\ SessionsInv /\ status[w] = "undoing"
      /\ file' = delete_record(file, rid)
      /\ write_set' = [write_set EXCEPT ![w] = Front(@)]
  BY DEF TableIndInv, rollback_insert
<1>2. ws \in Seq(Places) /\ ws # << >>
  BY <1>1 DEF Types, SessionsInv
<1>3. Len(ws) \in DOMAIN ws /\ rid = ws[Len(ws)] /\ rid \in Places
  <2> HIDE DEF ws
  <2> QED
    BY <1>2 DEF Last
<1>4. rid \in RidsOf(file) /\ rid.page_no \in Taken
  <2>1. rid.page_no \in DOMAIN file.pages /\ rid.slot_no \in Slots
    BY <1>1, <1>3 DEF SessionsInv, ListInvariant
  <2>2. rid.page_no \in Taken
    BY <1>3, <2>1 DEF Taken
  <2> QED
    BY <1>3, <2>1, <2>2 DEF Places, RidsOf
<1>5. /\ write_set'[w] = Front(ws)
      /\ \A v \in Sessions : v # w => write_set'[v] = write_set[v]
  BY <1>1 DEF Types
<1>6. \A k \in DOMAIN Front(ws) : k \in DOMAIN ws /\ Front(ws)[k] = ws[k]
  BY <1>2, FrontOf
<1>7. \A v \in Sessions : \A k \in DOMAIN write_set'[v] :
         k \in DOMAIN write_set[v] /\ write_set'[v][k] = write_set[v][k]
  BY <1>5, <1>6
<1>8. Taken' \subseteq Taken
  BY <1>1, <1>7 DEF Taken, SessionsInv
<1>9. ListOf(file, Taken) /\ file \in Files(Cells, Int)
  BY <1>1 DEF ListInvariant, Types
<1>10. ListOf(file', Taken')
  <2> HIDE DEF rid
  <2> QED
    BY <1>1, <1>4, <1>8, <1>9, ListDelete
<1> QED
  BY <1>7, <1>10 DEF ListInvariant

(* Every step keeps the list. *)
LEMMA ListStep ==
    ASSUME ~FillsPages, TableIndInv, ListInvariant, [Next]_vars
    PROVE  ListInvariant'
<1>1. ASSUME write_set' = write_set, file' = file PROVE ListInvariant'
  BY <1>1, ListStays
<1>2. ASSUME NEW w \in Sessions, commit(w) PROVE ListInvariant'
  <2>1. file' = file /\ write_set' = [write_set EXCEPT ![w] = << >>]
        /\ write_set \in [Sessions -> Seq(Places)]
    BY <1>2 DEF commit, TableIndInv, Types
  <2>2. \A v \in Sessions : write_set'[v] = write_set[v] \/ write_set'[v] = << >>
    BY <2>1
  <2> QED
    BY <2>1, <2>2, ListStays
<1>3. ASSUME NEW w \in Sessions, insert(w) \/ abort(w) \/ rollback_insert(w) PROVE ListInvariant'
  BY <1>1, <1>3, ListInsertKeeps, ListRollbackKeeps DEF abort
<1>4. ASSUME NEW lines \in Csvs, load_table(lines) PROVE ListInvariant'
  BY <1>1, <1>4 DEF load_table
<1>5. ASSUME Load PROVE ListInvariant'
  <2>1. CASE open_csv \/ read_batch \/ load_page
    BY <1>1, <2>1 DEF open_csv, read_batch, load_page
  <2>2. CASE insert_records \/ page_filled
    <3>1. write_set' = write_set /\ (file' = file \/ file' = create_new_page_handle(file)) /\ Loading
      BY <2>2 DEF insert_records, page_filled, Loading
    <3> QED
      BY <3>1, ListPages
  <2> QED
    BY <1>5, <2>1, <2>2, ListRow DEF Load
<1>6. ASSUME NEW r \in Scanners, rm_scan(r) \/ next_page(r) \/ next(r) \/ scan_end(r)
      PROVE  ListInvariant'
  BY <1>1, <1>6 DEF rm_scan, next_page, next, scan_end
<1>7. CASE UNCHANGED vars
  BY <1>1, <1>7 DEF vars
<1> QED
  BY <1>2, <1>3, <1>4, <1>5, <1>6, <1>7 DEF Next

(* An empty file has an empty list. *)
LEMMA ListInit ==
    ASSUME Init
    PROVE  ListInvariant
<1>1. file.first_free_page_no = NoPage /\ DOMAIN file.pages = {} /\ \A w \in Sessions : write_set[w] = << >>
  BY DEF Init
<1> DEFINE L == [i \in 1 .. 0 |-> i]
<1>2. L \in [1 .. 0 -> DOMAIN file.pages] /\ IsList(file, Taken, 0, L)
  BY <1>1 DEF IsList, Chain
<1>3. ListOf(file, Taken)
  BY <1>2 DEF ListOf
<1> QED
  BY <1>1, <1>3 DEF ListInvariant

(* A list without a cycle is no longer than the file. *)
LEMMA ListIsShort ==
    ASSUME NEW n \in Nat, NEW N \in Nat, NEW L \in [1 .. n -> 1 .. N],
           \A i, j \in 1 .. n : L[i] = L[j] => i = j
    PROVE  n <= N
<1>1. L \in Injection(1 .. n, 1 .. N)
  BY DEF Injection, IsInjective
<1>2. IsFiniteSet(1 .. N) /\ Cardinality(1 .. N) = N /\ Cardinality(1 .. n) = n
  BY FS_Interval
<1>3. Cardinality(1 .. n) <= Cardinality(1 .. N)
  BY <1>1, <1>2, FS_Injection
<1> QED
  BY <1>2, <1>3

(* insert_record can come to the pages with a free slot by the links. *)
LEMMA RoomReachable ==
    ASSUME TableIndInv, ListInvariant
    PROVE  RoomIsReachable
<1> DEFINE N == Len(file.pages)
<1>1. N \in Nat /\ DOMAIN file.pages = 1 .. N
  <2>1. file \in Files(Cells, Int)
    BY DEF TableIndInv, Types
  <2> QED
    BY <2>1, FileFacts
<1>2. SUFFICES ASSUME NEW p \in DOMAIN file.pages, FreeSlots(file.pages[p]) # {}
               PROVE  p \in Listed
  BY DEF RoomIsReachable
<1>3. PICK n \in Nat : \E L \in [1 .. n -> DOMAIN file.pages] : IsList(file, Taken, n, L)
  BY DEF ListInvariant, ListOf
<1>4. PICK L \in [1 .. n -> DOMAIN file.pages] : IsList(file, Taken, n, L)
  BY <1>3
<1>5. Chain(file, n, L)
  BY <1>4 DEF IsList
<1>6. PICK i \in 1 .. n : L[i] = p
  BY <1>2, <1>4 DEF IsList
<1>7. n <= N
  BY <1>1, <1>3, <1>4, <1>5, ListIsShort DEF Chain
<1> DEFINE path == [j \in 1 .. i |-> L[j]]
<1>8. i \in 1 .. N /\ i \in Int /\ 1 \in 1 .. i /\ i \in 1 .. i
  BY <1>1, <1>3, <1>6, <1>7
<1>9. \A j \in 1 .. i : j \in 1 .. n /\ L[j] \in DOMAIN file.pages
  BY <1>3, <1>4, <1>6
<1>10. path \in [1 .. i -> DOMAIN file.pages] /\ path[1] = L[1] /\ path[i] = p
  BY <1>6, <1>8, <1>9
<1>11. L[1] = file.first_free_page_no
  BY <1>3, <1>5, <1>6 DEF Chain
<1>12. ASSUME NEW j \in 1 .. i - 1 PROVE path[j + 1] = FreeLink[path[j]]
  <2>1. j \in 1 .. i /\ j + 1 \in 1 .. i /\ j # n /\ j \in 1 .. n
    BY <1>3, <1>6, <1>8
  <2>2. file.pages[L[j]].next_free_page_no = L[j + 1]
    BY <1>5, <2>1 DEF Chain
  <2>3. path[j] = L[j] /\ path[j + 1] = L[j + 1] /\ L[j] \in DOMAIN file.pages
    BY <1>9, <2>1
  <2> QED
    BY <2>2, <2>3 DEF FreeLink
<1> HIDE DEF path
<1> QED
  BY <1>8, <1>10, <1>11, <1>12 DEF Listed

(* The types of the variables *)
LEMMA TypesOK ==
    ASSUME TableIndInv, ListInvariant
    PROVE  TypeOK
<1>1. Types /\ SessionsInv /\ \A r \in Scanners : ScanInv(scan[r], file)
  BY DEF TableIndInv
<1>2. file \in Files(Cells, Int) /\ LinksIn(file)
  BY <1>1 DEF Types
<1>3. \A p \in DOMAIN file.pages : file.pages[p].rows \in [Slots -> {NoRow} \cup 1 .. MaxRows]
  BY <1>2, FileFacts DEF Pages, Cells
<1>4. ASSUME NEW w \in Sessions PROVE write_set[w] \in Seq(RidsOf(file))
  <2>1. write_set[w] \in Seq(Places)
    BY <1>1 DEF Types
  <2>2. \A k \in DOMAIN write_set[w] : write_set[w][k] \in Places
    BY <2>1
  <2>3. \A k \in DOMAIN write_set[w] : write_set[w][k] \in RidsOf(file)
    BY <1>1, <2>2 DEF SessionsInv, ListInvariant, Places, RidsOf
  <2> DEFINE S == RidsOf(file)
             s == write_set[w]
  <2>4. s \in Seq(Places) /\ \A k \in DOMAIN s : s[k] \in S
    BY <2>1, <2>3
  <2> HIDE DEF S, s
  <2>5. s \in Seq(S)
    BY <2>4
  <2> QED
    BY <2>5 DEF S, s
<1>5. \A r \in Scanners : /\ scan[r].page_no \in 0 .. num_pages(file)
                          /\ scan[r].slot_no \in -1 .. SlotsPerPage - 1
  BY <1>1 DEF Types, ScanStates, ScanInv
<1>6. load.step \in LoadSteps
  BY <1>1 DEF Types, LoadStates
<1> QED
  BY <1>1, <1>2, <1>3, <1>4, <1>5, <1>6 DEF TypeOK, Types, LinksIn

(* When sessions keep off the pages that LOAD has left full, every page    *)
(* with a free slot can be reached from the header by the list of free     *)
(* pages, whatever order rows are inserted, taken back and loaded in.      *)
THEOREM NoRoomIsLost ==
    ASSUME ~FillsPages
    PROVE  Spec => []TableInv
<1>1. Init => ListInvariant
  BY ListInit
<1>2. TableIndInv /\ ListInvariant /\ [Next]_vars => ListInvariant'
  BY ListStep
<1>3. TableIndInv /\ ListInvariant => TableInv
  BY RoomReachable, TypesOK DEF TableInv
<1> QED
  BY <1>1, <1>2, <1>3, TableFileInductive, PTL DEF Spec

(* And every row that is inserted has a slot: the row that InsertsHaveASlot *)
(* loses needs a page that LOAD has left full.                              *)
THEOREM InsertsHaveSlots ==
    ASSUME ~FillsPages
    PROVE  Spec => []InsertsHaveASlot
<1>1. Init => ListInvariant
  BY ListInit
<1>2. TableIndInv /\ ListInvariant /\ [Next]_vars => ListInvariant'
  BY ListStep
<1>3. ListInvariant => InsertsHaveASlot
  BY DEF ListInvariant, InsertsHaveASlot
<1> QED
  BY <1>1, <1>2, <1>3, TableFileInductive, PTL DEF Spec
=============================================================================
