-------------------------- MODULE RecordFileProofs --------------------------
(***************************************************************************)
(* What the operations of RecordFile do to a table file of any size: which *)
(* row is in which slot afterwards, and how the list of free pages is      *)
(* linked.  The lemmas are for files whose slots hold members of R and     *)
(* whose links are in N.                                                   *)
(***************************************************************************)
EXTENDS RecordFile, FiniteSetTheorems, TLAPS

Pages(R, N) == [rows : [Slots -> R], next_free_page_no : N]

Files(R, N) == [first_free_page_no : N, pages : Seq(Pages(R, N))]

(* g is f but for row r in the slot rid. *)
Wrote(f, g, rid, r) ==
    /\ DOMAIN g.pages = DOMAIN f.pages
    /\ \A q \in RidsOf(f) : row(g, q) = IF q = rid THEN r ELSE row(f, q)

(* Their lists of free pages are the same. *)
SameList(f, g) ==
    /\ g.first_free_page_no = f.first_free_page_no
    /\ \A p \in DOMAIN f.pages : g.pages[p].next_free_page_no = f.pages[p].next_free_page_no

(* A sequence of pages is a function on the numbers of its pages. *)
LEMMA PagesOfFile ==
    ASSUME NEW R, NEW N, NEW f \in Files(R, N)
    PROVE  /\ f.first_free_page_no \in N
           /\ f.pages \in Seq(Pages(R, N))
           /\ Len(f.pages) \in Nat
           /\ DOMAIN f.pages = 1 .. Len(f.pages)
           /\ num_pages(f) = Len(f.pages) + 1
           /\ \A p \in DOMAIN f.pages : f.pages[p] \in Pages(R, N)
           /\ \A rid \in RidsOf(f) : row(f, rid) \in R
<1>1. f.first_free_page_no \in N /\ f.pages \in Seq(Pages(R, N))
  BY DEF Files
<1>2. /\ Len(f.pages) \in Nat /\ DOMAIN f.pages = 1 .. Len(f.pages)
      /\ \A p \in DOMAIN f.pages : f.pages[p] \in Pages(R, N)
  BY <1>1
<1>3. \A rid \in RidsOf(f) : row(f, rid) \in R
  BY <1>2 DEF RidsOf, row, Pages
<1> QED
  BY <1>1, <1>2, <1>3 DEF num_pages

(* A rid is its page and its slot. *)
LEMMA RidFields ==
    ASSUME NEW P, NEW q \in [page_no : P, slot_no : Slots], NEW rid \in [page_no : P, slot_no : Slots]
    PROVE  q = rid <=> q.page_no = rid.page_no /\ q.slot_no = rid.slot_no
  OBVIOUS

(* One page of a file is replaced. *)
LEMMA PageReplaced ==
    ASSUME NEW R, NEW N, NEW f \in Files(R, N), NEW p \in DOMAIN f.pages,
           NEW page \in Pages(R, N), NEW h \in N, NEW g,
           g = [first_free_page_no |-> h, pages |-> [f.pages EXCEPT ![p] = page]]
    PROVE  /\ g \in Files(R, N)
           /\ g.first_free_page_no = h
           /\ DOMAIN g.pages = DOMAIN f.pages
           /\ Len(g.pages) = Len(f.pages)
           /\ g.pages[p] = page
           /\ \A q \in DOMAIN f.pages : q # p => g.pages[q] = f.pages[q]
<1>1. f.pages \in Seq(Pages(R, N)) /\ DOMAIN f.pages = 1 .. Len(f.pages) /\ Len(f.pages) \in Nat
  BY PagesOfFile
<1> DEFINE S == Pages(R, N)
           s == f.pages
<1>2. s \in Seq(S) /\ p \in 1 .. Len(s) /\ page \in S
  BY <1>1
<1> HIDE DEF S, s
<1>3. /\ [s EXCEPT ![p] = page] \in Seq(S)
      /\ Len([s EXCEPT ![p] = page]) = Len(s)
      /\ DOMAIN [s EXCEPT ![p] = page] = 1 .. Len(s)
      /\ \A q \in 1 .. Len(s) : [s EXCEPT ![p] = page][q] = IF q = p THEN page ELSE s[q]
  BY <1>2
<1>4. g.first_free_page_no = h /\ g.pages = [s EXCEPT ![p] = page]
  BY DEF s
<1>5. g \in Files(R, N)
  BY <1>3, <1>4 DEF Files, S
<1> QED
  BY <1>1, <1>2, <1>3, <1>4, <1>5 DEF s

(* A record of two fields is made of them. *)
LEMMA FileFields ==
    ASSUME NEW R, NEW N, NEW f \in Files(R, N)
    PROVE  f = [first_free_page_no |-> f.first_free_page_no, pages |-> f.pages]
  BY DEF Files

(* SetRow writes one slot. *)
LEMMA SetRowWrites ==
    ASSUME NEW R, NEW N, NEW f \in Files(R, N), NEW rid \in RidsOf(f), NEW r \in R
    PROVE  LET g == SetRow(f, rid, r)
           IN  /\ g \in Files(R, N)
               /\ Len(g.pages) = Len(f.pages)
               /\ Wrote(f, g, rid, r)
               /\ SameList(f, g)
               /\ \A q \in DOMAIN f.pages : q # rid.page_no => g.pages[q] = f.pages[q]
<1> DEFINE p    == rid.page_no
           s    == rid.slot_no
           old  == f.pages[p]
           page == [old EXCEPT !.rows[s] = r]
           g    == SetRow(f, rid, r)
<1>1. p \in DOMAIN f.pages /\ s \in Slots
  BY DEF RidsOf
<1>2. old \in Pages(R, N)
  BY <1>1, PagesOfFile
<1>3. /\ page \in Pages(R, N)
      /\ page.next_free_page_no = old.next_free_page_no
      /\ \A z \in Slots : page.rows[z] = IF z = s THEN r ELSE old.rows[z]
  BY <1>1, <1>2 DEF Pages
<1>4. g = [first_free_page_no |-> f.first_free_page_no, pages |-> [f.pages EXCEPT ![p] = page]]
  BY FileFields DEF SetRow
<1>5. f.first_free_page_no \in N
  BY PagesOfFile
<1> HIDE DEF g, page
<1>6. /\ g \in Files(R, N)
      /\ g.first_free_page_no = f.first_free_page_no
      /\ DOMAIN g.pages = DOMAIN f.pages
      /\ Len(g.pages) = Len(f.pages)
      /\ g.pages[p] = page
      /\ \A q \in DOMAIN f.pages : q # p => g.pages[q] = f.pages[q]
  BY <1>1, <1>3, <1>4, <1>5, PageReplaced
<1>7. SameList(f, g)
  BY <1>1, <1>3, <1>6 DEF SameList
<1>8. ASSUME NEW q \in RidsOf(f) PROVE row(g, q) = IF q = rid THEN r ELSE row(f, q)
  <2>1. q = rid <=> q.page_no = p /\ q.slot_no = s
    BY RidFields DEF RidsOf
  <2>2. q.page_no \in DOMAIN f.pages /\ q.slot_no \in Slots
    BY DEF RidsOf
  <2> QED
    BY <1>3, <1>6, <2>1, <2>2 DEF row
<1> QED
  BY <1>6, <1>7, <1>8 DEF Wrote, g

(* Unlink changes links only: the head, and the link of the page it was. *)
LEMMA UnlinkLinks ==
    ASSUME NEW R, NEW N, NoPage \in N, NEW f \in Files(R, N), NEW p \in DOMAIN f.pages
    PROVE  LET g == Unlink(f, p)
           IN  /\ g \in Files(R, N)
               /\ Len(g.pages) = Len(f.pages)
               /\ \A q \in DOMAIN f.pages : g.pages[q].rows = f.pages[q].rows
               /\ g.first_free_page_no = f.pages[p].next_free_page_no
               /\ \A q \in DOMAIN f.pages :
                     g.pages[q].next_free_page_no =
                        IF q = p THEN NoPage ELSE f.pages[q].next_free_page_no
<1> DEFINE old  == f.pages[p]
           page == [old EXCEPT !.next_free_page_no = NoPage]
           g    == Unlink(f, p)
<1>1. old \in Pages(R, N)
  BY PagesOfFile
<1>2. /\ page \in Pages(R, N) /\ page.rows = old.rows /\ page.next_free_page_no = NoPage
      /\ old.next_free_page_no \in N
  BY <1>1 DEF Pages
<1>3. g = [first_free_page_no |-> old.next_free_page_no, pages |-> [f.pages EXCEPT ![p] = page]]
  <2> DEFINE h == old.next_free_page_no
             s == [f.pages EXCEPT ![p] = page]
  <2>1. g = [f EXCEPT !.first_free_page_no = h, !.pages = s]
    BY DEF Unlink
  <2>2. f = [first_free_page_no |-> f.first_free_page_no, pages |-> f.pages]
    BY FileFields
  <2> HIDE DEF h, s, g
  <2>3. g = [first_free_page_no |-> h, pages |-> s]
    BY <2>1, <2>2
  <2> QED
    BY <2>3 DEF h, s
<1> HIDE DEF g, page, old
<1>4. /\ g \in Files(R, N)
      /\ g.first_free_page_no = old.next_free_page_no
      /\ Len(g.pages) = Len(f.pages)
      /\ g.pages[p] = page
      /\ \A q \in DOMAIN f.pages : q # p => g.pages[q] = f.pages[q]
  BY <1>2, <1>3, PageReplaced
<1> QED
  BY <1>2, <1>4 DEF g, old

(* release_page_handle changes links only: the page becomes the head. *)
LEMMA ReleaseLinks ==
    ASSUME NEW R, NEW N, NEW f \in Files(R, N), NEW p \in DOMAIN f.pages, p \in N,
           f.first_free_page_no # p
    PROVE  LET g == release_page_handle(f, p)
           IN  /\ g \in Files(R, N)
               /\ Len(g.pages) = Len(f.pages)
               /\ \A q \in DOMAIN f.pages : g.pages[q].rows = f.pages[q].rows
               /\ g.first_free_page_no = p
               /\ \A q \in DOMAIN f.pages :
                     g.pages[q].next_free_page_no =
                        IF q = p THEN f.first_free_page_no ELSE f.pages[q].next_free_page_no
<1> DEFINE old  == f.pages[p]
           page == [old EXCEPT !.next_free_page_no = f.first_free_page_no]
           g    == release_page_handle(f, p)
<1>1. old \in Pages(R, N) /\ f.first_free_page_no \in N
  BY PagesOfFile
<1>2. /\ page \in Pages(R, N) /\ page.rows = old.rows
      /\ page.next_free_page_no = f.first_free_page_no
  BY <1>1 DEF Pages
<1>3. g = [first_free_page_no |-> p, pages |-> [f.pages EXCEPT ![p] = page]]
  <2> DEFINE s == [f.pages EXCEPT ![p] = page]
  <2>1. g = [f EXCEPT !.first_free_page_no = p, !.pages = s]
    BY DEF release_page_handle
  <2>2. f = [first_free_page_no |-> f.first_free_page_no, pages |-> f.pages]
    BY FileFields
  <2> HIDE DEF s, g
  <2>3. g = [first_free_page_no |-> p, pages |-> s]
    BY <2>1, <2>2
  <2> QED
    BY <2>3 DEF s
<1> HIDE DEF g, page, old
<1>4. /\ g \in Files(R, N)
      /\ g.first_free_page_no = p
      /\ Len(g.pages) = Len(f.pages)
      /\ g.pages[p] = page
      /\ \A q \in DOMAIN f.pages : q # p => g.pages[q] = f.pages[q]
  BY <1>2, <1>3, PageReplaced
<1> QED
  BY <1>2, <1>4 DEF g, old

(* A new page is empty and the head of the list. *)
LEMMA NewPage ==
    ASSUME NEW R, NEW N, NoRow \in R, NEW f \in Files(R, N), num_pages(f) \in N
    PROVE  LET g == create_new_page_handle(f)
               n == Len(f.pages) + 1
           IN  /\ g \in Files(R, N)
               /\ Len(g.pages) = n
               /\ g.first_free_page_no = n
               /\ \A q \in DOMAIN f.pages : g.pages[q] = f.pages[q]
               /\ g.pages[n] = EmptyPage(f.first_free_page_no)
               /\ \A rid \in RidsOf(f) : rid \in RidsOf(g) /\ row(g, rid) = row(f, rid)
               /\ \A rid \in RidsOf(g) : rid.page_no = n => row(g, rid) = NoRow
               /\ \A rid \in RidsOf(g) : rid.page_no # n => rid \in RidsOf(f)
<1> DEFINE g    == create_new_page_handle(f)
           n    == Len(f.pages) + 1
           page == EmptyPage(f.first_free_page_no)
           S    == Pages(R, N)
           s    == f.pages
<1>1. /\ f.first_free_page_no \in N /\ s \in Seq(S)
      /\ Len(s) \in Nat /\ DOMAIN s = 1 .. Len(s) /\ num_pages(f) = n
  BY PagesOfFile
<1>2. page \in S /\ \A z \in Slots : page.rows[z] = NoRow
  BY <1>1 DEF EmptyPage, Pages
<1>3. g.first_free_page_no = n /\ g.pages = Append(s, page)
  BY <1>1 DEF create_new_page_handle
<1>4. g = [first_free_page_no |-> n, pages |-> Append(s, page)]
  BY <1>1 DEF create_new_page_handle
<1> HIDE DEF S, s, page, g
<1>5. /\ Append(s, page) \in Seq(S) /\ Len(Append(s, page)) = n
      /\ DOMAIN Append(s, page) = 1 .. n
      /\ \A q \in 1 .. Len(s) : Append(s, page)[q] = s[q]
      /\ Append(s, page)[n] = page
  BY <1>1, <1>2 DEF s
<1>6. g \in Files(R, N)
  BY <1>1, <1>4, <1>5 DEF Files, S
<1>7. ASSUME NEW rid \in RidsOf(f) PROVE rid \in RidsOf(g) /\ row(g, rid) = row(f, rid)
  BY <1>1, <1>3, <1>5 DEF RidsOf, row, s
<1>8. ASSUME NEW rid \in RidsOf(g), rid.page_no = n PROVE row(g, rid) = NoRow
  BY <1>2, <1>3, <1>5, <1>8 DEF RidsOf, row
<1>9. ASSUME NEW rid \in RidsOf(g), rid.page_no # n PROVE rid \in RidsOf(f)
  BY <1>1, <1>3, <1>5, <1>9 DEF RidsOf, row, s
<1>10. \A q \in DOMAIN f.pages : g.pages[q] = f.pages[q]
  BY <1>1, <1>3, <1>5 DEF s
<1> QED
  BY <1>3, <1>5, <1>6, <1>7, <1>8, <1>9, <1>10 DEF g, page

-----------------------------------------------------------------------------
(* Least members *)

(* A set of numbers that is not empty has a least member, and Min is it. *)
LEMMA LeastMember ==
    ASSUME NEW P \in SUBSET Nat, P # {}
    PROVE  Min(P) \in P /\ \A j \in P : Min(P) <= j
<1> DEFINE Less == {ss \in Nat \X Nat : ss[1] < ss[2]}
<1>1. OpToRel(<, Nat) = Less
  BY DEF OpToRel
<1>2. IsWellFoundedOn(Less, Nat)
  BY <1>1, NatLessThanWellFounded
<1> HIDE DEF Less
<1>3. PICK i \in P : \A j \in P : ~(<<j, i>> \in Less)
  BY <1>2, WFMin
<1>4. \A a, b \in Nat : a < b => <<a, b>> \in Less
  BY DEF Less
<1>5. \A j \in P : ~(j < i)
  BY <1>3, <1>4
<1>6. \A j \in P : i <= j
  BY <1>5
<1> QED
  BY <1>6 DEF Min

(* A bounded set of numbers that is not empty has a greatest member. *)
LEMMA GreatestMember ==
    ASSUME NEW P \in SUBSET Nat, P # {}, NEW n \in Nat, \A i \in P : i <= n
    PROVE  Max(P) \in P /\ \A j \in P : j <= Max(P)
<1> DEFINE Bounds == {b \in Nat : \A i \in P : i <= b}
           m == Min(Bounds)
<1>1. m \in Bounds /\ \A b \in Bounds : m <= b
  BY LeastMember
<1> HIDE DEF m
<1>2. m \in Nat /\ \A i \in P : i <= m
  BY <1>1
<1>3. m \in P
  <2>1. SUFFICES ASSUME m \notin P PROVE FALSE
    OBVIOUS
  <2>2. \A i \in P : i < m
    BY <1>2, <2>1
  <2>3. PICK i \in P : TRUE
    OBVIOUS
  <2>4. m - 1 \in Bounds
    BY <1>2, <2>2, <2>3
  <2> QED
    BY <1>1, <1>2, <2>4
<1> QED
  BY <1>2, <1>3 DEF Max

(* The first free slot of a page that has one *)
LEMMA FirstBit ==
    ASSUME NEW page, FreeSlots(page) # {}
    PROVE  first_bit(page) \in Slots /\ page.rows[first_bit(page)] = NoRow
<1>1. FreeSlots(page) \in SUBSET Nat
  BY PagesHaveSlots DEF FreeSlots, Slots
<1>2. first_bit(page) \in FreeSlots(page)
  BY <1>1, LeastMember DEF first_bit
<1> QED
  BY <1>2 DEF FreeSlots

-----------------------------------------------------------------------------
(* insert_record, delete_record *)

(* What insert_record asks of the list: its head has a free slot. *)
HeadOpen(f) ==
    f.first_free_page_no # NoPage =>
        /\ f.first_free_page_no \in DOMAIN f.pages
        /\ FreeSlots(f.pages[f.first_free_page_no]) # {}

(* Room finds, or makes, a page with a free slot, and keeps all rows. *)
LEMMA RoomFound ==
    ASSUME NEW R, NEW N, NoRow \in R, NEW f \in Files(R, N), HeadOpen(f),
           f.first_free_page_no = NoPage => num_pages(f) \in N
    PROVE  LET m == Room(f)
               p == m.first_free_page_no
           IN  /\ m \in Files(R, N)
               /\ p \in DOMAIN m.pages /\ FreeSlots(m.pages[p]) # {}
               /\ \A q \in DOMAIN f.pages : q \in DOMAIN m.pages /\ m.pages[q] = f.pages[q]
               /\ \A q \in DOMAIN m.pages : q \notin DOMAIN f.pages => q = p /\ q = num_pages(f)
               /\ \A rid \in RidsOf(f) : rid \in RidsOf(m) /\ row(m, rid) = row(f, rid)
               /\ \A rid \in RidsOf(m) : rid \notin RidsOf(f) =>
                     rid.page_no = num_pages(f) /\ row(m, rid) = NoRow
               /\ IF f.first_free_page_no = NoPage
                    THEN /\ Len(m.pages) = num_pages(f) /\ p = num_pages(f)
                         /\ m.pages[p] = EmptyPage(NoPage)
                    ELSE m = f
<1> DEFINE m == Room(f)
           p == m.first_free_page_no
<1>1. CASE f.first_free_page_no # NoPage
  <2>1. m = f
    BY <1>1 DEF Room
  <2> QED
    BY <1>1, <2>1 DEF HeadOpen
<1>2. CASE f.first_free_page_no = NoPage
  <2>1. m = create_new_page_handle(f)
    BY <1>2 DEF Room
  <2> DEFINE n == Len(f.pages) + 1
  <2>2. /\ m \in Files(R, N)
        /\ Len(m.pages) = n
        /\ m.first_free_page_no = n
        /\ \A q \in DOMAIN f.pages : m.pages[q] = f.pages[q]
        /\ m.pages[n] = EmptyPage(f.first_free_page_no)
        /\ \A rid \in RidsOf(f) : rid \in RidsOf(m) /\ row(m, rid) = row(f, rid)
        /\ \A rid \in RidsOf(m) : rid.page_no = n => row(m, rid) = NoRow
        /\ \A rid \in RidsOf(m) : rid.page_no # n => rid \in RidsOf(f)
    BY <1>2, <2>1, NewPage
  <2>3. Len(f.pages) \in Nat /\ DOMAIN f.pages = 1 .. Len(f.pages) /\ num_pages(f) = n
    BY PagesOfFile
  <2>4. DOMAIN m.pages = 1 .. n
    BY <2>2, PagesOfFile
  <2>5. 0 \in FreeSlots(m.pages[n])
    BY <2>2, PagesHaveSlots DEF FreeSlots, EmptyPage, Slots
  <2> HIDE DEF m
  <2> QED
    BY <1>2, <2>2, <2>3, <2>4, <2>5 DEF m
<1> QED
  BY <1>1, <1>2

(* g is f with row r in a free slot of the head of Room(f), which is taken  *)
(* off the list if it is full then.                                        *)
InsertedRow(f, g, r) ==
    LET m   == Room(f)
        rid == FreeRid(f)
        p   == m.first_free_page_no
    IN  /\ DOMAIN g.pages = DOMAIN m.pages
        /\ Len(g.pages) = Len(m.pages)
        /\ rid \in RidsOf(m) /\ rid.page_no = p /\ row(m, rid) = NoRow
        /\ Wrote(m, g, rid, r)
        /\ \A q \in DOMAIN m.pages : q # p => g.pages[q].rows = m.pages[q].rows
        /\ \/ FreeSlots(g.pages[p]) # {} /\ SameList(m, g)
           \/ /\ FreeSlots(g.pages[p]) = {}
              /\ g.first_free_page_no = m.pages[p].next_free_page_no
              /\ \A q \in DOMAIN m.pages :
                    g.pages[q].next_free_page_no =
                       IF q = p THEN NoPage ELSE m.pages[q].next_free_page_no

(* What insert_record does to a file whose list is open. *)
LEMMA Inserted ==
    ASSUME NEW R, NEW N, NoRow \in R, NoPage \in N, NEW f \in Files(R, N), HeadOpen(f),
           f.first_free_page_no = NoPage => num_pages(f) \in N, NEW r \in R
    PROVE  InsertedRow(f, insert_record(f, r), r) /\ insert_record(f, r) \in Files(R, N)
<1> DEFINE m    == Room(f)
           rid  == FreeRid(f)
           p    == m.first_free_page_no
           with == SetRow(m, rid, r)
           g    == insert_record(f, r)
<1>1. m \in Files(R, N) /\ p \in DOMAIN m.pages /\ FreeSlots(m.pages[p]) # {}
  BY RoomFound
<1>2. rid = [page_no |-> p, slot_no |-> first_bit(m.pages[p])]
  BY DEF FreeRid
<1>3. /\ rid.page_no = p /\ rid.slot_no \in Slots /\ rid \in RidsOf(m)
      /\ row(m, rid) = NoRow
  BY <1>1, <1>2, FirstBit DEF RidsOf, row
<1>4. /\ with \in Files(R, N) /\ Len(with.pages) = Len(m.pages)
      /\ Wrote(m, with, rid, r) /\ SameList(m, with)
      /\ \A q \in DOMAIN m.pages : q # p => with.pages[q] = m.pages[q]
  BY <1>1, <1>3, SetRowWrites
<1>5. DOMAIN with.pages = DOMAIN m.pages
  BY <1>4 DEF Wrote
<1>6. g = IF FreeSlots(with.pages[p]) = {} THEN Unlink(with, p) ELSE with
  BY <1>3 DEF insert_record
<1> HIDE DEF m, rid, with, g
<1>7. CASE FreeSlots(with.pages[p]) # {}
  <2>1. g = with
    BY <1>6, <1>7
  <2> QED
    BY <1>1, <1>3, <1>4, <1>5, <1>7, <2>1 DEF m, rid, g, InsertedRow
<1>8. CASE FreeSlots(with.pages[p]) = {}
  <2>1. g = Unlink(with, p)
    BY <1>6, <1>8
  <2>2. /\ g \in Files(R, N)
        /\ Len(g.pages) = Len(with.pages)
        /\ \A q \in DOMAIN with.pages : g.pages[q].rows = with.pages[q].rows
        /\ g.first_free_page_no = with.pages[p].next_free_page_no
        /\ \A q \in DOMAIN with.pages :
              g.pages[q].next_free_page_no =
                 IF q = p THEN NoPage ELSE with.pages[q].next_free_page_no
    BY <1>1, <1>4, <1>5, <2>1, UnlinkLinks
  <2>3. DOMAIN g.pages = DOMAIN m.pages
    BY <1>1, <1>4, <2>2, PagesOfFile
  <2>4. FreeSlots(g.pages[p]) = {}
    BY <1>1, <1>5, <1>8, <2>2 DEF FreeSlots
  <2>5. Wrote(m, g, rid, r)
    BY <1>4, <1>5, <2>2, <2>3 DEF Wrote, row, RidsOf
  <2>6. /\ g.first_free_page_no = m.pages[p].next_free_page_no
        /\ \A q \in DOMAIN m.pages :
              g.pages[q].next_free_page_no =
                 IF q = p THEN NoPage ELSE m.pages[q].next_free_page_no
    BY <1>1, <1>4, <1>5, <2>2 DEF SameList
  <2>7. \A q \in DOMAIN m.pages : q # p => g.pages[q].rows = m.pages[q].rows
    BY <1>4, <1>5, <2>2
  <2> QED
    BY <1>1, <1>3, <1>4, <2>2, <2>3, <2>4, <2>5, <2>6, <2>7 DEF m, rid, g, InsertedRow
<1> QED
  BY <1>7, <1>8

(* g is f without the row in slot rid; if its page was full, it is the     *)
(* head now.                                                               *)
DeletedRow(f, g, rid) ==
    LET p == rid.page_no
    IN  /\ Len(g.pages) = Len(f.pages)
        /\ Wrote(f, g, rid, NoRow)
        /\ \A q \in DOMAIN f.pages : q # p => g.pages[q].rows = f.pages[q].rows
        /\ IF FreeSlots(f.pages[p]) = {} /\ f.first_free_page_no # p
             THEN /\ g.first_free_page_no = p
                  /\ \A q \in DOMAIN f.pages :
                        g.pages[q].next_free_page_no =
                           IF q = p THEN f.first_free_page_no
                           ELSE f.pages[q].next_free_page_no
             ELSE SameList(f, g)

(* What delete_record does to a file. *)
LEMMA Deleted ==
    ASSUME NEW R, NEW N, NoRow \in R, NEW f \in Files(R, N), NEW rid \in RidsOf(f),
           rid.page_no \in N
    PROVE  DeletedRow(f, delete_record(f, rid), rid) /\ delete_record(f, rid) \in Files(R, N)
<1> DEFINE p       == rid.page_no
           without == SetRow(f, rid, NoRow)
           g       == delete_record(f, rid)
<1>1. p \in DOMAIN f.pages
  BY DEF RidsOf
<1>2. /\ without \in Files(R, N) /\ Len(without.pages) = Len(f.pages)
      /\ Wrote(f, without, rid, NoRow) /\ SameList(f, without)
      /\ \A q \in DOMAIN f.pages : q # p => without.pages[q] = f.pages[q]
  BY SetRowWrites
<1>3. DOMAIN without.pages = DOMAIN f.pages
  BY <1>2 DEF Wrote
<1>4. g = IF FreeSlots(f.pages[p]) = {} THEN release_page_handle(without, p) ELSE without
  BY DEF delete_record
<1> HIDE DEF without, g
<1>5. CASE ~(FreeSlots(f.pages[p]) = {} /\ f.first_free_page_no # p)
  <2>1. g = without
    BY <1>2, <1>4, <1>5 DEF release_page_handle, SameList
  <2> QED
    BY <1>2, <1>5, <2>1 DEF g, DeletedRow
<1>6. CASE FreeSlots(f.pages[p]) = {} /\ f.first_free_page_no # p
  <2>1. g = release_page_handle(without, p) /\ without.first_free_page_no # p
    BY <1>2, <1>4, <1>6 DEF SameList
  <2>2. /\ g \in Files(R, N)
        /\ Len(g.pages) = Len(without.pages)
        /\ \A q \in DOMAIN without.pages : g.pages[q].rows = without.pages[q].rows
        /\ g.first_free_page_no = p
        /\ \A q \in DOMAIN without.pages :
              g.pages[q].next_free_page_no =
                 IF q = p THEN without.first_free_page_no
                 ELSE without.pages[q].next_free_page_no
    BY <1>1, <1>2, <1>3, <2>1, ReleaseLinks
  <2>3. DOMAIN g.pages = DOMAIN f.pages
    BY <1>2, <2>2, PagesOfFile
  <2>4. Wrote(f, g, rid, NoRow)
    BY <1>2, <1>3, <2>2, <2>3 DEF Wrote, row, RidsOf
  <2> QED
    BY <1>2, <1>3, <1>6, <2>2, <2>4 DEF g, SameList, DeletedRow
<1> QED
  BY <1>5, <1>6

(* Redo writes the row where the log says. *)
LEMMA InsertedAt ==
    ASSUME NEW R, NEW N, NoPage \in N, NEW f \in Files(R, N), NEW rid \in RidsOf(f), NEW r \in R
    PROVE  LET g == insert_record_at(f, rid, r)
           IN  g \in Files(R, N) /\ Len(g.pages) = Len(f.pages) /\ Wrote(f, g, rid, r)
<1> DEFINE p    == rid.page_no
           with == SetRow(f, rid, r)
           g    == insert_record_at(f, rid, r)
<1>1. p \in DOMAIN f.pages
  BY DEF RidsOf
<1>2. /\ with \in Files(R, N) /\ Len(with.pages) = Len(f.pages)
      /\ Wrote(f, with, rid, r)
  BY SetRowWrites
<1>3. DOMAIN with.pages = DOMAIN f.pages
  BY <1>2 DEF Wrote
<1>4. g = with \/ g = Unlink(with, p)
  BY DEF insert_record_at
<1> HIDE DEF with, g
<1>5. CASE g = with
  BY <1>2, <1>5 DEF g
<1>6. CASE g = Unlink(with, p)
  <2>1. /\ g \in Files(R, N)
        /\ Len(g.pages) = Len(with.pages)
        /\ \A q \in DOMAIN with.pages : g.pages[q].rows = with.pages[q].rows
    BY <1>1, <1>2, <1>3, <1>6, UnlinkLinks
  <2>2. DOMAIN g.pages = DOMAIN f.pages
    BY <1>2, <2>1, PagesOfFile
  <2>3. Wrote(f, g, rid, r)
    BY <1>2, <1>3, <2>1, <2>2 DEF Wrote, row, RidsOf
  <2> QED
    BY <1>2, <2>1, <2>3 DEF g
<1> QED
  BY <1>4, <1>5, <1>6

-----------------------------------------------------------------------------
(* The list of free pages *)

(* Page p of f links to q, which has a free slot, is not the head and is   *)
(* the next of no other page.                                              *)
LinksTo(f, p, q) ==
    /\ q \in DOMAIN f.pages /\ FreeSlots(f.pages[q]) # {}
    /\ q # f.first_free_page_no
    /\ \A p2 \in DOMAIN f.pages : f.pages[p2].next_free_page_no = q => p2 = p

(* The list of free pages as it should be *)
ListInv(f) ==
    /\ HeadOpen(f)
    /\ \A p \in DOMAIN f.pages :
          f.pages[p].next_free_page_no # NoPage => LinksTo(f, p, f.pages[p].next_free_page_no)

(* A write of one slot, slot by slot *)
LEMMA WroteSlots ==
    ASSUME NEW f, NEW g, NEW rid \in RidsOf(f), NEW r, Wrote(f, g, rid, r)
    PROVE  \A q \in DOMAIN f.pages : \A s \in Slots :
              g.pages[q].rows[s] = IF q = rid.page_no /\ s = rid.slot_no THEN r
                                   ELSE f.pages[q].rows[s]
<1> TAKE q \in DOMAIN f.pages
<1> TAKE s \in Slots
<1> DEFINE x == [page_no |-> q, slot_no |-> s]
<1>1. x \in RidsOf(f) /\ x.page_no = q /\ x.slot_no = s
  BY DEF RidsOf
<1>2. x = rid <=> q = rid.page_no /\ s = rid.slot_no
  BY <1>1, RidFields DEF RidsOf
<1>3. row(g, x) = IF x = rid THEN r ELSE row(f, x)
  BY <1>1 DEF Wrote
<1> QED
  BY <1>1, <1>2, <1>3 DEF row

(* insert_record keeps the list. *)
LEMMA ListInserted ==
    ASSUME NEW R, NEW N, NoRow \in R, NoPage \in N, NEW f \in Files(R, N), ListInv(f),
           f.first_free_page_no = NoPage => num_pages(f) \in N, NEW r \in R
    PROVE  ListInv(insert_record(f, r))
<1> DEFINE m == Room(f)
           p == m.first_free_page_no
           g == insert_record(f, r)
<1>1. HeadOpen(f)
  BY DEF ListInv
<1>2. /\ m \in Files(R, N)
      /\ p \in DOMAIN m.pages /\ FreeSlots(m.pages[p]) # {}
      /\ \A q \in DOMAIN f.pages : q \in DOMAIN m.pages /\ m.pages[q] = f.pages[q]
      /\ \A q \in DOMAIN m.pages : q \notin DOMAIN f.pages => q = p /\ q = num_pages(f)
      /\ IF f.first_free_page_no = NoPage
           THEN /\ Len(m.pages) = num_pages(f) /\ p = num_pages(f)
                /\ m.pages[p] = EmptyPage(NoPage)
           ELSE m = f
  BY <1>1, RoomFound
<1>3. /\ DOMAIN g.pages = DOMAIN m.pages
      /\ \A q \in DOMAIN m.pages : q # p => g.pages[q].rows = m.pages[q].rows
      /\ \/ FreeSlots(g.pages[p]) # {} /\ SameList(m, g)
         \/ /\ FreeSlots(g.pages[p]) = {}
            /\ g.first_free_page_no = m.pages[p].next_free_page_no
            /\ \A q \in DOMAIN m.pages :
                  g.pages[q].next_free_page_no =
                     IF q = p THEN NoPage ELSE m.pages[q].next_free_page_no
  <2>1. InsertedRow(f, g, r)
    BY <1>1, Inserted
  <2> QED
    BY <2>1 DEF InsertedRow
<1>4. Len(f.pages) \in Nat /\ DOMAIN f.pages = 1 .. Len(f.pages) /\ num_pages(f) = Len(f.pages) + 1
  BY PagesOfFile
<1> SUFFICES ListInv(g)
  OBVIOUS
<1> HIDE DEF m, g
<1>5. ListInv(m)
  <2>1. CASE f.first_free_page_no # NoPage
    BY <1>2, <2>1
  <2>2. CASE f.first_free_page_no = NoPage
    <3>1. p \notin DOMAIN f.pages /\ m.pages[p].next_free_page_no = NoPage
      BY <1>2, <1>4, <2>2 DEF EmptyPage
    <3>2. HeadOpen(m)
      BY <1>2 DEF HeadOpen
    <3>3. \A a \in DOMAIN m.pages : m.pages[a].next_free_page_no # NoPage =>
             a \in DOMAIN f.pages /\ m.pages[a].next_free_page_no = f.pages[a].next_free_page_no
      BY <1>2, <3>1
    <3>4. ASSUME NEW a \in DOMAIN m.pages, m.pages[a].next_free_page_no # NoPage
          PROVE  LinksTo(m, a, m.pages[a].next_free_page_no)
      BY <1>2, <3>1, <3>3, <3>4 DEF ListInv, LinksTo
    <3> QED
      BY <3>2, <3>4 DEF ListInv
  <2> QED
    BY <2>1, <2>2
<1>6. \A q \in DOMAIN m.pages : q # p => FreeSlots(g.pages[q]) = FreeSlots(m.pages[q])
  BY <1>3 DEF FreeSlots
<1>7. CASE FreeSlots(g.pages[p]) # {} /\ SameList(m, g)
  <2>1. \A q \in DOMAIN m.pages : FreeSlots(m.pages[q]) # {} => FreeSlots(g.pages[q]) # {}
    BY <1>6, <1>7
  <2>2. HeadOpen(g)
    BY <1>2, <1>3, <1>7 DEF HeadOpen, SameList
  <2>3. \A a \in DOMAIN m.pages : \A q : LinksTo(m, a, q) => LinksTo(g, a, q)
    BY <1>3, <1>7, <2>1 DEF LinksTo, SameList
  <2> QED
    BY <1>3, <1>5, <1>7, <2>2, <2>3 DEF ListInv, SameList
<1>8. CASE /\ FreeSlots(g.pages[p]) = {}
           /\ g.first_free_page_no = m.pages[p].next_free_page_no
           /\ \A q \in DOMAIN m.pages :
                 g.pages[q].next_free_page_no =
                    IF q = p THEN NoPage ELSE m.pages[q].next_free_page_no
  <2>1. HeadOpen(g)
    BY <1>2, <1>3, <1>5, <1>6, <1>8 DEF ListInv, LinksTo, HeadOpen
  <2>2. \A a \in DOMAIN g.pages : g.pages[a].next_free_page_no # NoPage =>
           a # p /\ g.pages[a].next_free_page_no = m.pages[a].next_free_page_no
    BY <1>3, <1>8
  <2>3. ASSUME NEW a \in DOMAIN g.pages, g.pages[a].next_free_page_no # NoPage
        PROVE  LinksTo(g, a, g.pages[a].next_free_page_no)
    <3> DEFINE q == g.pages[a].next_free_page_no
    <3>1. a # p /\ q = m.pages[a].next_free_page_no /\ q # NoPage
      BY <2>2, <2>3
    <3>2. /\ q \in DOMAIN m.pages /\ FreeSlots(m.pages[q]) # {} /\ q # p
          /\ \A p2 \in DOMAIN m.pages : m.pages[p2].next_free_page_no = q => p2 = a
      BY <1>3, <1>5, <3>1 DEF ListInv, LinksTo
    <3> HIDE DEF q
    <3>3. q # g.first_free_page_no
      BY <1>2, <1>8, <3>1, <3>2
    <3>4. \A p2 \in DOMAIN g.pages : g.pages[p2].next_free_page_no = q => p2 = a
      BY <1>3, <2>2, <3>1, <3>2
    <3> QED
      BY <1>3, <1>6, <3>2, <3>3, <3>4 DEF q, LinksTo
  <2> QED
    BY <2>1, <2>3 DEF ListInv
<1> QED
  BY <1>3, <1>7, <1>8

(* delete_record keeps the list: a page that was full is on no link. *)
LEMMA ListDeleted ==
    ASSUME NEW R, NEW N, NoRow \in R, NEW f \in Files(R, N), ListInv(f), NEW rid \in RidsOf(f),
           rid.page_no \in N
    PROVE  ListInv(delete_record(f, rid))
<1> DEFINE p == rid.page_no
           g == delete_record(f, rid)
<1>1. DeletedRow(f, g, rid)
  BY Deleted
<1>8. Wrote(f, g, rid, NoRow)
  BY <1>1 DEF DeletedRow
<1>2. p \in DOMAIN f.pages /\ rid.slot_no \in Slots /\ p # NoPage
  <2>1. p \in DOMAIN f.pages /\ rid.slot_no \in Slots
    BY DEF RidsOf
  <2> QED
    BY <2>1, PagesOfFile DEF NoPage
<1> SUFFICES ListInv(g)
  OBVIOUS
<1> HIDE DEF g
<1>3. DOMAIN g.pages = DOMAIN f.pages
  BY <1>8 DEF Wrote
<1>4. rid.slot_no \in FreeSlots(g.pages[p])
  <2>1. \A q \in DOMAIN f.pages : \A s \in Slots :
           g.pages[q].rows[s] = IF q = rid.page_no /\ s = rid.slot_no THEN NoRow
                                ELSE f.pages[q].rows[s]
    BY <1>8, WroteSlots
  <2> QED
    BY <1>2, <2>1 DEF FreeSlots
<1>5. \A q \in DOMAIN f.pages : FreeSlots(f.pages[q]) # {} => FreeSlots(g.pages[q]) # {}
  BY <1>1, <1>4 DEF FreeSlots, DeletedRow
<1>6. CASE SameList(f, g)
  BY <1>3, <1>5, <1>6 DEF ListInv, LinksTo, HeadOpen, SameList
<1>7. CASE FreeSlots(f.pages[p]) = {} /\ ~SameList(f, g)
  <2>1. /\ g.first_free_page_no = p
        /\ \A q \in DOMAIN f.pages :
              g.pages[q].next_free_page_no =
                 IF q = p THEN f.first_free_page_no ELSE f.pages[q].next_free_page_no
    BY <1>1, <1>7 DEF DeletedRow
  <2>2. HeadOpen(g)
    BY <1>2, <1>3, <1>4, <2>1 DEF HeadOpen
  <2>3. ASSUME NEW a \in DOMAIN g.pages, g.pages[a].next_free_page_no # NoPage
        PROVE  LinksTo(g, a, g.pages[a].next_free_page_no)
    <3>1. CASE a = p
      BY <1>2, <1>3, <1>5, <1>7, <2>1, <2>3, <3>1 DEF ListInv, LinksTo, HeadOpen
    <3>2. CASE a # p
      <4> DEFINE q == g.pages[a].next_free_page_no
      <4>1. q = f.pages[a].next_free_page_no /\ LinksTo(f, a, q)
        BY <1>3, <2>1, <2>3, <3>2 DEF ListInv
      <4> HIDE DEF q
      <4>2. q # p /\ q \in DOMAIN g.pages /\ FreeSlots(g.pages[q]) # {}
        BY <1>3, <1>5, <1>7, <4>1 DEF LinksTo
      <4>3. \A p2 \in DOMAIN g.pages : g.pages[p2].next_free_page_no = q => p2 = a
        BY <1>3, <2>1, <4>1 DEF LinksTo
      <4> QED
        BY <2>1, <4>2, <4>3 DEF LinksTo, q
    <3> QED
      BY <3>1, <3>2
  <2> QED
    BY <2>2, <2>3 DEF ListInv
<1> QED
  BY <1>1, <1>6, <1>7 DEF DeletedRow

(* A record that stays a record keeps the list. *)
LEMMA ListUpdated ==
    ASSUME NEW R, NEW N, NEW f \in Files(R, N), ListInv(f), NEW rid \in RidsOf(f),
           row(f, rid) # NoRow, NEW r \in R, r # NoRow
    PROVE  ListInv(SetRow(f, rid, r))
<1> DEFINE g == SetRow(f, rid, r)
<1>1. Wrote(f, g, rid, r) /\ SameList(f, g)
  BY SetRowWrites
<1> SUFFICES ListInv(g)
  OBVIOUS
<1> HIDE DEF g
<1>2. DOMAIN g.pages = DOMAIN f.pages
  BY <1>1 DEF Wrote
<1>3. \A q \in DOMAIN f.pages : FreeSlots(g.pages[q]) = FreeSlots(f.pages[q])
  BY <1>1, WroteSlots DEF FreeSlots, row
<1>4. HeadOpen(g)
  BY <1>1, <1>2, <1>3 DEF ListInv, HeadOpen, SameList
<1>5. \A a \in DOMAIN f.pages : \A q : LinksTo(f, a, q) => LinksTo(g, a, q)
  BY <1>1, <1>2, <1>3 DEF LinksTo, SameList
<1> QED
  BY <1>1, <1>2, <1>4, <1>5 DEF ListInv, SameList
=============================================================================
