----------------------------- MODULE RecordFile -----------------------------
(***************************************************************************)
(* A table file: RmFileHandle's header, its pages with bitmap and slots,   *)
(* and the list of pages with free slots that is threaded through them.    *)
(* Every operation holds RmFileHandle::latch_ and its page is pinned, so   *)
(* it is one operator from file to file.                                   *)
(*                                                                         *)
(* A file is [first_free_page_no, pages]; its pages are 1, 2, ... (page 0  *)
(* is the header), so num_pages is one more than their number.  The bitmap *)
(* and num_records are the slots that hold a row.                          *)
(***************************************************************************)
EXTENDS Integers, Sequences, FiniteSets, FiniteSetsExt

CONSTANTS SlotsPerPage,  \* num_records_per_page
          NoRow          \* what is in a slot whose bit is not set

ASSUME PagesHaveSlots == SlotsPerPage \in Nat \ {0}

NoPage == -1
Slots  == 0 .. SlotsPerPage - 1

EmptyPage(next) == [rows |-> [s \in Slots |-> NoRow], next_free_page_no |-> next]

FreeSlots(page) == {s \in Slots : page.rows[s] = NoRow}

num_pages(file) == Len(file.pages) + 1

RidsOf(file) == [page_no : DOMAIN file.pages, slot_no : Slots]

row(file, rid) == file.pages[rid.page_no].rows[rid.slot_no]

is_record(file, rid) ==
    /\ rid.page_no < num_pages(file)
    /\ row(file, rid) # NoRow

SetRow(file, rid, r) == [file EXCEPT !.pages[rid.page_no].rows[rid.slot_no] = r]

create_new_page_handle(file) ==
    [first_free_page_no |-> num_pages(file),
     pages |-> Append(file.pages, EmptyPage(file.first_free_page_no))]

(* A page that has become full leaves the list; it was its head. *)
Unlink(file, p) ==
    [file EXCEPT !.first_free_page_no = file.pages[p].next_free_page_no,
                 !.pages[p].next_free_page_no = NoPage]

(* Mutant: the page becomes the head without a link to the old one *)
release_page_handle_Lost(file, p) == [file EXCEPT !.first_free_page_no = p]

release_page_handle(file, p) ==
    IF file.first_free_page_no = p
      THEN file
      ELSE [file EXCEPT !.first_free_page_no = p,
                        !.pages[p].next_free_page_no = file.first_free_page_no]

(* insert_record(buf) takes the first page of the list, or a new page. *)
Room(file) ==
    IF file.first_free_page_no = NoPage THEN create_new_page_handle(file) ELSE file

(* Bitmap::first_bit(false, ...): in a full page it is max_n, behind the   *)
(* last slot, and not the -1 for which insert_record makes a new page.     *)
first_bit(page) ==
    IF FreeSlots(page) = {} THEN SlotsPerPage ELSE Min(FreeSlots(page))

(* Mutant: the number of records is taken for the first free slot *)
FreeRid_Count(file) ==
    LET p == Room(file).first_free_page_no
    IN  [page_no |-> p, slot_no |-> SlotsPerPage - Cardinality(FreeSlots(Room(file).pages[p]))]

FreeRid(file) ==
    LET p == Room(file).first_free_page_no
    IN  [page_no |-> p, slot_no |-> first_bit(Room(file).pages[p])]

(* A row that is copied behind the last slot is in no slot of the page. *)
insert_record(file, r) ==
    LET rid  == FreeRid(file)
        with == SetRow(Room(file), rid, r)
    IN  IF rid.slot_no \notin Slots THEN file
        ELSE IF FreeSlots(with.pages[rid.page_no]) = {} THEN Unlink(with, rid.page_no) ELSE with

(* insert_record(rid, buf) of recovery: only the head of the list is       *)
(* unlinked.                                                               *)
insert_record_at(file, rid, r) ==
    LET with == SetRow(file, rid, r)
        p    == rid.page_no
    IN  IF FreeSlots(with.pages[p]) = {} /\ with.first_free_page_no = p
          THEN Unlink(with, p)
          ELSE with

delete_record(file, rid) ==
    LET without == SetRow(file, rid, NoRow)
    IN  IF FreeSlots(file.pages[rid.page_no]) = {}
          THEN release_page_handle(without, rid.page_no)
          ELSE without

update_record(file, rid, r) == SetRow(file, rid, r)
=============================================================================
