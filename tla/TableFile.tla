----------------------------- MODULE TableFile ------------------------------
(***************************************************************************)
(* One table file and the statements that use it at the same time: INSERT  *)
(* of several sessions and its rollback (each a call under the latch of    *)
(* RmFileHandle), the LOAD of a file of lines, and sequential scans        *)
(* (RmScan, COUNT), which take no latch: a scan and a LOAD go on page by   *)
(* page and row by row while the others work.                              *)
(*                                                                         *)
(* A row is a number that is never used again, so that a row is told from  *)
(* the next one in its slot.  LOAD neither latches the file nor looks for  *)
(* the free slots of a page, it appends: it is started on a table without  *)
(* rows, and no INSERT starts before it has ended.  LOAD leaves full pages *)
(* on the list of free pages; FillsPages says whether sessions go on to    *)
(* insert when such a page has become its head.                            *)
(***************************************************************************)
EXTENDS RecordFile, SequencesExt

CONSTANTS Sessions,   \* connections that insert
          Scanners,   \* connections that scan
          BatchSize,  \* max_batch_size of LOAD, in lines
          MaxLines,   \* longest file of lines
          MaxRows,    \* rows ever made
          MaxPages,   \* pages of the file
          FillsPages  \* whether sessions insert when the head of the list is full

ASSUME BoundsAreNumbers ==
    /\ BatchSize \in Nat \ {0} /\ MaxLines \in Nat
    /\ MaxRows \in Nat /\ MaxPages \in Nat
ASSUME EmptySlotIsNoRow == NoRow \notin 1 .. MaxRows

VARIABLES
    file,       \* the table file
    made,       \* rows made so far
    status,     \* what a session does
    write_set,  \* the places of the rows it may have to take back
    load,       \* where LOAD is
    scan        \* where the scans are

vars == <<file, made, status, write_set, load, scan>>

RowsOf(f) == {row(f, rid) : rid \in RidsOf(f)} \ {NoRow}

LoadSteps == {"none", "open", "parse", "insert", "page", "row", "done"}

TypeOK ==
    /\ file.first_free_page_no \in {NoPage} \cup DOMAIN file.pages
    /\ \A p \in DOMAIN file.pages :
          /\ file.pages[p].next_free_page_no \in {NoPage} \cup DOMAIN file.pages
          /\ file.pages[p].rows \in [Slots -> {NoRow} \cup 1 .. MaxRows]
    /\ made \in 0 .. MaxRows
    /\ status \in [Sessions -> {"idle", "running", "undoing"}]
    /\ \A w \in Sessions : write_set[w] \in Seq(RidsOf(file))
    /\ load.step \in LoadSteps
    /\ \A r \in Scanners : /\ scan[r].page_no \in 0 .. num_pages(file)
                           /\ scan[r].slot_no \in -1 .. SlotsPerPage - 1

(* create_file writes a header that counts itself and lists no page. *)
Init ==
    /\ file = [first_free_page_no |-> NoPage, pages |-> << >>]
    /\ made = 0
    /\ status = [w \in Sessions |-> "idle"]
    /\ write_set = [w \in Sessions |-> << >>]
    /\ load = [step |-> "none", lines |-> << >>, batch |-> {}, wanted |-> {},
               page_no |-> NoPage, pos |-> 0, to_load |-> 0]
    /\ scan = [r \in Scanners |-> [on |-> FALSE, page_no |-> 0, slot_no |-> -1,
                                   began |-> {}, seen |-> {}, count |-> 0]]

Loading == load.step \notin {"none", "done"}

-----------------------------------------------------------------------------
(* INSERT, COMMIT and ROLLBACK of a session *)

(* The page insert_record takes is not one that LOAD has left full. *)
HeadHasRoom ==
    file.first_free_page_no # NoPage =>
        FreeSlots(file.pages[file.first_free_page_no]) # {}

insert(w) ==
    /\ ~Loading /\ (HeadHasRoom \/ FillsPages)
    /\ status[w] \in {"idle", "running"} /\ made < MaxRows
    /\ num_pages(Room(file)) <= MaxPages + 1
    /\ file' = insert_record(file, made + 1)
    /\ made' = made + 1
    /\ status' = [status EXCEPT ![w] = "running"]
    /\ write_set' = [write_set EXCEPT ![w] = Append(@, FreeRid(file))]
    /\ UNCHANGED <<load, scan>>

commit(w) ==
    /\ status[w] = "running"
    /\ status' = [status EXCEPT ![w] = "idle"]
    /\ write_set' = [write_set EXCEPT ![w] = << >>]
    /\ UNCHANGED <<file, made, load, scan>>

abort(w) ==
    /\ status[w] = "running"
    /\ status' = [status EXCEPT ![w] = "undoing"]
    /\ UNCHANGED <<file, made, write_set, load, scan>>

(* One row is taken back, the last one first. *)
rollback_insert(w) ==
    /\ status[w] = "undoing"
    /\ file' = delete_record(file, Last(write_set[w]))
    /\ write_set' = [write_set EXCEPT ![w] = Front(@)]
    /\ status' = [status EXCEPT ![w] = IF Len(write_set[w]) = 1 THEN "idle" ELSE @]
    /\ UNCHANGED <<made, load, scan>>

-----------------------------------------------------------------------------
(* LOAD.  A line is TRUE when it has a field for every column. *)

(* The lines LOAD reads: up to the first batch in which no line parses *)
BatchesOf(lines) ==
    {b \in 1 .. MaxLines : b <= (Len(lines) + BatchSize - 1) \div BatchSize}

LinesOf(lines, b) == {i \in DOMAIN lines : (i - 1) \div BatchSize = b - 1}

Parsed(lines) ==
    {i \in DOMAIN lines :
        /\ lines[i]
        /\ \A b \in BatchesOf(lines) :
              b <= (i - 1) \div BatchSize + 1 => \E j \in LinesOf(lines, b) : lines[j]}

load_table(lines) ==
    /\ load.step = "none" /\ RowsOf(file) = {}
    /\ \A w \in Sessions : status[w] = "idle"
    /\ made + Len(lines) <= MaxRows
    /\ load' = [load EXCEPT !.step = "open", !.lines = [i \in DOMAIN lines |->
                                                 [ok |-> lines[i], row |-> made + i]],
                            !.wanted = {made + i : i \in Parsed(lines)}]
    /\ made' = made + Len(lines)
    /\ UNCHANGED <<file, status, write_set, scan>>

(* The file is opened and its line of names is read; without the one or    *)
(* the other LOAD ends in InternalError.                                   *)
open_csv ==
    /\ load.step = "open"
    /\ \/ load' = [load EXCEPT !.step = "parse"]
       \/ load' = [load EXCEPT !.step = "none", !.lines = << >>, !.wanted = {}]
    /\ UNCHANGED <<file, made, status, write_set, scan>>

(* A batch of lines is parsed; a batch without a row ends the LOAD, also   *)
(* when lines follow it.  The rows of a batch ascend in the order of its   *)
(* lines.                                                                  *)
read_batch ==
    /\ load.step = "parse"
    /\ LET n     == Len(load.lines)
           batch == {load.lines[i].row : i \in {j \in 1 .. n : j <= BatchSize /\ load.lines[j].ok}}
       IN  load' = IF batch = {}
                     THEN [load EXCEPT !.step = "done"]
                     ELSE [load EXCEPT !.step = "insert", !.batch = batch,
                                       !.lines = SubSeq(@, BatchSize + 1, n)]
    /\ UNCHANGED <<file, made, status, write_set, scan>>

(* insert_records starts at the head of the list, or on a new page. *)
insert_records ==
    /\ load.step = "insert"
    /\ file' = IF file.first_free_page_no = NoPage THEN create_new_page_handle(file) ELSE file
    /\ load' = [load EXCEPT !.step = "page", !.page_no = file'.first_free_page_no]
    /\ UNCHANGED <<made, status, write_set, scan>>

(* The rows go behind the records the page has, as many as it has slots. *)
load_page ==
    LET avail == Cardinality(FreeSlots(file.pages[load.page_no]))
    IN  /\ load.step = "page"
        /\ load' = [load EXCEPT !.step = "row", !.pos = SlotsPerPage - avail,
                                !.to_load = Min({avail, Cardinality(load.batch)})]
        /\ UNCHANGED <<file, made, status, write_set, scan>>

load_row ==
    /\ load.step = "row" /\ load.to_load > 0
    /\ file' = SetRow(file, [page_no |-> load.page_no, slot_no |-> load.pos], Min(load.batch))
    /\ load' = [load EXCEPT !.pos = @ + 1, !.to_load = @ - 1, !.batch = @ \ {Min(@)}]
    /\ UNCHANGED <<made, status, write_set, scan>>

(* Mutant: a new page is made, and LOAD stays on the full one *)
page_filled_Stays ==
    /\ load.step = "row" /\ load.to_load = 0
    /\ file' = IF FreeSlots(file.pages[load.page_no]) = {} /\ num_pages(file) <= MaxPages
                 THEN create_new_page_handle(file) ELSE file
    /\ load' = [load EXCEPT !.step = IF load.batch = {} THEN "parse" ELSE "page"]
    /\ UNCHANGED <<made, status, write_set, scan>>

(* A full page stays on the list, behind the new page. *)
page_filled ==
    /\ load.step = "row" /\ load.to_load = 0
    /\ file' = IF FreeSlots(file.pages[load.page_no]) = {}
                 THEN create_new_page_handle(file) ELSE file
    /\ load' = [load EXCEPT !.step = IF load.batch = {} THEN "parse" ELSE "page",
                            !.page_no = IF file' = file THEN @ ELSE file'.first_free_page_no]
    /\ UNCHANGED <<made, status, write_set, scan>>

Load == open_csv \/ read_batch \/ insert_records \/ load_page \/ load_row \/ page_filled

-----------------------------------------------------------------------------
(* RmScan *)

rm_scan(r) ==
    /\ ~scan[r].on
    /\ scan' = [scan EXCEPT ![r] = [on |-> TRUE, page_no |-> 1, slot_no |-> -1,
                                    began |-> RowsOf(file), seen |-> {}, count |-> 0]]
    /\ UNCHANGED <<file, made, status, write_set, load>>

(* Bitmap::next_bit *)
NextBits(r) ==
    {s \in Slots : /\ s > scan[r].slot_no
                   /\ file.pages[scan[r].page_no].rows[s] # NoRow}

(* Mutant: the slot is not reset when the scan goes to the next page *)
next_page_Slot(r) ==
    /\ scan[r].on /\ scan[r].page_no < num_pages(file) /\ NextBits(r) = {}
    /\ scan' = [scan EXCEPT ![r].page_no = @ + 1]
    /\ UNCHANGED <<file, made, status, write_set, load>>

next_page(r) ==
    /\ scan[r].on /\ scan[r].page_no < num_pages(file) /\ NextBits(r) = {}
    /\ scan' = [scan EXCEPT ![r].page_no = @ + 1, ![r].slot_no = -1]
    /\ UNCHANGED <<file, made, status, write_set, load>>

next(r) ==
    /\ scan[r].on /\ scan[r].page_no < num_pages(file) /\ NextBits(r) # {}
    /\ LET s == Min(NextBits(r))
       IN  scan' = [scan EXCEPT ![r].slot_no = s, ![r].count = @ + 1,
                      ![r].seen = @ \cup {file.pages[scan[r].page_no].rows[s]}]
    /\ UNCHANGED <<file, made, status, write_set, load>>

scan_end(r) ==
    /\ scan[r].on /\ scan[r].page_no >= num_pages(file)
    /\ scan' = [scan EXCEPT ![r].on = FALSE]
    /\ UNCHANGED <<file, made, status, write_set, load>>

-----------------------------------------------------------------------------

Csvs == UNION {[1 .. n -> BOOLEAN] : n \in 1 .. MaxLines}

Next ==
    \/ \E w \in Sessions : insert(w) \/ commit(w) \/ abort(w) \/ rollback_insert(w)
    \/ \E lines \in Csvs : load_table(lines)
    \/ Load
    \/ \E r \in Scanners : rm_scan(r) \/ next_page(r) \/ next(r) \/ scan_end(r)

(* LOAD is one loop of its thread, which waits for nobody. *)
Spec == Init /\ [][Next]_vars /\ WF_vars(Load)

-----------------------------------------------------------------------------
(* Pages that insert_record can come to by the list *)
FreeLink == [p \in DOMAIN file.pages |-> file.pages[p].next_free_page_no]

Listed ==
    {p \in DOMAIN file.pages :
        \E n \in 1 .. Len(file.pages) : \E path \in [1 .. n -> DOMAIN file.pages] :
           /\ path[1] = file.first_free_page_no /\ path[n] = p
           /\ \A i \in 1 .. n - 1 : path[i + 1] = FreeLink[path[i]]}

(* Every page with a free slot is on the list of free pages, whatever      *)
(* order rows are inserted, taken back and loaded in: no room is lost      *)
(* (insert_record, release_page_handle, create_new_page_handle).           *)
RoomIsReachable ==
    \A p \in DOMAIN file.pages : FreeSlots(file.pages[p]) # {} => p \in Listed

(* The file has the shape that LOAD, INSERT and rollback rely on. *)
TableInv == TypeOK /\ RoomIsReachable

(* A row leaves its slot only by the rollback of the session that inserted *)
(* it: no INSERT and no LOAD puts another row over it.                     *)
RowsStay ==
    [][\A rid \in RidsOf(file) :
          row(file, rid) \notin {NoRow, row(file', rid)} =>
             /\ row(file', rid) = NoRow
             /\ \E w \in Sessions : status[w] = "undoing" /\ Last(write_set[w]) = rid]_vars

(* A session's row is in a slot of its page: insert_record makes a new     *)
(* page when the one it took from the list is full.                        *)
InsertsHaveASlot ==
    \A w \in Sessions : \A i \in DOMAIN write_set[w] : write_set[w][i].slot_no \in Slots

(* RmScan returns no row twice, and every row that was in the file when    *)
(* the scan began and is there when it ends, although rows and pages come  *)
(* and go under it.                                                        *)
ScanIsExact ==
    \A r \in Scanners :
        /\ scan[r].count = Cardinality(scan[r].seen)
        /\ scan[r].on /\ scan[r].page_no >= num_pages(file) =>
              scan[r].began \cap RowsOf(file) \subseteq scan[r].seen

(* LOAD ends, and unless the file of lines cannot be opened it ends with   *)
(* every line it had to take in one slot of the table, across batches and  *)
(* pages: the loop over the pages of insert_records makes progress also on *)
(* a page that is full when it comes to it.                                *)
EveryLineLoaded ==
    /\ load.step = "done"
    /\ \A i \in load.wanted : Cardinality({rid \in RidsOf(file) : row(file, rid) = i}) = 1

LoadCompletes == Loading ~> (load.step = "none" \/ EveryLineLoaded)
=============================================================================
