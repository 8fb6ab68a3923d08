--------------------------- MODULE RecoveryProofs ---------------------------
(***************************************************************************)
(* Recovery keeps RecoveryInv, CommittedIsRedone and UnfinishedIsUndone,   *)
(* for any transactions, any file, whatever pages have reached the disk,   *)
(* and however often the server dies.                                      *)
(*                                                                         *)
(* While the server is up, the locks keep the log in a shape (LogShape) on *)
(* which recovery relies, and a prefix of such a log has that shape.  Redo *)
(* then finds every page and every record it needs, whatever is in the     *)
(* slots it starts from, and undo takes the writes of a transaction back   *)
(* in reverse.  Once the table is dropped, recovery touches no file, and   *)
(* what is said of its records is said no longer.                          *)
(***************************************************************************)
EXTENDS Recovery, RecordFileProofs

Rows == [by : Txns \cup {Nobody}, kind : {"load", "insert", "update"}]

Links == {NoPage} \cup 1 .. MaxPages

LogRecords ==
    [type : {"begin", "commit", "abort"}, tid : Txns]
        \cup [type : {"insert"}, tid : Txns, rid : Rids, old : {NoRow}, new : Rows]
        \cup [type : {"update"}, tid : Txns, rid : Rids, old : Rows, new : Rows]

WriteRecords ==
    [type : {"insert"}, rid : Rids, old : {NoRow}]
        \cup [type : {"update"}, rid : Rids, old : Rows]

(* All that was logged, on disk and in the buffer *)
Full == log_file \o log_buffer

(* A record that LOAD has put into the file *)
Loaded(rid) == rid.page_no = 1 /\ rid.slot_no < LoadedRows

-----------------------------------------------------------------------------
(* The inductive invariant *)

Types ==
    /\ phase \in {"up", "down", "redo", "undo", "recovered", "failed"}
    /\ starts \in 0 .. MaxStarts
    /\ log_file \in Seq(LogRecords) /\ log_buffer \in Seq(LogRecords)
    /\ file \in Files(Rows \cup {NoRow}, Links) /\ Len(file.pages) \in 1 .. MaxPages
    /\ disk \in [num_pages : {2}, first_free_page_no : {1},
                 pages : [1 .. MaxPages -> Pages(Rows \cup {NoRow}, Links \cup {0})]]
    /\ disk.pages[1] \in Pages(Rows \cup {NoRow}, Links)
    /\ busy \in [Rids -> Txns \cup {Nobody}]
    /\ status \in [Txns -> Statuses]
    /\ write_set \in [Txns -> Seq(WriteRecords)]
    /\ todo \subseteq DOMAIN log_file

(* Loaded records are never taken away. *)
LoadedStay ==
    \A rid \in Rids : Loaded(rid) =>
        /\ row(file, rid) # NoRow
        /\ disk.pages[1].rows[rid.slot_no] # NoRow

InsertAt(log, i) == log[i].type = "insert"

UpdateAt(log, i) == log[i].type = "update"

WriteAt(log, i) == InsertAt(log, i) \/ UpdateAt(log, i)

(* An insert finds its slot free, an update finds a record. *)
RecordsBegin(log) ==
    /\ \A i \in DOMAIN log : InsertAt(log, i) => ~Loaded(log[i].rid)
    /\ \A i \in DOMAIN log : UpdateAt(log, i) =>
          \/ Loaded(log[i].rid)
          \/ \E j \in DOMAIN log : j < i /\ InsertAt(log, j) /\ log[j].rid = log[i].rid

(* Before a transaction inserts a record, it has not written it. *)
InsertsAreFirst(log) ==
    \A i, j \in DOMAIN log :
        (i < j /\ WriteAt(log, i) /\ InsertAt(log, j) /\ log[i].tid = log[j].tid) =>
            log[i].rid # log[j].rid

(* The first record of a page comes after the first of the page before. *)
PagesInOrder(log) ==
    \A i \in DOMAIN log : (InsertAt(log, i) /\ log[i].rid.page_no > 2) =>
        \E j \in DOMAIN log :
           j < i /\ InsertAt(log, j) /\ log[j].rid.page_no = log[i].rid.page_no - 1

LogShape(log) == RecordsBegin(log) /\ InsertsAreFirst(log) /\ PagesInOrder(log)

(* Every page and every record of the file is in the log. *)
FileIsLogged ==
    /\ \A p \in DOMAIN file.pages : p > 1 =>
          \E j \in DOMAIN Full : InsertAt(Full, j) /\ Full[j].rid.page_no = p
    /\ \A rid \in RidsOf(file) : row(file, rid) # NoRow =>
          Loaded(rid) \/ \E j \in DOMAIN Full : InsertAt(Full, j) /\ Full[j].rid = rid

(* What a transaction has written and not yet committed or undone is       *)
(* there, and its alone.                                                   *)
WritesAreHeld ==
    \A t \in Txns :
        /\ status[t] = "none" => write_set[t] = << >>
        /\ status[t] \in {"running", "undoing"} =>
              \A k \in DOMAIN write_set[t] :
                  LET w == write_set[t][k]
                  IN  /\ busy[w.rid] = t
                      /\ is_record(file, w.rid)
                      /\ w.type = "insert" =>
                            /\ ~Loaded(w.rid)
                            /\ \A m \in DOMAIN write_set[t] :
                                  m < k => write_set[t][m].rid # w.rid

(* The log of a running transaction is in its write set. *)
WritesAreListed ==
    \A t \in Txns : \A i \in DOMAIN Full :
        (WriteAt(Full, i) /\ Full[i].tid = t) =>
            /\ status[t] # "none"
            /\ status[t] = "running" =>
                  \E k \in DOMAIN write_set[t] : write_set[t][k].rid = Full[i].rid

UpInv ==
    phase = "up" => ListInv(file) /\ FileIsLogged /\ WritesAreHeld /\ WritesAreListed

(* Redo: the records of the writes behind it are there, with what the last *)
(* update wrote.                                                           *)
Done == WritesInLog \ todo

RedoInv ==
    table /\ phase = "redo" =>
        /\ todo \subseteq WritesInLog
        /\ \A i \in todo, j \in WritesInLog : i < j => j \in todo
        /\ \A i \in Done : is_record(file, log_file[i].rid)
        /\ \A i \in Done :
              (UpdateAt(log_file, i) /\ \A j \in Done : log_file[j].rid = log_file[i].rid => j <= i) =>
                  row(file, log_file[i].rid) = log_file[i].new

UnfinishedWrites == {i \in WritesInLog : log_file[i].tid \in Unfinished}

(* No unfinished transaction but perhaps t has written the record. *)
NoOther(t, rid) == \A j \in UnfinishedWrites : log_file[j].rid = rid => log_file[j].tid = t

(* Undo: records without unfinished writers are as redo left them, those   *)
(* of a single unfinished writer are there until its first write is taken  *)
(* back, and as before that write then.                                    *)
UndoInv ==
    table /\ phase \in {"undo", "recovered"} =>
        /\ todo \subseteq UnfinishedWrites
        /\ \A i \in todo, j \in WritesInLog :
              (j < i /\ log_file[j].tid = log_file[i].tid) => j \in todo
        /\ \A i \in WritesInLog :
              (\A j \in UnfinishedWrites : log_file[j].rid # log_file[i].rid) =>
                  /\ is_record(file, log_file[i].rid)
                  /\ (UpdateAt(log_file, i)
                        /\ \A j \in WritesInLog : log_file[j].rid = log_file[i].rid => j <= i) =>
                         row(file, log_file[i].rid) = log_file[i].new
        /\ \A i \in todo :
              NoOther(log_file[i].tid, log_file[i].rid) => is_record(file, log_file[i].rid)
        /\ \A i \in UnfinishedWrites \ todo :
              (\A j \in WritesInLog : log_file[j].rid = log_file[i].rid =>
                                         log_file[j].tid = log_file[i].tid /\ i <= j) =>
                  Content(log_file[i].rid) = log_file[i].old

FailedInv ==
    phase = "failed" =>
        \E i, j \in UnfinishedWrites :
            log_file[i].rid = log_file[j].rid /\ log_file[i].tid # log_file[j].tid

RecoveryIndInv ==
    /\ Types
    /\ LoadedStay
    /\ phase # "up" => log_buffer = << >>
    /\ LogShape(Full)
    /\ UpInv /\ RedoInv /\ UndoInv /\ FailedInv
    /\ phase = "recovered" => todo = {}

-----------------------------------------------------------------------------
(* The log *)

(* A record of the log is a write or not; a write has all fields. *)
LEMMA RecordOfLog ==
    ASSUME NEW log \in Seq(LogRecords), NEW i \in DOMAIN log
    PROVE  /\ log[i].tid \in Txns
           /\ InsertAt(log, i) =>
                 log[i] \in [type : {"insert"}, tid : Txns, rid : Rids, old : {NoRow}, new : Rows]
           /\ UpdateAt(log, i) =>
                 log[i] \in [type : {"update"}, tid : Txns, rid : Rids, old : Rows, new : Rows]
           /\ WriteAt(log, i) <=> i \in Writes(log)
<1>1. log[i] \in LogRecords
  OBVIOUS
<1>2. CASE log[i] \in [type : {"begin", "commit", "abort"}, tid : Txns]
  BY <1>2 DEF InsertAt, UpdateAt, WriteAt, Writes
<1>3. CASE log[i] \in [type : {"insert"}, tid : Txns, rid : Rids, old : {NoRow}, new : Rows]
  BY <1>3 DEF InsertAt, UpdateAt, WriteAt, Writes
<1>4. CASE log[i] \in [type : {"update"}, tid : Txns, rid : Rids, old : Rows, new : Rows]
  BY <1>4 DEF InsertAt, UpdateAt, WriteAt, Writes
<1> QED
  BY <1>1, <1>2, <1>3, <1>4 DEF LogRecords

(* b begins with a. *)
Extends(b, a) ==
    /\ DOMAIN a \subseteq DOMAIN b
    /\ \A i \in DOMAIN a : b[i] = a[i]

(* What the shape says of a record is said of the records before it. *)
LEMMA ShapeOfPrefix ==
    ASSUME NEW a \in Seq(LogRecords), NEW b \in Seq(LogRecords), Extends(b, a), LogShape(b)
    PROVE  LogShape(a)
<1>1. /\ DOMAIN a = 1 .. Len(a) /\ Len(a) \in Nat
      /\ DOMAIN b = 1 .. Len(b) /\ Len(b) \in Nat
  OBVIOUS
<1>2. \A i \in DOMAIN a, j \in DOMAIN b : j < i => j \in DOMAIN a
  BY <1>1
<1>3. \A i \in DOMAIN a : i \in DOMAIN b /\ a[i] = b[i]
  BY DEF Extends
<1>4. RecordsBegin(a)
  <2>1. RecordsBegin(b)
    BY DEF LogShape
  <2> QED
    BY <1>2, <1>3, <2>1 DEF RecordsBegin, InsertAt, UpdateAt
<1>5. InsertsAreFirst(a)
  <2>1. InsertsAreFirst(b)
    BY DEF LogShape
  <2> QED
    BY <1>3, <2>1 DEF InsertsAreFirst, InsertAt, UpdateAt, WriteAt
<1>6. PagesInOrder(a)
  <2>1. PagesInOrder(b)
    BY DEF LogShape
  <2> QED
    BY <1>2, <1>3, <2>1 DEF PagesInOrder, InsertAt
<1> QED
  BY <1>4, <1>5, <1>6 DEF LogShape

(* A log with one more record *)
LEMMA LogGrows ==
    ASSUME NEW a \in Seq(LogRecords), NEW r \in LogRecords
    PROVE  /\ Append(a, r) \in Seq(LogRecords)
           /\ Extends(Append(a, r), a)
           /\ Len(a) \in Nat
           /\ DOMAIN a = 1 .. Len(a)
           /\ DOMAIN Append(a, r) = 1 .. (Len(a) + 1)
           /\ Append(a, r)[Len(a) + 1] = r
<1> DEFINE S == LogRecords
<1>1. a \in Seq(S) /\ r \in S
  OBVIOUS
<1> HIDE DEF S
<1>2. /\ Append(a, r) \in Seq(S)
      /\ Len(a) \in Nat /\ DOMAIN a = 1 .. Len(a)
      /\ DOMAIN Append(a, r) = 1 .. (Len(a) + 1)
      /\ Append(a, r)[Len(a) + 1] = r
      /\ \A i \in 1 .. Len(a) : Append(a, r)[i] = a[i]
  BY <1>1
<1>3. Extends(Append(a, r), a)
  BY <1>2 DEF Extends
<1> QED
  BY <1>2, <1>3 DEF S

(* A log keeps its shape when a record joins it that fits. *)
LEMMA ShapeGrows ==
    ASSUME NEW a \in Seq(LogRecords), NEW b \in Seq(LogRecords), LogShape(a), Extends(b, a),
           NEW n \in DOMAIN b, \A i \in DOMAIN b : i = n \/ i \in DOMAIN a,
           \A i \in DOMAIN a : i < n,
           InsertAt(b, n) =>
              /\ ~Loaded(b[n].rid)
              /\ \A i \in DOMAIN a :
                    (WriteAt(a, i) /\ a[i].tid = b[n].tid) => a[i].rid # b[n].rid
              /\ b[n].rid.page_no > 2 =>
                    \E j \in DOMAIN a : InsertAt(a, j) /\ a[j].rid.page_no = b[n].rid.page_no - 1,
           UpdateAt(b, n) =>
              \/ Loaded(b[n].rid)
              \/ \E j \in DOMAIN a : InsertAt(a, j) /\ a[j].rid = b[n].rid
    PROVE  LogShape(b)
<1>1. /\ DOMAIN a = 1 .. Len(a) /\ Len(a) \in Nat
      /\ DOMAIN b = 1 .. Len(b) /\ Len(b) \in Nat
  OBVIOUS
<1>2. \A i \in DOMAIN a : i \in DOMAIN b /\ a[i] = b[i]
  BY DEF Extends
<1>3. RecordsBegin(b)
  <2>1. RecordsBegin(a)
    BY DEF LogShape
  <2>2. \A i \in DOMAIN b : InsertAt(b, i) => ~Loaded(b[i].rid)
    BY <1>2, <2>1 DEF RecordsBegin, InsertAt
  <2>3. ASSUME NEW i \in DOMAIN b, UpdateAt(b, i)
        PROVE  \/ Loaded(b[i].rid)
               \/ \E j \in DOMAIN b : j < i /\ InsertAt(b, j) /\ b[j].rid = b[i].rid
    <3>1. CASE i = n
      BY <1>2, <2>3, <3>1 DEF InsertAt
    <3>2. CASE i \in DOMAIN a
      <4>1. UpdateAt(a, i)
        BY <1>2, <2>3, <3>2 DEF UpdateAt
      <4>2. \/ Loaded(a[i].rid)
            \/ \E j \in DOMAIN a : j < i /\ InsertAt(a, j) /\ a[j].rid = a[i].rid
        BY <2>1, <3>2, <4>1 DEF RecordsBegin
      <4> QED
        BY <1>2, <3>2, <4>2 DEF InsertAt
    <3> QED
      BY <3>1, <3>2
  <2> QED
    BY <2>2, <2>3 DEF RecordsBegin
<1>4. InsertsAreFirst(b)
  <2>1. InsertsAreFirst(a)
    BY DEF LogShape
  <2>2. ASSUME NEW i \in DOMAIN b, NEW j \in DOMAIN b, i < j, WriteAt(b, i), InsertAt(b, j),
               b[i].tid = b[j].tid
        PROVE  b[i].rid # b[j].rid
    <3>1. i \in DOMAIN a
      BY <1>1, <2>2
    <3>2. WriteAt(a, i) /\ a[i] = b[i]
      BY <1>2, <2>2, <3>1 DEF WriteAt, InsertAt, UpdateAt
    <3>3. CASE j = n
      BY <2>2, <3>1, <3>2, <3>3
    <3>4. CASE j \in DOMAIN a
      <4>1. InsertAt(a, j) /\ a[j] = b[j]
        BY <1>2, <2>2, <3>4 DEF InsertAt
      <4> QED
        BY <2>1, <2>2, <3>1, <3>2, <3>4, <4>1 DEF InsertsAreFirst
    <3> QED
      BY <3>3, <3>4
  <2> QED
    BY <2>2 DEF InsertsAreFirst
<1>5. PagesInOrder(b)
  <2>1. PagesInOrder(a)
    BY DEF LogShape
  <2>2. ASSUME NEW i \in DOMAIN b, InsertAt(b, i), b[i].rid.page_no > 2
        PROVE  \E j \in DOMAIN b :
                  j < i /\ InsertAt(b, j) /\ b[j].rid.page_no = b[i].rid.page_no - 1
    <3>1. CASE i = n
      BY <1>2, <2>2, <3>1 DEF InsertAt
    <3>2. CASE i \in DOMAIN a
      <4>1. InsertAt(a, i) /\ a[i] = b[i]
        BY <1>2, <2>2, <3>2 DEF InsertAt
      <4>2. \E j \in DOMAIN a :
               j < i /\ InsertAt(a, j) /\ a[j].rid.page_no = a[i].rid.page_no - 1
        BY <2>1, <2>2, <3>2, <4>1 DEF PagesInOrder
      <4> QED
        BY <1>2, <3>2, <4>1, <4>2 DEF InsertAt
    <3> QED
      BY <3>1, <3>2
  <2> QED
    BY <2>2 DEF PagesInOrder
<1> QED
  BY <1>3, <1>4, <1>5 DEF LogShape

(* add_log_to_buffer adds a record to all that was logged, wherever it     *)
(* puts it.                                                                *)
LEMMA AddLog ==
    ASSUME log_file \in Seq(LogRecords), log_buffer \in Seq(LogRecords),
           NEW r \in LogRecords, add_log_to_buffer(r)
    PROVE  /\ log_file' \in Seq(LogRecords) /\ log_buffer' \in Seq(LogRecords)
           /\ DOMAIN log_file \subseteq DOMAIN log_file'
           /\ Full \in Seq(LogRecords)
           /\ Full' = Append(Full, r)
<1> DEFINE S == LogRecords
<1>1. log_file \in Seq(S) /\ log_buffer \in Seq(S) /\ r \in S
  OBVIOUS
<1> HIDE DEF S
<1>2. CASE log_buffer' = Append(log_buffer, r) /\ log_file' = log_file
  <2>1. log_file \o Append(log_buffer, r) = Append(log_file \o log_buffer, r)
    BY <1>1
  <2>2. log_buffer' \in Seq(S) /\ log_file' \in Seq(S) /\ log_file \o log_buffer \in Seq(S)
    BY <1>1, <1>2
  <2> QED
    BY <1>2, <2>1, <2>2 DEF Full, S
<1>3. CASE log_file' = log_file \o log_buffer /\ log_buffer' = << r >>
  <2>1. (log_file \o log_buffer) \o << r >> = Append(log_file \o log_buffer, r)
    BY <1>1
  <2>2. log_buffer' \in Seq(S) /\ log_file' \in Seq(S)
    BY <1>1, <1>3
  <2>3. DOMAIN log_file \subseteq DOMAIN (log_file \o log_buffer)
    BY <1>1
  <2> QED
    BY <1>3, <2>1, <2>2, <2>3 DEF Full, S
<1> QED
  BY <1>2, <1>3 DEF add_log_to_buffer

-----------------------------------------------------------------------------
(* The initial state *)

(* The file as LOAD left it *)
LEMMA LoadedFileShape ==
    /\ LoadedFile \in Files(Rows \cup {NoRow}, Links)
    /\ Len(LoadedFile.pages) = 1
    /\ DOMAIN LoadedFile.pages = {1}
    /\ LoadedFile.first_free_page_no = 1
    /\ LoadedFile.pages[1] \in Pages(Rows \cup {NoRow}, Links)
    /\ LoadedFile.pages[1].next_free_page_no = NoPage
    /\ \A rid \in RidsOf(LoadedFile) : row(LoadedFile, rid) # NoRow => Loaded(rid)
    /\ \A rid \in Rids : Loaded(rid) => LoadedFile.pages[1].rows[rid.slot_no] # NoRow
    /\ ListInv(LoadedFile)
<1> DEFINE page == LoadedFile.pages[1]
           R    == Rows \cup {NoRow}
<1>1. /\ LoadedFile.first_free_page_no = 1
      /\ LoadedFile.pages = << page >>
      /\ LoadedFile = [first_free_page_no |-> 1, pages |-> << page >>]
      /\ page = [rows |-> [s \in Slots |-> IF s < LoadedRows THEN Row(Nobody, "load") ELSE NoRow],
                 next_free_page_no |-> NoPage]
  BY DEF LoadedFile, EmptyPage
<1>2. Row(Nobody, "load") \in Rows
  BY DEF Row, Rows
<1>3. Row(Nobody, "load") # NoRow
  BY <1>2, EmptySlotIsNoRow DEF Rows
<1>4. 1 \in Links /\ NoPage \in Links
  BY BoundsAreNumbers DEF Links
<1> HIDE DEF page
<1>5. page \in Pages(R, Links)
  BY <1>1, <1>2, <1>4 DEF Pages
<1>6. /\ << page >> \in Seq(Pages(R, Links)) /\ Len(<< page >>) = 1
      /\ DOMAIN << page >> = {1} /\ << page >>[1] = page
  BY <1>5
<1>7. LoadedFile \in Files(R, Links)
  BY <1>1, <1>4, <1>6 DEF Files
<1>8. \A rid \in RidsOf(LoadedFile) : row(LoadedFile, rid) # NoRow => Loaded(rid)
  BY <1>1, <1>6 DEF RidsOf, row, Loaded
<1>9. \A rid \in Rids : Loaded(rid) => page.rows[rid.slot_no] # NoRow
  BY <1>1, <1>3 DEF Rids, Loaded
<1>10. FreeSlots(page) # {}
  <2>1. SlotsPerPage - 1 \in Slots /\ ~(SlotsPerPage - 1 < LoadedRows)
    BY PagesHaveSlots, LoadedPageIsNotFull DEF Slots
  <2> QED
    BY <1>1, <2>1 DEF FreeSlots
<1>11. ListInv(LoadedFile)
  BY <1>1, <1>6, <1>10 DEF ListInv, HeadOpen
<1> QED
  BY <1>1, <1>5, <1>6, <1>7, <1>8, <1>9, <1>11 DEF page

(* What LOAD has left on disk. *)
LEMMA LoadedDiskShape ==
    /\ LoadedDisk \in [num_pages : {2}, first_free_page_no : {1},
                       pages : [1 .. MaxPages -> Pages(Rows \cup {NoRow}, Links \cup {0})]]
    /\ LoadedDisk.pages[1] = LoadedFile.pages[1]
<1>1. num_pages(LoadedFile) = 2
  BY LoadedFileShape DEF num_pages
<1>2. Unwritten \in Pages(Rows \cup {NoRow}, Links \cup {0})
  BY DEF Unwritten, EmptyPage, Pages
<1>3. LoadedFile.pages[1] \in Pages(Rows \cup {NoRow}, Links \cup {0})
  BY LoadedFileShape DEF Pages
<1>4. 1 \in 1 .. MaxPages
  BY BoundsAreNumbers
<1>5. LoadedFile.first_free_page_no = 1
  BY LoadedFileShape
<1> QED
  BY <1>1, <1>2, <1>3, <1>4, <1>5 DEF LoadedDisk

(* The invariant holds at first. *)
LEMMA RecoveryInit == Init => RecoveryIndInv
<1> SUFFICES ASSUME Init PROVE RecoveryIndInv
  OBVIOUS
<1> USE DEF Init
<1>1. Full = << >> /\ DOMAIN log_file = {} /\ DOMAIN Full = {}
  BY DEF Full
<1>2. disk \in [num_pages : {2}, first_free_page_no : {1},
                 pages : [1 .. MaxPages -> Pages(Rows \cup {NoRow}, Links \cup {0})]]
      /\ disk.pages[1] = LoadedFile.pages[1]
  BY LoadedDiskShape
<1>3. Types
  <2>1. /\ file \in Files(Rows \cup {NoRow}, Links)
        /\ Len(file.pages) \in 1 .. MaxPages
    BY LoadedFileShape, BoundsAreNumbers
  <2>2. log_file \in Seq(LogRecords) /\ log_buffer \in Seq(LogRecords)
    OBVIOUS
  <2>3. write_set \in [Txns -> Seq(WriteRecords)]
    OBVIOUS
  <2>4. starts \in 0 .. MaxStarts
    BY BoundsAreNumbers
  <2>5. busy \in [Rids -> Txns \cup {Nobody}] /\ status \in [Txns -> Statuses]
    BY DEF Statuses
  <2>6. disk.pages[1] \in Pages(Rows \cup {NoRow}, Links)
    BY <1>2, LoadedFileShape
  <2> QED
    BY <1>1, <1>2, <2>1, <2>2, <2>3, <2>4, <2>5, <2>6 DEF Types
<1>4. LoadedStay
  <2> SUFFICES ASSUME NEW rid \in Rids, Loaded(rid)
               PROVE  row(file, rid) # NoRow /\ disk.pages[1].rows[rid.slot_no] # NoRow
    BY DEF LoadedStay
  <2>1. LoadedFile.pages[1].rows[rid.slot_no] # NoRow
    BY LoadedFileShape
  <2> QED
    BY <1>2, <2>1 DEF row, Loaded
<1>5. LogShape(Full)
  BY <1>1 DEF LogShape, RecordsBegin, InsertsAreFirst, PagesInOrder
<1>6. UpInv
  <2>1. ListInv(file)
    BY LoadedFileShape
  <2>2. FileIsLogged
    BY LoadedFileShape DEF FileIsLogged
  <2>3. WritesAreHeld
    BY DEF WritesAreHeld
  <2>4. WritesAreListed
    BY <1>1 DEF WritesAreListed
  <2> QED
    BY <2>1, <2>2, <2>3, <2>4 DEF UpInv
<1>7. RedoInv /\ UndoInv /\ FailedInv
  BY DEF RedoInv, UndoInv, FailedInv
<1> QED
  BY <1>3, <1>4, <1>5, <1>6, <1>7 DEF RecoveryIndInv

-----------------------------------------------------------------------------
(* The server is up *)

(* A rid of the file is one whose page the file has. *)
LEMMA RidsOfFile ==
    ASSUME NEW f \in Files(Rows \cup {NoRow}, Links), Len(f.pages) \in 1 .. MaxPages
    PROVE  /\ DOMAIN f.pages = 1 .. Len(f.pages)
           /\ num_pages(f) = Len(f.pages) + 1
           /\ RidsOf(f) \subseteq Rids
           /\ \A rid \in Rids : rid \in RidsOf(f) <=> rid.page_no < num_pages(f)
           /\ \A rid \in Rids : is_record(f, rid) <=> (rid \in RidsOf(f) /\ row(f, rid) # NoRow)
           /\ \A rid \in RidsOf(f) : row(f, rid) \in Rows \cup {NoRow}
<1>1. /\ DOMAIN f.pages = 1 .. Len(f.pages) /\ num_pages(f) = Len(f.pages) + 1
      /\ \A rid \in RidsOf(f) : row(f, rid) \in Rows \cup {NoRow}
  BY PagesOfFile
<1>2. RidsOf(f) \subseteq Rids
  BY <1>1, BoundsAreNumbers DEF RidsOf, Rids
<1>3. \A rid \in Rids : rid \in RidsOf(f) <=> rid.page_no < num_pages(f)
  BY <1>1, BoundsAreNumbers DEF RidsOf, Rids
<1>4. \A rid \in Rids : is_record(f, rid) <=> (rid \in RidsOf(f) /\ row(f, rid) # NoRow)
  BY <1>3 DEF is_record
<1> QED
  BY <1>1, <1>2, <1>3, <1>4

(* The records of the log that are writes are the same. *)
QuietLog ==
    /\ log_file' \in Seq(LogRecords) /\ log_buffer' \in Seq(LogRecords)
    /\ DOMAIN log_file \subseteq DOMAIN log_file'
    /\ LogShape(Full')
    /\ Extends(Full', Full)
    /\ \A i \in DOMAIN Full' : WriteAt(Full', i) => i \in DOMAIN Full

(* The log has its type. *)
LEMMA FullType ==
    ASSUME log_file \in Seq(LogRecords), log_buffer \in Seq(LogRecords)
    PROVE  /\ Full \in Seq(LogRecords)
           /\ DOMAIN Full = 1 .. Len(Full) /\ Len(Full) \in Nat
           /\ Extends(Full, log_file)
<1> DEFINE S == LogRecords
<1>1. log_file \in Seq(S) /\ log_buffer \in Seq(S)
  OBVIOUS
<1> HIDE DEF S
<1>2. /\ log_file \o log_buffer \in Seq(S)
      /\ \A i \in 1 .. Len(log_file) : (log_file \o log_buffer)[i] = log_file[i]
      /\ DOMAIN log_file = 1 .. Len(log_file) /\ Len(log_file) \in Nat
      /\ Len(log_file \o log_buffer) = Len(log_file) + Len(log_buffer)
      /\ Len(log_buffer) \in Nat
  BY <1>1
<1>3. DOMAIN (log_file \o log_buffer) = 1 .. (Len(log_file) + Len(log_buffer))
  BY <1>1
<1>4. Extends(log_file \o log_buffer, log_file)
  BY <1>2, <1>3 DEF Extends
<1> QED
  BY <1>2, <1>3, <1>4 DEF Full, S

(* A record of a begin, a commit or an abort is quiet. *)
LEMMA QuietRecord ==
    ASSUME Types, LogShape(Full), NEW r \in [type : {"begin", "commit", "abort"}, tid : Txns],
           add_log_to_buffer(r)
    PROVE  QuietLog
<1>1. r \in LogRecords /\ r.type \notin {"insert", "update"}
  BY DEF LogRecords
<1>2. log_file \in Seq(LogRecords) /\ log_buffer \in Seq(LogRecords)
  BY DEF Types
<1>3. /\ log_file' \in Seq(LogRecords) /\ log_buffer' \in Seq(LogRecords)
      /\ DOMAIN log_file \subseteq DOMAIN log_file'
      /\ Full \in Seq(LogRecords)
      /\ Full' = Append(Full, r)
  BY <1>1, <1>2, AddLog
<1> DEFINE a == Full
           b == Full'
           n == Len(a) + 1
<1>4. /\ b \in Seq(LogRecords) /\ Extends(b, a)
      /\ Len(a) \in Nat /\ DOMAIN a = 1 .. Len(a) /\ DOMAIN b = 1 .. n /\ b[n] = r
  BY <1>1, <1>3, LogGrows
<1>5. ~InsertAt(b, n) /\ ~UpdateAt(b, n)
  BY <1>1, <1>4 DEF InsertAt, UpdateAt
<1> HIDE DEF a, b
<1>6. /\ n \in DOMAIN b /\ \A i \in DOMAIN b : i = n \/ i \in DOMAIN a
      /\ \A i \in DOMAIN a : i < n
  BY <1>4
<1>7. LogShape(b)
  <2>1. LogShape(a) /\ a \in Seq(LogRecords)
    BY <1>3 DEF a
  <2> QED
    BY <1>4, <1>5, <1>6, <2>1, ShapeGrows
<1>8. \A i \in DOMAIN b : WriteAt(b, i) => i \in DOMAIN a
  BY <1>5, <1>6 DEF WriteAt
<1> QED
  BY <1>3, <1>4, <1>7, <1>8 DEF QuietLog, a, b

(* Steps that write neither a row nor a record of one: who has a write set *)
(* keeps his locks.                                                        *)
LEMMA UpQuiet ==
    ASSUME RecoveryIndInv, phase = "up", QuietLog,
           UNCHANGED <<phase, starts, file, disk, write_set, todo>>,
           busy' \in [Rids -> Txns \cup {Nobody}],
           status' \in [Txns -> Statuses],
           \A t \in Txns : status'[t] = "none" => status[t] = "none",
           \A t \in Txns : status'[t] \in {"running", "undoing"} =>
              /\ status[t] \in {"none", "running", "undoing"}
              /\ status'[t] = "running" => status[t] # "undoing"
              /\ \A rid \in Rids : busy[rid] = t => busy'[rid] = t
    PROVE  RecoveryIndInv'
<1>1. /\ Types /\ LoadedStay
      /\ FileIsLogged /\ WritesAreHeld /\ WritesAreListed /\ ListInv(file)
  BY DEF RecoveryIndInv, UpInv
<1>2. Types'
  BY <1>1 DEF Types, QuietLog
<1>3. LoadedStay'
  BY <1>1 DEF LoadedStay
<1>4. /\ LogShape(Full')
      /\ \A i \in DOMAIN Full : i \in DOMAIN Full' /\ Full'[i] = Full[i]
      /\ \A i \in DOMAIN Full' : WriteAt(Full', i) => i \in DOMAIN Full
  BY DEF QuietLog, Extends
<1>5. FileIsLogged'
  BY <1>1, <1>4 DEF FileIsLogged, InsertAt
<1>6. WritesAreHeld'
  <2> SUFFICES ASSUME NEW t \in Txns
               PROVE  /\ status'[t] = "none" => write_set[t] = << >>
                      /\ status'[t] \in {"running", "undoing"} =>
                            \A k \in DOMAIN write_set[t] :
                                LET w == write_set[t][k]
                                IN  /\ busy'[w.rid] = t
                                    /\ is_record(file, w.rid)
                                    /\ w.type = "insert" =>
                                          /\ ~Loaded(w.rid)
                                          /\ \A m \in DOMAIN write_set[t] :
                                                m < k => write_set[t][m].rid # w.rid
    <3>1. file' = file /\ write_set' = write_set
      OBVIOUS
    <3> QED
      BY <3>1 DEF WritesAreHeld
  <2>1. status'[t] = "none" => write_set[t] = << >>
    BY <1>1 DEF WritesAreHeld
  <2>2. ASSUME status'[t] \in {"running", "undoing"}, NEW k \in DOMAIN write_set[t]
        PROVE  LET w == write_set[t][k]
               IN  /\ busy'[w.rid] = t
                   /\ is_record(file, w.rid)
                   /\ w.type = "insert" =>
                         /\ ~Loaded(w.rid)
                         /\ \A m \in DOMAIN write_set[t] :
                               m < k => write_set[t][m].rid # w.rid
    <3>1. write_set[t][k] \in WriteRecords
      BY <1>1 DEF Types
    <3>2. write_set[t][k].rid \in Rids
      BY <3>1 DEF WriteRecords
    <3>3. status[t] # "none"
      BY <1>1, <2>2 DEF WritesAreHeld
    <3>4. status[t] \in {"running", "undoing"}
      BY <2>2, <3>3
    <3> QED
      BY <1>1, <2>2, <3>2, <3>4 DEF WritesAreHeld
  <2> QED
    BY <2>1, <2>2
<1>7. WritesAreListed'
  <2> SUFFICES ASSUME NEW t \in Txns, NEW i \in DOMAIN Full', WriteAt(Full', i), Full'[i].tid = t
               PROVE  /\ status'[t] # "none"
                      /\ status'[t] = "running" =>
                            \E k \in DOMAIN write_set[t] : write_set[t][k].rid = Full'[i].rid
    BY DEF WritesAreListed
  <2>1. i \in DOMAIN Full /\ Full'[i] = Full[i]
    BY <1>4
  <2>2. WriteAt(Full, i)
    BY <2>1 DEF WriteAt, InsertAt, UpdateAt
  <2>3. /\ status[t] # "none"
        /\ status[t] = "running" =>
              \E k \in DOMAIN write_set[t] : write_set[t][k].rid = Full[i].rid
    BY <1>1, <2>1, <2>2 DEF WritesAreListed
  <2> QED
    BY <2>1, <2>3
<1>8. UpInv'
  BY <1>1, <1>5, <1>6, <1>7 DEF UpInv
<1>9. RedoInv' /\ UndoInv' /\ FailedInv'
  BY DEF RedoInv, UndoInv, FailedInv
<1> QED
  BY <1>2, <1>3, <1>4, <1>8, <1>9 DEF RecoveryIndInv

(* A step that leaves the log alone is quiet. *)
LEMMA SameLog ==
    ASSUME Types, LogShape(Full), UNCHANGED <<log_file, log_buffer>>
    PROVE  QuietLog
<1>1. Full' = Full
  BY DEF Full
<1> QED
  BY <1>1 DEF QuietLog, Extends, Types

(* A transaction goes from one status to another. *)
LEMMA GoesOn ==
    ASSUME RecoveryIndInv, NEW t \in Txns, NEW from, NEW to \in Statuses, Goes(t, from, to)
    PROVE  /\ phase = "up" /\ status[t] = from
           /\ Types /\ LogShape(Full)
           /\ status' \in [Txns -> Statuses] /\ status'[t] = to
           /\ \A u \in Txns : u # t => status'[u] = status[u]
<1>1. status \in [Txns -> Statuses] /\ Types /\ LogShape(Full)
  BY DEF RecoveryIndInv, Types
<1> QED
  BY <1>1 DEF Goes

(* begin adds a record that is no write. *)
LEMMA KeepsBegin ==
    ASSUME RecoveryIndInv, NEW t \in Txns, begin(t)
    PROVE  RecoveryIndInv'
<1>1. /\ phase = "up" /\ status[t] = "none"
      /\ Types /\ LogShape(Full)
      /\ status' \in [Txns -> Statuses] /\ status'[t] = "running"
      /\ \A u \in Txns : u # t => status'[u] = status[u]
  BY GoesOn DEF begin, Statuses
<1>2. BeginLogRecord(t) \in [type : {"begin", "commit", "abort"}, tid : Txns]
  BY DEF BeginLogRecord, LogRecord
<1>3. QuietLog
  BY <1>1, <1>2, QuietRecord DEF begin
<1>4. busy' = busy /\ busy' \in [Rids -> Txns \cup {Nobody}]
  BY <1>1 DEF begin, Types
<1> QED
  BY <1>1, <1>3, <1>4, UpQuiet DEF begin

(* The record of a commit follows the release of the locks. *)
LEMMA KeepsLogCommit ==
    ASSUME RecoveryIndInv, NEW t \in Txns, log_commit(t)
    PROVE  RecoveryIndInv'
<1>1. /\ phase = "up" /\ status[t] = "log_commit"
      /\ Types /\ LogShape(Full)
      /\ status' \in [Txns -> Statuses] /\ status'[t] = "committed"
      /\ \A u \in Txns : u # t => status'[u] = status[u]
  BY GoesOn DEF log_commit, Statuses
<1>2. CommitLogRecord(t) \in [type : {"begin", "commit", "abort"}, tid : Txns]
  BY DEF CommitLogRecord, LogRecord
<1>3. QuietLog
  BY <1>1, <1>2, QuietRecord DEF log_commit
<1>4. busy' = busy /\ busy' \in [Rids -> Txns \cup {Nobody}]
  BY <1>1 DEF log_commit, Types
<1> QED
  BY <1>1, <1>3, <1>4, UpQuiet DEF log_commit

(* The record of an abort comes when nothing is left to take back. *)
LEMMA KeepsLogAbort ==
    ASSUME RecoveryIndInv, NEW t \in Txns, log_abort(t)
    PROVE  RecoveryIndInv'
<1>1. /\ phase = "up" /\ status[t] = "log_abort"
      /\ Types /\ LogShape(Full)
      /\ status' \in [Txns -> Statuses] /\ status'[t] = "aborted"
      /\ \A u \in Txns : u # t => status'[u] = status[u]
  BY GoesOn DEF log_abort, Statuses
<1>2. AbortLogRecord(t) \in [type : {"begin", "commit", "abort"}, tid : Txns]
  BY DEF AbortLogRecord, LogRecord
<1>3. QuietLog
  BY <1>1, <1>2, QuietRecord DEF log_abort
<1>4. busy' = busy /\ busy' \in [Rids -> Txns \cup {Nobody}]
  BY <1>1 DEF log_abort, Types
<1> QED
  BY <1>1, <1>3, <1>4, UpQuiet DEF log_abort

(* An abort begins: its writes are still there, and locked. *)
LEMMA KeepsAbort ==
    ASSUME RecoveryIndInv, NEW t \in Txns, abort(t)
    PROVE  RecoveryIndInv'
<1>1. /\ phase = "up" /\ status[t] = "running"
      /\ Types /\ LogShape(Full)
      /\ status' \in [Txns -> Statuses] /\ status'[t] = "undoing"
      /\ \A u \in Txns : u # t => status'[u] = status[u]
  BY GoesOn DEF abort, Statuses
<1>2. QuietLog
  BY <1>1, SameLog DEF abort
<1>3. busy' = busy /\ busy' \in [Rids -> Txns \cup {Nobody}]
  BY <1>1 DEF abort, Types
<1> QED
  BY <1>1, <1>2, <1>3, UpQuiet DEF abort

(* Release takes the locks of t only. *)
LEMMA Released ==
    ASSUME Types, NEW t \in Txns, Release(t)
    PROVE  /\ busy' \in [Rids -> Txns \cup {Nobody}]
           /\ \A u \in Txns : u # t => \A rid \in Rids : busy[rid] = u => busy'[rid] = u
  BY DEF Types, Release

(* commit gives the locks free; what it wrote is no longer undone. *)
LEMMA KeepsCommit ==
    ASSUME RecoveryIndInv, NEW t \in Txns, commit(t)
    PROVE  RecoveryIndInv'
<1>1. /\ phase = "up" /\ status[t] = "running"
      /\ Types /\ LogShape(Full)
      /\ status' \in [Txns -> Statuses] /\ status'[t] = "log_commit"
      /\ \A u \in Txns : u # t => status'[u] = status[u]
  BY GoesOn DEF commit, Statuses
<1>2. QuietLog
  BY <1>1, SameLog DEF commit
<1>3. /\ busy' \in [Rids -> Txns \cup {Nobody}]
      /\ \A u \in Txns : u # t => \A rid \in Rids : busy[rid] = u => busy'[rid] = u
  BY <1>1, Released DEF commit
<1> QED
  BY <1>1, <1>2, <1>3, UpQuiet DEF commit

(* An abort whose writes are all taken back gives the locks free. *)
LEMMA KeepsUndone ==
    ASSUME RecoveryIndInv, NEW t \in Txns, undone(t)
    PROVE  RecoveryIndInv'
<1>1. /\ phase = "up" /\ status[t] = "undoing"
      /\ Types /\ LogShape(Full)
      /\ status' \in [Txns -> Statuses] /\ status'[t] = "log_abort"
      /\ \A u \in Txns : u # t => status'[u] = status[u]
  BY GoesOn DEF undone, Statuses
<1>2. QuietLog
  BY <1>1, SameLog DEF undone
<1>3. /\ busy' \in [Rids -> Txns \cup {Nobody}]
      /\ \A u \in Txns : u # t => \A rid \in Rids : busy[rid] = u => busy'[rid] = u
  BY <1>1, Released DEF undone
<1> QED
  BY <1>1, <1>2, <1>3, UpQuiet DEF undone

(* g is f with a row in rid, which may be in a new page. *)
RowPut(f, g, rid) ==
    /\ rid \in RidsOf(g) /\ row(g, rid) # NoRow
    /\ \A q \in RidsOf(f) : q \in RidsOf(g) /\ (q # rid => row(g, q) = row(f, q))
    /\ \A q \in RidsOf(g) : (q # rid /\ q \notin RidsOf(f)) => row(g, q) = NoRow
    /\ DOMAIN f.pages \subseteq DOMAIN g.pages
    /\ \A p \in DOMAIN g.pages : p \notin DOMAIN f.pages => p = rid.page_no /\ p = num_pages(f)

(* A write of a running transaction that nobody else is writing *)
LEMMA KeepsWrite ==
    ASSUME RecoveryIndInv, NEW t \in Txns, NEW record, NEW written,
           Write(t, record, written),
           record \in [type : {"insert"}, tid : {t}, rid : Rids, old : {NoRow}, new : Rows]
                        \cup [type : {"update"}, tid : {t}, rid : Rids, old : Rows, new : Rows],
           written \in Files(Rows \cup {NoRow}, Links), Len(written.pages) \in 1 .. MaxPages,
           ListInv(written), RowPut(file, written, record.rid),
           record.type = "insert" => ~is_record(file, record.rid),
           record.type = "update" => is_record(file, record.rid) /\ busy[record.rid] \in {Nobody, t}
    PROVE  RecoveryIndInv'
<1> DEFINE rid == record.rid
           a   == Full
           b   == Full'
           n   == Len(a) + 1
           new == [type |-> record.type, rid |-> record.rid, old |-> record.old]
<1>1. /\ phase = "up" /\ status[t] = "running"
      /\ Types /\ LogShape(Full)
      /\ status' \in [Txns -> Statuses] /\ status'[t] = "running"
      /\ \A u \in Txns : u # t => status'[u] = status[u]
  BY GoesOn DEF Write, Statuses
<1>2. status' = status
  BY <1>1 DEF Types
<1>3. /\ LoadedStay /\ FileIsLogged /\ WritesAreHeld /\ WritesAreListed
  BY <1>1 DEF RecoveryIndInv, UpInv
<1>4. /\ record \in LogRecords /\ rid \in Rids /\ record.tid = t
      /\ record.type \in {"insert", "update"}
      /\ new \in WriteRecords
  BY DEF LogRecords, WriteRecords
<1>5. /\ file' = written /\ add_log_to_buffer(record)
      /\ write_set' = [write_set EXCEPT ![t] = Append(@, new)]
      /\ busy' = [busy EXCEPT ![rid] = t]
      /\ UNCHANGED <<phase, starts, disk, todo>>
  BY DEF Write
<1>6. /\ file \in Files(Rows \cup {NoRow}, Links) /\ Len(file.pages) \in 1 .. MaxPages
      /\ log_file \in Seq(LogRecords) /\ log_buffer \in Seq(LogRecords)
      /\ busy \in [Rids -> Txns \cup {Nobody}] /\ write_set \in [Txns -> Seq(WriteRecords)]
  BY <1>1 DEF Types
<1>7. /\ log_file' \in Seq(LogRecords) /\ log_buffer' \in Seq(LogRecords)
      /\ DOMAIN log_file \subseteq DOMAIN log_file'
      /\ Full \in Seq(LogRecords)
      /\ Full' = Append(Full, record)
  BY <1>4, <1>5, <1>6, AddLog
<1>8. /\ b \in Seq(LogRecords) /\ Extends(b, a)
      /\ Len(a) \in Nat /\ DOMAIN a = 1 .. Len(a) /\ DOMAIN b = 1 .. n /\ b[n] = record
  BY <1>4, <1>7, LogGrows
<1>9. /\ n \in DOMAIN b /\ \A i \in DOMAIN b : i = n \/ i \in DOMAIN a
      /\ \A i \in DOMAIN a : i < n
      /\ \A i \in DOMAIN a : i \in DOMAIN b /\ b[i] = a[i]
      /\ InsertAt(b, n) <=> record.type = "insert"
      /\ UpdateAt(b, n) <=> record.type = "update"
  BY <1>8 DEF Extends, InsertAt, UpdateAt
<1>10. /\ write_set'[t] = Append(write_set[t], new)
       /\ \A u \in Txns : u # t => write_set'[u] = write_set[u]
       /\ busy'[rid] = t /\ \A q \in Rids : q # rid => busy'[q] = busy[q]
       /\ busy' \in [Rids -> Txns \cup {Nobody}]
  BY <1>4, <1>5, <1>6
<1>11. /\ write_set[t] \in Seq(WriteRecords)
       /\ Append(write_set[t], new) \in Seq(WriteRecords)
       /\ DOMAIN Append(write_set[t], new) = 1 .. (Len(write_set[t]) + 1)
       /\ DOMAIN write_set[t] = 1 .. Len(write_set[t]) /\ Len(write_set[t]) \in Nat
       /\ \A k \in DOMAIN write_set[t] : Append(write_set[t], new)[k] = write_set[t][k]
       /\ Append(write_set[t], new)[Len(write_set[t]) + 1] = new
  <2> DEFINE S == WriteRecords
             s == write_set[t]
  <2>1. s \in Seq(S) /\ new \in S
    BY <1>4, <1>6
  <2> HIDE DEF S, s, new
  <2>2. /\ Append(s, new) \in Seq(S)
        /\ DOMAIN Append(s, new) = 1 .. (Len(s) + 1)
        /\ DOMAIN s = 1 .. Len(s) /\ Len(s) \in Nat
        /\ \A k \in DOMAIN s : Append(s, new)[k] = s[k]
        /\ Append(s, new)[Len(s) + 1] = new
    BY <2>1
  <2> QED
    BY <2>1, <2>2 DEF S, s
<1> HIDE DEF a, b, new
<1>12. /\ DOMAIN file.pages = 1 .. Len(file.pages) /\ num_pages(file) = Len(file.pages) + 1
       /\ RidsOf(file) \subseteq Rids
       /\ \A q \in Rids : is_record(file, q) <=> (q \in RidsOf(file) /\ row(file, q) # NoRow)
  BY <1>6, RidsOfFile
<1>13. /\ RidsOf(written) \subseteq Rids
       /\ \A q \in Rids : is_record(written, q) <=> (q \in RidsOf(written) /\ row(written, q) # NoRow)
       /\ DOMAIN written.pages = 1 .. Len(written.pages)
  BY RidsOfFile
<1>14. /\ is_record(written, rid)
       /\ \A q \in Rids : is_record(file, q) => is_record(written, q)
  BY <1>4, <1>12, <1>13 DEF RowPut
<1>15. ASSUME NEW u \in Txns, status[u] \in {"running", "undoing"}, NEW k \in DOMAIN write_set[u]
       PROVE  /\ write_set[u][k].rid \in Rids
              /\ is_record(file, write_set[u][k].rid)
              /\ u # t => write_set[u][k].rid # rid
              /\ record.type = "insert" => write_set[u][k].rid # rid
  <2>1. write_set[u][k] \in WriteRecords
    BY <1>6
  <2>2. write_set[u][k].rid \in Rids
    BY <2>1 DEF WriteRecords
  <2>3. is_record(file, write_set[u][k].rid) /\ busy[write_set[u][k].rid] = u
    BY <1>3, <1>15 DEF WritesAreHeld
  <2>4. u # Nobody
    BY Ids DEF Nobody
  <2> QED
    BY <1>4, <2>2, <2>3, <2>4
<1>16. Types'
  <2>1. write_set' \in [Txns -> Seq(WriteRecords)]
    BY <1>5, <1>6, <1>11
  <2>2. todo' \subseteq DOMAIN log_file'
    BY <1>1, <1>5, <1>7 DEF Types
  <2> QED
    BY <1>1, <1>5, <1>7, <1>10, <2>1, <2>2 DEF Types
<1>17. LoadedStay'
  <2>1. \A q \in Rids : Loaded(q) => q \in RidsOf(file)
    BY <1>6, <1>12 DEF Loaded, RidsOf, Rids
  <2>2. \A q \in Rids : Loaded(q) => row(written, q) # NoRow
    BY <1>3, <2>1 DEF LoadedStay, RowPut
  <2> QED
    BY <1>3, <1>5, <2>2 DEF LoadedStay
<1>18. record.type = "insert" =>
          /\ ~Loaded(rid)
          /\ \A i \in DOMAIN a : (WriteAt(a, i) /\ a[i].tid = t) => a[i].rid # rid
          /\ rid.page_no > 2 =>
                \E j \in DOMAIN a : InsertAt(a, j) /\ a[j].rid.page_no = rid.page_no - 1
  <2> HAVE record.type = "insert"
  <2>1. ~Loaded(rid)
    <3>1. Loaded(rid) => rid \in RidsOf(file)
      BY <1>4, <1>6, <1>12 DEF Loaded, RidsOf, Rids
    <3> QED
      BY <1>3, <1>4, <1>12, <3>1 DEF LoadedStay
  <2>2. ASSUME NEW i \in DOMAIN a, WriteAt(a, i), a[i].tid = t PROVE a[i].rid # rid
    <3>1. PICK k \in DOMAIN write_set[t] : write_set[t][k].rid = a[i].rid
      BY <1>1, <1>3, <2>2 DEF WritesAreListed, a
    <3> QED
      BY <1>1, <1>15, <3>1
  <2>3. ASSUME rid.page_no > 2
        PROVE  \E j \in DOMAIN a : InsertAt(a, j) /\ a[j].rid.page_no = rid.page_no - 1
    <3>1. rid.page_no \in DOMAIN written.pages
      BY DEF RowPut, RidsOf
    <3>2. rid.page_no \in DOMAIN file.pages \/ rid.page_no = num_pages(file)
      BY <3>1 DEF RowPut
    <3>3. rid.page_no - 1 \in DOMAIN file.pages /\ rid.page_no - 1 > 1
      BY <1>6, <1>12, <2>3, <3>2
    <3> QED
      BY <1>3, <3>3 DEF FileIsLogged, a
  <2> QED
    BY <2>1, <2>2, <2>3
<1>19. record.type = "update" =>
          Loaded(rid) \/ \E j \in DOMAIN a : InsertAt(a, j) /\ a[j].rid = rid
  BY <1>3, <1>4, <1>12 DEF FileIsLogged, a
<1>20. LogShape(b)
  <2>1. LogShape(a) /\ a \in Seq(LogRecords)
    BY <1>1, <1>7 DEF a
  <2>2. InsertAt(b, n) =>
           /\ ~Loaded(b[n].rid)
           /\ \A i \in DOMAIN a : (WriteAt(a, i) /\ a[i].tid = b[n].tid) => a[i].rid # b[n].rid
           /\ b[n].rid.page_no > 2 =>
                 \E j \in DOMAIN a : InsertAt(a, j) /\ a[j].rid.page_no = b[n].rid.page_no - 1
    BY <1>4, <1>8, <1>9, <1>18
  <2>3. UpdateAt(b, n) =>
           \/ Loaded(b[n].rid)
           \/ \E j \in DOMAIN a : InsertAt(a, j) /\ a[j].rid = b[n].rid
    BY <1>8, <1>9, <1>19
  <2> QED
    BY <1>8, <1>9, <2>1, <2>2, <2>3, ShapeGrows
<1>21. FileIsLogged'
  <2>1. ASSUME NEW p \in DOMAIN written.pages, p > 1
        PROVE  \E j \in DOMAIN b : InsertAt(b, j) /\ b[j].rid.page_no = p
    <3>1. CASE p \in DOMAIN file.pages
      <4>1. PICK j \in DOMAIN a : InsertAt(a, j) /\ a[j].rid.page_no = p
        BY <1>3, <2>1, <3>1 DEF FileIsLogged, a
      <4> QED
        BY <1>9, <4>1 DEF InsertAt
    <3>2. CASE p \notin DOMAIN file.pages
      <4>1. p = rid.page_no /\ p = num_pages(file)
        BY <3>2 DEF RowPut
      <4>2. ~is_record(file, rid)
        BY <1>4, <1>12, <3>2, <4>1 DEF RidsOf
      <4> QED
        BY <1>4, <1>8, <1>9, <4>1, <4>2
    <3> QED
      BY <3>1, <3>2
  <2>2. ASSUME NEW q \in RidsOf(written), row(written, q) # NoRow
        PROVE  Loaded(q) \/ \E j \in DOMAIN b : InsertAt(b, j) /\ b[j].rid = q
    <3>1. CASE q # rid \/ record.type = "update"
      <4>1. q \in RidsOf(file) /\ row(file, q) # NoRow
        BY <1>4, <1>12, <2>2, <3>1 DEF RowPut
      <4>2. Loaded(q) \/ \E j \in DOMAIN a : InsertAt(a, j) /\ a[j].rid = q
        BY <1>3, <4>1 DEF FileIsLogged, a
      <4> QED
        BY <1>9, <4>2 DEF InsertAt
    <3>2. CASE q = rid /\ record.type = "insert"
      BY <1>8, <1>9, <3>2
    <3> QED
      BY <1>4, <3>1, <3>2
  <2> QED
    BY <1>5, <2>1, <2>2 DEF FileIsLogged, b
<1>22. WritesAreHeld'
  <2> SUFFICES ASSUME NEW u \in Txns
               PROVE  /\ status[u] = "none" => write_set'[u] = << >>
                      /\ status[u] \in {"running", "undoing"} =>
                            \A k \in DOMAIN write_set'[u] :
                                LET w == write_set'[u][k]
                                IN  /\ busy'[w.rid] = u
                                    /\ is_record(written, w.rid)
                                    /\ w.type = "insert" =>
                                          /\ ~Loaded(w.rid)
                                          /\ \A m \in DOMAIN write_set'[u] :
                                                m < k => write_set'[u][m].rid # w.rid
    BY <1>2, <1>5 DEF WritesAreHeld
  <2>1. CASE u # t
    <3>1. write_set'[u] = write_set[u]
      BY <1>10, <2>1
    <3>2. status[u] = "none" => write_set[u] = << >>
      BY <1>3 DEF WritesAreHeld
    <3>3. ASSUME status[u] \in {"running", "undoing"}, NEW k \in DOMAIN write_set[u]
          PROVE  LET w == write_set[u][k]
                 IN  /\ busy'[w.rid] = u
                     /\ is_record(written, w.rid)
                     /\ w.type = "insert" =>
                           /\ ~Loaded(w.rid)
                           /\ \A m \in DOMAIN write_set[u] :
                                 m < k => write_set[u][m].rid # w.rid
      <4> DEFINE w == write_set[u][k]
      <4>1. w.rid \in Rids /\ is_record(file, w.rid) /\ w.rid # rid
        BY <1>15, <2>1, <3>3
      <4>2. busy'[w.rid] = u /\ is_record(written, w.rid)
        BY <1>3, <1>10, <1>14, <3>3, <4>1 DEF WritesAreHeld
      <4>3. w.type = "insert" =>
                /\ ~Loaded(w.rid)
                /\ \A m \in DOMAIN write_set[u] : m < k => write_set[u][m].rid # w.rid
        BY <1>3, <3>3 DEF WritesAreHeld
      <4> QED
        BY <4>2, <4>3
    <3> QED
      BY <3>1, <3>2, <3>3
  <2>2. CASE u = t
    <3> DEFINE ws  == write_set[t]
               ws2 == write_set'[t]
    <3>1. /\ DOMAIN ws2 = 1 .. (Len(ws) + 1) /\ DOMAIN ws = 1 .. Len(ws) /\ Len(ws) \in Nat
          /\ \A k \in DOMAIN ws : ws2[k] = ws[k]
          /\ ws2[Len(ws) + 1] = new
      BY <1>10, <1>11
    <3>2. new.rid = rid /\ new.type = record.type
      BY DEF new
    <3>3. \A k \in DOMAIN ws : /\ ws[k].rid \in Rids /\ is_record(file, ws[k].rid)
                               /\ record.type = "insert" => ws[k].rid # rid
      BY <1>1, <1>15
    <3>4. \A k \in DOMAIN ws : busy[ws[k].rid] = t
      BY <1>1, <1>3 DEF WritesAreHeld
    <3>5. \A k \in DOMAIN ws : ws[k].type = "insert" =>
             ~Loaded(ws[k].rid) /\ \A m \in DOMAIN ws : m < k => ws[m].rid # ws[k].rid
      BY <1>1, <1>3 DEF WritesAreHeld
    <3> HIDE DEF ws, ws2
    <3>6. ASSUME NEW k \in DOMAIN ws2
          PROVE  LET w == ws2[k]
                 IN  /\ busy'[w.rid] = t
                     /\ is_record(written, w.rid)
                     /\ w.type = "insert" =>
                           ~Loaded(w.rid) /\ \A m \in DOMAIN ws2 : m < k => ws2[m].rid # w.rid
      <4>1. CASE k \in DOMAIN ws
        <5>1. ws2[k] = ws[k] /\ \A m \in DOMAIN ws2 : m < k => m \in DOMAIN ws
          BY <3>1, <4>1
        <5>2. busy'[ws[k].rid] = t
          BY <1>10, <3>3, <3>4, <4>1
        <5>3. is_record(written, ws[k].rid)
          BY <1>14, <3>3, <4>1
        <5> QED
          BY <3>1, <3>5, <4>1, <5>1, <5>2, <5>3
      <4>2. CASE k = Len(ws) + 1
        <5>1. ws2[k] = new /\ \A m \in DOMAIN ws2 : m < k => m \in DOMAIN ws
          BY <3>1, <4>2
        <5> QED
          BY <1>10, <1>14, <1>18, <3>1, <3>2, <3>3, <5>1
      <4> QED
        BY <3>1, <4>1, <4>2
    <3> QED
      BY <1>1, <2>2, <3>6 DEF ws2
  <2> QED
    BY <2>1, <2>2
<1>23. WritesAreListed'
  <2> SUFFICES ASSUME NEW u \in Txns, NEW i \in DOMAIN b, WriteAt(b, i), b[i].tid = u
               PROVE  /\ status[u] # "none"
                      /\ status[u] = "running" =>
                            \E k \in DOMAIN write_set'[u] : write_set'[u][k].rid = b[i].rid
    BY <1>2 DEF WritesAreListed, b
  <2>1. CASE i \in DOMAIN a
    <3>1. WriteAt(a, i) /\ b[i] = a[i]
      BY <1>9, <2>1 DEF WriteAt, InsertAt, UpdateAt
    <3>2. /\ status[u] # "none"
          /\ status[u] = "running" =>
                \E k \in DOMAIN write_set[u] : write_set[u][k].rid = a[i].rid
      BY <1>3, <2>1, <3>1 DEF WritesAreListed, a
    <3>3. \A k \in DOMAIN write_set[u] :
             k \in DOMAIN write_set'[u] /\ write_set'[u][k] = write_set[u][k]
      BY <1>10, <1>11
    <3> QED
      BY <3>1, <3>2, <3>3
  <2>2. CASE i = n
    <3>1. u = t /\ b[i].rid = rid
      BY <1>4, <1>8, <2>2
    <3>2. Len(write_set[t]) + 1 \in DOMAIN write_set'[t]
      BY <1>10, <1>11
    <3>3. write_set'[t][Len(write_set[t]) + 1].rid = rid
      BY <1>10, <1>11 DEF new
    <3> QED
      BY <1>1, <3>1, <3>2, <3>3
  <2> QED
    BY <1>9, <2>1, <2>2
<1>24. UpInv'
  BY <1>5, <1>21, <1>22, <1>23 DEF UpInv
<1>25. RedoInv' /\ UndoInv' /\ FailedInv'
  BY <1>1, <1>5 DEF RedoInv, UndoInv, FailedInv
<1> QED
  BY <1>1, <1>5, <1>16, <1>17, <1>20, <1>24, <1>25 DEF RecoveryIndInv, b

(* A row of a transaction is a row. *)
LEMMA RowType ==
    ASSUME NEW t \in Txns, NEW kind \in {"insert", "update"}
    PROVE  Row(t, kind) \in Rows /\ Row(t, kind) # NoRow
<1>1. Row(t, kind) \in Rows
  BY DEF Row, Rows
<1> QED
  BY <1>1, EmptySlotIsNoRow DEF Rows

(* An insert takes a slot that nobody has written since it was free. *)
LEMMA KeepsInsert ==
    ASSUME RecoveryIndInv, NEW t \in Txns, Insert(t)
    PROVE  RecoveryIndInv'
<1> DEFINE R       == Rows \cup {NoRow}
           r       == Row(t, "insert")
           m       == Room(file)
           rid     == FreeRid(file)
           written == insert_record(file, r)
           record  == InsertLogRecord(t, rid, r)
<1>1. Write(t, record, written) /\ num_pages(m) <= MaxPages + 1
  BY DEF Insert
<1>2. phase = "up"
  BY <1>1 DEF Write, Goes
<1>3. /\ file \in Files(R, Links) /\ Len(file.pages) \in 1 .. MaxPages
      /\ ListInv(file) /\ HeadOpen(file)
  BY <1>2 DEF RecoveryIndInv, UpInv, Types, ListInv
<1>4. NoRow \in R /\ r \in R /\ r \in Rows /\ r # NoRow
  BY RowType
<1>5. NoPage \in Links
  BY DEF Links
<1>6. /\ DOMAIN file.pages = 1 .. Len(file.pages) /\ num_pages(file) = Len(file.pages) + 1
      /\ RidsOf(file) \subseteq Rids
      /\ \A q \in Rids : is_record(file, q) <=> (q \in RidsOf(file) /\ row(file, q) # NoRow)
  BY <1>3, RidsOfFile
<1>7. file.first_free_page_no = NoPage => num_pages(file) \in Links
  <2> HAVE file.first_free_page_no = NoPage
  <2>1. m.pages = Append(file.pages, EmptyPage(NoPage))
    BY DEF Room, create_new_page_handle
  <2>2. file.pages \in Seq(Pages(R, Links))
    BY <1>3, PagesOfFile
  <2>3. Len(m.pages) = Len(file.pages) + 1
    BY <2>1, <2>2
  <2> QED
    BY <1>1, <1>3, <1>6, <2>3, BoundsAreNumbers DEF num_pages, Links
<1> HIDE DEF R, m, rid, written, r
<1>8. /\ m \in Files(R, Links)
      /\ \A q \in DOMAIN file.pages : q \in DOMAIN m.pages /\ m.pages[q] = file.pages[q]
      /\ \A q \in DOMAIN m.pages : q \notin DOMAIN file.pages => q = num_pages(file)
      /\ \A q \in RidsOf(file) : q \in RidsOf(m) /\ row(m, q) = row(file, q)
      /\ \A q \in RidsOf(m) : q \notin RidsOf(file) =>
            q.page_no = num_pages(file) /\ row(m, q) = NoRow
  BY <1>3, <1>4, <1>7, RoomFound DEF m
<1>9. \A q \in DOMAIN m.pages : q \notin DOMAIN file.pages => q = m.first_free_page_no
  BY <1>3, <1>4, <1>7, RoomFound DEF m
<1>10. InsertedRow(file, written, r) /\ written \in Files(R, Links)
  BY <1>3, <1>4, <1>5, <1>7, Inserted DEF written
<1>11. /\ DOMAIN written.pages = DOMAIN m.pages /\ Len(written.pages) = Len(m.pages)
       /\ rid \in RidsOf(m) /\ rid.page_no = m.first_free_page_no /\ row(m, rid) = NoRow
       /\ Wrote(m, written, rid, r)
  BY <1>10 DEF InsertedRow, m, rid
<1>12. Len(written.pages) \in 1 .. MaxPages
  <2>1. Len(m.pages) \in Nat /\ DOMAIN m.pages = 1 .. Len(m.pages) /\ num_pages(m) = Len(m.pages) + 1
    BY <1>8, PagesOfFile
  <2>2. 1 \in DOMAIN m.pages
    BY <1>3, <1>6, <1>8
  <2> QED
    BY <1>1, <1>11, <2>1, <2>2, BoundsAreNumbers DEF m
<1>13. RidsOf(written) = RidsOf(m) /\ RidsOf(written) \subseteq Rids
  <2>1. RidsOf(written) = RidsOf(m)
    BY <1>11 DEF RidsOf
  <2> QED
    BY <1>10, <1>12, <2>1, RidsOfFile DEF R
<1>14. \A q \in RidsOf(m) : row(written, q) = IF q = rid THEN r ELSE row(m, q)
  BY <1>11 DEF Wrote
<1>15. RowPut(file, written, rid)
  <2>1. rid \in RidsOf(written) /\ row(written, rid) # NoRow
    BY <1>4, <1>11, <1>13, <1>14
  <2>2. \A q \in RidsOf(file) : q \in RidsOf(written) /\ (q # rid => row(written, q) = row(file, q))
    BY <1>8, <1>13, <1>14
  <2>3. \A q \in RidsOf(written) : (q # rid /\ q \notin RidsOf(file)) => row(written, q) = NoRow
    BY <1>8, <1>13, <1>14
  <2>4. DOMAIN file.pages \subseteq DOMAIN written.pages
    BY <1>8, <1>11
  <2>5. \A p \in DOMAIN written.pages :
           p \notin DOMAIN file.pages => p = rid.page_no /\ p = num_pages(file)
    BY <1>8, <1>9, <1>11
  <2> QED
    BY <2>1, <2>2, <2>3, <2>4, <2>5 DEF RowPut
<1>16. rid \in Rids /\ ~is_record(file, rid)
  BY <1>6, <1>8, <1>11, <1>13
<1>17. ListInv(written)
  BY <1>3, <1>4, <1>5, <1>7, ListInserted DEF written
<1>18. /\ record \in [type : {"insert"}, tid : {t}, rid : Rids, old : {NoRow}, new : Rows]
       /\ record.rid = rid /\ record.type = "insert"
  BY <1>4, <1>16 DEF InsertLogRecord
<1> HIDE DEF record
<1> QED
  BY <1>1, <1>10, <1>12, <1>15, <1>16, <1>17, <1>18, KeepsWrite DEF R

(* An update has the lock of a record that is there. *)
LEMMA KeepsUpdate ==
    ASSUME RecoveryIndInv, NEW t \in Txns, NEW rid \in RidsOf(file), Update(t, rid)
    PROVE  RecoveryIndInv'
<1> DEFINE R       == Rows \cup {NoRow}
           r       == Row(t, "update")
           written == update_record(file, rid, r)
           record  == UpdateLogRecord(t, rid, row(file, rid), r)
<1>1. /\ Write(t, record, written)
      /\ is_record(file, rid) /\ busy[rid] \in {Nobody, t}
  BY DEF Update
<1>2. phase = "up"
  BY <1>1 DEF Write, Goes
<1>3. /\ file \in Files(R, Links) /\ Len(file.pages) \in 1 .. MaxPages /\ ListInv(file)
  BY <1>2 DEF RecoveryIndInv, UpInv, Types
<1>4. r \in R /\ r \in Rows /\ r # NoRow
  BY RowType
<1>5. rid \in Rids /\ row(file, rid) # NoRow /\ row(file, rid) \in Rows
  BY <1>1, <1>3, RidsOfFile
<1>6. written = SetRow(file, rid, r)
  BY DEF update_record
<1> HIDE DEF R, written, r
<1>7. /\ written \in Files(R, Links) /\ Len(written.pages) = Len(file.pages)
      /\ Wrote(file, written, rid, r)
  BY <1>3, <1>4, <1>6, SetRowWrites
<1>8. ListInv(written)
  BY <1>3, <1>4, <1>5, <1>6, ListUpdated
<1>9. RowPut(file, written, rid)
  <2>1. RidsOf(written) = RidsOf(file) /\ DOMAIN written.pages = DOMAIN file.pages
    BY <1>7 DEF Wrote, RidsOf
  <2>2. \A q \in RidsOf(file) : row(written, q) = IF q = rid THEN r ELSE row(file, q)
    BY <1>7 DEF Wrote
  <2> QED
    BY <1>4, <2>1, <2>2 DEF RowPut
<1>10. /\ record \in [type : {"update"}, tid : {t}, rid : Rids, old : Rows, new : Rows]
       /\ record.rid = rid /\ record.type = "update"
  BY <1>4, <1>5 DEF UpdateLogRecord
<1> HIDE DEF record
<1> QED
  BY <1>1, <1>3, <1>7, <1>8, <1>9, <1>10, KeepsWrite DEF R

(* The newest write of an abort is taken back. *)
LEMMA KeepsRollback ==
    ASSUME RecoveryIndInv, NEW t \in Txns, rollback_single_operation(t)
    PROVE  RecoveryIndInv'
<1> DEFINE R   == Rows \cup {NoRow}
           ws  == write_set[t]
           w   == ws[Len(ws)]
           rid == w.rid
           ws2 == SubSeq(ws, 1, Len(ws) - 1)
<1>1. /\ phase = "up" /\ status[t] = "undoing" /\ ws # << >>
      /\ file' = IF ~ is_record(file, rid)  THEN file
                 ELSE IF w.type = "insert"  THEN delete_record(file, rid)
                                            ELSE update_record(file, rid, w.old)
      /\ write_set' = [write_set EXCEPT ![t] = ws2]
      /\ UNCHANGED <<phase, starts, log_file, log_buffer, disk, busy, status, todo>>
  BY DEF rollback_single_operation
<1>2. /\ Types /\ LoadedStay /\ LogShape(Full)
      /\ ListInv(file) /\ FileIsLogged /\ WritesAreHeld /\ WritesAreListed
  BY <1>1 DEF RecoveryIndInv, UpInv
<1>3. /\ file \in Files(R, Links) /\ Len(file.pages) \in 1 .. MaxPages
      /\ write_set \in [Txns -> Seq(WriteRecords)]
  BY <1>2 DEF Types
<1>4. /\ Len(ws) \in Nat \ {0} /\ DOMAIN ws = 1 .. Len(ws)
      /\ ws2 \in Seq(WriteRecords) /\ DOMAIN ws2 = 1 .. (Len(ws) - 1)
      /\ \A k \in DOMAIN ws2 : ws2[k] = ws[k]
      /\ w \in WriteRecords /\ \A k \in DOMAIN ws : ws[k] \in WriteRecords
  <2> DEFINE S == WriteRecords
             s == write_set[t]
  <2>1. s \in Seq(S) /\ s # << >>
    BY <1>1, <1>3
  <2> HIDE DEF S, s
  <2>2. Len(s) \in Nat \ {0} /\ DOMAIN s = 1 .. Len(s)
    BY <2>1
  <2>3. /\ Len(s) \in Nat \ {0} /\ DOMAIN s = 1 .. Len(s)
        /\ SubSeq(s, 1, Len(s) - 1) \in Seq(S)
        /\ Len(SubSeq(s, 1, Len(s) - 1)) = Len(s) - 1
        /\ \A k \in 1 .. (Len(s) - 1) : SubSeq(s, 1, Len(s) - 1)[k] = s[k]
        /\ \A k \in DOMAIN s : s[k] \in S
    BY <2>1, <2>2
  <2>4. DOMAIN SubSeq(s, 1, Len(s) - 1) = 1 .. (Len(s) - 1)
    BY <2>1, <2>3
  <2> QED
    BY <2>3, <2>4 DEF S, s
<1>5. /\ rid \in Rids /\ w.type \in {"insert", "update"}
      /\ w.type = "update" => w.old \in Rows
  BY <1>4 DEF WriteRecords
<1>6. /\ busy[rid] = t /\ is_record(file, rid)
      /\ w.type = "insert" => ~Loaded(rid) /\ \A m \in DOMAIN ws2 : ws2[m].rid # rid
  <2>1. Len(ws) \in DOMAIN ws
    BY <1>4
  <2>2. /\ busy[rid] = t /\ is_record(file, rid)
        /\ w.type = "insert" => ~Loaded(rid) /\ \A m \in DOMAIN ws : m < Len(ws) => ws[m].rid # rid
    BY <1>1, <1>2, <2>1 DEF WritesAreHeld
  <2>3. \A m \in DOMAIN ws2 : m \in DOMAIN ws /\ m < Len(ws)
    BY <1>4
  <2> QED
    BY <1>4, <2>2, <2>3
<1> HIDE DEF ws, ws2, w, R
<1>7. /\ DOMAIN file.pages = 1 .. Len(file.pages) /\ RidsOf(file) \subseteq Rids
      /\ \A q \in Rids : is_record(file, q) <=> (q \in RidsOf(file) /\ row(file, q) # NoRow)
  BY <1>3, RidsOfFile DEF R
<1>8. rid \in RidsOf(file) /\ row(file, rid) # NoRow
  BY <1>5, <1>6, <1>7
<1>9. rid.page_no \in Links
  BY <1>5 DEF Rids, Links
<1> DEFINE r == IF w.type = "insert" THEN NoRow ELSE w.old
<1>10. /\ file' \in Files(R, Links) /\ Len(file'.pages) = Len(file.pages)
       /\ Wrote(file, file', rid, r) /\ ListInv(file')
  <2>1. CASE w.type = "insert"
    <3>1. file' = delete_record(file, rid)
      BY <1>1, <1>6, <2>1 DEF w
    <3>2. NoRow \in R
      BY DEF R
    <3>3. DeletedRow(file, file', rid) /\ file' \in Files(R, Links)
      BY <1>3, <1>8, <1>9, <3>1, <3>2, Deleted
    <3>4. ListInv(file')
      BY <1>2, <1>3, <1>8, <1>9, <3>1, <3>2, ListDeleted
    <3> QED
      BY <2>1, <3>3, <3>4 DEF DeletedRow
  <2>2. CASE w.type = "update"
    <3>1. file' = SetRow(file, rid, w.old)
      BY <1>1, <1>6, <2>2 DEF w, update_record
    <3>2. w.old \in R /\ w.old # NoRow
      BY <1>5, <2>2, EmptySlotIsNoRow DEF R, Rows
    <3>3. /\ file' \in Files(R, Links) /\ Len(file'.pages) = Len(file.pages)
          /\ Wrote(file, file', rid, w.old)
      BY <1>3, <1>8, <3>1, <3>2, SetRowWrites
    <3>4. ListInv(file')
      BY <1>2, <1>3, <1>8, <3>1, <3>2, ListUpdated
    <3> QED
      BY <2>2, <3>3, <3>4
  <2> QED
    BY <1>5, <2>1, <2>2
<1>11. /\ DOMAIN file'.pages = DOMAIN file.pages /\ RidsOf(file') = RidsOf(file)
       /\ \A q \in RidsOf(file) : row(file', q) = IF q = rid THEN r ELSE row(file, q)
  BY <1>10 DEF Wrote, RidsOf
<1>12. \A q \in Rids : is_record(file', q) <=> (q \in RidsOf(file) /\ row(file', q) # NoRow)
  <2>1. Len(file'.pages) \in 1 .. MaxPages
    BY <1>3, <1>10
  <2> QED
    BY <1>10, <1>11, <2>1, RidsOfFile DEF R
<1>13. w.type = "update" => r # NoRow
  BY <1>5, EmptySlotIsNoRow DEF Rows
<1> HIDE DEF r
<1>14. Types'
  <2>1. write_set' \in [Txns -> Seq(WriteRecords)]
    BY <1>1, <1>3, <1>4 DEF ws2
  <2> QED
    BY <1>1, <1>2, <1>3, <1>10, <2>1 DEF Types, R
<1>15. LoadedStay'
  <2>1. \A q \in Rids : Loaded(q) => q \in RidsOf(file)
    BY <1>3, <1>7 DEF Loaded, RidsOf, Rids
  <2>2. \A q \in Rids : Loaded(q) => row(file', q) # NoRow
    BY <1>2, <1>5, <1>6, <1>11, <1>13, <2>1 DEF LoadedStay
  <2> QED
    BY <1>1, <1>2, <2>2 DEF LoadedStay
<1>16. Full' = Full
  BY <1>1 DEF Full
<1>17. FileIsLogged'
  <2>1. \A q \in RidsOf(file) : row(file', q) # NoRow => row(file, q) # NoRow
    BY <1>8, <1>11
  <2> QED
    BY <1>2, <1>11, <1>16, <2>1 DEF FileIsLogged
<1>18. WritesAreHeld'
  <2> SUFFICES ASSUME NEW u \in Txns
               PROVE  /\ status[u] = "none" => write_set'[u] = << >>
                      /\ status[u] \in {"running", "undoing"} =>
                            \A k \in DOMAIN write_set'[u] :
                                LET v == write_set'[u][k]
                                IN  /\ busy[v.rid] = u
                                    /\ is_record(file', v.rid)
                                    /\ v.type = "insert" =>
                                          /\ ~Loaded(v.rid)
                                          /\ \A m \in DOMAIN write_set'[u] :
                                                m < k => write_set'[u][m].rid # v.rid
    BY <1>1 DEF WritesAreHeld
  <2>1. status[u] = "none" => write_set'[u] = << >>
    BY <1>1, <1>2, <1>3 DEF WritesAreHeld
  <2>2. /\ \A k \in DOMAIN write_set'[u] : k \in DOMAIN write_set[u] /\ write_set'[u][k] = write_set[u][k]
        /\ u = t => write_set'[u] = ws2
    <3>1. CASE u = t
      BY <1>1, <1>3, <1>4, <3>1 DEF ws
    <3>2. CASE u # t
      BY <1>1, <1>3, <3>2
    <3> QED
      BY <3>1, <3>2
  <2>3. ASSUME status[u] \in {"running", "undoing"}, NEW k \in DOMAIN write_set'[u]
        PROVE  LET v == write_set'[u][k]
               IN  /\ busy[v.rid] = u
                   /\ is_record(file', v.rid)
                   /\ v.type = "insert" =>
                         /\ ~Loaded(v.rid)
                         /\ \A m \in DOMAIN write_set'[u] :
                               m < k => write_set'[u][m].rid # v.rid
    <3> DEFINE v == write_set[u][k]
    <3>1. k \in DOMAIN write_set[u] /\ write_set'[u][k] = v
      BY <2>2, <2>3
    <3>2. /\ busy[v.rid] = u /\ is_record(file, v.rid)
          /\ v.type = "insert" =>
                ~Loaded(v.rid) /\ \A m \in DOMAIN write_set[u] : m < k => write_set[u][m].rid # v.rid
      BY <1>2, <2>3, <3>1 DEF WritesAreHeld
    <3>3. v \in WriteRecords
      BY <1>3, <3>1
    <3>4. v.rid \in Rids
      BY <3>3 DEF WriteRecords
    <3>5. v.rid = rid => u = t
      BY <1>6, <3>2
    <3>6. v.rid = rid => w.type # "insert"
      BY <1>6, <2>2, <2>3, <3>1, <3>5
    <3> HIDE DEF v
    <3>7. is_record(file', v.rid)
      BY <1>5, <1>7, <1>11, <1>12, <1>13, <3>2, <3>4, <3>6
    <3>8. v.type = "insert" =>
              \A m \in DOMAIN write_set'[u] : m < k => write_set'[u][m].rid # v.rid
      BY <2>2, <3>2
    <3> QED
      BY <3>1, <3>2, <3>7, <3>8
  <2> QED
    BY <2>1, <2>3
<1>19. WritesAreListed'
  <2> SUFFICES ASSUME NEW u \in Txns, NEW i \in DOMAIN Full, WriteAt(Full, i), Full[i].tid = u
               PROVE  /\ status[u] # "none"
                      /\ status[u] = "running" =>
                            \E k \in DOMAIN write_set'[u] : write_set'[u][k].rid = Full[i].rid
    BY <1>1, <1>16 DEF WritesAreListed
  <2>1. /\ status[u] # "none"
        /\ status[u] = "running" =>
              \E k \in DOMAIN write_set[u] : write_set[u][k].rid = Full[i].rid
    BY <1>2 DEF WritesAreListed
  <2>2. u # t => write_set'[u] = write_set[u]
    BY <1>1, <1>3
  <2> QED
    BY <1>1, <2>1, <2>2
<1>20. UpInv'
  BY <1>10, <1>17, <1>18, <1>19 DEF UpInv
<1>21. RedoInv' /\ UndoInv' /\ FailedInv'
  BY <1>1 DEF RedoInv, UndoInv, FailedInv
<1> QED
  BY <1>1, <1>2, <1>14, <1>15, <1>16, <1>20, <1>21 DEF RecoveryIndInv

-----------------------------------------------------------------------------
(* Write-back, the death of the server and its start *)

(* Pages and links of a file may be on disk. *)
LEMMA DiskPages ==
    /\ Pages(Rows \cup {NoRow}, Links) \subseteq Pages(Rows \cup {NoRow}, Links \cup {0})
    /\ 1 \in 1 .. MaxPages
<1>1. Pages(Rows \cup {NoRow}, Links) \subseteq Pages(Rows \cup {NoRow}, Links \cup {0})
  BY DEF Pages
<1> QED
  BY <1>1, BoundsAreNumbers

(* A page that is written back takes its loaded records along. *)
LEMMA KeepsWritePage ==
    ASSUME RecoveryIndInv, NEW p \in DOMAIN file.pages, write_page(p)
    PROVE  RecoveryIndInv'
<1> DEFINE R == Rows \cup {NoRow}
<1>1. Types /\ LoadedStay
  BY DEF RecoveryIndInv
<1>2. /\ disk' = [disk EXCEPT !.pages[p] = file.pages[p]]
      /\ UNCHANGED <<phase, starts, table, log_file, log_buffer, file, busy, status, write_set, todo>>
  BY DEF write_page
<1>3. /\ file \in Files(R, Links) /\ Len(file.pages) \in 1 .. MaxPages
      /\ disk \in [num_pages : {2}, first_free_page_no : {1},
                   pages : [1 .. MaxPages -> Pages(R, Links \cup {0})]]
      /\ disk.pages[1] \in Pages(R, Links)
  BY <1>1 DEF Types
<1>4. file.pages[p] \in Pages(R, Links) /\ p \in 1 .. MaxPages
  BY <1>3, PagesOfFile, BoundsAreNumbers
<1>5. file.pages[p] \in Pages(R, Links \cup {0})
  BY <1>4, DiskPages
<1> HIDE DEF R
<1>6. /\ disk' \in [num_pages : {2}, first_free_page_no : {1},
                    pages : [1 .. MaxPages -> Pages(R, Links \cup {0})]]
      /\ disk'.pages[1] = IF p = 1 THEN file.pages[1] ELSE disk.pages[1]
  BY <1>2, <1>3, <1>4, <1>5, DiskPages
<1>7. Types'
  <2>1. disk'.pages[1] \in Pages(R, Links)
    BY <1>3, <1>4, <1>6
  <2> QED
    BY <1>1, <1>2, <1>6, <2>1 DEF Types, R
<1>8. LoadedStay'
  <2>1. \A rid \in Rids : Loaded(rid) => row(file, rid) = file.pages[1].rows[rid.slot_no]
    BY DEF row, Loaded
  <2> QED
    BY <1>1, <1>2, <1>6, <2>1 DEF LoadedStay, row
<1>9. Full' = Full /\ WritesInLog' = WritesInLog
  BY <1>2 DEF Full, WritesInLog
<1>10. Unfinished' = Unfinished
  BY <1>2 DEF Unfinished, Logged
<1>11. UpInv'
  BY <1>2, <1>9 DEF RecoveryIndInv, UpInv, FileIsLogged, WritesAreHeld, WritesAreListed
<1>12. RedoInv'
  BY <1>2, <1>9 DEF RecoveryIndInv, RedoInv, Done
<1>13. UnfinishedWrites' = UnfinishedWrites
  BY <1>2, <1>9, <1>10 DEF UnfinishedWrites
<1>14. UndoInv'
  BY <1>2, <1>9, <1>13 DEF RecoveryIndInv, UndoInv, NoOther, Content
<1>15. FailedInv'
  BY <1>2, <1>13 DEF RecoveryIndInv, FailedInv
<1> QED
  BY <1>2, <1>7, <1>8, <1>9, <1>11, <1>12, <1>14, <1>15 DEF RecoveryIndInv

(* What is left of the log when the server dies is a prefix. *)
LEMMA KeepsCrash ==
    ASSUME RecoveryIndInv, Crash
    PROVE  RecoveryIndInv'
<1>1. Types /\ LoadedStay /\ LogShape(Full)
  BY DEF RecoveryIndInv
<1>2. Full' = log_file /\ LogShape(log_file)
  <2>1. log_file \in Seq(LogRecords) /\ log_buffer \in Seq(LogRecords)
    BY <1>1 DEF Types
  <2>2. Full \in Seq(LogRecords) /\ Extends(Full, log_file)
    BY <2>1, FullType
  <2>3. LogShape(log_file)
    BY <1>1, <2>1, <2>2, ShapeOfPrefix
  <2>4. Full' = log_file
    <3> DEFINE S == LogRecords
    <3>1. log_file \in Seq(S) /\ log_file' = log_file /\ log_buffer' = << >>
      BY <2>1 DEF Crash
    <3> HIDE DEF S
    <3>2. log_file \o << >> = log_file
      BY <3>1
    <3> QED
      BY <3>1, <3>2 DEF Full
  <2> QED
    BY <2>3, <2>4
<1>3. Types'
  <2>1. /\ file' \in Files(Rows \cup {NoRow}, Links) /\ Len(file'.pages) \in 1 .. MaxPages
    BY LoadedFileShape, DiskPages DEF Crash
  <2>2. log_buffer' \in Seq(LogRecords) /\ write_set' \in [Txns -> Seq(WriteRecords)]
    BY DEF Crash
  <2>3. status' \in [Txns -> Statuses] /\ busy' \in [Rids -> Txns \cup {Nobody}]
    BY DEF Crash, Statuses
  <2> QED
    BY <1>1, <2>1, <2>2, <2>3 DEF Types, Crash
<1>4. LoadedStay'
  <2> SUFFICES ASSUME NEW rid \in Rids, Loaded(rid)
               PROVE  row(LoadedFile, rid) # NoRow /\ disk.pages[1].rows[rid.slot_no] # NoRow
    BY DEF LoadedStay, Crash
  <2>1. LoadedFile.pages[1].rows[rid.slot_no] # NoRow
    BY LoadedFileShape
  <2> QED
    BY <1>1, <2>1 DEF LoadedStay, row, Loaded
<1>5. UpInv' /\ RedoInv' /\ UndoInv' /\ FailedInv'
  BY DEF Crash, UpInv, RedoInv, UndoInv, FailedInv
<1> QED
  BY <1>2, <1>3, <1>4, <1>5 DEF RecoveryIndInv, Crash

(* A function on the first n numbers is a sequence. *)
LEMMA SeqOfFunction ==
    ASSUME NEW P, NEW n \in Nat, NEW q \in [1 .. n -> P]
    PROVE  q \in Seq(P)
  OBVIOUS

(* open_db reads the header, which knows one page, and the whole log. *)
LEMMA KeepsOpen ==
    ASSUME RecoveryIndInv, open_db
    PROVE  RecoveryIndInv'
<1> DEFINE R == Rows \cup {NoRow}
<1>1. Types /\ LoadedStay /\ LogShape(Full)
  BY DEF RecoveryIndInv
<1>2. /\ phase # "up" /\ phase' = "redo" /\ starts < MaxStarts /\ starts' = starts + 1
      /\ file' = [first_free_page_no |-> disk.first_free_page_no,
                  pages |-> SubSeq(disk.pages, 1, disk.num_pages - 1)]
      /\ todo' = WritesInLog
      /\ UNCHANGED <<log_file, log_buffer, disk, busy, status, write_set>>
  BY DEF open_db
<1>3. /\ disk.num_pages = 2 /\ disk.first_free_page_no = 1
      /\ disk.pages \in [1 .. MaxPages -> Pages(R, Links \cup {0})]
      /\ disk.pages[1] \in Pages(R, Links)
  BY <1>1 DEF Types
<1>4. /\ SubSeq(disk.pages, 1, 1) \in Seq(Pages(R, Links))
      /\ Len(SubSeq(disk.pages, 1, 1)) = 1 /\ SubSeq(disk.pages, 1, 1)[1] = disk.pages[1]
  <2> DEFINE s == disk.pages
             S == Pages(R, Links \cup {0})
             P == Pages(R, Links)
  <2> HIDE DEF S, s, P
  <2>1. s \in [1 .. MaxPages -> S] /\ MaxPages \in Nat \ {0} /\ s[1] \in P
    BY <1>3, BoundsAreNumbers DEF S, s, P
  <2>2. s \in Seq(S) /\ Len(s) = MaxPages
    BY <2>1
  <2>3. /\ SubSeq(s, 1, 1) \in Seq(S)
        /\ Len(SubSeq(s, 1, 1)) = 1 /\ SubSeq(s, 1, 1)[1] = s[1]
    BY <2>1, <2>2
  <2>4. SubSeq(s, 1, 1) \in Seq(P)
    <3> DEFINE q == SubSeq(s, 1, 1)
    <3> HIDE DEF q
    <3>1. q \in Seq(S) /\ Len(q) = 1 /\ q[1] \in P
      BY <2>1, <2>3 DEF q
    <3>2. 1 \in Nat /\ q \in [1 .. 1 -> P]
      BY <3>1
    <3>3. q \in Seq(P)
      BY <3>2, SeqOfFunction
    <3> QED
      BY <3>3 DEF q
  <2> QED
    BY <2>3, <2>4 DEF s, P
<1>5. file'.pages = SubSeq(disk.pages, 1, 1) /\ file'.first_free_page_no = 1
      /\ file' = [first_free_page_no |-> 1, pages |-> SubSeq(disk.pages, 1, 1)]
  BY <1>2, <1>3
<1>6. file' \in Files(R, Links) /\ Len(file'.pages) = 1 /\ file'.pages[1] = disk.pages[1]
  <2>1. 1 \in Links
    BY DiskPages DEF Links
  <2> QED
    BY <1>4, <1>5, <2>1 DEF Files
<1>7. WritesInLog \subseteq DOMAIN log_file /\ WritesInLog' = WritesInLog
  BY <1>2 DEF WritesInLog, Writes
<1>8. Types'
  <2>1. starts' \in 0 .. MaxStarts
    BY <1>1, <1>2, BoundsAreNumbers DEF Types
  <2>2. Len(file'.pages) \in 1 .. MaxPages
    BY <1>6, DiskPages
  <2> QED
    BY <1>1, <1>2, <1>6, <1>7, <2>1, <2>2 DEF Types
<1>9. LoadedStay'
  <2>1. \A rid \in Rids : Loaded(rid) => row(file', rid) = disk.pages[1].rows[rid.slot_no]
    BY <1>6 DEF row, Loaded
  <2> QED
    BY <1>1, <1>2, <2>1 DEF LoadedStay
<1>10. Full' = Full
  BY <1>2 DEF Full
<1>11. RedoInv'
  <2>1. Done' = {}
    BY <1>2, <1>7 DEF Done
  <2> QED
    BY <1>2, <1>7, <2>1 DEF RedoInv
<1>12. UpInv' /\ UndoInv' /\ FailedInv'
  BY <1>2 DEF UpInv, UndoInv, FailedInv
<1> QED
  BY <1>1, <1>2, <1>8, <1>9, <1>10, <1>11, <1>12 DEF RecoveryIndInv

-----------------------------------------------------------------------------
(* Recovery *)

(* When the server is not up, all that was logged is on disk. *)
LEMMA LogOnDisk ==
    ASSUME RecoveryIndInv, phase # "up"
    PROVE  /\ Types /\ LoadedStay
           /\ log_file \in Seq(LogRecords)
           /\ Full = log_file /\ LogShape(log_file)
           /\ WritesInLog \subseteq DOMAIN log_file
           /\ DOMAIN log_file \subseteq Nat
           /\ DOMAIN log_file = 1 .. Len(log_file) /\ Len(log_file) \in Nat
<1>1. Types /\ LoadedStay /\ LogShape(Full) /\ log_buffer = << >>
  BY DEF RecoveryIndInv
<1> DEFINE S == LogRecords
<1>2. log_file \in Seq(S)
  BY <1>1 DEF Types
<1> HIDE DEF S
<1>3. log_file \o << >> = log_file /\ DOMAIN log_file = 1 .. Len(log_file) /\ Len(log_file) \in Nat
  BY <1>2
<1>4. Full = log_file
  BY <1>1, <1>3 DEF Full
<1>5. WritesInLog \subseteq DOMAIN log_file
  BY DEF WritesInLog, Writes
<1> QED
  BY <1>1, <1>2, <1>3, <1>4, <1>5 DEF S

(* A write of the log on disk has a rid, an old and a new value. *)
LEMMA WriteInLog ==
    ASSUME log_file \in Seq(LogRecords), NEW i \in WritesInLog
    PROVE  /\ i \in DOMAIN log_file
           /\ log_file[i].tid \in Txns /\ log_file[i].rid \in Rids
           /\ InsertAt(log_file, i) \/ UpdateAt(log_file, i)
           /\ WriteAt(log_file, i)
           /\ ~(InsertAt(log_file, i) /\ UpdateAt(log_file, i))
           /\ log_file[i].new \in Rows
           /\ InsertAt(log_file, i) => log_file[i].old = NoRow
           /\ UpdateAt(log_file, i) => log_file[i].old \in Rows
<1>1. i \in DOMAIN log_file /\ i \in Writes(log_file)
  BY DEF WritesInLog, Writes
<1>2. /\ log_file[i].tid \in Txns
      /\ InsertAt(log_file, i) =>
            log_file[i] \in [type : {"insert"}, tid : Txns, rid : Rids, old : {NoRow}, new : Rows]
      /\ UpdateAt(log_file, i) =>
            log_file[i] \in [type : {"update"}, tid : Txns, rid : Rids, old : Rows, new : Rows]
      /\ WriteAt(log_file, i) <=> i \in Writes(log_file)
  BY <1>1, RecordOfLog
<1>3. WriteAt(log_file, i)
  BY <1>1, <1>2
<1>4. CASE InsertAt(log_file, i)
  BY <1>1, <1>2, <1>3, <1>4 DEF InsertAt, UpdateAt
<1>5. CASE UpdateAt(log_file, i)
  BY <1>1, <1>2, <1>3, <1>5 DEF InsertAt, UpdateAt
<1> QED
  BY <1>3, <1>4, <1>5 DEF WriteAt

(* A record of LOAD is in any file that recovery has. *)
LEMMA LoadedIsRecord ==
    ASSUME Types, LoadedStay, NEW rid \in Rids, Loaded(rid)
    PROVE  rid \in RidsOf(file) /\ row(file, rid) # NoRow /\ is_record(file, rid)
<1>1. file \in Files(Rows \cup {NoRow}, Links) /\ Len(file.pages) \in 1 .. MaxPages
  BY DEF Types
<1>2. DOMAIN file.pages = 1 .. Len(file.pages)
  BY <1>1, PagesOfFile
<1>3. rid \in RidsOf(file)
  BY <1>1, <1>2 DEF Loaded, RidsOf, Rids
<1> QED
  BY <1>1, <1>3, RidsOfFile DEF LoadedStay

(* Redo of the next write succeeds: the page of an insert is there or the  *)
(* next to be made, and the record of an update is there.                  *)
LEMMA RedoPuts ==
    ASSUME RecoveryIndInv, table, redo
    PROVE  LET i == Min(todo)
           IN  /\ i \in todo /\ \A j \in todo : i <= j
               /\ phase' = "redo" /\ todo' = todo \ {i}
               /\ file' \in Files(Rows \cup {NoRow}, Links) /\ Len(file'.pages) \in 1 .. MaxPages
               /\ RowPut(file, file', log_file[i].rid)
               /\ UpdateAt(log_file, i) => row(file', log_file[i].rid) = log_file[i].new
<1> DEFINE R == Rows \cup {NoRow}
           i == Min(todo)
           r == log_file[i]
           rid == r.rid
<1>1. /\ phase = "redo" /\ todo # {}
      /\ (r.type = "insert" /\ redo_insert(r)) \/ (r.type = "update" /\ redo_update(r))
      /\ todo' = IF phase' = "failed" THEN {} ELSE todo \ {i}
  BY DEF redo
<1>2. /\ Types /\ LoadedStay
      /\ log_file \in Seq(LogRecords)
      /\ LogShape(log_file)
      /\ WritesInLog \subseteq DOMAIN log_file
      /\ DOMAIN log_file \subseteq Nat
  BY <1>1, LogOnDisk
<1>3. /\ todo \subseteq WritesInLog
      /\ \A j \in Done : is_record(file, log_file[j].rid)
  BY <1>1 DEF RecoveryIndInv, RedoInv
<1>4. i \in todo /\ \A j \in todo : i <= j
  BY <1>1, <1>2, <1>3, LeastMember
<1> HIDE DEF i
<1>5. i \in WritesInLog /\ i \in DOMAIN log_file
  BY <1>2, <1>3, <1>4
<1>6. \A j \in DOMAIN log_file : (j < i /\ InsertAt(log_file, j)) => j \in Done
  <2> SUFFICES ASSUME NEW j \in DOMAIN log_file, j < i, InsertAt(log_file, j) PROVE j \in Done
    OBVIOUS
  <2>1. j \in WritesInLog
    BY <1>2, RecordOfLog DEF WritesInLog, WriteAt
  <2>2. j \notin todo
    BY <1>2, <1>4, <1>5
  <2> QED
    BY <2>1, <2>2 DEF Done
<1>7. rid \in Rids /\ r.new \in Rows
  BY <1>2, <1>5, WriteInLog
<1>8. r.new \in R /\ r.new # NoRow
  BY <1>7, EmptySlotIsNoRow DEF Rows
<1>9. file \in Files(R, Links) /\ Len(file.pages) \in 1 .. MaxPages
  BY <1>2 DEF Types
<1>10. /\ DOMAIN file.pages = 1 .. Len(file.pages) /\ num_pages(file) = Len(file.pages) + 1
       /\ RidsOf(file) \subseteq Rids
       /\ \A q \in Rids : q \in RidsOf(file) <=> q.page_no < num_pages(file)
       /\ \A q \in Rids : is_record(file, q) <=> (q \in RidsOf(file) /\ row(file, q) # NoRow)
  BY <1>9, RidsOfFile
<1>11. NoRow \in R /\ NoPage \in Links
  BY DEF Links
<1> HIDE DEF R
<1>12. CASE r.type = "insert"
  <2> DEFINE room == IF num_pages(file) <= rid.page_no THEN create_new_page_handle(file) ELSE file
  <2>1. redo_insert(r) /\ InsertAt(log_file, i)
    BY <1>1, <1>12 DEF InsertAt
  <2>2. rid.page_no \in 1 .. MaxPages
    BY <1>7 DEF Rids
  <2>3. rid.page_no <= num_pages(file)
    <3>1. CASE rid.page_no <= 2
      BY <1>9, <1>10, <2>2, <3>1, BoundsAreNumbers
    <3>2. CASE rid.page_no > 2
      <4>1. PICK j \in DOMAIN log_file :
               j < i /\ InsertAt(log_file, j) /\ log_file[j].rid.page_no = rid.page_no - 1
        BY <1>2, <1>5, <2>1, <3>2 DEF LogShape, PagesInOrder
      <4>2. is_record(file, log_file[j].rid)
        BY <1>3, <1>6, <4>1
      <4> QED
        BY <1>9, <1>10, <2>2, <4>1, <4>2, BoundsAreNumbers DEF is_record
    <3> QED
      BY <2>2, <3>1, <3>2, BoundsAreNumbers
  <2>4. /\ room \in Files(R, Links) /\ Len(room.pages) \in 1 .. MaxPages
        /\ rid \in RidsOf(room)
        /\ \A q \in RidsOf(file) : q \in RidsOf(room) /\ row(room, q) = row(file, q)
        /\ \A q \in RidsOf(room) : q \notin RidsOf(file) => row(room, q) = NoRow
        /\ DOMAIN file.pages \subseteq DOMAIN room.pages
        /\ \A p \in DOMAIN room.pages :
              p \notin DOMAIN file.pages => p = rid.page_no /\ p = num_pages(file)
    <3>1. CASE num_pages(file) <= rid.page_no
      <4>1. rid.page_no = num_pages(file) /\ num_pages(file) \in Links
        BY <1>9, <1>10, <2>2, <2>3, <3>1, BoundsAreNumbers DEF Links
      <4>2. room = create_new_page_handle(file)
        BY <3>1
      <4> DEFINE n == Len(file.pages) + 1
      <4>3. /\ room \in Files(R, Links)
            /\ Len(room.pages) = n
            /\ \A q \in RidsOf(file) : q \in RidsOf(room) /\ row(room, q) = row(file, q)
            /\ \A q \in RidsOf(room) : q.page_no = n => row(room, q) = NoRow
            /\ \A q \in RidsOf(room) : q.page_no # n => q \in RidsOf(file)
        BY <1>9, <1>11, <4>1, <4>2, NewPage
      <4> HIDE DEF room
      <4>4. DOMAIN room.pages = 1 .. n
        BY <4>3, PagesOfFile
      <4>5. rid \in RidsOf(room)
        BY <1>7, <1>9, <1>10, <4>1, <4>4 DEF RidsOf, Rids
      <4>6. Len(room.pages) \in 1 .. MaxPages
        BY <1>9, <1>10, <2>2, <4>1, <4>3
      <4> QED
        BY <1>9, <1>10, <4>1, <4>3, <4>4, <4>5, <4>6
    <3>2. CASE ~(num_pages(file) <= rid.page_no)
      <4>1. room = file
        BY <3>2
      <4>2. rid \in RidsOf(file)
        BY <1>7, <1>9, <1>10, <2>2, <3>2, BoundsAreNumbers
      <4> QED
        BY <1>9, <4>1, <4>2
    <3> QED
      BY <3>1, <3>2
  <2>5. DOMAIN room.pages = 1 .. Len(room.pages) /\ num_pages(room) = Len(room.pages) + 1
    BY <2>4, PagesOfFile
  <2>6. ~(num_pages(room) <= rid.page_no)
    BY <2>2, <2>4, <2>5, BoundsAreNumbers DEF RidsOf
  <2>7. /\ file' = IF is_record(room, rid) THEN room ELSE insert_record_at(room, rid, r.new)
        /\ phase' = phase
    BY <2>1, <2>6 DEF redo_insert
  <2>8. is_record(room, rid) <=> row(room, rid) # NoRow
    BY <2>6, <2>4, <2>5 DEF is_record, RidsOf
  <2> HIDE DEF room
  <2>9. /\ file' \in Files(R, Links) /\ Len(file'.pages) = Len(room.pages)
        /\ DOMAIN file'.pages = DOMAIN room.pages /\ RidsOf(file') = RidsOf(room)
        /\ row(file', rid) # NoRow
        /\ \A q \in RidsOf(room) : q # rid => row(file', q) = row(room, q)
    <3>1. CASE is_record(room, rid)
      BY <2>4, <2>7, <2>8, <3>1
    <3>2. CASE ~is_record(room, rid)
      <4>1. file' = insert_record_at(room, rid, r.new)
        BY <2>7, <3>2
      <4>2. file' \in Files(R, Links) /\ Len(file'.pages) = Len(room.pages) /\ Wrote(room, file', rid, r.new)
        BY <1>8, <1>11, <2>4, <4>1, InsertedAt
      <4> QED
        BY <1>8, <2>4, <4>2 DEF Wrote, RidsOf
    <3> QED
      BY <3>1, <3>2
  <2>10. RowPut(file, file', rid)
    BY <2>4, <2>9 DEF RowPut
  <2>11. phase' = "redo" /\ todo' = todo \ {i}
    BY <1>1, <2>7
  <2>12. ~UpdateAt(log_file, i)
    BY <1>12 DEF UpdateAt
  <2> QED
    BY <1>4, <2>4, <2>9, <2>10, <2>11, <2>12 DEF R, i
<1>13. CASE r.type = "update"
  <2>1. redo_update(r) /\ UpdateAt(log_file, i)
    BY <1>1, <1>13 DEF UpdateAt
  <2>2. is_record(file, rid)
    <3>1. CASE Loaded(rid)
      BY <1>2, <1>7, <3>1, LoadedIsRecord
    <3>2. CASE ~Loaded(rid)
      <4>1. PICK j \in DOMAIN log_file :
               j < i /\ InsertAt(log_file, j) /\ log_file[j].rid = rid
        BY <1>2, <1>5, <2>1, <3>2 DEF LogShape, RecordsBegin
      <4>2. is_record(file, log_file[j].rid)
        BY <1>3, <1>6, <4>1
      <4> QED
        BY <4>1, <4>2
    <3> QED
      BY <3>1, <3>2
  <2>3. file' = SetRow(file, rid, r.new) /\ phase' = phase
    BY <2>1, <2>2 DEF redo_update, update_record
  <2>4. rid \in RidsOf(file)
    BY <1>7, <1>10, <2>2
  <2>5. /\ file' \in Files(R, Links) /\ Len(file'.pages) = Len(file.pages)
        /\ Wrote(file, file', rid, r.new)
    BY <1>8, <1>9, <2>3, <2>4, SetRowWrites
  <2>6. /\ DOMAIN file'.pages = DOMAIN file.pages /\ RidsOf(file') = RidsOf(file)
        /\ \A q \in RidsOf(file) : row(file', q) = IF q = rid THEN r.new ELSE row(file, q)
    BY <2>5 DEF Wrote, RidsOf
  <2>7. RowPut(file, file', rid)
    BY <1>8, <2>4, <2>6 DEF RowPut
  <2>8. phase' = "redo" /\ todo' = todo \ {i}
    BY <1>1, <2>3
  <2> QED
    BY <1>4, <1>9, <2>4, <2>5, <2>6, <2>7, <2>8 DEF R, i
<1> QED
  BY <1>1, <1>12, <1>13

(* Redo of a write keeps what the writes before it left elsewhere. *)
LEMMA KeepsRedo ==
    ASSUME RecoveryIndInv, table, redo
    PROVE  RecoveryIndInv'
<1> DEFINE i   == Min(todo)
           rid == log_file[i].rid
<1>1. /\ i \in todo /\ \A j \in todo : i <= j
      /\ phase' = "redo" /\ todo' = todo \ {i}
      /\ file' \in Files(Rows \cup {NoRow}, Links) /\ Len(file'.pages) \in 1 .. MaxPages
      /\ RowPut(file, file', rid)
      /\ UpdateAt(log_file, i) => row(file', rid) = log_file[i].new
  BY RedoPuts
<1>2. phase = "redo" /\ UNCHANGED <<starts, log_file, log_buffer, disk, busy, status, write_set>>
  BY DEF redo
<1>3. /\ Types /\ LoadedStay
      /\ log_file \in Seq(LogRecords)
      /\ Full = log_file /\ LogShape(log_file)
      /\ WritesInLog \subseteq DOMAIN log_file
      /\ DOMAIN log_file \subseteq Nat
  BY <1>2, LogOnDisk
<1>4. /\ todo \subseteq WritesInLog
      /\ \A k \in todo, j \in WritesInLog : k < j => j \in todo
      /\ \A j \in Done : is_record(file, log_file[j].rid)
      /\ \A j \in Done :
            (UpdateAt(log_file, j) /\ \A k \in Done : log_file[k].rid = log_file[j].rid => k <= j) =>
                row(file, log_file[j].rid) = log_file[j].new
  BY <1>2 DEF RecoveryIndInv, RedoInv
<1> HIDE DEF i
<1>5. /\ WritesInLog' = WritesInLog /\ Full' = Full
      /\ Done' = Done \cup {i} /\ i \in WritesInLog /\ i \notin Done
  BY <1>1, <1>2, <1>4 DEF WritesInLog, Full, Done
<1>6. \A j \in Done : j < i
  BY <1>1, <1>3, <1>4 DEF Done
<1>7. file \in Files(Rows \cup {NoRow}, Links) /\ Len(file.pages) \in 1 .. MaxPages
  BY <1>3 DEF Types
<1>8. \A q \in Rids : is_record(file, q) <=> (q \in RidsOf(file) /\ row(file, q) # NoRow)
  BY <1>7, RidsOfFile
<1>9. \A q \in Rids : is_record(file', q) <=> (q \in RidsOf(file') /\ row(file', q) # NoRow)
  BY <1>1, RidsOfFile
<1>10. rid \in Rids /\ \A j \in Done : log_file[j].rid \in Rids
  BY <1>3, <1>5, WriteInLog DEF Done
<1>11. is_record(file', rid) /\ \A q \in Rids : is_record(file, q) => is_record(file', q)
  BY <1>1, <1>8, <1>9, <1>10 DEF RowPut
<1>12. Types'
  BY <1>1, <1>2, <1>3 DEF Types
<1>13. LoadedStay'
  <2> SUFFICES ASSUME NEW q \in Rids, Loaded(q)
               PROVE  row(file', q) # NoRow /\ disk.pages[1].rows[q.slot_no] # NoRow
    BY <1>2 DEF LoadedStay
  <2>1. is_record(file, q)
    BY <1>3, LoadedIsRecord
  <2> QED
    BY <1>3, <1>9, <1>11, <2>1 DEF LoadedStay
<1>14. RedoInv'
  <2>1. todo' \subseteq WritesInLog
    BY <1>1, <1>4
  <2>2. \A k \in todo', j \in WritesInLog : k < j => j \in todo'
    <3> SUFFICES ASSUME NEW k \in todo', NEW j \in WritesInLog, k < j PROVE j \in todo'
      OBVIOUS
    <3>1. k \in todo /\ i <= k /\ k \in Nat /\ i \in Nat /\ j \in Nat
      BY <1>1, <1>3, <1>4, <1>5
    <3> QED
      BY <1>1, <1>4, <3>1
  <2>3. \A j \in Done' : is_record(file', log_file[j].rid)
    BY <1>4, <1>5, <1>10, <1>11
  <2>4. ASSUME NEW j \in Done', UpdateAt(log_file, j),
               \A k \in Done' : log_file[k].rid = log_file[j].rid => k <= j
        PROVE  row(file', log_file[j].rid) = log_file[j].new
    <3>1. CASE j = i
      BY <1>1, <2>4, <3>1
    <3>2. CASE j \in Done
      <4>1. log_file[j].rid # rid
        <5>1. j < i /\ i \in Nat /\ j \in Nat
          BY <1>3, <1>5, <1>6, <3>2 DEF Done
        <5> QED
          BY <1>5, <2>4, <5>1
      <4>2. row(file, log_file[j].rid) = log_file[j].new
        BY <1>4, <1>5, <2>4, <3>2
      <4>3. log_file[j].rid \in RidsOf(file)
        BY <1>4, <1>8, <1>10, <3>2
      <4> QED
        BY <1>1, <4>1, <4>2, <4>3 DEF RowPut
    <3> QED
      BY <1>5, <3>1, <3>2
  <2> QED
    BY <1>2, <1>5, <2>1, <2>2, <2>3, <2>4 DEF RedoInv
<1>15. UpInv' /\ UndoInv' /\ FailedInv'
  BY <1>1 DEF UpInv, UndoInv, FailedInv
<1> QED
  BY <1>1, <1>2, <1>3, <1>5, <1>12, <1>13, <1>14, <1>15 DEF RecoveryIndInv

(* After redo every record of the log is there. *)
LEMMA KeepsRedone ==
    ASSUME RecoveryIndInv, table, redone
    PROVE  RecoveryIndInv'
<1>1. /\ phase = "redo" /\ todo = {} /\ phase' = "undo"
      /\ todo' = UnfinishedWrites
      /\ UNCHANGED <<starts, log_file, log_buffer, file, disk, busy, status, write_set>>
  BY DEF redone, UnfinishedWrites
<1>2. /\ Types /\ LoadedStay
      /\ log_file \in Seq(LogRecords)
      /\ Full = log_file /\ LogShape(log_file)
      /\ WritesInLog \subseteq DOMAIN log_file
  BY <1>1, LogOnDisk
<1>3. Full' = Full /\ WritesInLog' = WritesInLog /\ Unfinished' = Unfinished
  BY <1>1 DEF Full, WritesInLog, Unfinished, Logged
<1>4. UnfinishedWrites' = UnfinishedWrites
  BY <1>1, <1>3 DEF UnfinishedWrites
<1>5. Done = WritesInLog
  BY <1>1 DEF Done
<1>6. /\ \A i \in WritesInLog : is_record(file, log_file[i].rid)
      /\ \A i \in WritesInLog :
            (UpdateAt(log_file, i) /\ \A j \in WritesInLog : log_file[j].rid = log_file[i].rid => j <= i) =>
                row(file, log_file[i].rid) = log_file[i].new
  BY <1>1, <1>5 DEF RecoveryIndInv, RedoInv
<1>7. UnfinishedWrites \subseteq WritesInLog
  BY DEF UnfinishedWrites
<1>8. Types'
  BY <1>1, <1>2, <1>7 DEF Types
<1>9. LoadedStay'
  BY <1>1, <1>2 DEF LoadedStay
<1>10. UndoInv'
  <2>1. \A i \in todo', j \in WritesInLog :
           (j < i /\ log_file[j].tid = log_file[i].tid) => j \in todo'
    BY <1>1 DEF UnfinishedWrites
  <2>2. \A i \in UnfinishedWrites : is_record(file, log_file[i].rid)
    BY <1>6, <1>7
  <2> QED
    BY <1>1, <1>3, <1>4, <1>6, <2>1, <2>2 DEF UndoInv
<1>11. UpInv' /\ RedoInv' /\ FailedInv'
  BY <1>1 DEF UpInv, RedoInv, FailedInv
<1> QED
  BY <1>1, <1>2, <1>3, <1>8, <1>9, <1>10, <1>11 DEF RecoveryIndInv

(* Undo takes the last write that is left of some transaction. *)
LEMMA UndoTakesLast ==
    ASSUME RecoveryIndInv, table, phase = "undo", todo # {}
    PROVE  /\ UndoNext \in todo
           /\ \A i \in todo : log_file[i].tid = log_file[UndoNext].tid => i <= UndoNext
<1> DEFINE tids == {log_file[i].tid : i \in todo}
           tid  == Min(tids)
           mine == {i \in todo : log_file[i].tid = tid}
<1>1. /\ log_file \in Seq(LogRecords)
      /\ WritesInLog \subseteq DOMAIN log_file
      /\ DOMAIN log_file \subseteq Nat
      /\ DOMAIN log_file = 1 .. Len(log_file) /\ Len(log_file) \in Nat
  BY LogOnDisk
<1>2. todo \subseteq WritesInLog
  BY DEF RecoveryIndInv, UndoInv, UnfinishedWrites
<1>3. tids \in SUBSET Nat /\ tids # {}
  BY <1>1, <1>2, WriteInLog, Ids
<1>4. tid \in tids
  BY <1>3, LeastMember
<1> HIDE DEF tid
<1>5. mine \in SUBSET Nat /\ mine # {} /\ \A i \in mine : i <= Len(log_file)
  BY <1>1, <1>2, <1>4
<1>6. Max(mine) \in mine /\ \A j \in mine : j <= Max(mine)
  BY <1>1, <1>5, GreatestMember
<1>7. UndoNext = Max(mine)
  BY DEF UndoNext, tid
<1> HIDE DEF mine
<1>8. UndoNext \in mine /\ \A j \in mine : j <= UndoNext
  BY <1>6, <1>7
<1> QED
  BY <1>8 DEF mine

(* Undo of a write that is there, or an exception. *)
LEMMA KeepsUndo ==
    ASSUME RecoveryIndInv, table, undo
    PROVE  RecoveryIndInv'
<1> DEFINE R   == Rows \cup {NoRow}
           n   == UndoNext
           r   == log_file[n]
           rid == r.rid
<1>1. /\ phase = "undo" /\ todo # {} /\ undo_record(r)
      /\ todo' = IF phase' = "failed" THEN {} ELSE todo \ {n}
      /\ UNCHANGED <<starts, log_file, log_buffer, disk, busy, status, write_set>>
  BY DEF undo
<1>2. n \in todo /\ \A i \in todo : log_file[i].tid = r.tid => i <= n
  BY <1>1, UndoTakesLast
<1>3. /\ Types /\ LoadedStay
      /\ log_file \in Seq(LogRecords)
      /\ Full = log_file /\ LogShape(log_file)
      /\ WritesInLog \subseteq DOMAIN log_file
      /\ DOMAIN log_file \subseteq Nat
  BY <1>1, LogOnDisk
<1> HIDE DEF n
<1>4. UndoInv
  BY DEF RecoveryIndInv
<1>5. /\ todo \subseteq UnfinishedWrites /\ UnfinishedWrites \subseteq WritesInLog
      /\ n \in WritesInLog /\ n \in UnfinishedWrites
  BY <1>1, <1>2, <1>4 DEF UndoInv, UnfinishedWrites
<1>6. Full' = Full /\ WritesInLog' = WritesInLog /\ Unfinished' = Unfinished
  BY <1>1 DEF Full, WritesInLog, Unfinished, Logged
<1>7. UnfinishedWrites' = UnfinishedWrites
  BY <1>1, <1>6 DEF UnfinishedWrites
<1>8. CASE ~is_record(file, rid)
  <2>1. phase' = "failed" /\ file' = file /\ todo' = {}
    BY <1>1, <1>8 DEF undo_record, Fail
  <2>2. ~NoOther(r.tid, rid)
    BY <1>1, <1>2, <1>4, <1>8 DEF UndoInv
  <2>3. FailedInv'
    BY <1>1, <1>5, <1>7, <2>2 DEF FailedInv, NoOther
  <2>4. Types'
    BY <1>1, <1>3, <2>1 DEF Types
  <2>5. LoadedStay'
    BY <1>1, <1>3, <2>1 DEF LoadedStay
  <2>6. UpInv' /\ RedoInv' /\ UndoInv'
    BY <2>1 DEF UpInv, RedoInv, UndoInv
  <2> QED
    BY <1>1, <1>3, <1>6, <2>1, <2>3, <2>4, <2>5, <2>6 DEF RecoveryIndInv
<1>9. CASE is_record(file, rid)
  <2>1. /\ rid \in Rids /\ r.tid \in Txns
        /\ InsertAt(log_file, n) \/ UpdateAt(log_file, n)
        /\ InsertAt(log_file, n) => r.old = NoRow
        /\ UpdateAt(log_file, n) => r.old \in Rows
    BY <1>3, <1>5, WriteInLog
  <2>2. /\ phase' = "undo" /\ todo' = todo \ {n}
        /\ file' = IF r.type = "insert" THEN delete_record(file, rid)
                                        ELSE update_record(file, rid, r.old)
    BY <1>1, <1>9 DEF undo_record
  <2>3. r.old \in R /\ (UpdateAt(log_file, n) => r.old # NoRow)
    BY <2>1, EmptySlotIsNoRow DEF Rows
  <2>4. file \in Files(R, Links) /\ Len(file.pages) \in 1 .. MaxPages
    BY <1>3 DEF Types
  <2>5. /\ RidsOf(file) \subseteq Rids
        /\ \A q \in Rids : is_record(file, q) <=> (q \in RidsOf(file) /\ row(file, q) # NoRow)
    BY <2>4, RidsOfFile
  <2>6. rid \in RidsOf(file) /\ rid.page_no \in Links /\ NoRow \in R
    BY <1>9, <2>1, <2>5 DEF Rids, Links
  <2> HIDE DEF R
  <2>7. /\ file' \in Files(R, Links) /\ Len(file'.pages) = Len(file.pages)
        /\ Wrote(file, file', rid, r.old)
    <3>1. CASE InsertAt(log_file, n)
      <4>1. file' = delete_record(file, rid) /\ r.old = NoRow
        BY <2>1, <2>2, <3>1 DEF InsertAt
      <4>2. DeletedRow(file, file', rid) /\ file' \in Files(R, Links)
        BY <2>4, <2>6, <4>1, Deleted
      <4> QED
        BY <4>1, <4>2 DEF DeletedRow
    <3>2. CASE UpdateAt(log_file, n)
      <4>1. file' = SetRow(file, rid, r.old)
        BY <2>2, <3>2 DEF UpdateAt, update_record
      <4> QED
        BY <2>3, <2>4, <2>6, <4>1, SetRowWrites
    <3> QED
      BY <2>1, <3>1, <3>2
  <2>8. /\ RidsOf(file') = RidsOf(file)
        /\ \A q \in RidsOf(file) : row(file', q) = IF q = rid THEN r.old ELSE row(file, q)
    BY <2>7 DEF Wrote, RidsOf
  <2>9. \A q \in Rids : is_record(file', q) <=> (q \in RidsOf(file) /\ row(file', q) # NoRow)
    <3>1. Len(file'.pages) \in 1 .. MaxPages
      BY <2>4, <2>7
    <3> QED
      BY <2>7, <2>8, <3>1, RidsOfFile DEF R
  <2>10. \A q \in Rids : q # rid =>
            /\ is_record(file', q) <=> is_record(file, q)
            /\ q \in RidsOf(file) => row(file', q) = row(file, q)
    BY <2>5, <2>8, <2>9
  <2>11. \A i \in WritesInLog : log_file[i].rid \in Rids
    BY <1>3, WriteInLog
  <2>12. Types'
    BY <1>1, <1>3, <2>2, <2>4, <2>7 DEF Types, R
  <2>13. LoadedStay'
    <3> SUFFICES ASSUME NEW q \in Rids, Loaded(q)
                 PROVE  row(file', q) # NoRow /\ disk.pages[1].rows[q.slot_no] # NoRow
      BY <1>1 DEF LoadedStay
    <3>1. is_record(file, q)
      BY <1>3, LoadedIsRecord
    <3>2. q = rid => UpdateAt(log_file, n)
      BY <1>3, <1>5, <2>1 DEF LogShape, RecordsBegin
    <3>3. row(file', q) # NoRow
      BY <2>3, <2>5, <2>8, <3>1, <3>2
    <3> QED
      BY <1>3, <3>3 DEF LoadedStay
  <2>14. UndoInv'
    <3>1. todo' \subseteq UnfinishedWrites
      BY <1>5, <2>2
    <3>2. ASSUME NEW i \in todo', NEW j \in WritesInLog, j < i, log_file[j].tid = log_file[i].tid
          PROVE  j \in todo'
      <4>1. i \in todo /\ i \in Nat /\ j \in Nat /\ n \in Nat
        BY <1>3, <1>5, <2>2
      <4>2. j \in todo
        BY <1>1, <1>4, <3>2, <4>1 DEF UndoInv
      <4>3. j # n
        BY <1>2, <3>2, <4>1
      <4> QED
        BY <2>2, <4>2, <4>3
    <3>3. ASSUME NEW i \in WritesInLog,
                 \A j \in UnfinishedWrites : log_file[j].rid # log_file[i].rid
          PROVE  /\ is_record(file', log_file[i].rid)
                 /\ (UpdateAt(log_file, i)
                       /\ \A j \in WritesInLog : log_file[j].rid = log_file[i].rid => j <= i) =>
                        row(file', log_file[i].rid) = log_file[i].new
      <4>1. log_file[i].rid # rid /\ log_file[i].rid \in Rids
        BY <1>5, <2>11, <3>3
      <4>2. /\ is_record(file, log_file[i].rid)
            /\ (UpdateAt(log_file, i)
                  /\ \A j \in WritesInLog : log_file[j].rid = log_file[i].rid => j <= i) =>
                   row(file, log_file[i].rid) = log_file[i].new
        BY <1>1, <1>4, <3>3 DEF UndoInv
      <4> QED
        BY <2>5, <2>10, <4>1, <4>2
    <3>4. ASSUME NEW i \in todo', NoOther(log_file[i].tid, log_file[i].rid)
          PROVE  is_record(file', log_file[i].rid)
      <4>1. /\ i \in todo /\ i # n /\ i \in WritesInLog /\ is_record(file, log_file[i].rid)
        BY <1>1, <1>4, <1>5, <2>2, <3>4 DEF UndoInv
      <4>2. CASE log_file[i].rid # rid
        BY <2>10, <2>11, <4>1, <4>2
      <4>3. CASE log_file[i].rid = rid
        <5>1. r.tid = log_file[i].tid
          BY <1>5, <3>4, <4>3 DEF NoOther
        <5>2. i < n /\ WriteAt(log_file, i)
          BY <1>2, <1>3, <1>5, <4>1, <5>1, WriteInLog
        <5>3. ~InsertAt(log_file, n)
          BY <1>3, <1>5, <4>1, <4>3, <5>1, <5>2 DEF LogShape, InsertsAreFirst
        <5> QED
          BY <2>1, <2>3, <2>6, <2>8, <2>9, <4>3, <5>3
      <4> QED
        BY <4>2, <4>3
    <3>5. ASSUME NEW i \in UnfinishedWrites \ todo',
                 \A j \in WritesInLog : log_file[j].rid = log_file[i].rid =>
                                           log_file[j].tid = log_file[i].tid /\ i <= j
          PROVE  Content(log_file[i].rid)' = log_file[i].old
      <4> DEFINE q == log_file[i].rid
      <4>1. i \in WritesInLog /\ q \in Rids
        BY <1>5, <2>11
      <4>2. CASE i = n
        BY <1>1, <2>6, <2>8, <4>2 DEF Content
      <4>3. CASE i # n
        <5>1. i \notin todo
          BY <2>2, <4>3
        <5>2. Content(q) = log_file[i].old
          BY <1>1, <1>4, <3>5, <5>1 DEF UndoInv
        <5>3. q # rid
          <6>1. SUFFICES ASSUME q = rid PROVE FALSE
            OBVIOUS
          <6>2. r.tid = log_file[i].tid /\ i < n
            BY <1>3, <1>5, <3>5, <4>1, <4>3, <6>1
          <6> QED
            BY <1>1, <1>2, <1>4, <4>1, <5>1, <6>2 DEF UndoInv
        <5> QED
          BY <1>1, <2>8, <2>10, <4>1, <5>2, <5>3 DEF Content
      <4> QED
        BY <4>2, <4>3
    <3>6. \A i \in todo' : NoOther(log_file[i].tid, log_file[i].rid)' => NoOther(log_file[i].tid, log_file[i].rid)
      BY <1>1, <1>7 DEF NoOther
    <3> QED
      BY <1>1, <1>6, <1>7, <3>1, <3>2, <3>3, <3>4, <3>5, <3>6 DEF UndoInv
  <2>15. UpInv' /\ RedoInv' /\ FailedInv'
    BY <2>2 DEF UpInv, RedoInv, FailedInv
  <2> QED
    BY <1>1, <1>3, <1>6, <2>2, <2>12, <2>13, <2>14, <2>15 DEF RecoveryIndInv
<1> QED
  BY <1>8, <1>9

(* set_check_point writes pages only. *)
LEMMA KeepsCheckPoint ==
    ASSUME RecoveryIndInv, table, set_check_point
    PROVE  RecoveryIndInv'
<1> DEFINE R == Rows \cup {NoRow}
<1>1. /\ phase = "undo" /\ todo = {} /\ phase' = "recovered"
      /\ disk' = [disk EXCEPT !.pages = [p \in DOMAIN disk.pages |->
                    IF is_recovery /\ p \in DOMAIN file.pages THEN file.pages[p] ELSE disk.pages[p]]]
      /\ UNCHANGED <<starts, log_file, log_buffer, file, busy, status, write_set, todo>>
  BY DEF set_check_point
<1>2. /\ Types /\ LoadedStay
      /\ log_file \in Seq(LogRecords)
      /\ Full = log_file /\ LogShape(log_file)
  BY <1>1, LogOnDisk
<1>3. /\ file \in Files(R, Links) /\ Len(file.pages) \in 1 .. MaxPages
      /\ disk \in [num_pages : {2}, first_free_page_no : {1},
                   pages : [1 .. MaxPages -> Pages(R, Links \cup {0})]]
      /\ disk.pages[1] \in Pages(R, Links)
  BY <1>2 DEF Types
<1>4. \A p \in DOMAIN file.pages :
         file.pages[p] \in Pages(R, Links) /\ file.pages[p] \in Pages(R, Links \cup {0})
  BY <1>3, PagesOfFile, DiskPages
<1> HIDE DEF R
<1>5. /\ disk' \in [num_pages : {2}, first_free_page_no : {1},
                    pages : [1 .. MaxPages -> Pages(R, Links \cup {0})]]
      /\ (disk'.pages[1] = file.pages[1] /\ 1 \in DOMAIN file.pages) \/ disk'.pages[1] = disk.pages[1]
  BY <1>1, <1>3, <1>4, DiskPages
<1>6. Types'
  <2>1. disk'.pages[1] \in Pages(R, Links)
    BY <1>3, <1>4, <1>5
  <2> QED
    BY <1>1, <1>2, <1>5, <2>1 DEF Types, R
<1>7. LoadedStay'
  <2>1. \A rid \in Rids : Loaded(rid) => row(file, rid) = file.pages[1].rows[rid.slot_no]
    BY DEF row, Loaded
  <2> QED
    BY <1>1, <1>2, <1>5, <2>1 DEF LoadedStay, row
<1>8. Full' = Full /\ WritesInLog' = WritesInLog /\ Unfinished' = Unfinished
  BY <1>1 DEF Full, WritesInLog, Unfinished, Logged
<1>9. UnfinishedWrites' = UnfinishedWrites
  BY <1>1, <1>8 DEF UnfinishedWrites
<1>10. UndoInv'
  BY <1>1, <1>8, <1>9 DEF RecoveryIndInv, UndoInv, NoOther, Content
<1>11. UpInv' /\ RedoInv' /\ FailedInv'
  BY <1>1 DEF UpInv, RedoInv, FailedInv
<1> QED
  BY <1>1, <1>2, <1>6, <1>7, <1>8, <1>10, <1>11 DEF RecoveryIndInv

(* Without the table, recovery writes nothing: redo passes the records     *)
(* over, and undo stays at the first one it has.                           *)
LEMMA KeepsRecoverGone ==
    ASSUME RecoveryIndInv, ~ table, Recover
    PROVE  RecoveryIndInv'
<1>1. /\ phase \in {"redo", "undo"} /\ phase' \in {"redo", "undo", "recovered"}
      /\ phase' = "recovered" => todo' = {}
      /\ UNCHANGED <<starts, table, log_file, log_buffer, file, busy, status, write_set>>
  BY DEF Recover, redo, redone, undo, set_check_point
<1>2. /\ Types /\ LoadedStay
      /\ Full = log_file /\ LogShape(log_file)
      /\ WritesInLog \subseteq DOMAIN log_file
  BY <1>1, LogOnDisk
<1>3. Full' = Full /\ log_buffer = << >>
  BY <1>1 DEF Full, RecoveryIndInv
<1>4. todo' \subseteq DOMAIN log_file
  BY <1>1, <1>2 DEF Types, Recover, redo, redone, undo, set_check_point
<1>5. disk' = disk
  <2>1. /\ disk \in [num_pages : {2}, first_free_page_no : {1},
                      pages : [1 .. MaxPages -> Pages(Rows \cup {NoRow}, Links \cup {0})]]
    BY <1>2 DEF Types
  <2>2. CASE set_check_point
    <3>1. disk' = [disk EXCEPT !.pages = [p \in DOMAIN disk.pages |-> disk.pages[p]]]
      BY <2>2 DEF set_check_point
    <3> QED
      BY <2>1, <3>1
  <2> QED
    BY <2>2 DEF Recover, redo, redone, undo
<1>6. Types' /\ LoadedStay'
  BY <1>1, <1>2, <1>4, <1>5 DEF Types, LoadedStay
<1>7. UpInv' /\ RedoInv' /\ UndoInv' /\ FailedInv'
  BY <1>1 DEF UpInv, RedoInv, UndoInv, FailedInv
<1> QED
  BY <1>1, <1>2, <1>3, <1>6, <1>7 DEF RecoveryIndInv

(* DROP TABLE touches neither the log nor the transactions. *)
LEMMA KeepsDrop ==
    ASSUME RecoveryIndInv, drop_table
    PROVE  RecoveryIndInv'
<1>1. /\ phase = "up" /\ disk' = LoadedDisk
      /\ UNCHANGED <<phase, starts, log_file, log_buffer, file, busy, status, write_set, todo>>
  BY DEF drop_table
<1>2. Full' = Full
  BY <1>1 DEF Full
<1>3. Types'
  <2>1. LoadedDisk.pages[1] \in Pages(Rows \cup {NoRow}, Links)
    BY LoadedDiskShape, LoadedFileShape
  <2> QED
    BY <1>1, <2>1, LoadedDiskShape DEF RecoveryIndInv, Types
<1>4. LoadedStay'
  <2> SUFFICES ASSUME NEW rid \in Rids, Loaded(rid)
               PROVE  /\ row(file', rid) # NoRow
                      /\ disk'.pages[1].rows[rid.slot_no] # NoRow
    BY DEF LoadedStay
  <2>1. row(file', rid) # NoRow
    BY <1>1 DEF RecoveryIndInv, LoadedStay
  <2>2. LoadedFile.pages[1].rows[rid.slot_no] # NoRow
    BY LoadedFileShape
  <2> QED
    BY <1>1, <2>1, <2>2, LoadedDiskShape
<1>5. UpInv'
  BY <1>1, <1>2 DEF RecoveryIndInv, UpInv, FileIsLogged, WritesAreHeld, WritesAreListed
<1>6. RedoInv' /\ UndoInv' /\ FailedInv'
  BY <1>1 DEF RedoInv, UndoInv, FailedInv
<1> QED
  BY <1>1, <1>2, <1>3, <1>4, <1>5, <1>6 DEF RecoveryIndInv

-----------------------------------------------------------------------------
(* The theorems *)

(* Every step keeps the invariant. *)
LEMMA RecoveryStep == RecoveryIndInv /\ [Next]_vars => RecoveryIndInv'
<1> SUFFICES ASSUME RecoveryIndInv, [Next]_vars PROVE RecoveryIndInv'
  OBVIOUS
<1>1. ASSUME NEW t \in Txns, Transaction(t) PROVE RecoveryIndInv'
  <2>1. CASE begin(t)
    BY <2>1, KeepsBegin
  <2>2. CASE Insert(t)
    BY <2>2, KeepsInsert
  <2>3. CASE \E rid \in RidsOf(file) : Update(t, rid)
    BY <2>3, KeepsUpdate
  <2>4. CASE commit(t)
    BY <2>4, KeepsCommit
  <2>5. CASE log_commit(t)
    BY <2>5, KeepsLogCommit
  <2>6. CASE abort(t)
    BY <2>6, KeepsAbort
  <2>7. CASE rollback_single_operation(t)
    BY <2>7, KeepsRollback
  <2>8. CASE undone(t)
    BY <2>8, KeepsUndone
  <2>9. CASE log_abort(t)
    BY <2>9, KeepsLogAbort
  <2> QED
    BY <1>1, <2>1, <2>2, <2>3, <2>4, <2>5, <2>6, <2>7, <2>8, <2>9 DEF Transaction
<1>2. ASSUME NEW p \in DOMAIN file.pages, write_page(p) PROVE RecoveryIndInv'
  BY <1>2, KeepsWritePage
<1>3. CASE Crash
  BY <1>3, KeepsCrash
<1>4. CASE open_db
  BY <1>4, KeepsOpen
<1>5. CASE Recover
  <2>1. CASE table
    BY <1>5, <2>1, KeepsRedo, KeepsRedone, KeepsUndo, KeepsCheckPoint DEF Recover
  <2> QED
    BY <1>5, <2>1, KeepsRecoverGone
<1>6. CASE drop_table
  BY <1>6, KeepsDrop
<1>7. CASE UNCHANGED vars
  <2> USE <1>7 DEF vars
  <2>1. Full' = Full /\ WritesInLog' = WritesInLog /\ Unfinished' = Unfinished
    BY DEF Full, WritesInLog, Unfinished, Logged
  <2>2. UnfinishedWrites' = UnfinishedWrites
    BY <2>1 DEF UnfinishedWrites
  <2>3. Types' /\ LoadedStay'
    BY DEF RecoveryIndInv, Types, LoadedStay
  <2>4. UpInv'
    BY <2>1 DEF RecoveryIndInv, UpInv, FileIsLogged, WritesAreHeld, WritesAreListed
  <2>5. RedoInv'
    BY <2>1 DEF RecoveryIndInv, RedoInv, Done
  <2>6. UndoInv'
    BY <2>1, <2>2 DEF RecoveryIndInv, UndoInv, NoOther, Content
  <2>7. FailedInv'
    BY <2>2 DEF RecoveryIndInv, FailedInv
  <2> QED
    BY <2>1, <2>3, <2>4, <2>5, <2>6, <2>7 DEF RecoveryIndInv
<1> QED
  BY <1>1, <1>2, <1>3, <1>4, <1>5, <1>6, <1>7 DEF Next

(* The invariant holds in every state. *)
LEMMA RecoveryAlways == Spec => []RecoveryIndInv
  BY RecoveryInit, RecoveryStep, PTL DEF Spec

TableType == table \in BOOLEAN

(* The table is in db.meta or it is not. *)
LEMMA TableIsThereOrNot == Spec => []TableType
<1>1. Init => TableType
  BY DEF Init, TableType
<1>2. TableType /\ [Next]_vars => TableType'
  <2> SUFFICES ASSUME TableType, [Next]_vars PROVE table' = table \/ table' = FALSE
    BY DEF TableType
  <2>1. ASSUME NEW t \in Txns, Transaction(t) PROVE table' = table
    BY <2>1 DEF Transaction, begin, Insert, Update, Write, commit, log_commit, abort,
                rollback_single_operation, undone, log_abort
  <2>2. ASSUME NEW p, write_page(p) PROVE table' = table
    BY <2>2 DEF write_page
  <2>3. CASE drop_table
    BY <2>3 DEF drop_table
  <2>4. CASE Crash \/ open_db
    BY <2>4 DEF Crash, open_db
  <2>5. CASE Recover
    BY <2>5 DEF Recover, redo, redone, undo, set_check_point
  <2>6. CASE UNCHANGED vars
    BY <2>6 DEF vars
  <2> QED
    BY <2>1, <2>2, <2>3, <2>4, <2>5, <2>6 DEF Next
<1> QED
  BY <1>1, <1>2, PTL DEF Spec

(* The writers of a record that the log knows are finitely many. *)
LEMMA WritersAreFinite ==
    ASSUME log_file \in Seq(LogRecords), NEW rid
    PROVE  IsFiniteSet(WritersOf(rid))
<1> DEFINE W == WritesOf(rid)
           f == [i \in W |-> log_file[i].tid]
<1>1. DOMAIN log_file = 1 .. Len(log_file) /\ Len(log_file) \in Nat
  OBVIOUS
<1>2. W \subseteq 1 .. Len(log_file)
  BY <1>1 DEF WritesOf, WritesInLog, Writes
<1>3. IsFiniteSet(1 .. Len(log_file))
  BY <1>1, FS_Interval
<1>4. IsFiniteSet(W)
  BY <1>2, <1>3, FS_Subset
<1>5. f \in Surjection(W, WritersOf(rid))
  BY DEF Surjection, WritersOf
<1> QED
  BY <1>4, <1>5, FS_Surjection

(* The log, the file and the state of recovery have their types, and redo  *)
(* and undo throw only when two transactions without an end in the log     *)
(* have written one record: whatever pages the pool had written back when  *)
(* the server died, and however often it died (RecoveryManager::redo,      *)
(* undo).                                                                  *)
THEOREM RecoveryIsSafe == Spec => []RecoveryInv
<1>1. RecoveryIndInv /\ TableType => RecoveryInv
  <2> SUFFICES ASSUME RecoveryIndInv, TableType PROVE RecoveryInv
    OBVIOUS
  <2>1. Types
    BY DEF RecoveryIndInv
  <2>2. TypeOK
    <3>1. file \in Files(Rows \cup {NoRow}, Links)
      BY <2>1 DEF Types
    <3>2. /\ file.first_free_page_no \in Links
          /\ \A p \in DOMAIN file.pages : file.pages[p] \in Pages(Rows \cup {NoRow}, Links)
      BY <3>1, PagesOfFile
    <3>3. \A p \in DOMAIN file.pages : file.pages[p].next_free_page_no \in Links
      BY <3>2 DEF Pages
    <3>4. disk.num_pages \in 1 .. MaxPages + 1
      BY <2>1, BoundsAreNumbers DEF Types
    <3> QED
      BY <2>1, <3>2, <3>3, <3>4 DEF Types, TypeOK, Links, TableType
  <2>3. FailsOnlyOnSharedRecords
    <3> SUFFICES ASSUME phase = "failed"
                 PROVE  \E rid \in Rids : Cardinality(WritersOf(rid) \cap Unfinished) > 1
      BY DEF FailsOnlyOnSharedRecords
    <3>1. PICK i \in UnfinishedWrites, j \in UnfinishedWrites :
             log_file[i].rid = log_file[j].rid /\ log_file[i].tid # log_file[j].tid
      BY DEF RecoveryIndInv, FailedInv
    <3> DEFINE rid == log_file[i].rid
               a == log_file[i].tid
               b == log_file[j].tid
               T == WritersOf(rid) \cap Unfinished
    <3>2. log_file \in Seq(LogRecords)
      BY LogOnDisk
    <3>3. rid \in Rids
      BY <3>2, WriteInLog DEF UnfinishedWrites
    <3>4. a \in T /\ b \in T /\ a # b
      BY <3>1 DEF UnfinishedWrites, WritersOf, WritesOf
    <3> HIDE DEF T, a, b
    <3>5. IsFiniteSet(T)
      BY <3>2, WritersAreFinite, FS_Intersection DEF T
    <3>6. /\ IsFiniteSet({a}) /\ Cardinality({a}) = 1
      BY FS_Singleton
    <3>7. Cardinality({a} \cup {b}) = 2
      <4>1. Cardinality({a} \cup {b}) =
               IF b \in {a} THEN Cardinality({a}) ELSE Cardinality({a}) + 1
        BY <3>6, FS_AddElement
      <4>2. b \notin {a}
        BY <3>4
      <4> QED
        BY <3>6, <4>1, <4>2
    <3>8. {a} \cup {b} \in SUBSET T
      BY <3>4
    <3>9. Cardinality({a} \cup {b}) <= Cardinality(T)
      BY <3>5, <3>8, FS_Subset
    <3>10. Cardinality(T) \in Nat
      BY <3>5, FS_CardinalityType
    <3>11. Cardinality(T) > 1
      BY <3>7, <3>9, <3>10
    <3> QED
      BY <3>3, <3>11 DEF T
  <2> QED
    BY <2>2, <2>3 DEF RecoveryInv
<1> QED
  BY <1>1, RecoveryAlways, TableIsThereOrNot, PTL

(* After recovery a record all of whose writers in the log have committed  *)
(* is in the file, with what the last update of it in the log wrote,       *)
(* unless the table was dropped (RecoveryManager::redo).                   *)
THEOREM RedoRestoresCommitted == Spec => []CommittedIsRedone
<1>1. RecoveryIndInv => CommittedIsRedone
  <2> SUFFICES ASSUME RecoveryIndInv, phase = "recovered", table, NEW rid \in Rids,
                      WritesOf(rid) # {}, WritersOf(rid) \subseteq Logged("commit")
               PROVE  LET last == log_file[Max(WritesOf(rid))]
                      IN  /\ Content(rid) # NoRow
                          /\ last.type = "update" => Content(rid) = last.new
    BY DEF CommittedIsRedone
  <2> DEFINE W == WritesOf(rid)
             m == Max(W)
  <2>1. /\ Types /\ log_file \in Seq(LogRecords)
        /\ WritesInLog \subseteq DOMAIN log_file /\ DOMAIN log_file \subseteq Nat
        /\ DOMAIN log_file = 1 .. Len(log_file) /\ Len(log_file) \in Nat
    BY LogOnDisk
  <2>2. W \in SUBSET Nat /\ W # {} /\ \A i \in W : i <= Len(log_file)
    BY <2>1 DEF WritesOf
  <2>3. m \in W /\ \A j \in W : j <= m
    BY <2>1, <2>2, GreatestMember
  <2> HIDE DEF m
  <2>4. m \in WritesInLog /\ log_file[m].rid = rid
    BY <2>3 DEF WritesOf
  <2>5. \A j \in UnfinishedWrites : log_file[j].rid # rid
    BY DEF UnfinishedWrites, Unfinished, WritersOf, WritesOf
  <2>6. \A j \in WritesInLog : log_file[j].rid = rid => j <= m
    BY <2>3 DEF WritesOf
  <2>7. /\ is_record(file, rid)
        /\ UpdateAt(log_file, m) => row(file, rid) = log_file[m].new
    BY <2>4, <2>5, <2>6 DEF RecoveryIndInv, UndoInv
  <2>8. rid \in RidsOf(file) /\ row(file, rid) # NoRow
    BY <2>1, <2>7, RidsOfFile DEF Types
  <2> QED
    BY <2>7, <2>8 DEF Content, UpdateAt, m
<1> QED
  BY <1>1, RecoveryAlways, PTL

(* After recovery a record whose only writer in the log has no end there   *)
(* is as it was before the first of its writes, unless the table was       *)
(* dropped (RecoveryManager::undo).                                        *)
THEOREM UndoRestoresOld == Spec => []UnfinishedIsUndone
<1>1. RecoveryIndInv => UnfinishedIsUndone
  <2> SUFFICES ASSUME RecoveryIndInv, phase = "recovered", table, NEW rid \in Rids,
                      Cardinality(WritersOf(rid)) = 1, WritersOf(rid) \subseteq Unfinished
               PROVE  Content(rid) = log_file[Min(WritesOf(rid))].old
    BY DEF UnfinishedIsUndone
  <2> DEFINE W == WritesOf(rid)
             i == Min(W)
  <2>1. /\ log_file \in Seq(LogRecords)
        /\ WritesInLog \subseteq DOMAIN log_file /\ DOMAIN log_file \subseteq Nat
    BY LogOnDisk
  <2>2. IsFiniteSet(WritersOf(rid))
    BY <2>1, WritersAreFinite
  <2>3. PICK t : WritersOf(rid) = {t}
    BY <2>2, FS_Singleton
  <2>4. W \in SUBSET Nat /\ W # {}
    BY <2>1, <2>3 DEF WritesOf, WritersOf
  <2>5. i \in W /\ \A j \in W : i <= j
    BY <2>4, LeastMember
  <2> HIDE DEF i
  <2>6. \A j \in W : log_file[j].tid = t
    BY <2>3 DEF WritersOf
  <2>7. i \in UnfinishedWrites /\ log_file[i].rid = rid
    BY <2>3, <2>5, <2>6 DEF WritesOf, UnfinishedWrites
  <2>8. \A j \in WritesInLog : log_file[j].rid = rid => log_file[j].tid = log_file[i].tid /\ i <= j
    BY <2>5, <2>6 DEF WritesOf
  <2>9. todo = {}
    BY DEF RecoveryIndInv
  <2> QED
    BY <2>7, <2>8, <2>9 DEF RecoveryIndInv, UndoInv, i
<1> QED
  BY <1>1, RecoveryAlways, PTL
=============================================================================
