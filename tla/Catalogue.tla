----------------------------- MODULE Catalogue ------------------------------
(***************************************************************************)
(* SmManager: the tables and indexes of the database, their files, and the *)
(* file db.meta that names them.  Below it RmManager and IxManager open a  *)
(* file through DiskManager, which counts the openings, and BufferPool,    *)
(* which cuts the frames into one pool per file.                           *)
(*                                                                         *)
(* Statements run one at a time: SmManager has no latch, and two at once   *)
(* would be a data race.  A statement is cut into steps where the server   *)
(* may die between two changes of the disk; then the files stay and the    *)
(* memory is lost.                                                         *)
(***************************************************************************)
EXTENDS Integers, Sequences, FiniteSets, FiniteSetsExt, Functions

CONSTANTS Tables,         \* the tables, a sequence in the order of their names
          TableOf,        \* the table of every index
          FILE_POOL_SIZE, \* frames for a table
          INDEX_POOL_SIZE,
          tot_num,        \* frames for all pools
          MaxCrashes      \* bound: how often the server is killed

ASSUME PoolsHaveFrames == /\ {FILE_POOL_SIZE, INDEX_POOL_SIZE} \subseteq Nat \ {0}
                          /\ tot_num \in Nat

ASSUME CrashesAreBounded == MaxCrashes \in Nat

TableNames == {Tables[i] : i \in DOMAIN Tables}
Indexes    == DOMAIN TableOf
Files      == TableNames \union Indexes

(* The file of an index is named after its table and its columns. *)
ASSUME FilesAreNamedApart ==
    /\ TableNames \intersect Indexes = {} /\ IsFiniteSet(Files)
    /\ \A x \in Indexes : TableOf[x] \in TableNames

VARIABLES
    files,    \* the files of tables and indexes on disk
    meta,     \* db.meta: NoMeta, Truncated or what flush_meta wrote
    db,       \* db_: name_ (is it not "") and tabs_, the indexes of every table;
              \* the indexes that have columns of others and the tables without columns
    handles,  \* fhs_ and ihs_: the files with a handle
    opened,   \* path2refcount_: how often each open file is open
    pools,    \* buffers: the size of the pool of every file
    use_num,  \* frames given to pools
    server,   \* "create_db", "down" or "up"
    stmt,     \* the statement in progress and how far it is
    (* history *)
    kept,     \* tables whose CREATE TABLE ended and whose DROP TABLE has not begun
    harm,     \* what a death has cut off, and whether db.meta was misread
    crashes

memory == <<db, handles, opened, pools, use_num>>
vars   == <<files, meta, memory, server, stmt, kept, harm, crashes>>

NoMeta    == [is |-> "missing"]
Truncated == [is |-> "truncated"]
Nothing   == [x \in {} |-> {}]
Idle      == [at |-> "idle"]
NoTables  == [named |-> FALSE, tabs |-> Nothing, long |-> {}, blank |-> {}]

tabs == db.tabs

Without(f, x) == Restrict(f, DOMAIN f \ {x})
With(f, x, v) == [y \in DOMAIN f \union {x} |-> IF y = x THEN v ELSE f[y]]

-----------------------------------------------------------------------------
(* DiskManager: a file is created if there is none of its name, destroyed  *)
(* if it is not open, which a statement makes sure of, and counted open.   *)

is_file(name) == name \in files

create_file(name) == ~ is_file(name) /\ files' = files \union {name}

destroy_file(name) == name \notin DOMAIN opened' /\ files' = files \ {name}

open_file(name) ==
    opened' = With(opened, name, IF name \in DOMAIN opened THEN opened[name] + 1 ELSE 1)

close_file(open, name) ==
    IF open[name] > 1 THEN [open EXCEPT ![name] = @ - 1] ELSE Without(open, name)

(* BufferPool: a file gets the pool it asks for or what is left; if that   *)
(* is nothing, "No Pool" is raised.  No file asks while it has one.        *)
pool_size(name) ==
    Min({IF name \in Indexes THEN INDEX_POOL_SIZE ELSE FILE_POOL_SIZE, tot_num - use_num})

get_pool(name) ==
    /\ pools' = With(pools, name, pool_size(name))
    /\ use_num' = use_num + pool_size(name)

delete_pool(name) ==
    /\ pools' = Without(pools, name)
    /\ use_num' = use_num - pools[name]

(* RmManager::open_file and IxManager::open_index: the file is open before *)
(* the pool is asked for, and stays open if there is none.                 *)
open_handle(name) ==
    /\ open_file(name)
    /\ IF pool_size(name) = 0
         THEN UNCHANGED <<handles, pools, use_num>>
         ELSE /\ get_pool(name)
              /\ handles' = handles \union {name}

(* RmManager::close_file *)
close_handle(name) ==
    /\ delete_pool(name)
    /\ opened' = close_file(opened, name)
    /\ handles' = handles \ {name}

(* IxManager::close_index ignores an index without handle; then            *)
(* destroy_index closes its file.                                          *)
close_index(name) ==
    IF name \in handles
      THEN close_handle(name)
      ELSE /\ opened' = IF name \in DOMAIN opened THEN close_file(opened, name) ELSE opened
           /\ UNCHANGED <<pools, use_num, handles>>

destroy_index(name) == close_index(name) /\ destroy_file(name)

-----------------------------------------------------------------------------
Init ==
    /\ files = {} /\ meta = NoMeta
    /\ db = NoTables /\ handles = {}
    /\ opened = Nothing /\ pools = Nothing /\ use_num = 0
    /\ server = "create_db" /\ stmt = Idle
    /\ kept = {} /\ harm = {} /\ crashes = 0

Lost == /\ db' = NoTables /\ handles' = {}
        /\ opened' = Nothing /\ pools' = Nothing /\ use_num' = 0
        /\ server' = "down" /\ stmt' = Idle

(* main: there is no directory of this name; it is made, then db.meta      *)
create_db ==
    /\ server = "create_db"
    /\ meta' = [is |-> "whole", named |-> TRUE, tabs |-> Nothing, long |-> {}, blank |-> {},
                first |-> {}, last |-> {}]
    /\ server' = "down"
    /\ UNCHANGED <<files, memory, stmt, kept, harm, crashes>>

(* What operator>> of DbMeta makes of db.meta.  Nothing is read from an    *)
(* empty file: the name is "" and the number of tables is not initialised, *)
(* so there are no tables or there is one named "".  If the name is "" the *)
(* number of tables is taken for it and no table is read, or, where there  *)
(* is none, again an uninitialised number of them.                         *)
CountUnset == meta = Truncated \/ (meta.is = "whole" /\ ~ meta.named /\ meta.tabs = Nothing)

(* One IndexMeta serves all indexes of a table and its columns are never   *)
(* cleared: all but the first are read with the columns of those before,   *)
(* and are `long'.  operator<< writes all of them after the right col_num, *)
(* so the next start meets lines it does not expect, unless they are the   *)
(* last of the file.                                                       *)
TablesAfter(t) ==
    {u \in DOMAIN meta.tabs : \E i, j \in DOMAIN Tables : i < j /\ Tables[i] = t /\ Tables[j] = u}

Surplus(t) == meta.tabs[t] \intersect meta.long

Spilt ==
    {t \in DOMAIN meta.tabs :
        Surplus(t) # {} /\ (TablesAfter(t) # {} \/ ~ (Surplus(t) \subseteq meta.last))}

FirstSpilt == CHOOSE t \in Spilt : \A u \in Spilt : t \notin TablesAfter(u)

Garbled == meta.is = "whole" /\ meta.named /\ Spilt # {}

(* Within the indexes of a table such a line is read as an index named     *)
(* like the table, and opening the file of a table as an index fails an    *)
(* assertion.  Behind them it is read as a table with the name of this one *)
(* and no columns, which takes the place of the next; then nothing more is *)
(* read, and a further table has the name "".                              *)
Unreadable ==
    /\ Garbled
    /\ \/ ~ (Surplus(FirstSpilt) \subseteq meta.last)
       \/ Cardinality(TablesAfter(FirstSpilt)) > 1

ReadMeta ==
    IF meta = Truncated THEN NoTables
    ELSE IF ~ meta.named THEN [NoTables EXCEPT !.named = TRUE]
    ELSE LET emptied == IF Garbled THEN {FirstSpilt} ELSE {}
             unread  == IF Garbled THEN TablesAfter(FirstSpilt) ELSE {}
             read    == [t \in DOMAIN meta.tabs \ unread |->
                            IF t \in emptied THEN {} ELSE meta.tabs[t]]
         IN  [named |-> TRUE, tabs |-> read,
              long  |-> (UNION Range(read)) \ meta.first,
              blank |-> (meta.blank \union emptied) \intersect DOMAIN read]

(* open_db throws: main ends.  No table has the name "", nor a file.       *)
(* Recovery runs when all is open: for a logged write to a table it asks   *)
(* for its indexes by the names their columns make, and a `long' one has   *)
(* no such file.  That ends main too.                                      *)
StartFails ==
    \/ /\ server = "down"
       /\ meta = NoMeta \/ CountUnset \/ Unreadable
    \/ /\ stmt.at = "open"
       /\ db.long # {} \/ \E f \in stmt.next : f \notin files \/ pool_size(f) = 0

(* The files open_db opens next: the first table, then its indexes in any  *)
(* order, as they are in a hash table, then the second table.              *)
Opens(todo, t) == IF t \in todo THEN {t} ELSE {x \in todo \ TableNames : TableOf[x] = t}

NextToOpen(todo) ==
    IF todo = {} THEN {}
    ELSE LET i == Min({j \in DOMAIN Tables : Opens(todo, Tables[j]) # {}})
         IN  Opens(todo, Tables[i])

Opening(todo) ==
    stmt' = IF todo = {} THEN Idle
            ELSE [at |-> "open", todo |-> todo, next |-> NextToOpen(todo)]

open_db ==
    /\ server = "down" /\ meta # NoMeta /\ ~ Unreadable
    /\ db' = ReadMeta
    /\ Opening(DOMAIN ReadMeta.tabs \union UNION Range(ReadMeta.tabs))
    /\ server' = "up"
    /\ harm' = harm \union IF Garbled THEN {"misread"} ELSE {}
    /\ UNCHANGED <<files, meta, handles, opened, pools, use_num, kept, crashes>>

OpenNext ==
    /\ stmt.at = "open"
    /\ \E f \in stmt.next :
        /\ f \in files /\ pool_size(f) > 0
        /\ open_handle(f)
        /\ Opening(stmt.todo \ {f})
    /\ UNCHANGED <<files, meta, db, server, kept, harm, crashes>>

OpenFails ==
    /\ StartFails
    /\ Lost
    /\ UNCHANGED <<files, meta, kept, harm, crashes>>

-----------------------------------------------------------------------------
(* Statements *)

Ready == server = "up" /\ stmt = Idle

(* Mutant: the new table is in db.meta only with the next statement *)
create_table_Unflushed(t) ==
    /\ t \notin DOMAIN tabs
    /\ create_file(t)
    /\ db' = [db EXCEPT !.tabs = With(tabs, t, {})]
    /\ open_handle(t)
    /\ stmt' = Idle /\ kept' = kept \union {t}
    /\ UNCHANGED <<meta, server, harm, crashes>>

(* Where there is no pool an error is reported: the table is in db_        *)
(* already, its file is open and it has no handle.                         *)
create_table(t) ==
    /\ t \notin DOMAIN tabs
    /\ create_file(t)
    /\ db' = [db EXCEPT !.tabs = With(tabs, t, {})]
    /\ open_handle(t)
    /\ IF pool_size(t) = 0
         THEN stmt' = Idle
         ELSE stmt' = [at |-> "flush", for |-> "create", adds |-> {t}]
    /\ UNCHANGED <<meta, server, kept, harm, crashes>>

(* The indexes of the table keep their files, handles and pools *)
drop_table(t) ==
    /\ t \in DOMAIN tabs /\ t \in handles
    /\ close_handle(t)
    /\ destroy_file(t)
    /\ db' = [db EXCEPT !.tabs = Without(tabs, t), !.long = @ \ tabs[t], !.blank = @ \ {t}]
    /\ stmt' = [at |-> "flush", for |-> "drop", adds |-> {}]
    /\ kept' = kept \ {t}
    /\ UNCHANGED <<meta, server, harm, crashes>>

(* InvalidColLengthError: the columns are too long for a key; the file has *)
(* been made and is left open.                                             *)
KeyTooLong(x) == open_file(x) /\ stmt' = Idle /\ UNCHANGED <<handles, pools, use_num>>

(* Mutant: the index is in db_ before it is built *)
create_index_Early(x) ==
    /\ TableOf[x] \in DOMAIN tabs \ db.blank
    /\ create_file(x)
    /\ \/ KeyTooLong(x)
       \/ /\ open_handle(x)
          /\ stmt' = IF pool_size(x) = 0 THEN Idle
                     ELSE [at |-> "build", ix |-> x, was |-> <<files, memory>>]
    /\ db' = [db EXCEPT !.tabs[TableOf[x]] = @ \union {x}]
    /\ UNCHANGED <<meta, server, kept, harm, crashes>>

(* create_index, until the scan of the table; without a pool the file of   *)
(* the index stays, and open.                                              *)
create_index(x) ==
    /\ TableOf[x] \in DOMAIN tabs \ db.blank
    /\ create_file(x)
    /\ \/ KeyTooLong(x)
       \/ /\ open_handle(x)
          /\ stmt' = IF pool_size(x) = 0 THEN Idle
                     ELSE [at |-> "build", ix |-> x, was |-> <<files, memory>>]
    /\ UNCHANGED <<meta, db, server, kept, harm, crashes>>

IndexBuilt ==
    /\ stmt.at = "build" /\ TableOf[stmt.ix] \in handles
    /\ db' = [db EXCEPT !.tabs[TableOf[stmt.ix]] = @ \union {stmt.ix}]
    /\ stmt' = [at |-> "flush", for |-> "create", adds |-> {}]
    /\ UNCHANGED <<files, meta, handles, opened, pools, use_num, server, kept, harm, crashes>>

(* Mutant: the file of the index that was not built stays *)
DuplicateKey_Stays ==
    /\ stmt.at = "build" /\ TableOf[stmt.ix] \in handles
    /\ close_index(stmt.ix)
    /\ stmt' = Idle
    /\ UNCHANGED <<files, meta, db, server, kept, harm, crashes>>

(* NonUniqueIndexError: two records of the table have the same key *)
DuplicateKey ==
    /\ stmt.at = "build" /\ TableOf[stmt.ix] \in handles
    /\ destroy_index(stmt.ix)
    /\ stmt' = Idle
    /\ UNCHANGED <<meta, db, server, kept, harm, crashes>>

drop_index(x) ==
    /\ TableOf[x] \in DOMAIN tabs /\ is_file(x)
    /\ destroy_index(x)
    /\ db' = [db EXCEPT !.tabs[TableOf[x]] = @ \ {x}, !.long = @ \ {x}]
    /\ stmt' = [at |-> "flush", for |-> "drop", adds |-> {}]
    /\ UNCHANGED <<meta, server, kept, harm, crashes>>

(* flush_meta: opening the stream empties the file ... *)
truncate_meta ==
    /\ stmt.at \in {"flush", "close"}
    /\ meta' = Truncated
    /\ stmt' = [stmt EXCEPT !.at = IF @ = "flush" THEN "write" ELSE "write_close"]
    /\ UNCHANGED <<files, memory, server, kept, harm, crashes>>

(* The indexes of a table are in a hash table: any may be written first,   *)
(* and any other last.                                                     *)
Orders ==
    {o \in [first : SUBSET UNION Range(tabs), last : SUBSET UNION Range(tabs)] :
        \A t \in DOMAIN tabs : tabs[t] # {} =>
            \E x, y \in tabs[t] :
                /\ o.first \intersect tabs[t] = {x} /\ o.last \intersect tabs[t] = {y}
                /\ (x = y) => (tabs[t] = {x})}

(* Mutant: operator<< of TabMeta leaves out the indexes *)
WrittenMeta_NoIndexes(o) ==
    [is |-> "whole", named |-> db.named, tabs |-> [t \in DOMAIN tabs |-> {}],
     long |-> {}, blank |-> db.blank, first |-> o.first, last |-> o.last]

WrittenMeta(o) ==
    [is |-> "whole", named |-> db.named, tabs |-> tabs,
     long |-> db.long, blank |-> db.blank, first |-> o.first, last |-> o.last]

(* ... and closing it writes what operator<< put into it. *)
write_meta ==
    /\ stmt.at = "write"
    /\ \E o \in Orders : meta' = WrittenMeta(o)
    /\ kept' = kept \union stmt.adds
    /\ stmt' = Idle
    /\ UNCHANGED <<files, memory, server, harm, crashes>>

(* SIGINT: close_db writes db.meta and closes every handle.  Where name_   *)
(* is "" it throws, and main ends.                                         *)
close_db ==
    /\ Ready
    /\ IF db.named THEN /\ stmt' = [at |-> "close", for |-> "close"]
                        /\ UNCHANGED <<memory, server>>
                   ELSE Lost
    /\ UNCHANGED <<files, meta, kept, harm, crashes>>

CloseFiles ==
    /\ stmt.at = "write_close"
    /\ \E o \in Orders : meta' = WrittenMeta(o)
    /\ Lost
    /\ UNCHANGED <<files, kept, harm, crashes>>

-----------------------------------------------------------------------------
(* Deaths *)

(* What the disk shows of the step that was cut off *)
CutOff ==
    CASE server = "create_db" -> {"create_db"}
      [] stmt.at \in {"write", "write_close"} -> {"flush_meta"}
      [] stmt.at = "flush" /\ stmt.for = "drop" -> {"drop"}
      [] OTHER -> {}

(* The process is killed, by the client command "crash" for one *)
Crash ==
    /\ crashes < MaxCrashes
    /\ server = "create_db" \/ server = "up"
    /\ crashes' = crashes + 1
    /\ harm' = harm \union CutOff
    /\ Lost
    /\ UNCHANGED <<files, meta, kept>>

(* A table whose creation found no pool has no handle: DROP TABLE and      *)
(* CREATE INDEX follow a null pointer.                                     *)
NullHandle ==
    /\ \/ Ready /\ \E t \in DOMAIN tabs : t \notin handles
       \/ stmt.at = "build" /\ TableOf[stmt.ix] \notin handles
    /\ Lost
    /\ UNCHANGED <<files, meta, kept, harm, crashes>>

Statement ==
    Ready /\ \/ \E t \in TableNames : create_table(t) \/ drop_table(t)
             \/ \E x \in Indexes : create_index(x) \/ drop_index(x)

Next ==
    \/ create_db \/ open_db \/ OpenNext \/ OpenFails
    \/ Statement \/ IndexBuilt \/ DuplicateKey \/ truncate_meta \/ write_meta
    \/ close_db \/ CloseFiles
    \/ Crash \/ NullHandle

(* The process that is not killed goes on with what it does; nobody has to *)
(* send statements.                                                        *)
Spec == Init /\ [][Next]_vars

-----------------------------------------------------------------------------
(* A file is counted open only while it is on disk, at most once for every *)
(* handle, and the steps of a statement follow each other.                 *)
TypeOK ==
    /\ files \subseteq Files /\ handles \subseteq Files
    /\ meta \in {NoMeta, Truncated} \/ meta.is = "whole"
    /\ DOMAIN tabs \subseteq TableNames
    /\ \A t \in DOMAIN tabs : tabs[t] \subseteq {x \in Indexes : TableOf[x] = t}
    /\ db.long \subseteq UNION Range(tabs) /\ db.blank \subseteq DOMAIN tabs
    /\ \A f \in DOMAIN opened : f \in files /\ opened[f] = 1
    /\ server \in {"create_db", "down", "up"}
    /\ stmt.at \in {"idle", "open", "build", "flush", "write", "close", "write_close"}
    /\ crashes \in 0 .. MaxCrashes

(* The frames of the pools together are those counted as used, never more  *)
(* than there are: opening and closing files in any order, by statements,  *)
(* by failed statements and by close_db, loses none and gives none twice.  *)
PoolsAccountedFor ==
    /\ use_num = MapThenSumSet(LAMBDA f : pools[f], DOMAIN pools)
    /\ use_num <= tot_num
    /\ \A f \in DOMAIN pools : pools[f] > 0

(* Every handle the executors may use is of a file that is on disk and     *)
(* open and has a pool; a pool without a handle is of no file.             *)
HandlesAreOpen ==
    /\ handles \subseteq files \intersect DOMAIN opened
    /\ handles = DOMAIN pools

(* Between statements db.meta names the tables and indexes that db_ has,   *)
(* and each has its file and its handle, unless a statement failed and left *)
(* its file open, the server once died while db.meta was empty or a start  *)
(* read surplus columns as something else.                                 *)
CatalogueIsWritten ==
    (/\ Ready /\ harm \intersect {"flush_meta", "misread"} = {}
     /\ DOMAIN opened \subseteq handles) =>
        /\ meta.is = "whole" /\ meta.tabs = tabs
        /\ DOMAIN tabs \union UNION Range(tabs) \subseteq handles

(* Memory, files, pools and db.meta agree. *)
CatalogueInv == TypeOK /\ PoolsAccountedFor /\ HandlesAreOpen /\ CatalogueIsWritten

(* A table whose creation was answered, and which nobody began to drop, is *)
(* on disk and found by the next start, whenever the server dies, unless   *)
(* it once died while db.meta was empty, or surplus columns stand in       *)
(* db.meta before something else: with at most one index for every table   *)
(* they never do.                                                          *)
CreatedTablesSurvive ==
    harm \intersect {"flush_meta", "misread"} = {} =>
        \A t \in kept :
            /\ t \in files
            /\ \/ meta.is = "whole" /\ (Garbled \/ t \in DOMAIN ReadMeta.tabs)
               \/ meta = Truncated /\ stmt.at \in {"write", "write_close"} /\ t \in DOMAIN tabs

(* The server starts again after every death, except one within create_db, *)
(* one between the destruction of a file and the end of flush_meta, where  *)
(* the pools are used up or where a table has had two indexes and one was  *)
(* read with the columns of the other; a death while a table or an index   *)
(* is made does not keep it from starting.                                 *)
StartsAgain ==
    StartFails =>
        \/ harm # {} \/ Garbled
        \/ /\ stmt.at = "open" /\ stmt.next \subseteq files
           /\ db.long # {} \/ \E f \in stmt.next : pool_size(f) = 0

(* Surplus columns need two indexes of one table: where no table can have  *)
(* them, the next start reads all of db.meta.                              *)
OneIndexEach == \A x, y \in Indexes : TableOf[x] = TableOf[y] => x = y

OneIndexIsReadBack == OneIndexEach => ~ Garbled /\ db.long = {}

(* TLC refutes this one (README, "Known deviations"): open_db loads what    *)
(* flush_meta wrote: "打开数据库，找到数据库对应的文件夹，   *)
(* 并加载数据库元数据和相关文件".                                              *)
LoadsWhatWasWritten ==
    (server = "down" /\ meta.is = "whole" /\ meta.named) =>
        ~ Unreadable /\ ReadMeta.tabs = meta.tabs

(* A CREATE INDEX that finds a duplicate key leaves the files, the tables, *)
(* the handles, the open files and the pools as they were.                 *)
FailedIndexLeavesNothing ==
    [][(stmt.at = "build" /\ stmt' = Idle /\ server' = "up")
          => <<files', memory'>> = stmt.was]_vars

=============================================================================
