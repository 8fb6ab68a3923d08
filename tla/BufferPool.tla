----------------------------- MODULE BufferPool -----------------------------
(***************************************************************************)
(* BufferPoolManager (src/storage/buffer_pool_manager.cpp) over one file   *)
(* of DiskManager.  Every operation holds latch_ from end to end and is    *)
(* one action; what is not under the latch is the work of the clients, who *)
(* keep a Page pointer, that is a frame, from fetch_page to unpin_page and *)
(* write through it whenever they like.                                    *)
(*                                                                         *)
(* The contract of a client: it unpins with is_dirty = true every page it  *)
(* has written or created (all callers in record/ and index/ do), and it   *)
(* asks only for pages that are in the file (RmFileHandle compares the     *)
(* page number with num_pages).                                            *)
(***************************************************************************)
EXTENDS Integers, Sequences, FiniteSets

CONSTANTS Clients,
          Pages,          \* the page numbers the file may grow to
          InFile,         \* the pages the file has at the start
          pool_size,
          Data, Zero,     \* page contents; a page of zeros
          NoPage,         \* INVALID_PAGE_ID, the page of an unused frame
          Absent          \* a page number beyond the end of the file

ASSUME PoolNotEmpty == pool_size \in Nat \ {0}
ASSUME FewClients == IsFiniteSet(Clients)
ASSUME PagesOfFile == InFile \subseteq Pages /\ NoPage \notin Pages
ASSUME Contents == Zero \in Data /\ Absent \notin Data

VARIABLES page_table, pages, free_list, replacer,
          disk,           \* the pages as the file has them
          allocated,      \* the pages below fd2pageno_
          ptr,            \* the frames a client has pointers to
          wrote           \* the pages it must unpin as dirty

pool == <<page_table, pages, free_list, replacer, disk>>
vars == <<pool, allocated, ptr, wrote>>

CR == INSTANCE ClockReplacer

Frames  == CR!Frames
NoFrame == -1

Frame == [id : Pages \cup {NoPage}, dirty : BOOLEAN, pin : Nat, data : Data]

TypeOK ==
    /\ page_table \in [Pages -> Frames \cup {NoFrame}]
    /\ pages \in [Frames -> Frame]
    /\ free_list \in Seq(Frames)
    /\ replacer \in CR!Replacer
    /\ disk \in [Pages -> Data \cup {Absent}]
    /\ allocated \subseteq Pages
    /\ ptr \in [Clients -> [Pages -> Frames \cup {NoFrame}]]
    /\ wrote \in [Clients -> SUBSET Pages]

Init ==
    /\ page_table = [p \in Pages |-> NoFrame]
    /\ pages = [f \in Frames |-> [id |-> NoPage, dirty |-> FALSE, pin |-> 0, data |-> Zero]]
    /\ free_list = [i \in 1 .. pool_size |-> i - 1]
    /\ replacer = CR!NewReplacer
    /\ disk = [p \in Pages |-> IF p \in InFile THEN Zero ELSE Absent]
    /\ allocated = InFile
    /\ ptr = [c \in Clients |-> [p \in Pages |-> NoFrame]]
    /\ wrote = [c \in Clients |-> {}]

-----------------------------------------------------------------------------
(* Pieces of the operations *)

(* find_victim_page: whether it succeeds, the frame, and what it leaves *)
CanFindVictim == free_list # << >> \/ CR!CanEvict(replacer)

VictimFrame == IF free_list # << >> THEN Head(free_list) ELSE CR!victim_frame(replacer)

find_victim_page(f) ==
    /\ CanFindVictim
    /\ f = VictimFrame
    /\ free_list' = IF free_list # << >> THEN Tail(free_list) ELSE free_list
    /\ replacer' = CR!pin(IF free_list # << >> THEN replacer ELSE CR!victim(replacer), f)

(* Mutant: a dirty page is overwritten without being saved. *)
update_page_NoWriteBack(f, p) ==
    /\ disk' = disk
    /\ page_table' = [q \in Pages |-> IF q = p THEN f
                                      ELSE IF q = pages[f].id THEN NoFrame
                                      ELSE page_table[q]]

(* update_page: the frame's page goes back to disk if it is dirty, and the *)
(* page table leads from p to the frame instead.                           *)
update_page(f, p) ==
    /\ disk' = IF pages[f].dirty /\ pages[f].id # NoPage
                 THEN [disk EXCEPT ![pages[f].id] = pages[f].data] ELSE disk
    /\ page_table' = [q \in Pages |-> IF q = p THEN f
                                      ELSE IF q = pages[f].id THEN NoFrame
                                      ELSE page_table[q]]

(* The frame once it holds p, with the dirty flag update_page leaves *)
Holding(f, p, pins, data) ==
    [id |-> p, dirty |-> pages[f].dirty /\ pages[f].id = NoPage, pin |-> pins, data |-> data]

Points(c, p, f) == ptr' = [ptr EXCEPT ![c][p] = f]

-----------------------------------------------------------------------------
(* The operations of BufferPoolManager *)

fetch_hit(c, p) ==
    /\ ptr[c][p] = NoFrame
    /\ page_table[p] # NoFrame
    /\ LET f == page_table[p]
       IN  /\ replacer' = CR!pin(replacer, f)
           /\ pages' = [pages EXCEPT ![f].pin = @ + 1]
           /\ Points(c, p, f)
    /\ UNCHANGED <<page_table, free_list, disk, allocated, wrote>>

(* read_page throws for a page that is Absent: under the contract of the   *)
(* clients such a page is never asked for (see TypeOK).                    *)
fetch_miss(c, p) ==
    /\ ptr[c][p] = NoFrame
    /\ p \in allocated
    /\ page_table[p] = NoFrame
    /\ \E f \in Frames :
          /\ find_victim_page(f)
          /\ update_page(f, p)
          /\ pages' = [pages EXCEPT ![f] = Holding(f, p, @.pin + 1, disk'[p])]
          /\ Points(c, p, f)
    /\ UNCHANGED <<allocated, wrote>>

new_page(c, p) ==
    /\ p \notin allocated
    /\ \A q \in Pages : q < p => q \in allocated
    /\ \E f \in Frames :
          /\ find_victim_page(f)
          /\ update_page(f, p)
          /\ pages' = [pages EXCEPT ![f] = Holding(f, p, 1, Zero)]
          /\ Points(c, p, f)
    /\ allocated' = allocated \cup {p}
    /\ wrote' = [wrote EXCEPT ![c] = @ \cup {p}]

(* Mutant: the flag of an earlier unpin is lost. *)
unpin_page_Overwrites(c, p, is_dirty) ==
    /\ ptr[c][p] # NoFrame
    /\ p \in wrote[c] => is_dirty
    /\ page_table[p] # NoFrame
    /\ LET f == page_table[p]
       IN  /\ pages[f].pin # 0
           /\ pages' = [pages EXCEPT ![f].pin = @ - 1, ![f].dirty = is_dirty]
           /\ replacer' = IF pages[f].pin = 1 THEN CR!unpin(replacer, f) ELSE replacer
    /\ Points(c, p, NoFrame)
    /\ wrote' = [wrote EXCEPT ![c] = @ \ {p}]
    /\ UNCHANGED <<page_table, free_list, disk, allocated>>

unpin_page(c, p, is_dirty) ==
    /\ ptr[c][p] # NoFrame
    /\ p \in wrote[c] => is_dirty
    /\ page_table[p] # NoFrame
    /\ LET f == page_table[p]
       IN  /\ pages[f].pin # 0
           /\ pages' = [pages EXCEPT ![f].pin = @ - 1, ![f].dirty = @ \/ is_dirty]
           /\ replacer' = IF pages[f].pin = 1 THEN CR!unpin(replacer, f) ELSE replacer
    /\ Points(c, p, NoFrame)
    /\ wrote' = [wrote EXCEPT ![c] = @ \ {p}]
    /\ UNCHANGED <<page_table, free_list, disk, allocated>>

flush_page(p) ==
    /\ page_table[p] # NoFrame
    /\ LET f == page_table[p]
       IN  /\ disk' = [disk EXCEPT ![p] = pages[f].data]
           /\ pages' = [pages EXCEPT ![f].dirty = FALSE]
    /\ UNCHANGED <<page_table, free_list, replacer, allocated, ptr, wrote>>

(* Every frame that holds a page of the file is written. *)
flush_all_pages ==
    /\ disk' = [p \in Pages |->
                  LET held == {f \in Frames : pages[f].id = p}
                  IN  IF held = {} THEN disk[p] ELSE pages[CHOOSE f \in held : TRUE].data]
    /\ pages' = [f \in Frames |-> IF pages[f].id = NoPage THEN pages[f]
                                  ELSE [pages[f] EXCEPT !.dirty = FALSE]]
    /\ UNCHANGED <<page_table, free_list, replacer, allocated, ptr, wrote>>

(* A client changes the page behind its pointer. *)
write(c, p, d) ==
    /\ ptr[c][p] # NoFrame
    /\ pages' = [pages EXCEPT ![ptr[c][p]].data = d]
    /\ wrote' = [wrote EXCEPT ![c] = @ \cup {p}]
    /\ UNCHANGED <<page_table, free_list, replacer, disk, allocated, ptr>>

Next ==
    \/ \E c \in Clients, p \in Pages :
          \/ fetch_hit(c, p)
          \/ fetch_miss(c, p)
          \/ new_page(c, p)
          \/ \E is_dirty \in BOOLEAN : unpin_page(c, p, is_dirty)
          \/ \E d \in Data : write(c, p, d)
    \/ \E p \in Pages : flush_page(p)
    \/ flush_all_pages

Spec == Init /\ [][Next]_vars

-----------------------------------------------------------------------------
(* Properties *)

(* A frame is in exactly one place: on the free list, once; in the clock;  *)
(* or pinned, by as many clients as its pin count says.  So a frame is     *)
(* neither lost nor given out twice, and fetch_page and new_page return    *)
(* nullptr only when every frame is in use.                                *)
FramesAccountedFor ==
    /\ \A i, j \in DOMAIN free_list : free_list[i] = free_list[j] => i = j
    /\ \A f \in Frames :
          LET free   == \E i \in DOMAIN free_list : free_list[i] = f
              users  == {c \in Clients : \E p \in Pages : ptr[c][p] = f}
          IN  /\ pages[f].pin = Cardinality(users)
              /\ free => ~replacer.in_replacer[f] /\ pages[f].pin = 0
              /\ ~free => (replacer.in_replacer[f] <=> pages[f].pin = 0)
    /\ ~CanFindVictim => \A f \in Frames : pages[f].pin > 0

(* The pointer a client got from fetch_page or new_page leads to that page *)
(* until the client unpins it, whatever is fetched and evicted meanwhile.  *)
PointersStayValid ==
    \A c \in Clients, p \in Pages :
        ptr[c][p] # NoFrame => /\ page_table[p] = ptr[c][p]
                               /\ pages[ptr[c][p]].id = p

(* A page that is clean, and that no client is about to unpin as dirty, is *)
(* on disk as it is in its frame: it may be dropped without being saved.   *)
CleanIsOnDisk ==
    \A p \in Pages :
        LET f == page_table[p]
        IN  (f # NoFrame /\ ~pages[f].dirty /\ \A c \in Clients : p \notin wrote[c])
              => disk[p] = pages[f].data

(* The state of the pool between two operations.  None of the parts could  *)
(* be kept without the others: a frame that is lost or counted twice is    *)
(* evicted under a pointer, and a clean page that is not on disk is lost.  *)
PoolInv == TypeOK /\ FramesAccountedFor /\ PointersStayValid /\ CleanIsOnDisk

(* Seen through the page table the pool is the store that PageStore        *)
(* describes: evictions, flushes and reloads change no page.               *)
PS == INSTANCE PageStore
        WITH Unallocated <- Absent,
             content <- [p \in Pages |-> IF page_table[p] # NoFrame
                                           THEN pages[page_table[p]].data ELSE disk[p]],
             working <- [c \in Clients |-> {p \in Pages : ptr[c][p] # NoFrame}]

KeepsPages == PS!Spec
=============================================================================
