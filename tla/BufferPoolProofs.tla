-------------------------- MODULE BufferPoolProofs --------------------------
(***************************************************************************)
(* BufferPool keeps PoolInv and implements PageStore, for every number of  *)
(* frames, every set of pages and every finite set of clients.             *)
(***************************************************************************)
EXTENDS BufferPool, TLAPS, WellFoundedInduction, FiniteSetTheorems

(* The page table and the frames say the same. *)
MappedIsHeld ==
    \A p \in Pages, f \in Frames : page_table[p] = f <=> pages[f].id = p

(* The clock counts its candidates right. *)
InClock(rep) == {f \in Frames : rep.in_replacer[f]}

SizeCounts == replacer.size = Cardinality(InClock(replacer))

(* What a client has changed it still has a pointer to. *)
WroteIsPinned ==
    \A c \in Clients : \A p \in wrote[c] : ptr[c][p] # NoFrame

(* A page of the file is in a frame or on disk, another page nowhere. *)
PagesAreSomewhere ==
    \A p \in Pages :
        /\ p \in allocated /\ page_table[p] = NoFrame => disk[p] # Absent
        /\ p \notin allocated => page_table[p] = NoFrame /\ disk[p] = Absent

(* FramesAccountedFor, in parts: the free list has a frame once, a pin     *)
(* count is the number of clients, and where the frame is.                 *)
Free(f)  == \E i \in DOMAIN free_list : free_list[i] = f

Users(f) == {c \in Clients : \E p \in Pages : ptr[c][p] = f}

FreeOnce == \A i, j \in DOMAIN free_list : free_list[i] = free_list[j] => i = j

PinsAreUsers == \A f \in Frames : pages[f].pin = Cardinality(Users(f))

OnePlace ==
    \A f \in Frames :
        /\ Free(f) => ~replacer.in_replacer[f] /\ pages[f].pin = 0
        /\ ~Free(f) => (replacer.in_replacer[f] <=> pages[f].pin = 0)

(* A frame on the free list holds no page. *)
FreeIsEmpty == \A f \in Frames : Free(f) => pages[f].id = NoPage

(* The inductive invariant *)
PoolIndInv ==
    /\ TypeOK
    /\ FreeOnce /\ PinsAreUsers /\ OnePlace
    /\ PointersStayValid /\ CleanIsOnDisk
    /\ MappedIsHeld
    /\ FreeIsEmpty
    /\ SizeCounts
    /\ WroteIsPinned
    /\ PagesAreSomewhere

-----------------------------------------------------------------------------
(* The clock *)

(* Frames are the numbers below pool_size, finitely many; -1 is none.      *)
LEMMA FramesFinite ==
    /\ Frames = 0 .. pool_size - 1 /\ Frames \subseteq Nat
    /\ NoFrame \notin Frames
    /\ IsFiniteSet(Frames)
    /\ \A rep : IsFiniteSet(InClock(rep))
<1>1. Frames = 0 .. pool_size - 1 /\ Frames \subseteq Nat /\ NoFrame \notin Frames
  BY PoolNotEmpty DEF Frames, CR!Frames, NoFrame
<1>2. IsFiniteSet(Frames)
  BY <1>1, PoolNotEmpty, FS_Interval
<1>3. \A rep : InClock(rep) \subseteq Frames
  BY DEF InClock
<1> QED
  BY <1>1, <1>2, <1>3, FS_Subset

(* A non-empty set of numbers has a least one. *)
LEMMA HasLeast ==
    ASSUME NEW P \in SUBSET Nat, P # {}
    PROVE  \E i \in P : \A j \in P : i <= j
<1> DEFINE Less == {ss \in Nat \X Nat : ss[1] < ss[2]}
<1>1. OpToRel(<, Nat) = Less
  BY DEF OpToRel
<1>2. IsWellFoundedOn(Less, Nat)
  BY <1>1, NatLessThanWellFounded
<1>3. \A a, b \in Nat : a < b => <<a, b>> \in Less
  OBVIOUS
<1> HIDE DEF Less
<1>4. PICK i \in P : \A j \in P : ~(<<j, i>> \in Less)
  BY <1>2, WFMin
<1>5. \A j \in P : ~(j < i)
  BY <1>3, <1>4
<1> QED
  BY <1>5

(* Going round the frames: what remains of a number, and of one or two     *)
(* rounds more.                                                            *)
LEMMA Rounds ==
    ASSUME NEW n \in Nat \ {0}
    PROVE  /\ \A a \in Nat : a % n \in 0 .. n - 1
           /\ \A f \in 0 .. n - 1 : (f + n) % n = f /\ (f + n + n) % n = f
<1>1. ASSUME NEW a \in Nat PROVE a % n \in 0 .. n - 1
  OBVIOUS
<1>2. ASSUME NEW f \in 0 .. n - 1 PROVE (f + n) % n = f
  OBVIOUS
<1>3. ASSUME NEW f \in 0 .. n - 1 PROVE (f + n + n) % n = f
  OBVIOUS
<1> QED
  BY <1>1, <1>2, <1>3

(* The hand stays within the frames. *)
LEMMA HandInFrames ==
    ASSUME NEW rep \in CR!Replacer, NEW k \in Nat
    PROVE  CR!At(rep, k) \in Frames
<1>1. rep.hand \in 0 .. pool_size - 1
  BY DEF CR!Replacer, CR!Frames
<1>2. rep.hand + k \in Nat
  BY <1>1, PoolNotEmpty
<1> QED
  BY <1>2, PoolNotEmpty, Rounds DEF CR!At, CR!Frames, Frames

(* A candidate is under the hand in the second round. *)
LEMMA SecondRoundStops ==
    ASSUME NEW rep \in CR!Replacer, NEW f \in Frames, rep.in_replacer[f]
    PROVE  CR!Stops(rep) # {}
<1> DEFINE n == pool_size
           h == rep.hand
           k == IF f >= h THEN n + (f - h) ELSE n + (f - h) + n
<1>1. n \in Nat \ {0} /\ h \in 0 .. n - 1 /\ f \in 0 .. n - 1
  BY PoolNotEmpty DEF CR!Replacer, CR!Frames, Frames
<1>2. k \in 0 .. 2 * n - 1 /\ k >= n
  BY <1>1
<1>3. (h + k) % n = f
  <2>1. CASE f >= h
    <3>1. h + k = f + n
      BY <1>1, <2>1
    <3> QED
      BY <1>1, <3>1, Rounds
  <2>2. CASE ~(f >= h)
    <3>1. h + k = f + n + n
      BY <1>1, <2>2
    <3> QED
      BY <1>1, <3>1, Rounds
  <2> QED
    BY <2>1, <2>2
<1> HIDE DEF k
<1>4. k \in CR!Stops(rep)
  BY <1>2, <1>3 DEF CR!Stops, CR!StopsAt, CR!At
<1> QED
  BY <1>4

(* ClockReplacer::victim takes a candidate out of the clock, ...           *)
LEMMA VictimIsCandidate ==
    ASSUME NEW rep \in CR!Replacer, CR!CanEvict(rep),
           rep.size = Cardinality(InClock(rep))
    PROVE  LET f == CR!victim_frame(rep)
           IN  /\ f \in Frames
               /\ rep.in_replacer[f]
               /\ CR!victim(rep) \in CR!Replacer
               /\ CR!victim(rep).in_replacer = [rep.in_replacer EXCEPT ![f] = FALSE]
               /\ CR!victim(rep).size = Cardinality(InClock(CR!victim(rep)))
<1> DEFINE n == CR!FirstStop(rep)
           f == CR!At(rep, n)
<1>1. CR!Stops(rep) \subseteq Nat /\ CR!Stops(rep) # {}
  BY PoolNotEmpty DEF CR!Stops, CR!CanEvict
<1>2. n \in CR!Stops(rep)
  BY <1>1, HasLeast DEF CR!FirstStop
<1>3. n \in Nat /\ rep.in_replacer[f]
  BY <1>1, <1>2 DEF CR!Stops, CR!StopsAt
<1>4. f \in Frames /\ CR!At(rep, n + 1) \in Frames
  BY <1>3, HandInFrames
<1>5. CR!victim_frame(rep) = f
  BY DEF CR!victim_frame
<1> HIDE DEF n
<1>6. /\ CR!victim(rep).in_replacer = [rep.in_replacer EXCEPT ![f] = FALSE]
      /\ CR!victim(rep).size = rep.size - 1
      /\ CR!victim(rep).hand = CR!At(rep, n + 1)
      /\ CR!victim(rep).ref \in [Frames -> BOOLEAN]
      /\ CR!victim(rep) = [in_replacer |-> CR!victim(rep).in_replacer,
                           ref |-> CR!victim(rep).ref, hand |-> CR!victim(rep).hand,
                           size |-> CR!victim(rep).size]
  BY DEF CR!victim, n, Frames
<1>7. InClock(CR!victim(rep)) = InClock(rep) \ {f} /\ f \in InClock(rep)
  BY <1>3, <1>4, <1>6 DEF InClock, CR!Replacer, Frames
<1>8. CR!victim(rep).size = Cardinality(InClock(CR!victim(rep)))
  BY <1>6, <1>7, FramesFinite, FS_RemoveElement
<1>9. CR!victim(rep) \in CR!Replacer
  <2>1. /\ CR!victim(rep).in_replacer \in [Frames -> BOOLEAN]
        /\ CR!victim(rep).size \in Int
        /\ CR!victim(rep).hand \in Frames
    BY <1>4, <1>6 DEF CR!Replacer, Frames
  <2> QED
    BY <1>6, <2>1 DEF CR!Replacer, Frames
<1> QED
  BY <1>3, <1>4, <1>5, <1>6, <1>8, <1>9

(* ... and finds one if there is any.                                      *)
LEMMA NoVictimNoCandidate ==
    ASSUME NEW rep \in CR!Replacer, ~CR!CanEvict(rep),
           rep.size = Cardinality(InClock(rep))
    PROVE  \A f \in Frames : ~rep.in_replacer[f]
<1>1. CASE rep.size = 0
  <2>1. InClock(rep) = {}
    BY <1>1, FramesFinite, FS_EmptySet
  <2> QED
    BY <2>1 DEF InClock
<1>2. CASE CR!Stops(rep) = {}
  BY <1>2, SecondRoundStops
<1> QED
  BY <1>1, <1>2 DEF CR!CanEvict

(* ClockReplacer::pin takes a frame out of the clock, if it is in it.      *)
LEMMA PinTakesOut ==
    ASSUME NEW rep \in CR!Replacer, NEW f \in Frames,
           rep.size = Cardinality(InClock(rep))
    PROVE  /\ CR!pin(rep, f) \in CR!Replacer
           /\ CR!pin(rep, f).in_replacer = [rep.in_replacer EXCEPT ![f] = FALSE]
           /\ CR!pin(rep, f).size = Cardinality(InClock(CR!pin(rep, f)))
<1>1. CASE rep.in_replacer[f]
  <2>1. CR!pin(rep, f) = [in_replacer |-> [rep.in_replacer EXCEPT ![f] = FALSE],
                          ref  |-> [rep.ref EXCEPT ![f] = FALSE],
                          hand |-> rep.hand, size |-> rep.size - 1]
    BY <1>1 DEF CR!pin, CR!Replacer, Frames
  <2>2. CR!pin(rep, f) \in CR!Replacer
    BY <2>1 DEF CR!Replacer, Frames
  <2>3. /\ CR!pin(rep, f).in_replacer = [rep.in_replacer EXCEPT ![f] = FALSE]
        /\ CR!pin(rep, f).size = rep.size - 1
    BY <2>1
  <2>4. InClock(CR!pin(rep, f)) = InClock(rep) \ {f} /\ f \in InClock(rep)
    BY <1>1, <2>3 DEF InClock, CR!Replacer, Frames
  <2> QED
    BY <2>2, <2>3, <2>4, FramesFinite, FS_RemoveElement
<1>2. CASE ~rep.in_replacer[f]
  <2>1. CR!pin(rep, f) = rep
    BY <1>2 DEF CR!pin
  <2>2. rep.in_replacer = [rep.in_replacer EXCEPT ![f] = FALSE]
    BY <1>2 DEF CR!Replacer, Frames
  <2> QED
    BY <2>1, <2>2
<1> QED
  BY <1>1, <1>2

(* ClockReplacer::unpin puts a frame into the clock.                       *)
LEMMA UnpinPutsIn ==
    ASSUME NEW rep \in CR!Replacer, NEW f \in Frames,
           rep.size = Cardinality(InClock(rep))
    PROVE  /\ CR!unpin(rep, f) \in CR!Replacer
           /\ CR!unpin(rep, f).in_replacer = [rep.in_replacer EXCEPT ![f] = TRUE]
           /\ CR!unpin(rep, f).size = Cardinality(InClock(CR!unpin(rep, f)))
<1> DEFINE n == IF rep.in_replacer[f] THEN rep.size ELSE rep.size + 1
<1>1. n \in Int
  BY DEF CR!Replacer
<1>2. CR!unpin(rep, f) = [rep EXCEPT !.in_replacer[f] = TRUE, !.ref[f] = TRUE, !.size = n]
  BY Zenon DEF CR!unpin
<1>3. n = IF f \in InClock(rep) THEN rep.size ELSE rep.size + 1
  BY DEF InClock
<1> HIDE DEF n
<1>4. /\ CR!unpin(rep, f) \in CR!Replacer
      /\ CR!unpin(rep, f).in_replacer = [rep.in_replacer EXCEPT ![f] = TRUE]
      /\ CR!unpin(rep, f).size = n
  <2> DEFINE m == [rep EXCEPT !.in_replacer[f] = TRUE, !.ref[f] = TRUE, !.size = n]
  <2>1. /\ m \in CR!Replacer
        /\ m.in_replacer = [rep.in_replacer EXCEPT ![f] = TRUE]
        /\ m.size = n
    BY <1>1 DEF CR!Replacer, Frames
  <2> HIDE DEF m
  <2>2. CR!unpin(rep, f) = m
    BY <1>2 DEF m
  <2> QED
    BY <2>1, <2>2
<1>5. InClock(CR!unpin(rep, f)) = InClock(rep) \cup {f}
  BY <1>4 DEF InClock, CR!Replacer, Frames
<1> QED
  BY <1>3, <1>4, <1>5, FramesFinite, FS_AddElement
-----------------------------------------------------------------------------
(* Consequences of the invariant *)

(* The inductive invariant implies the one the run checks: only that a     *)
(* victim is found unless all frames are in use remains to be seen.        *)
LEMMA PoolInvFollows ==
    ASSUME PoolIndInv
    PROVE  PoolInv
<1>1. ASSUME ~CanFindVictim, NEW f \in Frames
      PROVE  pages[f].pin > 0
  <2>1. free_list = << >> /\ ~CR!CanEvict(replacer)
    BY <1>1 DEF CanFindVictim
  <2>2. ~Free(f)
    BY <2>1 DEF Free
  <2>3. ~replacer.in_replacer[f]
    BY <2>1, NoVictimNoCandidate DEF PoolIndInv, TypeOK, SizeCounts
  <2>4. pages[f].pin # 0 /\ pages[f].pin \in Nat
    BY <2>2, <2>3 DEF PoolIndInv, OnePlace, TypeOK, Frame
  <2> QED
    BY <2>4
<1>2. FramesAccountedFor
  BY <1>1 DEF FramesAccountedFor, PoolIndInv, FreeOnce, PinsAreUsers, OnePlace, Free, Users
<1> QED
  BY <1>2 DEF PoolInv, PoolIndInv

(* Sets of clients are finite. *)
LEMMA UsersFinite == \A f : IsFiniteSet(Users(f))
<1>1. \A f : Users(f) \subseteq Clients
  BY DEF Users
<1> QED
  BY <1>1, FewClients, FS_Subset

(* find_victim_page takes a frame that nobody uses from the place it is    *)
(* in, and puts it nowhere else.                                           *)
LEMMA VictimIsUnused ==
    ASSUME PoolIndInv, NEW f \in Frames, find_victim_page(f)
    PROVE  /\ pages[f].pin = 0 /\ Users(f) = {}
           /\ replacer' \in CR!Replacer /\ SizeCounts'
           /\ replacer'.in_replacer = [replacer.in_replacer EXCEPT ![f] = FALSE]
           /\ free_list' \in Seq(Frames) /\ FreeOnce'
           /\ \A g \in Frames : Free(g)' <=> (Free(g) /\ g # f)
<1>1. /\ replacer \in CR!Replacer /\ replacer.size = Cardinality(InClock(replacer))
      /\ free_list \in Seq(Frames)
  BY DEF PoolIndInv, TypeOK, SizeCounts
<1>2. CASE free_list # << >>
  <2>1. /\ f = Head(free_list) /\ free_list' = Tail(free_list)
        /\ replacer' = CR!pin(replacer, f)
    BY <1>2 DEF find_victim_page, VictimFrame
  <2>2. /\ replacer' \in CR!Replacer /\ SizeCounts'
        /\ replacer'.in_replacer = [replacer.in_replacer EXCEPT ![f] = FALSE]
    BY <1>1, <2>1, PinTakesOut DEF SizeCounts
  <2>3. /\ free_list' \in Seq(Frames) /\ Len(free_list) \in Nat \ {0}
        /\ DOMAIN free_list = 1 .. Len(free_list)
        /\ DOMAIN free_list' = 1 .. (Len(free_list) - 1)
        /\ free_list[1] = f
        /\ \A i \in DOMAIN free_list' : free_list'[i] = free_list[i + 1]
    BY <1>1, <1>2, <2>1
  <2>4. FreeOnce'
    BY <2>3 DEF PoolIndInv, FreeOnce
  <2>5. ASSUME NEW g \in Frames
        PROVE  Free(g)' <=> (Free(g) /\ g # f)
    <3>1. Free(g)' => Free(g) /\ g # f
      BY <2>3 DEF Free, PoolIndInv, FreeOnce
    <3>2. ASSUME Free(g), g # f
          PROVE  Free(g)'
      <4>1. PICK i \in DOMAIN free_list : free_list[i] = g
        BY <3>2 DEF Free
      <4>2. i - 1 \in DOMAIN free_list' /\ free_list'[i - 1] = g
        BY <2>3, <3>2, <4>1
      <4> QED
        BY <4>2 DEF Free
    <3> QED
      BY <3>1, <3>2
  <2>6. pages[f].pin = 0
    BY <2>3 DEF PoolIndInv, OnePlace, Free
  <2> QED
    BY <2>2, <2>3, <2>4, <2>5, <2>6, UsersFinite, FS_EmptySet DEF PoolIndInv, PinsAreUsers
<1>3. CASE free_list = << >>
  <2>1. /\ CR!CanEvict(replacer) /\ f = CR!victim_frame(replacer)
        /\ free_list' = free_list
        /\ replacer' = CR!pin(CR!victim(replacer), f)
    BY <1>3 DEF find_victim_page, VictimFrame, CanFindVictim
  <2> DEFINE rep == CR!victim(replacer)
  <2>2. /\ rep \in CR!Replacer /\ replacer.in_replacer[f]
        /\ rep.size = Cardinality(InClock(rep))
        /\ rep.in_replacer = [replacer.in_replacer EXCEPT ![f] = FALSE]
    BY <1>1, <2>1, VictimIsCandidate
  <2> HIDE DEF rep
  <2>3. /\ replacer' \in CR!Replacer /\ SizeCounts'
        /\ replacer'.in_replacer = [rep.in_replacer EXCEPT ![f] = FALSE]
    BY <2>1, <2>2, PinTakesOut DEF SizeCounts, rep
  <2>4. replacer'.in_replacer = [replacer.in_replacer EXCEPT ![f] = FALSE]
    BY <1>1, <2>2, <2>3 DEF CR!Replacer, Frames
  <2>5. ~Free(f) /\ pages[f].pin = 0
    BY <2>2 DEF PoolIndInv, OnePlace
  <2>6. FreeOnce' /\ \A g \in Frames : Free(g)' <=> (Free(g) /\ g # f)
    BY <2>1, <2>5 DEF PoolIndInv, FreeOnce, Free
  <2> QED
    BY <1>1, <2>1, <2>3, <2>4, <2>5, <2>6, UsersFinite, FS_EmptySet DEF PoolIndInv, PinsAreUsers
<1> QED
  BY <1>2, <1>3

-----------------------------------------------------------------------------
(* The steps *)

(* What a page holds, seen through the page table *)
Content(p) == IF page_table[p] # NoFrame THEN pages[page_table[p]].data ELSE disk[p]

Working(c) == {p \in Pages : ptr[c][p] # NoFrame}

(* The common part of fetch_page and new_page: an unused frame gives up    *)
(* its page, which is on disk then, and holds p instead.  No other page    *)
(* changes.                                                                *)
LEMMA PageEnters ==
    ASSUME PoolIndInv, NEW c \in Clients, NEW p \in Pages, NEW f \in Frames, NEW d \in Data,
           find_victim_page(f), update_page(f, p),
           page_table[p] = NoFrame, ptr[c][p] = NoFrame,
           pages' = [pages EXCEPT ![f] = Holding(f, p, 1, d)],
           Points(c, p, f),
           allocated' = allocated \cup {p},
           \/ wrote' = wrote /\ d = disk[p]
           \/ wrote' = [wrote EXCEPT ![c] = @ \cup {p}]
    PROVE  /\ PoolIndInv'
           /\ Content(p)' = d
           /\ \A q \in Pages : q # p => Content(q)' = Content(q)
<1> DEFINE old == pages[f].id
<1>1. TypeOK /\ MappedIsHeld /\ PointersStayValid /\ CleanIsOnDisk /\ OnePlace
      /\ PinsAreUsers /\ WroteIsPinned /\ PagesAreSomewhere
  BY DEF PoolIndInv
<1>2. /\ pages[f].pin = 0 /\ Users(f) = {}
      /\ replacer' \in CR!Replacer /\ SizeCounts'
      /\ replacer'.in_replacer = [replacer.in_replacer EXCEPT ![f] = FALSE]
      /\ free_list' \in Seq(Frames) /\ FreeOnce'
      /\ \A g \in Frames : Free(g)' <=> (Free(g) /\ g # f)
  BY VictimIsUnused
<1>3. /\ pages[f] \in Frame /\ old \in Pages \cup {NoPage} /\ old # p
      /\ pages[f].dirty \in BOOLEAN /\ pages[f].data \in Data
  <2>1. pages[f] \in Frame
    BY <1>1 DEF TypeOK
  <2>2. old # p
    BY <1>1, FramesFinite DEF MappedIsHeld
  <2> QED
    BY <2>1, <2>2 DEF Frame
<1>4. /\ Holding(f, p, 1, d) \in Frame
      /\ Holding(f, p, 1, d).id = p /\ Holding(f, p, 1, d).pin = 1
      /\ Holding(f, p, 1, d).data = d
  BY <1>3 DEF Holding, Frame
<1>5. /\ pages' \in [Frames -> Frame]
      /\ pages'[f].id = p /\ pages'[f].pin = 1 /\ pages'[f].data = d
      /\ \A g \in Frames : g # f => pages'[g] = pages[g]
  BY <1>1, <1>4 DEF TypeOK
<1>6. /\ page_table' \in [Pages -> Frames \cup {NoFrame}]
      /\ page_table'[p] = f
      /\ \A q \in Pages : q # p => page_table'[q] = IF q = old THEN NoFrame ELSE page_table[q]
  BY <1>1 DEF update_page, TypeOK
<1>7. /\ disk' \in [Pages -> Data \cup {Absent}]
      /\ \A q \in Pages : q # old => disk'[q] = disk[q]
      /\ old \in Pages => disk'[old] = IF pages[f].dirty THEN pages[f].data ELSE disk[old]
  BY <1>1, <1>3, PagesOfFile DEF update_page, TypeOK
<1>8. /\ ptr' \in [Clients -> [Pages -> Frames \cup {NoFrame}]]
      /\ ptr'[c][p] = f
      /\ \A e \in Clients, q \in Pages : ~(e = c /\ q = p) => ptr'[e][q] = ptr[e][q]
  BY <1>1 DEF Points, TypeOK
<1>9. /\ wrote' \in [Clients -> SUBSET Pages]
      /\ \A e \in Clients : wrote'[e] \subseteq wrote[e] \cup {p}
      /\ \A e \in Clients : wrote[e] \subseteq wrote'[e]
      /\ \A e \in Clients : e # c => wrote'[e] = wrote[e]
      /\ d = disk[p] \/ p \in wrote'[c]
  <2>1. wrote \in [Clients -> SUBSET Pages]
    BY <1>1 DEF TypeOK
  <2>2. CASE wrote' = wrote /\ d = disk[p]
    BY <2>1, <2>2
  <2>3. CASE wrote' = [wrote EXCEPT ![c] = @ \cup {p}]
    BY <2>1, <2>3
  <2> QED
    BY <2>2, <2>3
<1>10. \A e \in Clients : old \in Pages => ptr[e][old] = NoFrame /\ old \notin wrote[e]
  <2> SUFFICES ASSUME NEW e \in Clients, old \in Pages
               PROVE  ptr[e][old] = NoFrame /\ old \notin wrote[e]
    OBVIOUS
  <2>1. page_table[old] = f
    BY <1>1 DEF MappedIsHeld
  <2>2. ptr[e][old] = NoFrame
    BY <1>1, <1>2, <2>1 DEF PointersStayValid, Users
  <2> QED
    BY <1>1, <2>2 DEF WroteIsPinned
<1>11. old \in Pages => disk'[old] = pages[f].data
  BY <1>1, <1>3, <1>7, <1>10, FramesFinite DEF CleanIsOnDisk, MappedIsHeld
<1>12. TypeOK'
  <2>1. allocated' \subseteq Pages
    BY <1>1 DEF TypeOK
  <2> QED
    BY <1>2, <1>5, <1>6, <1>7, <1>8, <1>9, <2>1 DEF TypeOK
<1>13. MappedIsHeld'
  BY <1>1, <1>3, <1>5, <1>6, FramesFinite DEF MappedIsHeld
<1>14. PinsAreUsers'
  <2>1. Users(f)' = {c}
    BY <1>1, <1>2, <1>8, FramesFinite DEF Users
  <2>2. \A g \in Frames : g # f => Users(g)' = Users(g)
    BY <1>8, FramesFinite DEF Users
  <2>3. Cardinality({c}) = 1
    BY FS_Singleton
  <2> QED
    BY <1>1, <1>5, <2>1, <2>2, <2>3 DEF PinsAreUsers
<1>15. OnePlace'
  BY <1>1, <1>2, <1>5 DEF OnePlace, TypeOK, CR!Replacer, Frames
<1>16. FreeIsEmpty'
  BY <1>2, <1>5 DEF PoolIndInv, FreeIsEmpty
<1>17. PointersStayValid'
  BY <1>1, <1>3, <1>5, <1>6, <1>8, <1>10, FramesFinite DEF PointersStayValid, MappedIsHeld, TypeOK
<1>18. WroteIsPinned'
  BY <1>1, <1>8, <1>9, FramesFinite DEF WroteIsPinned, TypeOK
<1>19. PagesAreSomewhere'
  <2> SUFFICES ASSUME NEW q \in Pages
               PROVE  /\ q \in allocated' /\ page_table'[q] = NoFrame => disk'[q] # Absent
                      /\ q \notin allocated' => page_table'[q] = NoFrame /\ disk'[q] = Absent
    BY DEF PagesAreSomewhere
  <2>1. CASE q = p
    BY <1>6, <2>1, FramesFinite
  <2>2. CASE q = old
    <3>1. page_table[q] = f
      BY <1>1, <2>2 DEF MappedIsHeld
    <3>2. q \in allocated
      BY <1>1, <3>1, FramesFinite DEF PagesAreSomewhere
    <3> QED
      BY <1>3, <1>11, <2>2, <3>2, Contents
  <2>3. CASE q # p /\ q # old
    BY <1>1, <1>6, <1>7, <2>3 DEF PagesAreSomewhere
  <2> QED
    BY <2>1, <2>2, <2>3
<1>20. CleanIsOnDisk'
  <2> SUFFICES ASSUME NEW q \in Pages, page_table'[q] # NoFrame,
                      ~pages'[page_table'[q]].dirty,
                      \A e \in Clients : q \notin wrote'[e]
               PROVE  disk'[q] = pages'[page_table'[q]].data
    BY DEF CleanIsOnDisk
  <2>1. CASE q = p
    BY <1>3, <1>5, <1>6, <1>7, <1>9, <2>1
  <2>2. CASE q # p
    <3>1. q # old /\ page_table'[q] = page_table[q] /\ page_table[q] \in Frames
      BY <1>1, <1>6, <2>2 DEF TypeOK
    <3>2. page_table[q] # f
      BY <1>1, <3>1 DEF MappedIsHeld
    <3> QED
      BY <1>1, <1>5, <1>7, <1>9, <2>2, <3>1, <3>2 DEF CleanIsOnDisk
  <2> QED
    BY <2>1, <2>2
<1>21. Content(p)' = d
  BY <1>5, <1>6, FramesFinite DEF Content
<1>22. ASSUME NEW q \in Pages, q # p
       PROVE  Content(q)' = Content(q)
  <2>1. CASE q = old
    <3>1. page_table[q] = f /\ page_table'[q] = NoFrame
      BY <1>1, <1>6, <1>22, <2>1 DEF MappedIsHeld
    <3> QED
      BY <1>11, <2>1, <3>1, FramesFinite DEF Content
  <2>2. CASE q # old
    <3>1. page_table'[q] = page_table[q] /\ disk'[q] = disk[q]
      BY <1>6, <1>7, <1>22, <2>2
    <3>2. page_table[q] # f
      BY <1>1, <2>2 DEF MappedIsHeld
    <3> QED
      BY <1>1, <1>5, <3>1, <3>2 DEF Content, TypeOK
  <2> QED
    BY <2>1, <2>2
<1> QED
  BY <1>2, <1>12, <1>13, <1>14, <1>15, <1>17, <1>18, <1>19, <1>20, <1>21, <1>22,
     <1>16 DEF PoolIndInv

(* fetch_page finds the page in a frame: one more client uses it. *)
LEMMA FetchHit ==
    ASSUME PoolIndInv, NEW c \in Clients, NEW p \in Pages, fetch_hit(c, p)
    PROVE  /\ PoolIndInv'
           /\ p \in allocated
           /\ \A q \in Pages : Content(q)' = Content(q)
<1> DEFINE f == page_table[p]
<1>1. TypeOK /\ MappedIsHeld /\ PointersStayValid /\ CleanIsOnDisk /\ OnePlace
      /\ PinsAreUsers /\ WroteIsPinned /\ PagesAreSomewhere /\ SizeCounts /\ FreeOnce
  BY DEF PoolIndInv
<1>2. /\ f \in Frames /\ ptr[c][p] = NoFrame
      /\ pages[f].id = p /\ pages[f] \in Frame
      /\ replacer' = CR!pin(replacer, f)
      /\ pages' = [pages EXCEPT ![f].pin = @ + 1]
      /\ Points(c, p, f)
      /\ UNCHANGED <<page_table, free_list, disk, allocated, wrote>>
  BY <1>1 DEF fetch_hit, TypeOK, MappedIsHeld
<1>3. /\ pages' \in [Frames -> Frame]
      /\ pages'[f].pin = pages[f].pin + 1
      /\ \A g \in Frames : /\ g # f => pages'[g] = pages[g]
                           /\ pages'[g].id = pages[g].id /\ pages'[g].data = pages[g].data
                           /\ pages'[g].dirty = pages[g].dirty
  <2> DEFINE m == pages[f]
             n == [m EXCEPT !.pin = m.pin + 1]
  <2>1. m \in Frame /\ pages \in [Frames -> Frame]
    BY <1>1, <1>2 DEF TypeOK
  <2>2. pages' = [pages EXCEPT ![f] = n]
    BY <1>2
  <2> HIDE DEF m
  <2>3. /\ n \in Frame /\ n.pin = m.pin + 1
        /\ n.id = m.id /\ n.data = m.data /\ n.dirty = m.dirty
    BY <2>1 DEF Frame
  <2> HIDE DEF n
  <2>4. /\ pages' \in [Frames -> Frame] /\ pages'[f] = n
        /\ \A g \in Frames : g # f => pages'[g] = pages[g]
    BY <1>2, <2>1, <2>2, <2>3
  <2> QED
    BY <2>3, <2>4 DEF m
<1>4. /\ ptr' \in [Clients -> [Pages -> Frames \cup {NoFrame}]]
      /\ ptr'[c][p] = f
      /\ \A e \in Clients, q \in Pages : ~(e = c /\ q = p) => ptr'[e][q] = ptr[e][q]
  BY <1>1, <1>2 DEF Points, TypeOK
<1>5. /\ replacer' \in CR!Replacer /\ SizeCounts'
      /\ replacer'.in_replacer = [replacer.in_replacer EXCEPT ![f] = FALSE]
  BY <1>1, <1>2, PinTakesOut DEF SizeCounts, TypeOK
<1>6. TypeOK'
  BY <1>1, <1>2, <1>3, <1>4, <1>5 DEF TypeOK
<1>7. c \notin Users(f)
  BY <1>1, <1>2, FramesFinite DEF Users, PointersStayValid
<1>8. PinsAreUsers'
  <2>1. Users(f)' = Users(f) \cup {c}
    BY <1>2, <1>4, <1>7, FramesFinite DEF Users
  <2>2. \A g \in Frames : g # f => Users(g)' = Users(g)
    BY <1>2, <1>4, FramesFinite DEF Users
  <2>3. Cardinality(Users(f)') = Cardinality(Users(f)) + 1
    BY <1>7, <2>1, UsersFinite, FS_AddElement
  <2> QED
    BY <1>1, <1>2, <1>3, <2>2, <2>3 DEF PinsAreUsers
<1>9. ~Free(f)
  BY <1>2, PagesOfFile DEF PoolIndInv, FreeIsEmpty
<1>10. FreeOnce' /\ FreeIsEmpty' /\ \A g : Free(g)' <=> Free(g)
  BY <1>2, <1>3 DEF PoolIndInv, FreeOnce, FreeIsEmpty, Free
<1>11. OnePlace'
  <2>1. pages[f].pin \in Nat
    BY <1>2 DEF Frame
  <2>2. pages'[f].pin # 0 /\ ~replacer'.in_replacer[f]
    BY <1>1, <1>2, <1>3, <1>5, <2>1 DEF TypeOK, CR!Replacer, Frames
  <2>3. \A g \in Frames : g # f => replacer'.in_replacer[g] = replacer.in_replacer[g]
    BY <1>1, <1>5 DEF TypeOK, CR!Replacer, Frames
  <2> QED
    BY <1>1, <1>3, <1>9, <1>10, <2>2, <2>3 DEF OnePlace
<1>12. MappedIsHeld' /\ PagesAreSomewhere' /\ CleanIsOnDisk'
  <2>1. \A q \in Pages : page_table[q] # NoFrame => page_table[q] \in Frames
    BY <1>1 DEF TypeOK
  <2> QED
    BY <1>1, <1>2, <1>3, <2>1 DEF MappedIsHeld, PagesAreSomewhere, CleanIsOnDisk
<1>13. PointersStayValid' /\ WroteIsPinned'
  <2>1. ASSUME NEW e \in Clients, NEW q \in Pages, ptr'[e][q] # NoFrame
        PROVE  page_table'[q] = ptr'[e][q] /\ pages'[ptr'[e][q]].id = q
    <3>1. CASE e = c /\ q = p
      BY <1>2, <1>3, <1>4, <3>1
    <3>2. CASE ~(e = c /\ q = p)
      <4>1. ptr'[e][q] = ptr[e][q] /\ ptr[e][q] \in Frames
        BY <1>1, <1>4, <2>1, <3>2 DEF TypeOK
      <4> QED
        BY <1>1, <1>2, <1>3, <2>1, <4>1 DEF PointersStayValid
    <3> QED
      BY <3>1, <3>2
  <2>2. WroteIsPinned'
    BY <1>1, <1>2, <1>4, FramesFinite DEF WroteIsPinned, TypeOK
  <2> QED
    BY <2>1, <2>2 DEF PointersStayValid
<1>14. ASSUME NEW q \in Pages PROVE Content(q)' = Content(q)
  <2>1. page_table[q] # NoFrame => page_table[q] \in Frames
    BY <1>1 DEF TypeOK
  <2>2. page_table'[q] = page_table[q] /\ disk'[q] = disk[q]
    BY <1>2
  <2> QED
    BY <1>3, <2>1, <2>2 DEF Content
<1>15. p \in allocated
  BY <1>1, <1>2, FramesFinite DEF PagesAreSomewhere
<1> QED
  BY <1>5, <1>6, <1>8, <1>10, <1>11, <1>12, <1>13, <1>14, <1>15 DEF PoolIndInv

(* fetch_page reads a page that is in no frame. *)
LEMMA FetchMiss ==
    ASSUME PoolIndInv, NEW c \in Clients, NEW p \in Pages, fetch_miss(c, p)
    PROVE  /\ PoolIndInv'
           /\ p \in allocated
           /\ \A q \in Pages : Content(q)' = Content(q)
<1>1. PICK f \in Frames :
         /\ find_victim_page(f) /\ update_page(f, p) /\ Points(c, p, f)
         /\ pages' = [pages EXCEPT ![f] = Holding(f, p, pages[f].pin + 1, disk'[p])]
  BY DEF fetch_miss
<1>2. /\ ptr[c][p] = NoFrame /\ p \in allocated /\ page_table[p] = NoFrame
      /\ UNCHANGED <<allocated, wrote>>
  BY DEF fetch_miss
<1>3. pages[f].pin = 0
  BY <1>1, VictimIsUnused
<1>4. disk[p] \in Data /\ Content(p) = disk[p]
  BY <1>2 DEF PoolIndInv, PagesAreSomewhere, TypeOK, Content
<1>5. disk'[p] = disk[p]
  <2>1. pages[f].id # p
    BY <1>2, FramesFinite DEF PoolIndInv, MappedIsHeld
  <2> QED
    BY <1>1, <2>1 DEF update_page, PoolIndInv, TypeOK
<1>6. pages' = [pages EXCEPT ![f] = Holding(f, p, 1, disk[p])]
  BY <1>1, <1>3, <1>5
<1>7. allocated' = allocated \cup {p}
  BY <1>2
<1> QED
  BY <1>1, <1>2, <1>4, <1>6, <1>7, PageEnters

(* new_page adds a page of zeros to the file. *)
LEMMA NewPage ==
    ASSUME PoolIndInv, NEW c \in Clients, NEW p \in Pages, new_page(c, p)
    PROVE  /\ PoolIndInv'
           /\ Content(p) = Absent /\ Content(p)' = Zero
           /\ \A q \in Pages : q # p => Content(q)' = Content(q)
<1>1. PICK f \in Frames :
         /\ find_victim_page(f) /\ update_page(f, p) /\ Points(c, p, f)
         /\ pages' = [pages EXCEPT ![f] = Holding(f, p, 1, Zero)]
  BY DEF new_page
<1>2. /\ p \notin allocated /\ allocated' = allocated \cup {p}
      /\ wrote' = [wrote EXCEPT ![c] = @ \cup {p}]
  BY DEF new_page
<1>3. page_table[p] = NoFrame /\ Content(p) = Absent
  BY <1>2 DEF PoolIndInv, PagesAreSomewhere, Content
<1>4. ptr[c][p] = NoFrame
  BY <1>3 DEF PoolIndInv, PointersStayValid
<1> QED
  BY <1>1, <1>2, <1>3, <1>4, Contents, PageEnters

(* unpin_page: one client less uses the frame; the last one puts it into   *)
(* the clock.                                                              *)
LEMMA Unpin ==
    ASSUME PoolIndInv, NEW c \in Clients, NEW p \in Pages, NEW is_dirty \in BOOLEAN,
           unpin_page(c, p, is_dirty)
    PROVE  /\ PoolIndInv'
           /\ \A q \in Pages : Content(q)' = Content(q)
<1> DEFINE f == page_table[p]
<1>1. TypeOK /\ MappedIsHeld /\ PointersStayValid /\ CleanIsOnDisk /\ OnePlace
      /\ PinsAreUsers /\ WroteIsPinned /\ PagesAreSomewhere /\ SizeCounts /\ FreeOnce
  BY DEF PoolIndInv
<1>2. /\ f \in Frames /\ ptr[c][p] = f
      /\ pages[f].id = p /\ pages[f] \in Frame /\ pages[f].pin # 0
      /\ p \in wrote[c] => is_dirty
      /\ replacer' = IF pages[f].pin = 1 THEN CR!unpin(replacer, f) ELSE replacer
      /\ pages' = [pages EXCEPT ![f].pin = @ - 1, ![f].dirty = @ \/ is_dirty]
      /\ Points(c, p, NoFrame)
      /\ wrote' = [wrote EXCEPT ![c] = @ \ {p}]
      /\ UNCHANGED <<page_table, free_list, disk, allocated>>
  BY <1>1 DEF unpin_page, TypeOK, MappedIsHeld, PointersStayValid
<1>3. /\ pages[f].pin \in Nat \ {0} /\ pages[f].dirty \in BOOLEAN
      /\ pages[f].data \in Data
  BY <1>2 DEF Frame
<1>4. pages'[f] = [id |-> p, dirty |-> pages[f].dirty \/ is_dirty,
                   pin |-> pages[f].pin - 1, data |-> pages[f].data]
  BY <1>1, <1>2 DEF TypeOK, Frame
<1>5. /\ pages' \in [Frames -> Frame]
      /\ \A g \in Frames : /\ g # f => pages'[g] = pages[g]
                           /\ pages'[g].id = pages[g].id /\ pages'[g].data = pages[g].data
  BY <1>1, <1>2, <1>3, <1>4 DEF TypeOK, Frame
<1>6. /\ ptr' \in [Clients -> [Pages -> Frames \cup {NoFrame}]]
      /\ ptr'[c][p] = NoFrame
      /\ \A e \in Clients, q \in Pages : ~(e = c /\ q = p) => ptr'[e][q] = ptr[e][q]
  BY <1>1, <1>2 DEF Points, TypeOK
<1>7. /\ wrote' \in [Clients -> SUBSET Pages]
      /\ wrote'[c] = wrote[c] \ {p}
      /\ \A e \in Clients : e # c => wrote'[e] = wrote[e]
  BY <1>1, <1>2 DEF TypeOK
<1>8. /\ replacer' \in CR!Replacer /\ SizeCounts'
      /\ replacer'.in_replacer = IF pages[f].pin = 1
                                   THEN [replacer.in_replacer EXCEPT ![f] = TRUE]
                                   ELSE replacer.in_replacer
  BY <1>1, <1>2, UnpinPutsIn DEF SizeCounts, TypeOK
<1>9. TypeOK'
  BY <1>1, <1>2, <1>5, <1>6, <1>7, <1>8 DEF TypeOK
<1>10. PinsAreUsers'
  <2>1. c \in Users(f) /\ Users(f)' = Users(f) \ {c}
    <3>1. c \in Users(f)
      BY <1>2 DEF Users
    <3>2. \A e \in Clients, q \in Pages : ptr[e][q] = f => q = p
      BY <1>1, <1>2, FramesFinite DEF PointersStayValid
    <3>3. \A e \in Clients, q \in Pages : ptr'[e][q] = f <=> ptr[e][q] = f /\ e # c
      BY <1>2, <1>6, <3>2, FramesFinite
    <3>4. f' = f
      BY <1>2
    <3> QED
      BY <3>1, <3>3, <3>4 DEF Users
  <2>2. \A g \in Frames : g # f => Users(g)' = Users(g)
    BY <1>2, <1>6, FramesFinite DEF Users
  <2>3. Cardinality(Users(f)') = Cardinality(Users(f)) - 1
    BY <2>1, UsersFinite, FS_RemoveElement
  <2> QED
    BY <1>1, <1>2, <1>4, <1>5, <2>2, <2>3 DEF PinsAreUsers
<1>11. FreeOnce' /\ FreeIsEmpty' /\ \A g : Free(g)' <=> Free(g)
  BY <1>2, <1>5 DEF PoolIndInv, FreeOnce, FreeIsEmpty, Free
<1>12. OnePlace'
  <2>1. ~Free(f) /\ ~replacer.in_replacer[f]
    BY <1>1, <1>2, PagesOfFile DEF PoolIndInv, FreeIsEmpty, OnePlace
  <2>2. replacer'.in_replacer[f] <=> pages'[f].pin = 0
    BY <1>1, <1>2, <1>3, <1>4, <1>8, <2>1 DEF TypeOK, CR!Replacer, Frames
  <2>3. \A g \in Frames : g # f => replacer'.in_replacer[g] = replacer.in_replacer[g]
    BY <1>1, <1>8 DEF TypeOK, CR!Replacer, Frames
  <2> QED
    BY <1>1, <1>5, <1>11, <2>1, <2>2, <2>3 DEF OnePlace
<1>13. MappedIsHeld' /\ PagesAreSomewhere'
  BY <1>1, <1>2, <1>5 DEF MappedIsHeld, PagesAreSomewhere
<1>14. PointersStayValid' /\ WroteIsPinned'
  BY <1>1, <1>2, <1>5, <1>6, <1>7, FramesFinite DEF PointersStayValid, WroteIsPinned, TypeOK
<1>15. CleanIsOnDisk'
  <2> SUFFICES ASSUME NEW q \in Pages, page_table'[q] # NoFrame,
                      ~pages'[page_table'[q]].dirty,
                      \A e \in Clients : q \notin wrote'[e]
               PROVE  disk'[q] = pages'[page_table'[q]].data
    BY DEF CleanIsOnDisk
  <2>1. CASE q = p
    <3>1. ~pages[f].dirty /\ ~is_dirty
      <4>1. pages'[f].dirty = (pages[f].dirty \/ is_dirty)
        BY <1>4
      <4>2. ~pages'[f].dirty
        BY <1>2, <2>1
      <4> QED
        BY <4>1, <4>2, Zenon
    <3>2. \A e \in Clients : p \notin wrote[e]
      BY <1>2, <1>7, <2>1, <3>1
    <3> QED
      BY <1>1, <1>2, <1>5, <2>1, <3>1, <3>2, FramesFinite DEF CleanIsOnDisk
  <2>2. CASE q # p
    <3>1. page_table[q] \in Frames /\ page_table[q] # f
      BY <1>1, <1>2, <2>2 DEF MappedIsHeld, TypeOK
    <3>2. \A e \in Clients : q \notin wrote[e]
      BY <1>7, <2>2
    <3> QED
      BY <1>1, <1>2, <1>5, <3>1, <3>2 DEF CleanIsOnDisk
  <2> QED
    BY <2>1, <2>2
<1>16. ASSUME NEW q \in Pages PROVE Content(q)' = Content(q)
  <2>1. page_table[q] # NoFrame => page_table[q] \in Frames
    BY <1>1 DEF TypeOK
  <2>2. page_table'[q] = page_table[q] /\ disk'[q] = disk[q]
    BY <1>2
  <2> QED
    BY <1>5, <2>1, <2>2 DEF Content
<1> QED
  BY <1>8, <1>9, <1>10, <1>11, <1>12, <1>13, <1>14, <1>15, <1>16 DEF PoolIndInv

(* flush_page and flush_all_pages write pages that are in frames to disk   *)
(* as they are there, and change nothing else.                             *)
LEMMA Flush ==
    ASSUME PoolIndInv,
           pages' \in [Frames -> Frame],
           disk' \in [Pages -> Data \cup {Absent}],
           \A g \in Frames : /\ pages'[g].id = pages[g].id /\ pages'[g].pin = pages[g].pin
                             /\ pages'[g].data = pages[g].data,
           \A p \in Pages : \/ page_table[p] \in Frames /\ disk'[p] = pages[page_table[p]].data
                            \/ /\ disk'[p] = disk[p]
                               /\ page_table[p] # NoFrame =>
                                    pages'[page_table[p]] = pages[page_table[p]],
           UNCHANGED <<page_table, free_list, replacer, allocated, ptr, wrote>>
    PROVE  /\ PoolIndInv'
           /\ \A q \in Pages : Content(q)' = Content(q)
<1>1. TypeOK /\ MappedIsHeld /\ PointersStayValid /\ CleanIsOnDisk /\ OnePlace
      /\ PinsAreUsers /\ WroteIsPinned /\ PagesAreSomewhere /\ SizeCounts /\ FreeOnce
      /\ FreeIsEmpty
  BY DEF PoolIndInv
<1>2. TypeOK'
  BY <1>1 DEF TypeOK
<1>3. \A q \in Pages : page_table[q] # NoFrame => page_table[q] \in Frames
  BY <1>1 DEF TypeOK
<1>4. FreeOnce' /\ FreeIsEmpty' /\ OnePlace'
  <2>1. FreeOnce' /\ \A g : Free(g)' <=> Free(g)
    BY <1>1 DEF FreeOnce, Free
  <2>2. \A g \in Frames : replacer'.in_replacer[g] <=> replacer.in_replacer[g]
    OBVIOUS
  <2> QED
    BY <1>1, <2>1, <2>2 DEF FreeIsEmpty, OnePlace
<1>5. PinsAreUsers' /\ SizeCounts' /\ WroteIsPinned'
  <2>1. \A g : Users(g)' = Users(g)
    BY DEF Users
  <2>2. InClock(replacer)' = InClock(replacer)
    BY DEF InClock
  <2> QED
    BY <1>1, <2>1, <2>2 DEF PinsAreUsers, SizeCounts, WroteIsPinned
<1>6. MappedIsHeld'
  BY <1>1 DEF MappedIsHeld
<1>7. PointersStayValid'
  <2>1. \A c \in Clients, p \in Pages : ptr[c][p] # NoFrame => ptr[c][p] \in Frames
    BY <1>1 DEF TypeOK
  <2> QED
    BY <1>1, <2>1 DEF PointersStayValid
<1>8. ASSUME NEW q \in Pages, page_table[q] # NoFrame, ~pages'[page_table[q]].dirty,
             \A c \in Clients : q \notin wrote[c]
      PROVE  disk'[q] = pages'[page_table[q]].data
  <2>1. CASE disk'[q] = pages[page_table[q]].data
    BY <1>3, <1>8, <2>1
  <2>2. CASE disk'[q] = disk[q] /\ pages'[page_table[q]] = pages[page_table[q]]
    BY <1>1, <1>8, <2>2 DEF CleanIsOnDisk
  <2> QED
    BY <1>8, <2>1, <2>2
<1>9. CleanIsOnDisk'
  BY <1>8 DEF CleanIsOnDisk
<1>10. PagesAreSomewhere'
  BY <1>1, FramesFinite DEF PagesAreSomewhere
<1>11. ASSUME NEW q \in Pages PROVE Content(q)' = Content(q)
  <2>1. CASE page_table[q] # NoFrame
    BY <1>3, <2>1 DEF Content
  <2>2. CASE page_table[q] = NoFrame
    BY <2>2, FramesFinite DEF Content
  <2> QED
    BY <2>1, <2>2
<1> QED
  BY <1>2, <1>4, <1>5, <1>6, <1>7, <1>9, <1>10, <1>11 DEF PoolIndInv

(* flush_page writes the frame back, under the pool's latch. *)
LEMMA FlushPage ==
    ASSUME PoolIndInv, NEW p \in Pages, flush_page(p)
    PROVE  PoolIndInv' /\ \A q \in Pages : Content(q)' = Content(q)
<1> DEFINE f == page_table[p]
<1>1. TypeOK /\ MappedIsHeld
  BY DEF PoolIndInv
<1>2. /\ f \in Frames /\ pages[f] \in Frame
      /\ disk' = [disk EXCEPT ![p] = pages[f].data]
      /\ pages' = [pages EXCEPT ![f].dirty = FALSE]
      /\ UNCHANGED <<page_table, free_list, replacer, allocated, ptr, wrote>>
  BY <1>1 DEF flush_page, TypeOK
<1>3. /\ pages' \in [Frames -> Frame]
      /\ \A g \in Frames : g # f => pages'[g] = pages[g]
      /\ \A g \in Frames : /\ pages'[g].id = pages[g].id /\ pages'[g].pin = pages[g].pin
                           /\ pages'[g].data = pages[g].data
  BY <1>1, <1>2 DEF TypeOK, Frame
<1>4. /\ disk' \in [Pages -> Data \cup {Absent}] /\ disk'[p] = pages[f].data
      /\ \A q \in Pages : q # p => disk'[q] = disk[q]
  BY <1>1, <1>2 DEF TypeOK, Frame
<1>5. ASSUME NEW q \in Pages
      PROVE  \/ page_table[q] \in Frames /\ disk'[q] = pages[page_table[q]].data
             \/ /\ disk'[q] = disk[q]
                /\ page_table[q] # NoFrame => pages'[page_table[q]] = pages[page_table[q]]
  <2>1. CASE q = p
    BY <1>2, <1>4, <2>1
  <2>2. CASE q # p
    <3>1. page_table[q] # f /\ (page_table[q] # NoFrame => page_table[q] \in Frames)
      BY <1>1, <1>2, <2>2 DEF MappedIsHeld, TypeOK
    <3> QED
      BY <1>3, <1>4, <2>2, <3>1
  <2> QED
    BY <2>1, <2>2
<1> QED
  BY <1>2, <1>3, <1>4, <1>5, Flush

(* flush_all_pages writes every mapped page back. *)
LEMMA FlushAll ==
    ASSUME PoolIndInv, flush_all_pages
    PROVE  PoolIndInv' /\ \A q \in Pages : Content(q)' = Content(q)
<1>1. TypeOK /\ MappedIsHeld
  BY DEF PoolIndInv
<1>2. UNCHANGED <<page_table, free_list, replacer, allocated, ptr, wrote>>
  BY DEF flush_all_pages
<1>3. ASSUME NEW g \in Frames
      PROVE  /\ pages'[g] \in Frame
             /\ pages'[g].id = pages[g].id /\ pages'[g].pin = pages[g].pin
             /\ pages'[g].data = pages[g].data
  <2>1. pages[g] \in Frame
    BY <1>1 DEF TypeOK
  <2>2. pages'[g] = IF pages[g].id = NoPage THEN pages[g]
                    ELSE [pages[g] EXCEPT !.dirty = FALSE]
    BY DEF flush_all_pages
  <2> QED
    BY <2>1, <2>2 DEF Frame
<1>4. pages' \in [Frames -> Frame]
  BY <1>3 DEF flush_all_pages
<1>5. ASSUME NEW q \in Pages
      PROVE  /\ disk'[q] \in Data \cup {Absent}
             /\ \/ page_table[q] \in Frames /\ disk'[q] = pages[page_table[q]].data
                \/ disk'[q] = disk[q] /\ page_table[q] = NoFrame
  <2> DEFINE held == {f \in Frames : pages[f].id = q}
  <2>1. disk'[q] = IF held = {} THEN disk[q] ELSE pages[CHOOSE f \in held : TRUE].data
    BY DEF flush_all_pages
  <2>2. CASE page_table[q] = NoFrame
    <3>1. held = {}
      BY <1>1, <2>2, FramesFinite DEF MappedIsHeld
    <3> QED
      BY <1>1, <2>1, <2>2, <3>1 DEF TypeOK
  <2>3. CASE page_table[q] # NoFrame
    <3>1. page_table[q] \in Frames /\ held = {page_table[q]}
      BY <1>1, <2>3 DEF MappedIsHeld, TypeOK
    <3>2. (CHOOSE f \in held : TRUE) = page_table[q]
      BY <3>1
    <3>3. disk'[q] = pages[page_table[q]].data
      BY <2>1, <3>1, <3>2
    <3>4. pages[page_table[q]].data \in Data
      BY <1>1, <3>1 DEF TypeOK, Frame
    <3> QED
      BY <3>1, <3>3, <3>4
  <2> QED
    BY <2>2, <2>3
<1>6. disk' \in [Pages -> Data \cup {Absent}]
  BY <1>5 DEF flush_all_pages
<1> QED
  BY <1>2, <1>3, <1>4, <1>5, <1>6, Flush

(* A client changes the page behind its pointer, and no other page. *)
LEMMA ClientWrites ==
    ASSUME PoolIndInv, NEW c \in Clients, NEW p \in Pages, NEW d \in Data, write(c, p, d)
    PROVE  /\ PoolIndInv'
           /\ Content(p)' = d
           /\ \A q \in Pages : q # p => Content(q)' = Content(q)
<1> DEFINE f == page_table[p]
<1>1. TypeOK /\ MappedIsHeld /\ PointersStayValid /\ CleanIsOnDisk /\ OnePlace
      /\ PinsAreUsers /\ WroteIsPinned /\ PagesAreSomewhere /\ SizeCounts /\ FreeOnce
      /\ FreeIsEmpty
  BY DEF PoolIndInv
<1>2. /\ f \in Frames /\ ptr[c][p] = f /\ pages[f] \in Frame
      /\ pages' = [pages EXCEPT ![f].data = d]
      /\ wrote' = [wrote EXCEPT ![c] = @ \cup {p}]
      /\ UNCHANGED <<page_table, free_list, replacer, disk, allocated, ptr>>
  <2>1. ptr[c][p] \in Frames /\ ptr[c][p] = f
    BY <1>1 DEF write, TypeOK, PointersStayValid
  <2>2. pages[f] \in Frame
    BY <1>1, <2>1 DEF TypeOK
  <2> QED
    BY <2>1, <2>2 DEF write
<1>3. /\ pages' \in [Frames -> Frame]
      /\ pages'[f].data = d
      /\ \A g \in Frames : g # f => pages'[g] = pages[g]
      /\ \A g \in Frames : pages'[g].id = pages[g].id /\ pages'[g].pin = pages[g].pin
  BY <1>1, <1>2 DEF TypeOK, Frame
<1>4. /\ wrote' \in [Clients -> SUBSET Pages]
      /\ wrote'[c] = wrote[c] \cup {p}
      /\ \A e \in Clients : e # c => wrote'[e] = wrote[e]
  BY <1>1, <1>2 DEF TypeOK
<1>5. TypeOK'
  BY <1>1, <1>2, <1>3, <1>4 DEF TypeOK
<1>6. FreeOnce' /\ FreeIsEmpty' /\ OnePlace'
  <2>1. FreeOnce' /\ \A g : Free(g)' <=> Free(g)
    BY <1>1, <1>2 DEF FreeOnce, Free
  <2>2. \A g \in Frames : replacer'.in_replacer[g] <=> replacer.in_replacer[g]
    BY <1>2
  <2> QED
    BY <1>1, <1>3, <2>1, <2>2 DEF FreeIsEmpty, OnePlace
<1>7. PinsAreUsers' /\ SizeCounts'
  <2>1. \A g : Users(g)' = Users(g)
    BY <1>2 DEF Users
  <2>2. InClock(replacer)' = InClock(replacer)
    BY <1>2 DEF InClock
  <2> QED
    BY <1>1, <1>2, <1>3, <2>1, <2>2 DEF PinsAreUsers, SizeCounts
<1>8. WroteIsPinned'
  BY <1>1, <1>2, <1>4, FramesFinite DEF WroteIsPinned
<1>9. MappedIsHeld' /\ PagesAreSomewhere'
  BY <1>1, <1>2, <1>3 DEF MappedIsHeld, PagesAreSomewhere
<1>10. PointersStayValid'
  <2>1. \A e \in Clients, q \in Pages : ptr[e][q] # NoFrame => ptr[e][q] \in Frames
    BY <1>1 DEF TypeOK
  <2> QED
    BY <1>1, <1>2, <1>3, <2>1 DEF PointersStayValid
<1>11. \A q \in Pages : q # p => page_table[q] # f /\ (page_table[q] # NoFrame => page_table[q] \in Frames)
  BY <1>1, <1>2 DEF MappedIsHeld, TypeOK
<1>12. CleanIsOnDisk'
  <2> SUFFICES ASSUME NEW q \in Pages, page_table'[q] # NoFrame,
                      ~pages'[page_table'[q]].dirty,
                      \A e \in Clients : q \notin wrote'[e]
               PROVE  disk'[q] = pages'[page_table'[q]].data
    BY DEF CleanIsOnDisk
  <2>1. q # p
    BY <1>4
  <2>2. page_table[q] \in Frames /\ pages'[page_table[q]] = pages[page_table[q]]
    BY <1>2, <1>3, <1>11, <2>1
  <2>3. \A e \in Clients : q \notin wrote[e]
    BY <1>4
  <2> QED
    BY <1>1, <1>2, <2>2, <2>3 DEF CleanIsOnDisk
<1>13. Content(p)' = d
  BY <1>2, <1>3, FramesFinite DEF Content
<1>14. \A q \in Pages : q # p => Content(q)' = Content(q)
  BY <1>2, <1>3, <1>11 DEF Content
<1> QED
  BY <1>5, <1>6, <1>7, <1>8, <1>9, <1>10, <1>12, <1>13, <1>14 DEF PoolIndInv

-----------------------------------------------------------------------------
(* The theorems *)

(* The constructor leaves every frame free and empty. *)
LEMMA InitPool ==
    ASSUME Init
    PROVE  PoolIndInv
<1>1. pages = [f \in Frames |-> [id |-> NoPage, dirty |-> FALSE, pin |-> 0, data |-> Zero]]
  BY DEF Init
<1>2. replacer = [in_replacer |-> [f \in Frames |-> FALSE],
                  ref |-> [f \in Frames |-> FALSE], hand |-> 0, size |-> 0]
  BY DEF Init, CR!NewReplacer, Frames
<1>3. free_list \in Seq(Frames) /\ DOMAIN free_list = 1 .. pool_size
      /\ \A i \in DOMAIN free_list : free_list[i] = i - 1
  BY PoolNotEmpty, FramesFinite DEF Init
<1>4. TypeOK
  <2>1. replacer \in CR!Replacer
    BY <1>2, PoolNotEmpty, FramesFinite DEF CR!Replacer, Frames
  <2>2. pages \in [Frames -> Frame]
    BY <1>1, Contents DEF Frame
  <2> QED
    BY <1>3, <2>1, <2>2, PagesOfFile, Contents DEF Init, TypeOK
<1>5. FreeOnce
  BY <1>3, PoolNotEmpty DEF FreeOnce
<1>6. \A f \in Frames : Free(f)
  <2>1. \A f \in Frames : f + 1 \in 1 .. pool_size /\ (f + 1) - 1 = f
    BY PoolNotEmpty, FramesFinite
  <2> QED
    BY <1>3, <2>1 DEF Free
<1>7. \A f \in Frames : Users(f) = {}
  BY FramesFinite DEF Init, Users
<1>8. PinsAreUsers
  BY <1>1, <1>7, FS_EmptySet DEF PinsAreUsers
<1>9. OnePlace /\ FreeIsEmpty
  BY <1>1, <1>2, <1>6 DEF OnePlace, FreeIsEmpty
<1>10. SizeCounts
  <2>1. InClock(replacer) = {}
    BY <1>2 DEF InClock
  <2> QED
    BY <1>2, <2>1, FS_EmptySet DEF SizeCounts
<1>11. PointersStayValid /\ WroteIsPinned /\ CleanIsOnDisk
  BY DEF Init, PointersStayValid, WroteIsPinned, CleanIsOnDisk
<1>12. MappedIsHeld
  BY <1>1, PagesOfFile, FramesFinite DEF Init, MappedIsHeld
<1>13. PagesAreSomewhere
  BY Contents DEF Init, PagesAreSomewhere
<1> QED
  BY <1>4, <1>5, <1>8, <1>9, <1>10, <1>11, <1>12, <1>13 DEF PoolIndInv

(* Every operation of the pool preserves the invariant. *)
LEMMA NextPool ==
    ASSUME PoolIndInv, [Next]_vars
    PROVE  PoolIndInv'
<1>1. ASSUME NEW c \in Clients, NEW p \in Pages,
             \/ fetch_hit(c, p) \/ fetch_miss(c, p) \/ new_page(c, p)
             \/ \E is_dirty \in BOOLEAN : unpin_page(c, p, is_dirty)
             \/ \E d \in Data : write(c, p, d)
      PROVE  PoolIndInv'
  BY <1>1, FetchHit, FetchMiss, NewPage, Unpin, ClientWrites
<1>2. CASE \E p \in Pages : flush_page(p)
  BY <1>2, FlushPage
<1>3. CASE flush_all_pages
  BY <1>3, FlushAll
<1>4. CASE UNCHANGED vars
  <2>1. UNCHANGED <<page_table, pages, free_list, replacer, disk, allocated, ptr, wrote>>
    BY <1>4 DEF vars, pool
  <2>2. \A f : Users(f)' = Users(f) /\ (Free(f)' <=> Free(f))
    BY <2>1 DEF Users, Free
  <2>3. InClock(replacer)' = InClock(replacer)
    BY <2>1 DEF InClock
  <2>4. TypeOK' /\ FreeOnce' /\ PinsAreUsers' /\ OnePlace' /\ FreeIsEmpty' /\ SizeCounts'
    BY <2>1, <2>2, <2>3 DEF PoolIndInv, TypeOK, FreeOnce, PinsAreUsers, OnePlace, FreeIsEmpty,
                            SizeCounts
  <2>5. PointersStayValid' /\ CleanIsOnDisk' /\ MappedIsHeld' /\ WroteIsPinned'
        /\ PagesAreSomewhere'
    BY <2>1 DEF PoolIndInv, PointersStayValid, CleanIsOnDisk, MappedIsHeld, WroteIsPinned,
                PagesAreSomewhere
  <2> QED
    BY <2>4, <2>5 DEF PoolIndInv
<1> QED
  BY <1>1, <1>2, <1>3, <1>4 DEF Next

(* Whatever the clients fetch, write, unpin and flush: no frame of         *)
(* BufferPoolManager is lost or handed out twice, a frame is evicted only  *)
(* when its last user has unpinned it, a page pointer stays valid until    *)
(* then, and a page that is dropped without being written is on disk.      *)
THEOREM PoolKeepsItsFrames == Spec => []PoolInv
<1>1. Init => PoolIndInv
  BY InitPool
<1>2. PoolIndInv /\ [Next]_vars => PoolIndInv'
  BY NextPool
<1>3. PoolIndInv => PoolInv
  BY PoolInvFollows
<1> QED
  BY <1>1, <1>2, <1>3, PTL DEF Spec

(* The state of the page store, and what the steps of the pool are there   *)
store == [q \in Pages |-> Content(q)]
inUse == [c \in Clients |-> Working(c)]

(* A client that gets or gives back a pointer starts or stops its use. *)
LEMMA PointerMoves ==
    ASSUME TypeOK, NEW c \in Clients, NEW p \in Pages, NEW f \in Frames \cup {NoFrame},
           Points(c, p, f)
    PROVE  inUse' = [inUse EXCEPT ![c] = IF f = NoFrame THEN @ \ {p} ELSE @ \cup {p}]
<1>1. \A e \in Clients, q \in Pages :
         ptr'[e][q] = IF e = c /\ q = p THEN f ELSE ptr[e][q]
  BY DEF Points, TypeOK
<1>2. \A e \in Clients : e # c => Working(e)' = Working(e)
  BY <1>1 DEF Working
<1>3. Working(c)' = IF f = NoFrame THEN Working(c) \ {p} ELSE Working(c) \cup {p}
  BY <1>1 DEF Working
<1> QED
  BY <1>2, <1>3 DEF inUse

(* Every step of the pool is a step of the page store, or none. *)
LEMMA StoreStep ==
    ASSUME PoolIndInv, [Next]_vars
    PROVE  [PS!Next]_(PS!vars)
<1>1. /\ PS!vars = <<store, inUse>>
      /\ (PS!vars)' = <<store', inUse'>>
  BY DEF PS!vars, store, inUse, Content, Working
<1>2. ASSUME \A q \in Pages : Content(q)' = Content(q)
      PROVE  store' = store
  BY <1>2 DEF store
<1>3. ASSUME NEW p \in Pages, NEW d, Content(p)' = d,
             \A q \in Pages : q # p => Content(q)' = Content(q)
      PROVE  store' = [store EXCEPT ![p] = d]
  BY <1>3 DEF store
<1>4. TypeOK /\ PointersStayValid /\ PagesAreSomewhere
  BY DEF PoolIndInv
<1>5. ASSUME NEW q \in Pages, q \in allocated
      PROVE  Content(q) # Absent
  <2>1. page_table[q] \in Frames => pages[page_table[q]].data \in Data
    BY <1>4 DEF TypeOK, Frame
  <2>2. page_table[q] # NoFrame => page_table[q] \in Frames
    BY <1>4 DEF TypeOK
  <2> QED
    BY <1>4, <1>5, <2>1, <2>2, Contents DEF Content, PagesAreSomewhere
<1>6. ASSUME NEW c \in Clients, NEW p \in Pages, fetch_hit(c, p) \/ fetch_miss(c, p)
      PROVE  PS!Pin(c, p)
  <2>1. p \in allocated /\ \A q \in Pages : Content(q)' = Content(q)
    BY <1>6, FetchHit, FetchMiss
  <2>2. \E f \in Frames : Points(c, p, f)
    BY <1>4, <1>6 DEF fetch_hit, fetch_miss, TypeOK
  <2>3. inUse' = [inUse EXCEPT ![c] = @ \cup {p}]
    BY <1>4, <2>2, PointerMoves, FramesFinite
  <2>4. store' = store /\ store[p] # Absent
    BY <1>2, <1>5, <2>1 DEF store
  <2> QED
    BY <2>3, <2>4 DEF PS!Pin, store, inUse, Content, Working
<1>7. ASSUME NEW c \in Clients, NEW p \in Pages, new_page(c, p)
      PROVE  PS!Allocate(c, p)
  <2>1. Content(p) = Absent /\ store' = [store EXCEPT ![p] = Zero]
    BY <1>3, <1>7, NewPage
  <2>2. inUse' = [inUse EXCEPT ![c] = @ \cup {p}]
    BY <1>4, <1>7, PointerMoves, FramesFinite DEF new_page
  <2>3. store[p] = Absent
    BY <2>1 DEF store
  <2> QED
    BY <2>1, <2>2, <2>3 DEF PS!Allocate, store, inUse, Content, Working
<1>8. ASSUME NEW c \in Clients, NEW p \in Pages, NEW is_dirty \in BOOLEAN,
             unpin_page(c, p, is_dirty)
      PROVE  PS!Unpin(c, p)
  <2>1. store' = store
    BY <1>2, <1>8, Unpin
  <2>2. inUse' = [inUse EXCEPT ![c] = @ \ {p}]
    BY <1>4, <1>8, PointerMoves DEF unpin_page
  <2>3. p \in inUse[c]
    BY <1>8 DEF unpin_page, inUse, Working
  <2> QED
    BY <2>1, <2>2, <2>3 DEF PS!Unpin, store, inUse, Content, Working
<1>9. ASSUME NEW c \in Clients, NEW p \in Pages, NEW d \in Data, write(c, p, d)
      PROVE  PS!Write(c, p, d)
  <2>1. store' = [store EXCEPT ![p] = d]
    BY <1>3, <1>9, ClientWrites
  <2>2. inUse' = inUse
    BY <1>9 DEF write, inUse, Working
  <2>3. p \in inUse[c]
    BY <1>9 DEF write, inUse, Working
  <2> QED
    BY <2>1, <2>2, <2>3 DEF PS!Write, store, inUse, Content, Working
<1>10. ASSUME (\E p \in Pages : flush_page(p)) \/ flush_all_pages
       PROVE  UNCHANGED PS!vars
  <2>1. store' = store
    BY <1>2, <1>10, FlushPage, FlushAll
  <2>2. inUse' = inUse
    <3>1. ptr' = ptr
      BY <1>10 DEF flush_page, flush_all_pages
    <3> QED
      BY <3>1 DEF inUse, Working
  <2> QED
    BY <1>1, <2>1, <2>2
<1>11. ASSUME UNCHANGED vars
       PROVE  UNCHANGED PS!vars
  BY <1>1, <1>11 DEF vars, pool, store, inUse, Content, Working
<1>12. ASSUME NEW c \in Clients, NEW p \in Pages,
              \/ PS!Pin(c, p) \/ PS!Allocate(c, p) \/ PS!Unpin(c, p)
              \/ \E d \in Data : PS!Write(c, p, d)
       PROVE  PS!Next
  BY <1>12 DEF PS!Next
<1>13. CASE \E c \in Clients, p \in Pages :
               \/ fetch_hit(c, p) \/ fetch_miss(c, p) \/ new_page(c, p)
               \/ \E is_dirty \in BOOLEAN : unpin_page(c, p, is_dirty)
               \/ \E d \in Data : write(c, p, d)
  BY <1>6, <1>7, <1>8, <1>9, <1>12, <1>13
<1>14. CASE UNCHANGED vars \/ (\E p \in Pages : flush_page(p)) \/ flush_all_pages
  BY <1>10, <1>11, <1>14
<1> QED
  BY <1>13, <1>14 DEF Next

(* Seen through the page table, BufferPoolManager is the store of pages    *)
(* that PageStore describes: fetch_page, new_page and unpin_page open,     *)
(* create and close a page, a page changes only when a client that has it  *)
(* open writes it, and evictions, reloads and flushes are not seen at all. *)
THEOREM PoolImplementsStore == Spec => KeepsPages
<1>1. Init => PS!Init
  <2> SUFFICES ASSUME Init PROVE PS!Init
    OBVIOUS
  <2>1. \A q \in Pages : page_table[q] = NoFrame /\ disk[q] \in Data \cup {Absent}
    BY Contents DEF Init
  <2>2. \A c \in Clients : {p \in Pages : ptr[c][p] # NoFrame} = {}
    BY DEF Init
  <2> QED
    BY <2>1, <2>2 DEF PS!Init
<1>2. Init => PoolIndInv
  BY InitPool
<1>3. PoolIndInv /\ [Next]_vars => PoolIndInv'
  BY NextPool
<1>4. PoolIndInv /\ [Next]_vars => [PS!Next]_(PS!vars)
  BY StoreStep
<1> QED
  BY <1>1, <1>2, <1>3, <1>4, PTL DEF Spec, KeepsPages, PS!Spec
=============================================================================
