--------------------------- MODULE CatalogueProofs ---------------------------
(***************************************************************************)
(* Catalogue keeps CatalogueInv, CreatedTablesSurvive, StartsAgain and     *)
(* FailedIndexLeavesNothing, for any tables, indexes and numbers of frames *)
(* and however often the server dies.                                      *)
(***************************************************************************)
EXTENDS Catalogue, FiniteSetTheorems, TLAPS

-----------------------------------------------------------------------------
(* Sums of functions over finite sets.  FrameSum is what the fold of       *)
(* MapThenSumSet computes.                                                 *)
AnyOf(s) == CHOOSE x \in s : TRUE

IsFold(g, f, S) ==
    g = [s \in SUBSET S |-> IF s = {} THEN 0 ELSE f[AnyOf(s)] + g[s \ {AnyOf(s)}]]

FrameSum(f, S) == (CHOOSE g : IsFold(g, f, S))[S]

(* FrameSum is the sum of the model. *)
LEMMA SumIsFrameSum ==
    ASSUME NEW f, NEW S
    PROVE  MapThenSumSet(LAMBDA x : f[x], S) = FrameSum(f, S)
  BY DEF MapThenSumSet, MapThenFoldSet, FrameSum, IsFold, AnyOf

(* Of some subsets of a finite set one contains no other of them: the      *)
(* induction used below is on the least counterexample.                    *)
LEMMA LeastSubset ==
    ASSUME NEW S, IsFiniteSet(S), NEW T \in SUBSET (SUBSET S), T # {}
    PROVE  \E x \in T : \A y \in SUBSET x : y \in T => y = x
<1>1. T \subseteq FiniteSubsetsOf(S)
  BY FS_Subset DEF FiniteSubsetsOf
<1>2. PICK x \in T : \A y \in T : ~ (<<y, x>> \in StrictSubsetOrdering(S))
  BY <1>1, FS_StrictSubsetOrderingWellFounded, WFMin
<1>3. ASSUME NEW y \in SUBSET x, y \in T, y # x
      PROVE  <<y, x>> \in StrictSubsetOrdering(S)
  BY <1>3 DEF StrictSubsetOrdering
<1>4. ASSUME NEW y \in SUBSET x, y \in T PROVE y = x
  BY <1>2, <1>3, <1>4
<1> QED
  BY <1>4

(* An element that is chosen is one. *)
LEMMA AnyIsOne == ASSUME NEW s, s # {} PROVE AnyOf(s) \in s
  BY DEF AnyOf

(* What a fold is at a set *)
LEMMA FoldAt ==
    ASSUME NEW f, NEW S, NEW g, IsFold(g, f, S), NEW s \in SUBSET S
    PROVE  g[s] = IF s = {} THEN 0 ELSE f[AnyOf(s)] + g[s \ {AnyOf(s)}]
  BY DEF IsFold

(* Folds over a set and over a part of it agree on the part. *)
LEMMA FoldsAgree ==
    ASSUME NEW f, NEW S, IsFiniteSet(S), NEW W \in SUBSET S,
           NEW g, IsFold(g, f, S), NEW h, IsFold(h, f, W)
    PROVE  g[W] = h[W]
<1> DEFINE Bad == {s \in SUBSET W : g[s] # h[s]}
<1>1. SUFFICES ASSUME Bad # {} PROVE FALSE
  OBVIOUS
<1>2. IsFiniteSet(W)
  BY FS_Subset
<1> HIDE DEF Bad
<1>3. PICK s \in Bad : \A y \in SUBSET s : y \in Bad => y = s
  <2>1. Bad \in SUBSET (SUBSET W)
    BY DEF Bad
  <2> QED
    BY <1>1, <1>2, <2>1, LeastSubset
<1> USE DEF Bad
<1>4. CASE s = {}
  BY <1>3, <1>4, FoldAt
<1>5. CASE s # {}
  <2> DEFINE r == s \ {AnyOf(s)}
  <2>1. r \in SUBSET s /\ r # s
    BY <1>5, AnyIsOne
  <2>2. g[r] = h[r]
    BY <1>3, <2>1
  <2>3. g[s] = f[AnyOf(s)] + g[r] /\ h[s] = f[AnyOf(s)] + h[r]
    BY <1>3, <1>5, FoldAt
  <2> QED
    BY <1>3, <2>2, <2>3
<1> QED
  BY <1>4, <1>5

(* A finite set has its fold, and so a sum. *)
LEMMA FoldExists ==
    ASSUME NEW f, NEW S, IsFiniteSet(S)
    PROVE  \E g : IsFold(g, f, S)
<1> DEFINE Bad == {s \in SUBSET S : ~ \E g : IsFold(g, f, s)}
<1>1. SUFFICES ASSUME Bad # {} PROVE FALSE
  OBVIOUS
<1> HIDE DEF Bad
<1>2. PICK U \in Bad : \A y \in SUBSET U : y \in Bad => y = U
  <2>1. Bad \in SUBSET (SUBSET S)
    BY DEF Bad
  <2> QED
    BY <1>1, <2>1, LeastSubset
<1> USE DEF Bad
<1>3. ASSUME NEW V \in SUBSET U, V # U
      PROVE  /\ IsFiniteSet(V)
             /\ IsFold(CHOOSE g : IsFold(g, f, V), f, V)
  <2>1. V \in SUBSET S
    BY <1>2
  <2>2. \E g : IsFold(g, f, V)
    BY <1>2, <1>3, <2>1
  <2> QED
    BY <2>1, <2>2, FS_Subset
<1> DEFINE h == [s \in SUBSET U |-> IF s = {} THEN 0
                                    ELSE f[AnyOf(s)] + FrameSum(f, s \ {AnyOf(s)})]
<1>4. ASSUME NEW V \in SUBSET U, V # U
      PROVE  h[V] = FrameSum(f, V)
  <2> DEFINE g == CHOOSE k : IsFold(k, f, V)
             W == V \ {AnyOf(V)}
  <2>1. IsFold(g, f, V) /\ FrameSum(f, V) = g[V]
    BY <1>3, <1>4 DEF FrameSum
  <2>2. CASE V = {}
    BY <2>1, <2>2, FoldAt
  <2>3. CASE V # {}
    <3>1. W \in SUBSET V /\ W \in SUBSET U /\ W # U
      BY <1>4
    <3> DEFINE k == CHOOSE m : IsFold(m, f, W)
    <3>2. g[W] = FrameSum(f, W)
      <4>1. IsFold(k, f, W) /\ FrameSum(f, W) = k[W] /\ IsFiniteSet(V)
        BY <1>3, <1>4, <3>1 DEF FrameSum
      <4> HIDE DEF g, k, W
      <4> QED
        BY <2>1, <3>1, <4>1, FoldsAgree
    <3>3. g[V] = f[AnyOf(V)] + g[W]
      BY <2>1, <2>3, FoldAt
    <3> QED
      BY <2>1, <2>3, <3>2, <3>3
  <2> QED
    BY <2>2, <2>3
<1>5. IsFold(h, f, U)
  <2>1. ASSUME NEW s \in SUBSET U, s # {}
        PROVE  FrameSum(f, s \ {AnyOf(s)}) = h[s \ {AnyOf(s)}]
    <3>1. s \ {AnyOf(s)} \in SUBSET U /\ s \ {AnyOf(s)} # U
      BY <2>1, AnyIsOne
    <3> QED
      BY <1>4, <3>1
  <2> QED
    BY <2>1 DEF IsFold
<1> QED
  BY <1>2, <1>5

(* The sum of no frames, and of some *)
LEMMA SumAt ==
    ASSUME NEW f, NEW S, IsFiniteSet(S)
    PROVE  FrameSum(f, S) = IF S = {} THEN 0 ELSE f[AnyOf(S)] + FrameSum(f, S \ {AnyOf(S)})
<1> DEFINE g == CHOOSE k : IsFold(k, f, S)
           W == S \ {AnyOf(S)}
           h == CHOOSE k : IsFold(k, f, W)
<1>1. IsFold(g, f, S) /\ FrameSum(f, S) = g[S]
  BY FoldExists DEF FrameSum
<1>2. IsFiniteSet(W) /\ W \in SUBSET S
  BY FS_Subset
<1>3. IsFold(h, f, W) /\ FrameSum(f, W) = h[W]
  BY <1>2, FoldExists DEF FrameSum
<1>4. g[W] = h[W]
  BY <1>1, <1>2, <1>3, FoldsAgree
<1> QED
  BY <1>1, <1>3, <1>4, FoldAt
(* Sums of integers are integers. *)
LEMMA SumType ==
    ASSUME NEW f, NEW S, IsFiniteSet(S), \A x \in S : f[x] \in Int
    PROVE  FrameSum(f, S) \in Int
<1> DEFINE Bad == {s \in SUBSET S : FrameSum(f, s) \notin Int}
<1>1. SUFFICES ASSUME Bad # {} PROVE FALSE
  OBVIOUS
<1> HIDE DEF Bad
<1>2. PICK s \in Bad : \A y \in SUBSET s : y \in Bad => y = s
  <2>1. Bad \in SUBSET (SUBSET S)
    BY DEF Bad
  <2> QED
    BY <1>1, <2>1, LeastSubset
<1>3. s \in SUBSET S /\ IsFiniteSet(s) /\ FrameSum(f, s) \notin Int
  BY <1>2, FS_Subset DEF Bad
<1>4. s # {} /\ AnyOf(s) \in s
  <2>1. s = {} => FrameSum(f, s) = 0
    BY <1>3, SumAt
  <2> QED
    BY <1>3, <2>1, AnyIsOne
<1> DEFINE r == s \ {AnyOf(s)}
<1>5. r \in SUBSET s /\ r # s /\ r \in SUBSET S
  BY <1>3, <1>4
<1>6. FrameSum(f, r) \in Int
  BY <1>2, <1>5 DEF Bad
<1>7. FrameSum(f, s) = f[AnyOf(s)] + FrameSum(f, r)
  BY <1>3, <1>4, SumAt
<1> QED
  BY <1>3, <1>4, <1>6, <1>7

(* The sum does not depend on the order: any element may be taken first. *)
LEMMA SumTakes ==
    ASSUME NEW f, NEW S, IsFiniteSet(S), \A x \in S : f[x] \in Int, NEW x \in S
    PROVE  FrameSum(f, S) = f[x] + FrameSum(f, S \ {x})
<1> DEFINE Bad == {s \in SUBSET S : \E y \in s : FrameSum(f, s) # f[y] + FrameSum(f, s \ {y})}
<1>1. SUFFICES ASSUME Bad # {} PROVE FALSE
  OBVIOUS
<1> HIDE DEF Bad
<1>2. PICK s \in Bad : \A y \in SUBSET s : y \in Bad => y = s
  <2>1. Bad \in SUBSET (SUBSET S)
    BY DEF Bad
  <2> QED
    BY <1>1, <2>1, LeastSubset
<1>3. /\ s \in SUBSET S /\ IsFiniteSet(s)
      /\ \A r \in SUBSET s : IsFiniteSet(r) /\ FrameSum(f, r) \in Int
  BY <1>2, FS_Subset, SumType DEF Bad
<1>4. PICK y \in s : FrameSum(f, s) # f[y] + FrameSum(f, s \ {y})
  BY <1>2 DEF Bad
<1> DEFINE c == AnyOf(s)
<1>5. c \in s /\ FrameSum(f, s) = f[c] + FrameSum(f, s \ {c}) /\ c # y
  BY <1>3, <1>4, AnyIsOne, SumAt
<1> HIDE DEF c
<1>6. ASSUME NEW a \in s, NEW b \in s, a # b
      PROVE  FrameSum(f, s \ {a}) = f[b] + FrameSum(f, (s \ {a}) \ {b})
  <2>1. s \ {a} \in SUBSET s /\ s \ {a} # s /\ s \ {a} \in SUBSET S /\ b \in s \ {a}
    BY <1>3, <1>6
  <2>2. s \ {a} \notin Bad
    BY <1>2, <2>1
  <2> QED
    BY <2>1, <2>2 DEF Bad
<1>7. /\ FrameSum(f, s \ {c}) = f[y] + FrameSum(f, (s \ {c}) \ {y})
      /\ FrameSum(f, s \ {y}) = f[c] + FrameSum(f, (s \ {y}) \ {c})
  BY <1>4, <1>5, <1>6
<1>8. (s \ {y}) \ {c} = (s \ {c}) \ {y}
  OBVIOUS
<1>9. FrameSum(f, (s \ {c}) \ {y}) \in Int /\ f[c] \in Int /\ f[y] \in Int
  <2>1. (s \ {c}) \ {y} \in SUBSET s
    OBVIOUS
  <2> QED
    BY <1>3, <1>4, <1>5, <2>1
<1>10. \A i, j, k \in Int : i + (j + k) = j + (i + k)
  OBVIOUS
<1>11. FrameSum(f, s) = f[c] + (f[y] + FrameSum(f, (s \ {c}) \ {y}))
  BY <1>5, <1>7
<1>12. f[y] + FrameSum(f, s \ {y}) = f[y] + (f[c] + FrameSum(f, (s \ {c}) \ {y}))
  BY <1>7, <1>8
<1> QED
  BY <1>4, <1>9, <1>10, <1>11, <1>12

(* It depends on the values in the set only. *)
LEMMA SumOfEqual ==
    ASSUME NEW f, NEW g, NEW S, IsFiniteSet(S), \A x \in S : f[x] = g[x]
    PROVE  FrameSum(f, S) = FrameSum(g, S)
<1> DEFINE Bad == {s \in SUBSET S : FrameSum(f, s) # FrameSum(g, s)}
<1>1. SUFFICES ASSUME Bad # {} PROVE FALSE
  OBVIOUS
<1> HIDE DEF Bad
<1>2. PICK s \in Bad : \A y \in SUBSET s : y \in Bad => y = s
  <2>1. Bad \in SUBSET (SUBSET S)
    BY DEF Bad
  <2> QED
    BY <1>1, <2>1, LeastSubset
<1>3. s \in SUBSET S /\ IsFiniteSet(s) /\ FrameSum(f, s) # FrameSum(g, s)
  BY <1>2, FS_Subset DEF Bad
<1>4. s # {} /\ AnyOf(s) \in s
  BY <1>3, SumAt, AnyIsOne
<1>5. FrameSum(f, s \ {AnyOf(s)}) = FrameSum(g, s \ {AnyOf(s)})
  BY <1>2, <1>3, <1>4 DEF Bad
<1>6. /\ FrameSum(f, s) = f[AnyOf(s)] + FrameSum(f, s \ {AnyOf(s)})
      /\ FrameSum(g, s) = g[AnyOf(s)] + FrameSum(g, s \ {AnyOf(s)})
  BY <1>3, <1>4, SumAt
<1> QED
  BY <1>3, <1>4, <1>5, <1>6

-----------------------------------------------------------------------------
(* The inductive invariant *)

(* What a catalogue may be: tables, and for each some of its indexes *)
IsTabs(f) ==
    /\ f = [t \in DOMAIN f |-> f[t]] /\ DOMAIN f \subseteq TableNames
    /\ \A t \in DOMAIN f : f[t] \subseteq {x \in Indexes : TableOf[x] = t}

Named(f) == DOMAIN f \union UNION Range(f)

(* What db_ and a db.meta that is written may be *)
IsDb(d) ==
    /\ d = [named |-> d.named, tabs |-> d.tabs, long |-> d.long, blank |-> d.blank]
    /\ d.named \in BOOLEAN /\ IsTabs(d.tabs)
    /\ d.long \subseteq UNION Range(d.tabs) /\ d.blank \subseteq DOMAIN d.tabs

IsWritten(m) ==
    /\ m = [is |-> "whole", named |-> m.named, tabs |-> m.tabs, long |-> m.long,
            blank |-> m.blank, first |-> m.first, last |-> m.last]
    /\ m.named \in BOOLEAN /\ IsTabs(m.tabs)

(* What the steps of a statement keep in stmt *)
IsStmt ==
    \/ stmt = Idle
    \/ /\ stmt.at = "open" /\ stmt = [at |-> "open", todo |-> stmt.todo, next |-> stmt.next]
       /\ stmt.todo \subseteq Files /\ stmt.next \subseteq stmt.todo
    \/ /\ stmt.at = "build" /\ stmt = [at |-> "build", ix |-> stmt.ix, was |-> stmt.was]
       /\ stmt.ix \in Indexes
    \/ /\ stmt.at \in {"flush", "write"}
       /\ stmt = [at |-> stmt.at, for |-> stmt.for, adds |-> stmt.adds]
       /\ stmt.for \in {"create", "drop"} /\ stmt.adds \subseteq DOMAIN tabs
    \/ /\ stmt.at \in {"close", "write_close"}
       /\ stmt = [at |-> stmt.at, for |-> "close"]

Typed ==
    /\ files \subseteq Files /\ kept \subseteq TableNames
    /\ \/ meta \in {NoMeta, Truncated}
       \/ IsWritten(meta)
    /\ IsDb(db)
    /\ opened = [f \in DOMAIN opened |-> 1] /\ DOMAIN opened \subseteq files
    /\ server \in {"create_db", "down", "up"}
    /\ IsStmt
    /\ crashes \in 0 .. MaxCrashes

(* The pools are those of the handles, and their frames are counted. *)
Pools ==
    /\ handles \subseteq DOMAIN opened
    /\ pools = [f \in handles |-> pools[f]]
    /\ \A f \in handles : pools[f] \in Nat \ {0}
    /\ use_num \in Int /\ use_num <= tot_num
    /\ use_num = FrameSum(pools, DOMAIN pools)

(* A server that is not up has nothing in memory. *)
DownIsEmpty ==
    server # "up" =>
        /\ db = NoTables /\ handles = {} /\ opened = Nothing
        /\ pools = Nothing /\ use_num = 0 /\ stmt = Idle

(* open_db: what is to be opened and what is open are together what the    *)
(* catalogue names.  Later every table is open, and every index has its    *)
(* handle.                                                                 *)
Opened ==
    /\ stmt.at = "open" =>
          /\ DOMAIN opened = handles
          /\ stmt.todo \intersect handles = {}
          /\ stmt.todo \union handles = Named(tabs)
    /\ stmt.at # "open" =>
          /\ DOMAIN tabs \subseteq DOMAIN opened
          /\ UNION Range(tabs) \subseteq handles

(* An index that is being built is not in the catalogue, and what CREATE   *)
(* INDEX has changed is known.                                             *)
Building ==
    stmt.at = "build" =>
        LET x == stmt.ix
        IN  /\ x \in handles /\ TableOf[x] \in DOMAIN tabs
            /\ x \notin tabs[TableOf[x]]
            /\ harm = {} => x \notin Named(meta.tabs)
            /\ stmt.was = <<files \ {x}, <<db, handles \ {x}, Without(opened, x),
                                           Without(pools, x), use_num - pools[x]>>>>

(* Without a death inside flush_meta the disk always has a db.meta to      *)
(* start from, ...                                                         *)
MetaIsSound ==
    "flush_meta" \notin harm =>
        /\ meta = NoMeta => kept = {} /\ server # "up"
        /\ meta = NoMeta /\ server = "down" => "create_db" \in harm
        /\ server = "create_db" => meta = NoMeta
        /\ meta = Truncated => stmt.at \in {"write", "write_close"}
        /\ meta.is = "whole" => meta.named
        /\ server = "up" => db.named

Unharmed == harm \intersect {"flush_meta", "misread"} = {}

(* ... which has the tables that were created, ... *)
KeptIsNamed ==
    /\ kept \subseteq files
    /\ Unharmed =>
          /\ server = "up" => kept \subseteq DOMAIN tabs
          /\ meta.is = "whole" => kept \subseteq DOMAIN meta.tabs

(* ... and between statements what db_ has, unless a table has no handle   *)
(* for want of frames.                                                     *)
Agrees == meta.is = "whole" /\ meta.tabs = tabs

MetaIsCurrent ==
    Unharmed /\ server = "up" =>
        /\ stmt.at = "open" => Agrees
        /\ stmt.at \in {"idle", "build"} => Agrees \/ \E t \in DOMAIN tabs : t \notin handles

(* Until a death leaves something half done, what db.meta names is on      *)
(* disk, except while a statement that drops it is on its way to flush_meta. *)
NamedIsThere ==
    harm = {} /\ meta.is = "whole" /\ ~ (stmt.at = "flush" /\ stmt.for = "drop") =>
        Named(meta.tabs) \subseteq files

CatalogueIndInv ==
    /\ Typed /\ Pools /\ DownIsEmpty /\ Opened /\ Building
    /\ MetaIsSound /\ KeptIsNamed /\ MetaIsCurrent /\ NamedIsThere
-----------------------------------------------------------------------------
(* Opening and closing of files *)

(* The lesser of two numbers *)
LEMMA MinOfTwo ==
    ASSUME NEW a \in Int, NEW b \in Int
    PROVE  Min({a, b}) = IF a <= b THEN a ELSE b
<1> DEFINE m == IF a <= b THEN a ELSE b
<1>1. m \in {a, b} /\ \A y \in {a, b} : m <= y
  OBVIOUS
<1>2. \A x \in {a, b} : (\A y \in {a, b} : x <= y) => x = m
  OBVIOUS
<1> QED
  BY <1>1, <1>2 DEF Min

(* A pool gets at most what is left. *)
LEMMA PoolSize ==
    ASSUME Pools, NEW f
    PROVE  pool_size(f) \in Nat /\ pool_size(f) <= tot_num - use_num
<1> DEFINE want == IF f \in Indexes THEN INDEX_POOL_SIZE ELSE FILE_POOL_SIZE
<1>1. want \in Nat /\ tot_num - use_num \in Nat
  BY PoolsHaveFrames DEF Pools
<1>2. pool_size(f) = IF want <= tot_num - use_num THEN want ELSE tot_num - use_num
  BY <1>1, MinOfTwo DEF pool_size
<1> QED
  BY <1>1, <1>2

(* The handles are finitely many. *)
LEMMA FewHandles ==
    ASSUME Typed, Pools
    PROVE  IsFiniteSet(handles) /\ handles \subseteq Files /\ DOMAIN pools = handles
<1>1. handles \subseteq Files /\ DOMAIN pools = handles
  BY DEF Typed, Pools
<1> QED
  BY <1>1, FilesAreNamedApart, FS_Subset

(* Opening a file that is not open *)
LEMMA OpensOne ==
    ASSUME Typed, Pools, NEW n \in Files, n \notin DOMAIN opened, open_handle(n)
    PROVE  /\ opened' = [f \in DOMAIN opened' |-> 1] /\ DOMAIN opened' = DOMAIN opened \union {n}
           /\ handles' = IF pool_size(n) = 0 THEN handles ELSE handles \union {n}
           /\ Pools'
           /\ pool_size(n) # 0 =>
                 /\ handles' \ {n} = handles
                 /\ Without(opened', n) = opened /\ Without(pools', n) = pools
                 /\ use_num' - pools'[n] = use_num
<1> DEFINE k == pool_size(n)
<1>1. k \in Nat /\ k <= tot_num - use_num
  BY PoolSize
<1> HIDE DEF k
<1>2. /\ opened' = With(opened, n, 1)
      /\ k = 0 => UNCHANGED <<handles, pools, use_num>>
      /\ k # 0 => /\ pools' = With(pools, n, k) /\ use_num' = use_num + k
                  /\ handles' = handles \union {n}
  BY DEF open_handle, open_file, get_pool, k
<1>3. opened = [f \in DOMAIN opened |-> 1] /\ n \notin handles
  BY DEF Typed, Pools
<1>4. /\ opened' = [f \in DOMAIN opened' |-> 1] /\ DOMAIN opened' = DOMAIN opened \union {n}
      /\ Without(opened', n) = opened
  BY <1>2, <1>3 DEF With, Without, Restrict
<1>5. IsFiniteSet(handles) /\ DOMAIN pools = handles /\ pools = [f \in handles |-> pools[f]]
  BY FewHandles DEF Pools
<1>6. CASE k = 0
  BY <1>2, <1>4, <1>6 DEF Pools, k
<1>7. CASE k # 0
  <2>1. /\ handles' = handles \union {n} /\ DOMAIN pools' = handles'
        /\ pools' = [f \in handles' |-> pools'[f]] /\ pools'[n] = k
        /\ \A f \in handles : pools'[f] = pools[f]
        /\ Without(pools', n) = pools
    BY <1>2, <1>3, <1>5, <1>7 DEF With, Without, Restrict
  <2>2. use_num \in Int /\ use_num' = use_num + k /\ use_num' <= tot_num
    BY <1>1, <1>2, <1>7, PoolsHaveFrames DEF Pools
  <2>3. \A f \in handles' : pools'[f] \in Nat \ {0}
    BY <1>1, <1>7, <2>1 DEF Pools
  <2>4. IsFiniteSet(handles') /\ handles' \ {n} = handles
    BY <1>3, <1>5, <2>1, FS_AddElement
  <2>5. FrameSum(pools', handles') = pools'[n] + FrameSum(pools', handles' \ {n})
    BY <2>1, <2>3, <2>4, SumTakes
  <2>6. FrameSum(pools', handles) = FrameSum(pools, handles)
    BY <1>5, <2>1, SumOfEqual
  <2>7. use_num = FrameSum(pools, handles)
    BY <1>5 DEF Pools
  <2>8. use_num' = FrameSum(pools', DOMAIN pools')
    <3>1. k + use_num = use_num + k
      BY <1>1, <2>2
    <3> QED
      BY <2>1, <2>2, <2>4, <2>5, <2>6, <2>7, <3>1
  <2>9. handles' \subseteq DOMAIN opened'
    BY <1>4, <2>1 DEF Pools
  <2>10. Pools'
    BY <1>1, <2>1, <2>2, <2>3, <2>8, <2>9 DEF Pools
  <2> QED
    BY <1>1, <1>4, <1>7, <2>1, <2>2, <2>4, <2>10 DEF k
<1> QED
  BY <1>6, <1>7

(* Closing a file with a handle *)
LEMMA ClosesOne ==
    ASSUME Typed, Pools, NEW n \in handles, close_handle(n)
    PROVE  /\ opened' = Without(opened, n)
           /\ opened' = [f \in DOMAIN opened' |-> 1] /\ DOMAIN opened' = DOMAIN opened \ {n}
           /\ handles' = handles \ {n}
           /\ pools' = Without(pools, n) /\ use_num' = use_num - pools[n]
           /\ Pools'
<1>1. opened = [f \in DOMAIN opened |-> 1] /\ n \in DOMAIN opened /\ opened[n] = 1
  BY DEF Typed, Pools
<1>2. /\ opened' = Without(opened, n) /\ handles' = handles \ {n}
      /\ pools' = Without(pools, n) /\ use_num' = use_num - pools[n]
  BY <1>1 DEF close_handle, delete_pool, close_file
<1>3. opened' = [f \in DOMAIN opened' |-> 1] /\ DOMAIN opened' = DOMAIN opened \ {n}
  BY <1>1, <1>2 DEF Without, Restrict
<1>4. IsFiniteSet(handles) /\ DOMAIN pools = handles /\ pools = [f \in handles |-> pools[f]]
  BY FewHandles DEF Pools
<1>5. /\ DOMAIN pools' = handles' /\ pools' = [f \in handles' |-> pools'[f]]
      /\ \A f \in handles' : pools'[f] = pools[f]
  BY <1>2, <1>4 DEF Without, Restrict
<1>6. \A f \in handles : pools[f] \in Nat \ {0}
  BY DEF Pools
<1>7. IsFiniteSet(handles')
  BY <1>2, <1>4, FS_RemoveElement
<1>8. /\ FrameSum(pools, handles) = pools[n] + FrameSum(pools, handles')
      /\ FrameSum(pools, handles') \in Int
  BY <1>2, <1>4, <1>6, <1>7, SumTakes, SumType
<1>9. FrameSum(pools', handles') = FrameSum(pools, handles')
  BY <1>5, <1>7, SumOfEqual
<1>10. use_num = FrameSum(pools, handles) /\ use_num \in Int /\ use_num <= tot_num
  BY <1>4 DEF Pools
<1>11. use_num' = FrameSum(pools', DOMAIN pools') /\ use_num' \in Int /\ use_num' <= tot_num
  BY <1>2, <1>5, <1>6, <1>8, <1>9, <1>10, PoolsHaveFrames
<1>13. handles' \subseteq DOMAIN opened' /\ \A f \in handles' : pools'[f] \in Nat \ {0}
  BY <1>2, <1>3, <1>5, <1>6 DEF Pools
<1>14. Pools'
  BY <1>5, <1>11, <1>13 DEF Pools
<1> QED
  BY <1>2, <1>3, <1>14

(* Closing an index, which may have no handle, or not even be open *)
LEMMA ClosesIndex ==
    ASSUME Typed, Pools, NEW n \in Files, close_index(n)
    PROVE  /\ opened' = [f \in DOMAIN opened' |-> 1] /\ DOMAIN opened' = DOMAIN opened \ {n}
           /\ handles' = handles \ {n}
           /\ Pools'
<1>1. CASE n \in handles
  BY <1>1, ClosesOne DEF close_index
<1>2. CASE n \notin handles
  <2>1. UNCHANGED <<pools, use_num, handles>> /\ handles \ {n} = handles
    BY <1>2 DEF close_index
  <2>2. opened = [f \in DOMAIN opened |-> 1] /\ (n \in DOMAIN opened => opened[n] = 1)
    BY DEF Typed
  <2>3. opened' = IF n \in DOMAIN opened THEN Without(opened, n) ELSE opened
    BY <1>2, <2>2 DEF close_index, close_file
  <2>4. opened' = [f \in DOMAIN opened' |-> 1] /\ DOMAIN opened' = DOMAIN opened \ {n}
    BY <2>2, <2>3 DEF Without, Restrict
  <2>5. Pools'
    BY <1>2, <2>1, <2>4 DEF Pools
  <2> QED
    BY <2>1, <2>4, <2>5
<1> QED
  BY <1>1, <1>2

-----------------------------------------------------------------------------
(* The empty catalogue *)
LEMMA NothingNamed ==
    /\ IsTabs(Nothing) /\ DOMAIN Nothing = {} /\ Named(Nothing) = {} /\ UNION Range(Nothing) = {}
    /\ IsDb(NoTables)
<1>1. /\ IsTabs(Nothing) /\ DOMAIN Nothing = {} /\ Named(Nothing) = {}
      /\ UNION Range(Nothing) = {}
  BY DEF Nothing, IsTabs, Named, Range
<1>2. /\ NoTables = [named |-> FALSE, tabs |-> Nothing, long |-> {}, blank |-> {}]
      /\ NoTables.named = FALSE /\ NoTables.tabs = Nothing
      /\ NoTables.long = {} /\ NoTables.blank = {}
  BY DEF NoTables
<1> QED
  BY <1>1, <1>2 DEF IsDb

(* A catalogue names its tables and their indexes. *)
LEMMA NamesOf ==
    ASSUME NEW f, IsTabs(f)
    PROVE  /\ Named(f) \subseteq Files
           /\ \A x : x \in Named(f) <=> x \in DOMAIN f \/ \E t \in DOMAIN f : x \in f[t]
           /\ \A x : x \in UNION Range(f) <=> \E t \in DOMAIN f : x \in f[t]
           /\ \A t \in DOMAIN f : \A x \in f[t] : x \in Indexes /\ TableOf[x] = t
           /\ \A x \in UNION Range(f) : x \in Indexes
<1>1. \A t \in DOMAIN f : \A x \in f[t] : x \in Indexes /\ TableOf[x] = t
  BY DEF IsTabs
<1>2. \A x : x \in UNION Range(f) <=> \E t \in DOMAIN f : x \in f[t]
  BY DEF Range
<1>3. \A x : x \in Named(f) <=> x \in DOMAIN f \/ \E t \in DOMAIN f : x \in f[t]
  BY <1>2 DEF Named
<1>4. \A x \in UNION Range(f) : x \in Indexes
  BY <1>1, <1>2
<1>5. Named(f) \subseteq Files
  BY <1>1, <1>3 DEF IsTabs, Files
<1> QED
  BY <1>1, <1>2, <1>3, <1>4, <1>5

(* No table is an index. *)
LEMMA TablesAreNoIndexes == \A t \in TableNames : t \in Files /\ t \notin Indexes
  BY FilesAreNamedApart DEF Files

(* An empty pool of pools is counted. *)
LEMMA NoPools == FrameSum(Nothing, DOMAIN Nothing) = 0
  BY NothingNamed, FS_EmptySet, SumAt

(* The invariant holds at the start. *)
LEMMA InitInv == Init => CatalogueIndInv
<1> SUFFICES ASSUME Init PROVE CatalogueIndInv
  OBVIOUS
<1> USE DEF Init
<1>1. Typed
  BY NothingNamed, CrashesAreBounded DEF Typed, IsStmt, Nothing
<1>2. Pools
  BY NoPools, NothingNamed, PoolsHaveFrames DEF Pools, Nothing
<1>3. DownIsEmpty
  BY DEF DownIsEmpty
<1>4. Opened /\ Building
  BY NothingNamed DEF Opened, Building, Idle, tabs, NoTables, Named
<1>5. MetaIsSound /\ KeptIsNamed /\ MetaIsCurrent /\ NamedIsThere
  BY DEF MetaIsSound, KeptIsNamed, MetaIsCurrent, NamedIsThere, NoMeta, Truncated
<1> QED
  BY <1>1, <1>2, <1>3, <1>4, <1>5 DEF CatalogueIndInv

-----------------------------------------------------------------------------
(* The end of the process.  What is left of the memory is right. *)
LEMMA LostMemory ==
    ASSUME Lost
    PROVE  /\ Pools' /\ DownIsEmpty' /\ Opened' /\ Building' /\ MetaIsCurrent'
           /\ stmt' = Idle /\ IsDb(db')
           /\ opened' = [f \in DOMAIN opened' |-> 1] /\ DOMAIN opened' = {}
<1> USE DEF Lost
<1>1. Pools'
  BY NoPools, NothingNamed, PoolsHaveFrames DEF Pools, Nothing
<1>2. DownIsEmpty' /\ MetaIsCurrent'
  BY DEF DownIsEmpty, MetaIsCurrent
<1>3. Opened' /\ Building'
  BY NothingNamed DEF Opened, Building, Idle, tabs, NoTables, Named
<1>4. IsDb(db')
  BY NothingNamed
<1>5. opened' = [f \in DOMAIN opened' |-> 1] /\ DOMAIN opened' = {}
  BY DEF Nothing
<1> QED
  BY <1>1, <1>2, <1>3, <1>4, <1>5

(* The process ends by itself, in a state in which db.meta is written. *)
LEMMA EndsKeepInv ==
    ASSUME CatalogueIndInv, OpenFails \/ NullHandle \/ (close_db /\ ~ db.named)
    PROVE  CatalogueIndInv'
<1>1. Typed /\ MetaIsSound /\ KeptIsNamed /\ NamedIsThere
  BY DEF CatalogueIndInv
<1>2. Lost /\ UNCHANGED <<files, meta, kept, harm, crashes>>
  BY DEF OpenFails, NullHandle, close_db
<1>3. /\ stmt.at \in {"idle", "open", "build"}
      /\ server # "create_db"
  <2>1. server = "create_db" \/ server = "down" => stmt = Idle
    BY DEF CatalogueIndInv, DownIsEmpty
  <2> QED
    BY <2>1 DEF OpenFails, StartFails, NullHandle, close_db, Ready, Idle, CatalogueIndInv,
                DownIsEmpty
<1>4. Typed'
  BY <1>1, <1>2, LostMemory DEF Typed, IsStmt, Lost
<1>5. MetaIsSound'
  <2>1. server \in {"up", "down"} /\ server' = "down"
    BY <1>1, <1>2, <1>3 DEF Typed, Lost
  <2>2. "flush_meta" \notin harm => meta # Truncated
    BY <1>1, <1>3 DEF MetaIsSound
  <2> QED
    BY <1>1, <1>2, <2>1, <2>2 DEF MetaIsSound
<1>6. KeptIsNamed' /\ NamedIsThere'
  BY <1>1, <1>2, <1>3 DEF KeptIsNamed, Unharmed, NamedIsThere, Lost
<1> QED
  BY <1>2, <1>4, <1>5, <1>6, LostMemory DEF CatalogueIndInv

(* The process is killed. *)
LEMMA CrashKeepsInv ==
    ASSUME CatalogueIndInv, Crash
    PROVE  CatalogueIndInv'
<1>1. Typed /\ MetaIsSound /\ KeptIsNamed /\ NamedIsThere /\ DownIsEmpty
  BY DEF CatalogueIndInv
<1>2. /\ Lost /\ UNCHANGED <<files, meta, kept>>
      /\ server \in {"create_db", "up"} /\ server' = "down" /\ stmt' = Idle
      /\ crashes' = crashes + 1 /\ crashes < MaxCrashes
      /\ harm' = harm \union CutOff
  BY DEF Crash, Lost
<1>3. /\ server = "create_db" => CutOff = {"create_db"}
      /\ server = "up" /\ stmt.at \in {"write", "write_close"} => CutOff = {"flush_meta"}
      /\ server = "up" /\ stmt.at = "flush" /\ stmt.for = "drop" => CutOff = {"drop"}
  <2>1. server = "create_db" => stmt.at = "idle"
    BY <1>1 DEF DownIsEmpty, Idle
  <2> QED
    BY <2>1 DEF CutOff
<1>4. Typed'
  BY <1>1, <1>2, LostMemory, CrashesAreBounded DEF Typed, IsStmt
<1>5. MetaIsSound'
  <2>1. SUFFICES ASSUME "flush_meta" \notin harm' PROVE MetaIsSound'
    BY DEF MetaIsSound
  <2>2. "flush_meta" \notin harm /\ ~ (server = "up" /\ stmt.at \in {"write", "write_close"})
    BY <1>2, <1>3, <2>1
  <2>3. server = "create_db" => "create_db" \in harm' /\ stmt.at = "idle"
    BY <1>1, <1>2, <1>3 DEF DownIsEmpty, Idle
  <2>4. meta # Truncated
    BY <1>1, <1>2, <2>2, <2>3 DEF MetaIsSound
  <2> QED
    BY <1>1, <1>2, <2>2, <2>3, <2>4 DEF MetaIsSound
<1>6. KeptIsNamed'
  BY <1>1, <1>2 DEF KeptIsNamed, Unharmed
<1>7. NamedIsThere'
  <2>1. SUFFICES ASSUME harm' = {}, meta.is = "whole" PROVE Named(meta.tabs) \subseteq files
    BY <1>2 DEF NamedIsThere
  <2>2. harm = {} /\ ~ (stmt.at = "flush" /\ stmt.for = "drop")
    <3>1. server # "create_db"
      BY <1>2, <1>3, <2>1
    <3> QED
      BY <1>2, <1>3, <2>1, <3>1
  <2> QED
    BY <1>1, <2>1, <2>2 DEF NamedIsThere
<1> QED
  BY <1>2, <1>4, <1>5, <1>6, <1>7, LostMemory DEF CatalogueIndInv

(* flush_meta writes what db_ has. *)
LEMMA WrittenIs ==
    ASSUME IsDb(db), NEW o
    PROVE  LET m == WrittenMeta(o)
           IN  /\ m.is = "whole" /\ m.named = db.named /\ m.tabs = tabs /\ IsWritten(m)
               /\ m.long = db.long /\ m.first = o.first
  BY DEF WrittenMeta, IsDb, IsWritten, tabs

(* close_db has written db.meta. *)
LEMMA CloseKeepsInv ==
    ASSUME CatalogueIndInv, CloseFiles
    PROVE  CatalogueIndInv'
<1>1. Typed /\ MetaIsSound /\ KeptIsNamed /\ NamedIsThere /\ DownIsEmpty /\ Opened /\ Pools
  BY DEF CatalogueIndInv
<1>2. /\ Lost /\ UNCHANGED <<files, kept, harm, crashes>>
      /\ server' = "down" /\ stmt' = Idle
      /\ stmt.at = "write_close" /\ server = "up"
  BY <1>1 DEF CloseFiles, Lost, DownIsEmpty, Idle, Typed
<1>3. PICK o \in Orders : meta' = WrittenMeta(o)
  BY DEF CloseFiles
<1>9. /\ meta'.is = "whole" /\ meta'.named = db.named /\ meta'.tabs = tabs /\ IsWritten(meta')
  BY <1>1, <1>3, WrittenIs DEF Typed
<1>4. Typed'
  BY <1>1, <1>2, <1>9, LostMemory DEF Typed, IsStmt
<1>5. MetaIsSound'
  BY <1>1, <1>2, <1>9 DEF MetaIsSound, NoMeta, Truncated
<1>6. KeptIsNamed'
  BY <1>1, <1>2, <1>9 DEF KeptIsNamed, Unharmed
<1>7. Named(tabs) \subseteq files
  BY <1>1, <1>2 DEF Opened, Named, Pools, Typed
<1>8. NamedIsThere'
  BY <1>2, <1>9, <1>7 DEF NamedIsThere
<1> QED
  BY <1>2, <1>4, <1>5, <1>6, <1>8, LostMemory DEF CatalogueIndInv

(* flush_meta and close_db, which changes no memory before it has flushed *)
LEMMA FlushKeepsInv ==
    ASSUME CatalogueIndInv, truncate_meta \/ write_meta \/ (close_db /\ db.named)
    PROVE  CatalogueIndInv'
<1>1. /\ Typed /\ MetaIsSound /\ KeptIsNamed /\ NamedIsThere /\ DownIsEmpty /\ Opened /\ Pools
      /\ MetaIsCurrent /\ Building
  BY DEF CatalogueIndInv
<1>2. UNCHANGED <<files, db, tabs, handles, opened, pools, use_num, server, harm, crashes>>
  BY DEF truncate_meta, write_meta, close_db, memory, Lost, tabs
<1>3. server = "up"
  BY <1>1 DEF truncate_meta, write_meta, close_db, Ready, DownIsEmpty, Idle
<1>4. Pools' /\ DownIsEmpty'
  BY <1>1, <1>2, <1>3 DEF Pools, DownIsEmpty
<1>5. Named(tabs) \subseteq files \/ stmt.at = "open"
  BY <1>1 DEF Opened, Named, Pools, Typed
<1>6. CASE truncate_meta
  <2>1. /\ meta' = Truncated /\ kept' = kept
        /\ stmt.at \in {"flush", "close"}
        /\ stmt' = [stmt EXCEPT !.at = IF stmt.at = "flush" THEN "write" ELSE "write_close"]
    BY <1>6 DEF truncate_meta
  <2>2. IsStmt' /\ stmt'.at \in {"write", "write_close"}
    BY <1>1, <1>2, <2>1 DEF Typed, IsStmt, Idle
  <2>3. Typed'
    BY <1>1, <1>2, <2>1, <2>2 DEF Typed
  <2>4. Opened' /\ Building'
    BY <1>1, <1>2, <2>1, <2>2 DEF Opened, Building
  <2>5. MetaIsSound' /\ KeptIsNamed' /\ MetaIsCurrent' /\ NamedIsThere'
    BY <1>1, <1>2, <1>3, <2>1, <2>2
       DEF MetaIsSound, KeptIsNamed, Unharmed, MetaIsCurrent, NamedIsThere, Truncated, NoMeta
  <2> QED
    BY <1>4, <2>3, <2>4, <2>5 DEF CatalogueIndInv
<1>7. CASE write_meta
  <2>1. PICK o \in Orders :
            /\ meta' = WrittenMeta(o)
            /\ kept' = kept \union stmt.adds /\ stmt' = Idle /\ stmt.at = "write"
    BY <1>7 DEF write_meta
  <2>2. /\ meta'.is = "whole" /\ meta'.named = db.named /\ meta'.tabs = tabs
        /\ IsWritten(meta') /\ stmt'.at = "idle"
    BY <1>1, <2>1, WrittenIs DEF Idle, Typed
  <2>3. stmt.adds \subseteq DOMAIN tabs
    BY <1>1, <2>1 DEF Typed, IsStmt, Idle
  <2>4. stmt.adds \subseteq files /\ stmt.adds \subseteq TableNames
    BY <1>1, <2>1, <2>3 DEF Opened, Typed, IsDb, IsTabs, tabs
  <2>5. Typed'
    BY <1>1, <1>2, <2>1, <2>2, <2>4 DEF Typed, IsStmt
  <2>6. Opened' /\ Building'
    BY <1>1, <1>2, <2>1, <2>2 DEF Opened, Building
  <2>7. MetaIsSound' /\ MetaIsCurrent'
    BY <1>1, <1>2, <1>3, <2>1, <2>2
       DEF MetaIsSound, MetaIsCurrent, Unharmed, Agrees, Truncated, NoMeta
  <2>8. KeptIsNamed' /\ NamedIsThere'
    BY <1>1, <1>2, <1>3, <1>5, <2>1, <2>2, <2>3, <2>4 DEF KeptIsNamed, Unharmed, NamedIsThere
  <2> QED
    BY <1>4, <2>5, <2>6, <2>7, <2>8 DEF CatalogueIndInv
<1>8. CASE close_db /\ db.named
  <2>1. stmt = Idle /\ UNCHANGED <<meta, kept>> /\ stmt'.at \in {"close", "idle"}
        /\ (stmt' = Idle \/ stmt' = [at |-> "close", for |-> "close"])
    BY <1>8 DEF close_db, Ready, Lost, Idle
  <2>2. Typed'
    BY <1>1, <1>2, <2>1 DEF Typed, IsStmt
  <2>3. stmt.at = "idle" /\ (stmt'.at = "idle" => stmt' = stmt)
    BY <2>1 DEF Idle
  <2>4. Opened' /\ Building'
    BY <1>1, <1>2, <2>1, <2>3 DEF Opened, Building
  <2>5. MetaIsSound' /\ KeptIsNamed' /\ MetaIsCurrent' /\ NamedIsThere'
    BY <1>1, <1>2, <1>3, <2>1, <2>3
       DEF MetaIsSound, KeptIsNamed, Unharmed, MetaIsCurrent, NamedIsThere, Agrees
  <2> QED
    BY <1>4, <2>2, <2>4, <2>5 DEF CatalogueIndInv
<1> QED
  BY <1>6, <1>7, <1>8

-----------------------------------------------------------------------------
(* create_db writes the first db.meta. *)
LEMMA CreateDbKeepsInv ==
    ASSUME CatalogueIndInv, create_db
    PROVE  CatalogueIndInv'
<1>1. /\ Typed /\ MetaIsSound /\ KeptIsNamed /\ DownIsEmpty /\ Opened /\ Pools
      /\ Building
  BY DEF CatalogueIndInv
<1>2. /\ server = "create_db" /\ server' = "down"
      /\ meta' = [is |-> "whole", named |-> TRUE, tabs |-> Nothing, long |-> {}, blank |-> {},
                  first |-> {}, last |-> {}]
      /\ UNCHANGED <<files, db, tabs, handles, opened, pools, use_num, stmt, kept, harm, crashes>>
  BY DEF create_db, memory, tabs
<1>3. meta'.is = "whole" /\ meta'.named = TRUE /\ meta'.tabs = Nothing /\ IsWritten(meta')
  <2>1. /\ meta'.is = "whole" /\ meta'.named = TRUE /\ meta'.tabs = Nothing
        /\ meta'.long = {} /\ meta'.blank = {} /\ meta'.first = {} /\ meta'.last = {}
    BY <1>2
  <2> QED
    BY <1>2, <2>1, NothingNamed DEF IsWritten
<1>4. stmt = Idle /\ stmt.at = "idle"
  BY <1>1, <1>2 DEF DownIsEmpty, Idle
<1>5. Typed'
  BY <1>1, <1>2, <1>3, NothingNamed DEF Typed, IsStmt
<1>6. Pools' /\ DownIsEmpty' /\ Opened' /\ Building'
  BY <1>1, <1>2, <1>4 DEF Pools, DownIsEmpty, Opened, Building
<1>7. MetaIsSound' /\ KeptIsNamed' /\ MetaIsCurrent' /\ NamedIsThere'
  BY <1>1, <1>2, <1>3, <1>4, NothingNamed
     DEF MetaIsSound, KeptIsNamed, Unharmed, MetaIsCurrent, NamedIsThere, Truncated, NoMeta
<1> QED
  BY <1>5, <1>6, <1>7 DEF CatalogueIndInv

(* What is opened next is still to be opened. *)
LEMMA NextIsToDo == \A todo : NextToOpen(todo) \subseteq todo
  BY DEF NextToOpen, Opens

(* What is read is a catalogue, and all of the one that was written unless *)
(* surplus columns stand in the way.                                       *)
LEMMA ReadIs ==
    ASSUME Typed, meta # NoMeta
    PROVE  /\ IsDb(ReadMeta)
           /\ meta # Truncated => ReadMeta.named = TRUE /\ meta.is = "whole"
           /\ meta # Truncated /\ meta.named /\ ~ Garbled =>
                 /\ ReadMeta.tabs = meta.tabs
                 /\ ReadMeta.long = (UNION Range(meta.tabs)) \ meta.first
<1>1. CASE meta = Truncated
  BY <1>1, NothingNamed DEF ReadMeta, Truncated
<1>2. CASE meta # Truncated /\ ~ meta.named
  <2>1. IsWritten(meta) /\ meta.is = "whole"
    BY <1>2 DEF Typed, IsWritten
  <2>2. /\ ReadMeta = [named |-> TRUE, tabs |-> Nothing, long |-> {}, blank |-> {}]
        /\ ReadMeta.named = TRUE /\ ReadMeta.tabs = Nothing
        /\ ReadMeta.long = {} /\ ReadMeta.blank = {}
    BY <1>2 DEF ReadMeta, NoTables
  <2> QED
    BY <1>2, <2>1, <2>2, NothingNamed DEF IsDb
<1>3. CASE meta # Truncated /\ meta.named
  <2>1. IsWritten(meta) /\ meta.is = "whole" /\ IsTabs(meta.tabs)
    BY <1>3 DEF Typed, IsWritten
  <2> DEFINE emptied == IF Garbled THEN {FirstSpilt} ELSE {}
             unread  == IF Garbled THEN TablesAfter(FirstSpilt) ELSE {}
             read    == [t \in DOMAIN meta.tabs \ unread |->
                            IF t \in emptied THEN {} ELSE meta.tabs[t]]
             long    == (UNION Range(read)) \ meta.first
             blank   == (meta.blank \union emptied) \intersect DOMAIN read
  <2>2. ReadMeta = [named |-> TRUE, tabs |-> read, long |-> long, blank |-> blank]
    BY <1>3 DEF ReadMeta
  <2>3. IsTabs(read)
    BY <2>1 DEF IsTabs
  <2>4. ~ Garbled => read = meta.tabs
    BY <2>1 DEF IsTabs
  <2>5. long \subseteq UNION Range(read) /\ blank \subseteq DOMAIN read
    OBVIOUS
  <2>6. ~ Garbled => long = (UNION Range(meta.tabs)) \ meta.first
    BY <2>4
  <2> HIDE DEF read, long, blank
  <2>7. /\ ReadMeta.named = TRUE /\ ReadMeta.tabs = read
        /\ ReadMeta.long = long /\ ReadMeta.blank = blank
    BY <2>2
  <2>8. IsDb(ReadMeta)
    BY <2>2, <2>3, <2>5, <2>7 DEF IsDb
  <2> QED
    BY <1>3, <2>1, <2>4, <2>6, <2>7, <2>8
<1> QED
  BY <1>1, <1>2, <1>3

(* open_db has read db.meta. *)
LEMMA OpenDbKeepsInv ==
    ASSUME CatalogueIndInv, open_db
    PROVE  CatalogueIndInv'
<1>1. /\ Typed /\ MetaIsSound /\ KeptIsNamed /\ NamedIsThere /\ DownIsEmpty /\ Pools
  BY DEF CatalogueIndInv
<1> DEFINE todo == Named(ReadMeta.tabs)
<1>2. /\ server = "down" /\ server' = "up" /\ meta # NoMeta
      /\ db' = ReadMeta /\ tabs' = ReadMeta.tabs /\ Opening(todo)
      /\ harm' = harm \union IF Garbled THEN {"misread"} ELSE {}
      /\ UNCHANGED <<files, meta, handles, opened, pools, use_num, kept, crashes>>
  BY DEF open_db, tabs, Named
<1>3. /\ IsDb(ReadMeta)
      /\ meta # Truncated => ReadMeta.named = TRUE /\ meta.is = "whole"
      /\ meta # Truncated /\ meta.named /\ ~ Garbled => ReadMeta.tabs = meta.tabs
  BY <1>1, <1>2, ReadIs
<1>4. todo \subseteq Files
  BY <1>3, NamesOf DEF IsDb
<1> HIDE DEF todo
<1>5. /\ IsStmt'
      /\ \/ todo = {} /\ stmt'.at = "idle"
         \/ stmt'.at = "open" /\ stmt'.todo = todo
  BY <1>2, <1>4, NextIsToDo DEF Opening, IsStmt, Idle
<1>6. handles = {} /\ DOMAIN opened = {} /\ stmt.at = "idle"
  BY <1>1, <1>2, NothingNamed DEF DownIsEmpty, Idle
<1>7. Typed'
  BY <1>1, <1>2, <1>3, <1>5 DEF Typed
<1>8. Pools' /\ DownIsEmpty' /\ Building'
  BY <1>1, <1>2, <1>5 DEF Pools, DownIsEmpty, Building
<1>9. Opened'
  BY <1>2, <1>5, <1>6 DEF Opened, Named, todo
<1>10. /\ "flush_meta" \notin harm => meta # Truncated /\ meta.is = "whole" /\ meta.named
       /\ "flush_meta" \notin harm' => "flush_meta" \notin harm
       /\ Unharmed' => ~ Garbled /\ Unharmed
       /\ "create_db" \in harm => "create_db" \in harm'
       /\ harm' = {} => harm = {}
  <2>1. "flush_meta" \notin harm => meta # Truncated /\ meta.is = "whole" /\ meta.named
    BY <1>1, <1>2, <1>3, <1>6 DEF MetaIsSound
  <2> QED
    BY <1>2, <2>1 DEF Unharmed
<1>11. MetaIsSound'
  BY <1>1, <1>2, <1>3, <1>10 DEF MetaIsSound
<1>12. KeptIsNamed'
  BY <1>1, <1>2, <1>3, <1>10 DEF KeptIsNamed, Unharmed
<1>13. MetaIsCurrent' /\ NamedIsThere'
  BY <1>1, <1>2, <1>3, <1>5, <1>6, <1>10 DEF MetaIsCurrent, NamedIsThere, Agrees, Unharmed
<1> QED
  BY <1>7, <1>8, <1>9, <1>11, <1>12, <1>13 DEF CatalogueIndInv

(* open_db opens one more file. *)
LEMMA OpenNextKeepsInv ==
    ASSUME CatalogueIndInv, OpenNext
    PROVE  CatalogueIndInv'
<1>1. /\ Typed /\ MetaIsSound /\ KeptIsNamed /\ NamedIsThere /\ DownIsEmpty /\ Pools
      /\ Opened /\ MetaIsCurrent
  BY DEF CatalogueIndInv
<1>2. PICK f \in stmt.next : /\ f \in files /\ pool_size(f) > 0 /\ open_handle(f)
                             /\ Opening(stmt.todo \ {f})
  BY DEF OpenNext
<1>3. /\ stmt.at = "open"
      /\ UNCHANGED <<files, meta, db, tabs, server, kept, harm, crashes>>
  BY DEF OpenNext, tabs
<1>4. /\ f \in stmt.todo /\ stmt.todo \subseteq Files /\ f \in Files
      /\ f \notin DOMAIN opened
  BY <1>1, <1>3 DEF Typed, IsStmt, Idle, Opened
<1>5. pool_size(f) # 0
  BY <1>1, <1>2, PoolSize
<1>6. /\ opened' = [g \in DOMAIN opened' |-> 1] /\ DOMAIN opened' = DOMAIN opened \union {f}
      /\ handles' = handles \union {f} /\ Pools'
  BY <1>1, <1>2, <1>4, <1>5, OpensOne
<1> DEFINE todo == stmt.todo \ {f}
<1>7. /\ IsStmt'
      /\ \/ todo = {} /\ stmt'.at = "idle"
         \/ stmt'.at = "open" /\ stmt'.todo = todo
  BY <1>2, <1>4, NextIsToDo DEF Opening, IsStmt, Idle
<1>8. Typed'
  BY <1>1, <1>2, <1>3, <1>6, <1>7 DEF Typed
<1>9. server = "up" /\ DownIsEmpty' /\ Building'
  BY <1>1, <1>3, <1>7 DEF DownIsEmpty, Building, Idle
<1>10. Opened'
  BY <1>1, <1>3, <1>4, <1>6, <1>7 DEF Opened, Named
<1>11. "flush_meta" \notin harm => meta # Truncated
  BY <1>1, <1>3 DEF MetaIsSound
<1>12. MetaIsSound' /\ KeptIsNamed'
  BY <1>1, <1>3, <1>11 DEF MetaIsSound, KeptIsNamed, Unharmed
<1>13. MetaIsCurrent' /\ NamedIsThere'
  BY <1>1, <1>3, <1>7, <1>9 DEF MetaIsCurrent, Unharmed, NamedIsThere, Agrees
<1> QED
  BY <1>6, <1>8, <1>9, <1>10, <1>12, <1>13 DEF CatalogueIndInv

-----------------------------------------------------------------------------
(* CREATE TABLE *)
LEMMA CreateTableKeepsInv ==
    ASSUME CatalogueIndInv, Ready, NEW t \in TableNames, create_table(t)
    PROVE  CatalogueIndInv'
<1>1. /\ Typed /\ MetaIsSound /\ KeptIsNamed /\ NamedIsThere /\ Pools /\ Opened /\ MetaIsCurrent
  BY DEF CatalogueIndInv
<1>2. /\ server = "up" /\ stmt = Idle /\ stmt.at = "idle"
      /\ t \notin files /\ files' = files \union {t} /\ t \notin DOMAIN tabs
      /\ open_handle(t)
      /\ UNCHANGED <<meta, server, kept, harm, crashes>>
  BY DEF Ready, create_table, create_file, is_file, Idle
<1>3. db' = [db EXCEPT !.tabs = With(tabs, t, {})]
  BY DEF create_table
<1>4. /\ db' = [named |-> db'.named, tabs |-> tabs', long |-> db'.long, blank |-> db'.blank]
      /\ db'.named = db.named /\ db'.long = db.long /\ db'.blank = db.blank
      /\ tabs' = With(tabs, t, {})
  BY <1>1, <1>3 DEF Typed, IsDb, tabs
<1>5. /\ DOMAIN tabs' = DOMAIN tabs \union {t} /\ tabs'[t] = {}
      /\ tabs' = [s \in DOMAIN tabs' |-> tabs'[s]]
      /\ \A s \in DOMAIN tabs : tabs'[s] = tabs[s]
  BY <1>2, <1>4 DEF With
<1>6. IsTabs(tabs') /\ IsTabs(tabs)
  BY <1>1, <1>5 DEF Typed, IsDb, IsTabs, tabs
<1>7. UNION Range(tabs') = UNION Range(tabs)
  BY <1>5, <1>6, NamesOf
<1>18. IsDb(db')
  BY <1>1, <1>4, <1>5, <1>6, <1>7 DEF Typed, IsDb, tabs
<1>8. t \in Files /\ t \notin DOMAIN opened /\ t \notin handles
  BY <1>1, <1>2, TablesAreNoIndexes DEF Typed, Pools
<1>9. /\ opened' = [g \in DOMAIN opened' |-> 1] /\ DOMAIN opened' = DOMAIN opened \union {t}
      /\ handles' = IF pool_size(t) = 0 THEN handles ELSE handles \union {t}
      /\ Pools'
  BY <1>1, <1>2, <1>8, OpensOne
<1>10. /\ IsStmt'
       /\ \/ stmt'.at = "idle" /\ pool_size(t) = 0
          \/ stmt'.at = "flush" /\ stmt'.for = "create"
  BY <1>5 DEF create_table, IsStmt, Idle
<1>11. Typed'
  BY <1>1, <1>2, <1>8, <1>9, <1>10, <1>18 DEF Typed
<1>12. DownIsEmpty' /\ Building'
  BY <1>2, <1>10 DEF DownIsEmpty, Building
<1>13. Opened'
  BY <1>1, <1>2, <1>5, <1>7, <1>9, <1>10 DEF Opened
<1>14. "flush_meta" \notin harm => meta # Truncated
  BY <1>1, <1>2 DEF MetaIsSound
<1>15. MetaIsSound' /\ KeptIsNamed'
  BY <1>1, <1>2, <1>4, <1>5, <1>14 DEF MetaIsSound, KeptIsNamed, Unharmed
<1>16. MetaIsCurrent'
  BY <1>2, <1>5, <1>8, <1>9, <1>10 DEF MetaIsCurrent, Unharmed
<1>17. NamedIsThere'
  BY <1>1, <1>2, <1>10 DEF NamedIsThere
<1> QED
  BY <1>9, <1>11, <1>12, <1>13, <1>15, <1>16, <1>17 DEF CatalogueIndInv

(* DROP TABLE *)
LEMMA DropTableKeepsInv ==
    ASSUME CatalogueIndInv, Ready, NEW t \in TableNames, drop_table(t)
    PROVE  CatalogueIndInv'
<1>1. /\ Typed /\ MetaIsSound /\ KeptIsNamed /\ NamedIsThere /\ Pools /\ Opened /\ MetaIsCurrent
  BY DEF CatalogueIndInv
<1>2. /\ server = "up" /\ stmt = Idle /\ stmt.at = "idle"
      /\ t \in handles /\ close_handle(t) /\ files' = files \ {t}
      /\ stmt' = [at |-> "flush", for |-> "drop", adds |-> {}] /\ kept' = kept \ {t}
      /\ UNCHANGED <<meta, server, harm, crashes>>
  BY DEF Ready, drop_table, destroy_file, Idle
<1>3. db' = [db EXCEPT !.tabs = Without(tabs, t), !.long = db.long \ tabs[t],
                       !.blank = db.blank \ {t}]
  BY DEF drop_table
<1>4. /\ db' = [named |-> db'.named, tabs |-> tabs', long |-> db'.long, blank |-> db'.blank]
      /\ db'.named = db.named /\ tabs' = Without(tabs, t)
      /\ db'.long = db.long \ tabs[t] /\ db'.blank = db.blank \ {t}
  BY <1>1, <1>3 DEF Typed, IsDb, tabs
<1>5. /\ DOMAIN tabs' = DOMAIN tabs \ {t}
      /\ tabs' = [s \in DOMAIN tabs' |-> tabs'[s]]
      /\ \A s \in DOMAIN tabs' : tabs'[s] = tabs[s]
  BY <1>4 DEF Without, Restrict
<1>6. IsTabs(tabs') /\ IsTabs(tabs)
  BY <1>1, <1>5 DEF Typed, IsDb, IsTabs, tabs
<1>7. UNION Range(tabs') \subseteq UNION Range(tabs) /\ t \notin UNION Range(tabs')
  BY <1>5, <1>6, NamesOf, TablesAreNoIndexes
<1>16. (UNION Range(tabs)) \ tabs[t] \subseteq UNION Range(tabs')
  BY <1>5, <1>6, NamesOf
<1>17. IsDb(db')
  BY <1>1, <1>4, <1>5, <1>6, <1>16 DEF Typed, IsDb, tabs
<1>8. /\ opened' = [g \in DOMAIN opened' |-> 1] /\ DOMAIN opened' = DOMAIN opened \ {t}
      /\ handles' = handles \ {t} /\ Pools'
  BY <1>1, <1>2, ClosesOne
<1>9. IsStmt' /\ stmt'.at = "flush" /\ stmt'.for = "drop"
  BY <1>2 DEF IsStmt
<1>10. Typed'
  BY <1>1, <1>2, <1>8, <1>9, <1>17 DEF Typed
<1>11. DownIsEmpty' /\ Building' /\ NamedIsThere'
  BY <1>2, <1>9 DEF DownIsEmpty, Building, NamedIsThere
<1>12. Opened'
  BY <1>1, <1>2, <1>5, <1>7, <1>8, <1>9 DEF Opened
<1>13. "flush_meta" \notin harm => meta # Truncated
  BY <1>1, <1>2 DEF MetaIsSound
<1>14. MetaIsSound' /\ KeptIsNamed'
  BY <1>1, <1>2, <1>4, <1>5, <1>13 DEF MetaIsSound, KeptIsNamed, Unharmed
<1>15. MetaIsCurrent'
  BY <1>9 DEF MetaIsCurrent, Unharmed
<1> QED
  BY <1>8, <1>10, <1>11, <1>12, <1>14, <1>15 DEF CatalogueIndInv

(* A statement that makes a file and leaves it open, and nothing else *)
LEMMA LeftOpenKeepsInv ==
    ASSUME CatalogueIndInv, Ready, NEW x \in Indexes, x \notin files, files' = files \union {x},
           open_file(x), stmt' = Idle, UNCHANGED <<handles, pools, use_num>>,
           UNCHANGED <<meta, db, tabs, server, kept, harm, crashes>>
    PROVE  CatalogueIndInv'
<1>1. /\ Typed /\ MetaIsSound /\ KeptIsNamed /\ NamedIsThere /\ Pools /\ Opened /\ MetaIsCurrent
  BY DEF CatalogueIndInv
<1>2. server = "up" /\ stmt = Idle /\ stmt.at = "idle" /\ stmt' = stmt
  BY DEF Ready, Idle
<1>3. x \in Files /\ x \notin DOMAIN opened /\ opened = [g \in DOMAIN opened |-> 1]
  BY <1>1 DEF Typed, Files
<1>4. opened' = [g \in DOMAIN opened' |-> 1] /\ DOMAIN opened' = DOMAIN opened \union {x}
  BY <1>3 DEF open_file, With
<1>5. Typed'
  BY <1>1, <1>2, <1>3, <1>4 DEF Typed, IsStmt
<1>6. Pools' /\ DownIsEmpty' /\ Opened' /\ Building'
  BY <1>1, <1>2, <1>4 DEF Pools, DownIsEmpty, Opened, Building
<1>7. MetaIsSound' /\ KeptIsNamed' /\ NamedIsThere' /\ MetaIsCurrent'
  BY <1>1, <1>2 DEF MetaIsSound, KeptIsNamed, Unharmed, NamedIsThere, MetaIsCurrent, Agrees
<1> QED
  BY <1>5, <1>6, <1>7 DEF CatalogueIndInv

(* CREATE INDEX, until the scan of the table *)
LEMMA CreateIndexKeepsInv ==
    ASSUME CatalogueIndInv, Ready, NEW x \in Indexes, create_index(x)
    PROVE  CatalogueIndInv'
<1>1. /\ Typed /\ MetaIsSound /\ KeptIsNamed /\ NamedIsThere /\ Pools /\ Opened /\ MetaIsCurrent
  BY DEF CatalogueIndInv
<1>2. /\ server = "up" /\ stmt = Idle /\ stmt.at = "idle"
      /\ x \notin files /\ files' = files \union {x} /\ TableOf[x] \in DOMAIN tabs
      /\ UNCHANGED <<meta, db, tabs, server, kept, harm, crashes>>
      /\ \/ KeyTooLong(x)
         \/ /\ open_handle(x)
            /\ stmt' = IF pool_size(x) = 0 THEN Idle
                       ELSE [at |-> "build", ix |-> x, was |-> <<files, memory>>]
  BY DEF Ready, create_index, create_file, is_file, Idle, tabs
<1>13. CASE KeyTooLong(x)
  BY <1>2, <1>13, LeftOpenKeepsInv DEF KeyTooLong
<1> SUFFICES ASSUME open_handle(x),
                    stmt' = IF pool_size(x) = 0 THEN Idle
                            ELSE [at |-> "build", ix |-> x, was |-> <<files, memory>>]
             PROVE  CatalogueIndInv'
  BY <1>2, <1>13
<1>3. x \in Files /\ x \notin DOMAIN opened /\ x \notin handles
  BY <1>1, <1>2 DEF Typed, Pools, Files
<1>4. /\ opened' = [g \in DOMAIN opened' |-> 1] /\ DOMAIN opened' = DOMAIN opened \union {x}
      /\ handles' = IF pool_size(x) = 0 THEN handles ELSE handles \union {x}
      /\ Pools'
  BY <1>1, <1>2, <1>3, OpensOne
<1>5. /\ IsStmt'
      /\ \/ stmt'.at = "idle" /\ pool_size(x) = 0
         \/ /\ stmt'.at = "build" /\ pool_size(x) # 0 /\ stmt'.ix = x
            /\ stmt'.was = <<files, memory>>
  BY DEF IsStmt, Idle
<1>6. Typed'
  BY <1>1, <1>2, <1>3, <1>4, <1>5 DEF Typed
<1>7. DownIsEmpty' /\ Opened'
  BY <1>1, <1>2, <1>4, <1>5 DEF DownIsEmpty, Opened
<1>8. Building'
  <2>1. SUFFICES ASSUME stmt'.at = "build" PROVE Building'
    BY DEF Building
  <2>2. pool_size(x) # 0 /\ stmt'.ix = x /\ stmt'.was = <<files, memory>>
    BY <1>5, <2>1
  <2>3. /\ handles' \ {x} = handles /\ x \in handles'
        /\ Without(opened', x) = opened /\ Without(pools', x) = pools
        /\ use_num' - pools'[x] = use_num
    BY <1>1, <1>2, <1>3, <1>4, <2>2, OpensOne
  <2>4. x \notin tabs[TableOf[x]]
    <3>1. IsTabs(tabs)
      BY <1>1 DEF Typed, IsDb, tabs
    <3> QED
      BY <1>1, <1>2, <1>3, <3>1, NamesOf DEF Opened
  <2>5. harm = {} => x \notin Named(meta.tabs)
    <3>1. SUFFICES ASSUME harm = {} PROVE x \notin Named(meta.tabs)
      OBVIOUS
    <3>2. meta.is = "whole"
      BY <1>1, <1>2, <3>1 DEF MetaIsSound, Typed, IsWritten
    <3> QED
      BY <1>1, <1>2, <3>1, <3>2 DEF NamedIsThere
  <2>6. files' \ {x} = files
    BY <1>2
  <2>7. stmt'.was = <<files' \ {x}, <<db', handles' \ {x}, Without(opened', x),
                                      Without(pools', x), use_num' - pools'[x]>>>>
    BY <1>2, <2>2, <2>3, <2>6 DEF memory
  <2> QED
    BY <1>2, <2>2, <2>3, <2>4, <2>5, <2>7 DEF Building
<1>9. "flush_meta" \notin harm => meta # Truncated
  BY <1>1, <1>2 DEF MetaIsSound
<1>10. MetaIsSound' /\ KeptIsNamed' /\ NamedIsThere'
  BY <1>1, <1>2, <1>5, <1>9 DEF MetaIsSound, KeptIsNamed, Unharmed, NamedIsThere
<1>11. \A t \in DOMAIN tabs : t \notin handles => t \notin handles'
  BY <1>1, <1>4, TablesAreNoIndexes DEF Typed, IsDb, IsTabs, tabs
<1>12. MetaIsCurrent'
  BY <1>1, <1>2, <1>5, <1>11 DEF MetaIsCurrent, Unharmed, Agrees
<1> QED
  BY <1>4, <1>6, <1>7, <1>8, <1>10, <1>12 DEF CatalogueIndInv

(* The index is built and enters the catalogue. *)
LEMMA IndexBuiltKeepsInv ==
    ASSUME CatalogueIndInv, IndexBuilt
    PROVE  CatalogueIndInv'
<1>1. /\ Typed /\ MetaIsSound /\ KeptIsNamed /\ NamedIsThere /\ Pools /\ Opened /\ MetaIsCurrent
      /\ Building /\ DownIsEmpty
  BY DEF CatalogueIndInv
<1> DEFINE x == stmt.ix
<1>2. /\ stmt.at = "build" /\ x \in handles /\ x \in Indexes /\ TableOf[x] \in DOMAIN tabs
  BY <1>1 DEF IndexBuilt, Building, Typed, IsStmt, Idle
<1>3. server = "up"
  BY <1>1, <1>2 DEF DownIsEmpty, Idle
<1>4. /\ db' = [db EXCEPT !.tabs[TableOf[x]] = tabs[TableOf[x]] \union {x}]
      /\ stmt' = [at |-> "flush", for |-> "create", adds |-> {}]
      /\ UNCHANGED <<files, meta, handles, opened, pools, use_num, server, kept, harm, crashes>>
  BY DEF IndexBuilt, tabs
<1> HIDE DEF x
<1>5. /\ db' = [named |-> db'.named, tabs |-> tabs', long |-> db'.long, blank |-> db'.blank]
      /\ db'.named = db.named /\ db'.long = db.long /\ db'.blank = db.blank
      /\ tabs' = [tabs EXCEPT ![TableOf[x]] = tabs[TableOf[x]] \union {x}]
  BY <1>1, <1>4 DEF Typed, IsDb, tabs
<1>6. /\ DOMAIN tabs' = DOMAIN tabs /\ tabs' = [s \in DOMAIN tabs' |-> tabs'[s]]
      /\ tabs'[TableOf[x]] = tabs[TableOf[x]] \union {x}
      /\ \A s \in DOMAIN tabs : s # TableOf[x] => tabs'[s] = tabs[s]
  <2>1. IsTabs(tabs)
    BY <1>1 DEF Typed, IsDb, tabs
  <2> QED
    BY <1>2, <1>5, <2>1 DEF IsTabs
<1>7. IsTabs(tabs') /\ IsTabs(tabs)
  BY <1>1, <1>2, <1>6 DEF Typed, IsDb, IsTabs, tabs
<1>8. /\ UNION Range(tabs') \subseteq (UNION Range(tabs)) \union {x}
      /\ UNION Range(tabs) \subseteq UNION Range(tabs')
  BY <1>6, <1>7, NamesOf
<1>15. IsDb(db')
  BY <1>1, <1>5, <1>6, <1>7, <1>8 DEF Typed, IsDb, tabs
<1>9. IsStmt' /\ stmt'.at = "flush" /\ stmt'.for = "create"
  BY <1>4 DEF IsStmt
<1>10. Typed'
  BY <1>1, <1>4, <1>9, <1>15 DEF Typed
<1>11. Pools' /\ DownIsEmpty' /\ Building' /\ MetaIsCurrent'
  BY <1>1, <1>3, <1>4, <1>9 DEF Pools, DownIsEmpty, Building, MetaIsCurrent
<1>12. Opened'
  BY <1>1, <1>2, <1>4, <1>6, <1>8, <1>9 DEF Opened
<1>13. "flush_meta" \notin harm => meta # Truncated
  BY <1>1, <1>2 DEF MetaIsSound
<1>14. MetaIsSound' /\ KeptIsNamed' /\ NamedIsThere'
  BY <1>1, <1>2, <1>3, <1>4, <1>5, <1>6, <1>9, <1>13 DEF MetaIsSound, KeptIsNamed, Unharmed, NamedIsThere
<1> QED
  BY <1>10, <1>11, <1>12, <1>14 DEF CatalogueIndInv

(* The index is not built, and everything is as it was. *)
LEMMA DuplicateKeyRestores ==
    ASSUME CatalogueIndInv, DuplicateKey
    PROVE  <<files', memory'>> = stmt.was
<1>1. Typed /\ Pools /\ Building
  BY DEF CatalogueIndInv
<1>2. /\ stmt.at = "build" /\ stmt.ix \in handles /\ close_handle(stmt.ix)
      /\ files' = files \ {stmt.ix} /\ db' = db
  BY <1>1 DEF DuplicateKey, destroy_index, close_index, destroy_file, Building
<1>3. /\ opened' = Without(opened, stmt.ix) /\ handles' = handles \ {stmt.ix}
      /\ pools' = Without(pools, stmt.ix) /\ use_num' = use_num - pools[stmt.ix]
  BY <1>1, <1>2, ClosesOne
<1> QED
  BY <1>1, <1>2, <1>3 DEF Building, memory

(* A duplicate key ends CREATE INDEX. *)
LEMMA DuplicateKeyKeepsInv ==
    ASSUME CatalogueIndInv, DuplicateKey
    PROVE  CatalogueIndInv'
<1>1. /\ Typed /\ MetaIsSound /\ KeptIsNamed /\ NamedIsThere /\ Pools /\ Opened /\ MetaIsCurrent
      /\ Building /\ DownIsEmpty
  BY DEF CatalogueIndInv
<1> DEFINE x == stmt.ix
<1>2. /\ stmt.at = "build" /\ x \in handles /\ x \in Indexes /\ x \notin tabs[TableOf[x]]
      /\ TableOf[x] \in DOMAIN tabs
      /\ harm = {} => x \notin Named(meta.tabs)
  BY <1>1 DEF DuplicateKey, Building, Typed, IsStmt, Idle
<1>3. server = "up"
  BY <1>1, <1>2 DEF DownIsEmpty, Idle
<1>4. /\ close_handle(x) /\ files' = files \ {x} /\ stmt' = Idle
      /\ UNCHANGED <<meta, db, tabs, server, kept, harm, crashes>>
  BY <1>2 DEF DuplicateKey, destroy_index, close_index, destroy_file, tabs
<1> HIDE DEF x
<1>5. /\ opened' = [g \in DOMAIN opened' |-> 1] /\ DOMAIN opened' = DOMAIN opened \ {x}
      /\ handles' = handles \ {x} /\ Pools'
  BY <1>1, <1>2, <1>4, ClosesOne
<1>6. IsTabs(tabs) /\ x \notin TableNames
  BY <1>1, <1>2, FilesAreNamedApart DEF Typed, IsDb, tabs
<1>7. x \notin Named(tabs)
  BY <1>2, <1>6, NamesOf DEF IsTabs
<1>8. stmt'.at = "idle"
  BY <1>4 DEF Idle
<1>9. Typed'
  BY <1>1, <1>4, <1>5 DEF Typed, IsStmt
<1>10. DownIsEmpty' /\ Building'
  BY <1>3, <1>4, <1>8 DEF DownIsEmpty, Building
<1>11. Opened'
  BY <1>1, <1>2, <1>4, <1>5, <1>7, <1>8 DEF Opened, Named
<1>12. "flush_meta" \notin harm => meta # Truncated
  BY <1>1, <1>2 DEF MetaIsSound
<1>13. MetaIsSound'
  BY <1>1, <1>4, <1>12 DEF MetaIsSound
<1>14. KeptIsNamed'
  BY <1>1, <1>4, <1>6 DEF KeptIsNamed, Unharmed, Typed
<1>15. MetaIsCurrent'
  BY <1>1, <1>2, <1>3, <1>4, <1>5, <1>8 DEF MetaIsCurrent, Unharmed, Agrees
<1>16. NamedIsThere'
  BY <1>1, <1>2, <1>4 DEF NamedIsThere
<1> QED
  BY <1>5, <1>9, <1>10, <1>11, <1>13, <1>14, <1>15, <1>16 DEF CatalogueIndInv

(* DROP INDEX *)
LEMMA DropIndexKeepsInv ==
    ASSUME CatalogueIndInv, Ready, NEW x \in Indexes, drop_index(x)
    PROVE  CatalogueIndInv'
<1>1. /\ Typed /\ MetaIsSound /\ KeptIsNamed /\ NamedIsThere /\ Pools /\ Opened /\ MetaIsCurrent
  BY DEF CatalogueIndInv
<1>2. /\ server = "up" /\ stmt = Idle /\ stmt.at = "idle"
      /\ TableOf[x] \in DOMAIN tabs /\ close_index(x) /\ files' = files \ {x}
      /\ stmt' = [at |-> "flush", for |-> "drop", adds |-> {}]
      /\ UNCHANGED <<meta, server, kept, harm, crashes>>
  BY DEF Ready, drop_index, destroy_index, destroy_file, Idle
<1>3. db' = [db EXCEPT !.tabs[TableOf[x]] = tabs[TableOf[x]] \ {x}, !.long = db.long \ {x}]
  BY DEF drop_index, tabs
<1>4. /\ db' = [named |-> db'.named, tabs |-> tabs', long |-> db'.long, blank |-> db'.blank]
      /\ db'.named = db.named /\ db'.long = db.long \ {x} /\ db'.blank = db.blank
      /\ tabs' = [tabs EXCEPT ![TableOf[x]] = tabs[TableOf[x]] \ {x}]
  BY <1>1, <1>3 DEF Typed, IsDb, tabs
<1>5. /\ DOMAIN tabs' = DOMAIN tabs /\ tabs' = [s \in DOMAIN tabs' |-> tabs'[s]]
      /\ tabs'[TableOf[x]] = tabs[TableOf[x]] \ {x}
      /\ \A s \in DOMAIN tabs : s # TableOf[x] => tabs'[s] = tabs[s]
  <2>1. IsTabs(tabs)
    BY <1>1 DEF Typed, IsDb, tabs
  <2> QED
    BY <1>2, <1>4, <2>1 DEF IsTabs
<1>6. IsTabs(tabs') /\ IsTabs(tabs) /\ x \notin TableNames /\ x \in Files
  BY <1>1, <1>2, <1>5, FilesAreNamedApart DEF Typed, IsDb, IsTabs, Files, tabs
<1>7. UNION Range(tabs') = (UNION Range(tabs)) \ {x}
  BY <1>5, <1>6, NamesOf
<1>16. IsDb(db')
  BY <1>1, <1>4, <1>5, <1>6, <1>7 DEF Typed, IsDb, tabs
<1>8. /\ opened' = [g \in DOMAIN opened' |-> 1] /\ DOMAIN opened' = DOMAIN opened \ {x}
      /\ handles' = handles \ {x} /\ Pools'
  BY <1>1, <1>2, <1>6, ClosesIndex
<1>9. IsStmt' /\ stmt'.at = "flush" /\ stmt'.for = "drop"
  BY <1>2 DEF IsStmt
<1>10. Typed'
  BY <1>1, <1>2, <1>6, <1>8, <1>9, <1>16 DEF Typed
<1>11. DownIsEmpty' /\ Building' /\ NamedIsThere' /\ MetaIsCurrent'
  BY <1>2, <1>9 DEF DownIsEmpty, Building, NamedIsThere, MetaIsCurrent
<1>12. Opened'
  BY <1>1, <1>2, <1>5, <1>6, <1>7, <1>8, <1>9 DEF Opened, IsTabs
<1>13. "flush_meta" \notin harm => meta # Truncated
  BY <1>1, <1>2 DEF MetaIsSound
<1>14. MetaIsSound'
  BY <1>1, <1>2, <1>4, <1>13 DEF MetaIsSound
<1>15. KeptIsNamed'
  BY <1>1, <1>2, <1>5, <1>6 DEF KeptIsNamed, Unharmed, Typed
<1> QED
  BY <1>8, <1>10, <1>11, <1>12, <1>14, <1>15 DEF CatalogueIndInv

-----------------------------------------------------------------------------
(* Every step preserves the invariant. *)
LEMMA NextInv ==
    ASSUME CatalogueIndInv, [Next]_vars
    PROVE  CatalogueIndInv'
<1>1. CASE UNCHANGED vars
  BY <1>1 DEF vars, memory, tabs, CatalogueIndInv, Typed, IsStmt, Pools, DownIsEmpty, Opened,
              Building, MetaIsSound, KeptIsNamed, Unharmed, MetaIsCurrent, Agrees,
              NamedIsThere
<1>2. CASE Statement
  <2>1. Ready /\ (\/ \E t \in TableNames : create_table(t) \/ drop_table(t)
                  \/ \E x \in Indexes : create_index(x) \/ drop_index(x))
    BY <1>2 DEF Statement
  <2> QED
    BY <2>1, CreateTableKeepsInv, DropTableKeepsInv, CreateIndexKeepsInv, DropIndexKeepsInv
<1>3. CASE close_db
  BY <1>3, EndsKeepInv, FlushKeepsInv
<1> QED
  BY <1>1, <1>2, <1>3, CreateDbKeepsInv, OpenDbKeepsInv, OpenNextKeepsInv, EndsKeepInv,
     IndexBuiltKeepsInv, DuplicateKeyKeepsInv, FlushKeepsInv, CloseKeepsInv, CrashKeepsInv
     DEF Next

(* The invariant holds in every state. *)
LEMMA CatalogueIndInvHolds == Spec => []CatalogueIndInv
<1>1. CatalogueIndInv /\ [Next]_vars => CatalogueIndInv'
  BY NextInv
<1> QED
  BY InitInv, <1>1, PTL DEF Spec

(* Memory, files, pools and db.meta agree, whatever statements are cut off *)
(* or fail for want of frames: no frame is lost or given twice, every      *)
(* handle is of an open file, and between statements db.meta is what       *)
(* SmManager has in db_.                                                   *)
THEOREM CatalogueAgrees == Spec => []CatalogueInv
<1>1. CatalogueIndInv => CatalogueInv
  <2> SUFFICES ASSUME CatalogueIndInv PROVE CatalogueInv
    OBVIOUS
  <2>1. Typed /\ Pools /\ Opened /\ MetaIsCurrent
    BY DEF CatalogueIndInv
  <2>2. IsFiniteSet(handles) /\ handles \subseteq Files /\ DOMAIN pools = handles
    BY <2>1, FewHandles
  <2>3. TypeOK
    <3>1. stmt.at \in {"idle", "open", "build", "flush", "write", "close", "write_close"}
      BY <2>1 DEF Typed, IsStmt, Idle
    <3>2. meta \in {NoMeta, Truncated} \/ meta.is = "whole"
      BY <2>1 DEF Typed, IsWritten
    <3>3. IsTabs(tabs) /\ db.long \subseteq UNION Range(tabs) /\ db.blank \subseteq DOMAIN tabs
      BY <2>1 DEF Typed, IsDb, tabs
    <3> QED
      BY <2>1, <2>2, <3>1, <3>2, <3>3 DEF TypeOK, Typed, IsTabs
  <2>4. PoolsAccountedFor
    <3>1. use_num = MapThenSumSet(LAMBDA f : pools[f], DOMAIN pools)
      BY <2>1, SumIsFrameSum DEF Pools
    <3>2. use_num <= tot_num /\ \A f \in DOMAIN pools : pools[f] > 0
      BY <2>1, <2>2 DEF Pools
    <3> QED
      BY <3>1, <3>2 DEF PoolsAccountedFor
  <2>5. HandlesAreOpen
    BY <2>1, <2>2 DEF HandlesAreOpen, Pools, Typed
  <2>6. CatalogueIsWritten
    <3> SUFFICES ASSUME Ready, Unharmed, DOMAIN opened \subseteq handles
                 PROVE  /\ meta.is = "whole" /\ meta.tabs = tabs
                        /\ DOMAIN tabs \union UNION Range(tabs) \subseteq handles
      BY DEF CatalogueIsWritten, Unharmed
    <3>1. server = "up" /\ stmt.at = "idle"
      BY DEF Ready, Idle
    <3>2. DOMAIN tabs \subseteq handles /\ UNION Range(tabs) \subseteq handles
      BY <2>1, <3>1 DEF Opened
    <3> QED
      BY <2>1, <3>1, <3>2 DEF MetaIsCurrent, Unharmed, Agrees
  <2> QED
    BY <2>3, <2>4, <2>5, <2>6 DEF CatalogueInv
<1> QED
  BY CatalogueIndInvHolds, <1>1, PTL

(* A table whose CREATE TABLE was answered is on the disk and read from    *)
(* db.meta by the next start, whenever the process dies, except within     *)
(* flush_meta or where surplus columns garble db.meta.                     *)
THEOREM TablesSurvive == Spec => []CreatedTablesSurvive
<1>1. CatalogueIndInv => CreatedTablesSurvive
  <2> SUFFICES ASSUME CatalogueIndInv, Unharmed, NEW t \in kept
               PROVE  /\ t \in files
                      /\ \/ meta.is = "whole" /\ (Garbled \/ t \in DOMAIN ReadMeta.tabs)
                         \/ /\ meta = Truncated /\ stmt.at \in {"write", "write_close"}
                            /\ t \in DOMAIN tabs
    BY DEF CreatedTablesSurvive, Unharmed
  <2>1. Typed /\ MetaIsSound /\ KeptIsNamed /\ DownIsEmpty /\ "flush_meta" \notin harm
    BY DEF CatalogueIndInv, Unharmed
  <2>2. meta = Truncated => server = "up"
    BY <2>1 DEF MetaIsSound, DownIsEmpty, Idle
  <2>3. meta # NoMeta
    BY <2>1 DEF MetaIsSound
  <2>4. CASE meta = Truncated
    BY <2>1, <2>2, <2>4 DEF MetaIsSound, KeptIsNamed
  <2>5. CASE meta # Truncated
    <3>1. meta.is = "whole"
      BY <2>1, <2>3, <2>5 DEF Typed, IsWritten
    <3>2. meta.named
      BY <2>1, <3>1 DEF MetaIsSound
    <3>3. ~ Garbled => ReadMeta.tabs = meta.tabs
      BY <2>1, <2>3, <2>5, <3>2, ReadIs
    <3> QED
      BY <2>1, <3>1, <3>3 DEF KeptIsNamed
  <2> QED
    BY <2>4, <2>5
<1> QED
  BY CatalogueIndInvHolds, <1>1, PTL

(* open_db succeeds after every death that cut no change of the disk in    *)
(* two, unless the frames are used up or an index was read with surplus    *)
(* columns.                                                                *)
THEOREM ServerStartsAgain == Spec => []StartsAgain
<1>1. CatalogueIndInv => StartsAgain
  <2> SUFFICES ASSUME CatalogueIndInv, StartFails, harm = {}, ~ Garbled
               PROVE  /\ stmt.at = "open" /\ stmt.next \subseteq files
                      /\ db.long # {} \/ \E f \in stmt.next : pool_size(f) = 0
    BY DEF StartsAgain
  <2>1. Typed /\ MetaIsSound /\ DownIsEmpty /\ Opened /\ MetaIsCurrent /\ NamedIsThere
    BY DEF CatalogueIndInv
  <2>2. ~ (server = "down" /\ (meta = NoMeta \/ CountUnset \/ Unreadable))
    <3>1. server = "down" => meta # NoMeta /\ meta # Truncated
      BY <2>1 DEF MetaIsSound, DownIsEmpty, Idle
    <3> QED
      BY <2>1, <3>1 DEF CountUnset, MetaIsSound, Unreadable
  <2>3. /\ stmt.at = "open"
        /\ db.long # {} \/ \E f \in stmt.next : f \notin files \/ pool_size(f) = 0
    BY <2>2 DEF StartFails
  <2>4. server = "up"
    BY <2>1, <2>3 DEF DownIsEmpty, Idle
  <2>5. stmt.next \subseteq files
    <3>1. stmt.next \subseteq Named(tabs)
      BY <2>1, <2>3 DEF Typed, IsStmt, Idle, Opened
    <3>2. meta.is = "whole" /\ meta.tabs = tabs
      BY <2>1, <2>3, <2>4 DEF MetaIsCurrent, Unharmed, Agrees
    <3>3. Named(meta.tabs) \subseteq files
      BY <2>1, <2>3, <3>2 DEF NamedIsThere
    <3> QED
      BY <3>1, <3>2, <3>3
  <2> QED
    BY <2>3, <2>5
<1> QED
  BY CatalogueIndInvHolds, <1>1, PTL

(* A CREATE INDEX that meets a duplicate key leaves files, tables,         *)
(* handles, open files and pools as it found them.                         *)
THEOREM FailedIndexIsUndone == Spec => FailedIndexLeavesNothing
<1>1. CatalogueIndInv /\ [Next]_vars =>
         [(stmt.at = "build" /\ stmt' = Idle /\ server' = "up")
             => <<files', memory'>> = stmt.was]_vars
  <2> SUFFICES ASSUME CatalogueIndInv, Next, stmt.at = "build", stmt' = Idle, server' = "up"
               PROVE  <<files', memory'>> = stmt.was
    OBVIOUS
  <2>1. server = "up" /\ ~ Ready
    BY DEF CatalogueIndInv, DownIsEmpty, Idle, Ready
  <2>2. DuplicateKey
    BY <2>1 DEF Next, create_db, open_db, OpenNext, OpenFails, StartFails, Statement, IndexBuilt,
                truncate_meta, write_meta, close_db, CloseFiles, Crash, NullHandle, Lost, Idle
  <2> QED
    BY <2>2, DuplicateKeyRestores
<1> QED
  BY CatalogueIndInvHolds, <1>1, PTL DEF Spec, FailedIndexLeavesNothing

-----------------------------------------------------------------------------
(* Where no table can have two indexes no column is surplus. *)
NoneLong ==
    OneIndexEach =>
        /\ db.long = {}
        /\ meta.is = "whole" => meta.long = {} /\ UNION Range(meta.tabs) \subseteq meta.first

(* Then db.meta is not garbled. *)
LEMMA NothingSpilt ==
    ASSUME NoneLong, OneIndexEach
    PROVE  ~ Garbled
<1> SUFFICES ASSUME meta.is = "whole" PROVE Spilt = {}
  BY DEF Garbled
<1>1. \A t \in DOMAIN meta.tabs : Surplus(t) = {}
  BY DEF NoneLong, Surplus
<1> QED
  BY <1>1 DEF Spilt

(* The only index of a table is written first. *)
LEMMA OnlyIsFirst ==
    ASSUME IsTabs(tabs), OneIndexEach, NEW o \in Orders
    PROVE  UNION Range(tabs) \subseteq o.first
<1> SUFFICES ASSUME NEW t \in DOMAIN tabs, NEW z \in tabs[t] PROVE z \in o.first
  BY NamesOf
<1>1. PICK x \in tabs[t] : o.first \intersect tabs[t] = {x}
  BY DEF Orders
<1>2. z = x
  BY <1>1 DEF IsTabs, OneIndexEach
<1> QED
  BY <1>1, <1>2

(* Every step keeps it so. *)
LEMMA NoneLongKept ==
    ASSUME CatalogueIndInv, NoneLong, [Next]_vars
    PROVE  NoneLong'
<1> SUFFICES ASSUME OneIndexEach
             PROVE  /\ db'.long = {}
                    /\ meta'.is = "whole" =>
                          meta'.long = {} /\ UNION Range(meta'.tabs) \subseteq meta'.first
  BY DEF NoneLong, OneIndexEach
<1>1. /\ Typed /\ DownIsEmpty /\ db.long = {} /\ IsTabs(tabs) /\ IsDb(db)
      /\ meta.is = "whole" => meta.long = {} /\ UNION Range(meta.tabs) \subseteq meta.first
  BY DEF CatalogueIndInv, NoneLong, Typed, IsDb, tabs
<1>2. CASE UNCHANGED vars
  BY <1>1, <1>2 DEF vars, memory
<1>3. ASSUME Lost PROVE db'.long = {}
  BY <1>3 DEF Lost, NoTables
<1>4. CASE create_db
  BY <1>1, <1>4, NothingNamed DEF create_db, memory
<1>5. CASE open_db
  <2>1. meta # NoMeta /\ db' = ReadMeta /\ meta' = meta
    BY <1>5 DEF open_db
  <2>2. ~ Garbled
    BY NothingSpilt
  <2>3. meta = Truncated \/ ~ meta.named => ReadMeta.long = {}
    BY DEF ReadMeta, NoTables
  <2>4. meta # Truncated => meta.is = "whole"
    BY <1>1, <2>1, ReadIs
  <2>5. meta # Truncated /\ meta.named => ReadMeta.long = (UNION Range(meta.tabs)) \ meta.first
    BY <1>1, <2>1, <2>2, ReadIs
  <2> QED
    BY <1>1, <2>1, <2>3, <2>4, <2>5
<1>6. CASE OpenNext \/ DuplicateKey \/ truncate_meta
  BY <1>1, <1>6 DEF OpenNext, DuplicateKey, truncate_meta, memory, Truncated
<1>7. CASE OpenFails \/ Crash \/ NullHandle
  BY <1>1, <1>3, <1>7 DEF OpenFails, Crash, NullHandle
<1>8. CASE close_db
  BY <1>1, <1>3, <1>8 DEF close_db, memory
<1>9. ASSUME NEW o \in Orders, meta' = WrittenMeta(o)
      PROVE  meta'.long = {} /\ UNION Range(meta'.tabs) \subseteq meta'.first
  BY <1>1, <1>9, WrittenIs, OnlyIsFirst
<1>10. CASE write_meta
  BY <1>1, <1>9, <1>10 DEF write_meta, memory
<1>11. CASE CloseFiles
  BY <1>3, <1>9, <1>11 DEF CloseFiles
<1>12. CASE IndexBuilt
  BY <1>1, <1>12 DEF IndexBuilt, IsDb
<1>13. CASE Statement
  <2>1. CASE \E t \in TableNames : create_table(t)
    BY <1>1, <2>1 DEF create_table, IsDb
  <2>2. CASE \E t \in TableNames : drop_table(t)
    BY <1>1, <2>2 DEF drop_table, IsDb
  <2>3. CASE \E x \in Indexes : create_index(x)
    BY <1>1, <2>3 DEF create_index
  <2>4. CASE \E x \in Indexes : drop_index(x)
    BY <1>1, <2>4 DEF drop_index, IsDb
  <2> QED
    BY <1>13, <2>1, <2>2, <2>3, <2>4 DEF Statement
<1> QED
  BY <1>2, <1>4, <1>5, <1>6, <1>7, <1>8, <1>10, <1>11, <1>12, <1>13 DEF Next

(* The surplus columns, which the theorems above except, need two indexes  *)
(* of one table: where no table has more than one the next start reads all *)
(* of db.meta, and no index has the columns of another.                    *)
THEOREM OneIndexReadsBack == Spec => []OneIndexIsReadBack
<1>1. Init => NoneLong
  BY DEF Init, NoneLong, NoTables, NoMeta
<1>2. CatalogueIndInv /\ NoneLong /\ [Next]_vars => NoneLong'
  BY NoneLongKept
<1>3. NoneLong => OneIndexIsReadBack
  BY NothingSpilt DEF NoneLong, OneIndexIsReadBack
<1> QED
  BY CatalogueIndInvHolds, <1>1, <1>2, <1>3, PTL DEF Spec
=============================================================================
