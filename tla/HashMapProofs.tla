--------------------------- MODULE HashMapProofs ---------------------------
(***************************************************************************)
(* Proofs about the hash table, for every set of keys and values, every    *)
(* hash function and every initial size and limit.                         *)
(***************************************************************************)
EXTENDS HashMapProps, LibraryProofs

-----------------------------------------------------------------------------
(* Sequences.                                                              *)

(* Removing the i-th element moves those behind it one place forward. *)
LEMMA RemoveAtProperties ==
  ASSUME NEW S, NEW s \in Seq(S), NEW i \in 1 .. Len(s)
  PROVE  /\ RemoveAt(s, i) \in Seq(S)
         /\ Len(RemoveAt(s, i)) = Len(s) - 1
         /\ \A j \in 1 .. Len(s) - 1 :
              RemoveAt(s, i)[j] = IF j < i THEN s[j] ELSE s[j + 1]
<1> DEFINE front == SubSeq(s, 1, i - 1)
           back  == SubSeq(s, i + 1, Len(s))
<1>1. /\ front \in Seq(S)
      /\ Len(front) = i - 1
      /\ \A j \in 1 .. i - 1 : front[j] = s[j]
  BY SubSeqProperties, ElementOfSeq
<1>2. /\ back \in Seq(S)
      /\ Len(back) = Len(s) - i
      /\ \A j \in 1 .. Len(s) - i : back[j] = s[i + j]
  BY SubSeqProperties, ElementOfSeq
<1>3. RemoveAt(s, i) = front \o back
  BY DEF RemoveAt
<1> HIDE DEF front, back
<1>4. /\ front \o back \in Seq(S)
      /\ Len(front \o back) = Len(s) - 1
      /\ \A j \in 1 .. Len(s) - 1 :
           (front \o back)[j] = IF j <= i - 1 THEN front[j] ELSE back[j - (i - 1)]
  BY <1>1, <1>2, ConcatProperties
<1>5. ASSUME NEW j \in 1 .. Len(s) - 1
      PROVE  (front \o back)[j] = IF j < i THEN s[j] ELSE s[j + 1]
  <2>1. Len(s) \in Nat /\ i \in Nat /\ j \in Nat
    OBVIOUS
  <2>2. CASE j < i
    BY <1>1, <1>4, <2>1, <2>2
  <2>3. CASE ~ j < i
    <3>1. j - (i - 1) \in 1 .. Len(s) - i /\ i + (j - (i - 1)) = j + 1
      BY <2>1, <2>3
    <3>2. (front \o back)[j] = back[j - (i - 1)]
      BY <1>4, <2>1, <2>3
    <3> QED
      BY <1>2, <2>3, <3>1, <3>2
  <2> QED
    BY <2>2, <2>3
<1> QED
  BY <1>3, <1>4, <1>5

-----------------------------------------------------------------------------
(* The single table.                                                       *)

LEMMA AllocatedIsArray ==
  ASSUME NEW t, IsTable(t)
  PROVE  Allocated(t) <=> IsArray(t)
<1>1. ASSUME IsArray(t)  PROVE Allocated(t)
  <2>1. 0 \in DOMAIN t.tab
    BY <1>1 DEF IsArray
  <2>2. DOMAIN << >> = {}
    OBVIOUS
  <2> QED
    BY <2>1, <2>2 DEF Allocated
<1>2. ~ Allocated(NoTab)
  BY DEF Allocated, NoTab
<1> QED
  BY <1>1, <1>2 DEF IsTable

(* hcode & mask is the index of a bucket. *)
LEMMA BucketInRange ==
  ASSUME NEW t, IsArray(t), NEW k \in Keys
  PROVE  Bucket(t, k) \in 0 .. t.mask /\ Bucket(t, k) \in DOMAIN t.tab
<1>1. Hash[k] \in Nat /\ t.mask \in Nat
  BY HashAssumption DEF IsArray
<1>2. Bucket(t, k) \in 0 .. t.mask
  BY <1>1 DEF Bucket
<1> QED
  BY <1>2 DEF IsArray

(* h_lookup finds the first node of k in its chain, if there is one. *)
LEMMA LookupInChain ==
  ASSUME NEW t, IsArray(t), NEW k \in Keys
  PROVE  LET chain == t.tab[Bucket(t, k)]
         IN  \/ /\ h_lookup(t, k) \in 1 .. Len(chain)
                /\ chain[h_lookup(t, k)].key = k
             \/ /\ h_lookup(t, k) = 0
                /\ \A i \in 1 .. Len(chain) : chain[i].key # k
<1> DEFINE chain == t.tab[Bucket(t, k)]
           I == {i \in 1 .. Len(chain) : chain[i].key = k}
<1>1. h_lookup(t, k) = IF I # {} THEN Min(I) ELSE 0
  <2>1. Allocated(t)
    BY AllocatedIsArray DEF IsTable
  <2> QED
    BY <2>1 DEF h_lookup, SelectInSeq
<1>2. I # {} => Min(I) \in I
  <2>1. I \in SUBSET Nat
    OBVIOUS
  <2> HIDE DEF I
  <2> QED
    BY <2>1, MinOfNaturals
<1> QED
  BY <1>1, <1>2

(* The same for the whole table: nodes are in their own buckets. *)
LEMMA LookupProperties ==
  ASSUME NEW t, GoodTable(t), NEW k \in Keys
  PROVE  /\ h_lookup(t, k) # 0 <=> Has(t, k)
         /\ h_lookup(t, k) # 0 =>
              /\ IsArray(t)
              /\ Bucket(t, k) \in DOMAIN t.tab
              /\ h_lookup(t, k) \in 1 .. Len(t.tab[Bucket(t, k)])
              /\ t.tab[Bucket(t, k)][h_lookup(t, k)].key = k
<1>1. CASE IsArray(t)
  <2>1. Bucket(t, k) \in DOMAIN t.tab
    BY <1>1, BucketInRange
  <2>2. Has(t, k) =>
          \E i \in 1 .. Len(t.tab[Bucket(t, k)]) : t.tab[Bucket(t, k)][i].key = k
    BY DEF Has, GoodTable, InOwnBucket
  <2> QED
    BY <1>1, <2>1, <2>2, LookupInChain DEF Has
<1>2. CASE ~ IsArray(t)
  <2>1. t = NoTab /\ ~ Allocated(t)
    BY <1>2, AllocatedIsArray DEF GoodTable, IsTable
  <2>2. h_lookup(t, k) = 0
    BY <2>1 DEF h_lookup
  <2>3. ~ Has(t, k)
    BY <2>1 DEF Has, NoTab
  <2> QED
    BY <2>2, <2>3
<1> QED
  BY <1>1, <1>2

(* HTab{} and a table fresh from h_init hold nothing. *)
LEMMA NoTabGood ==
  GoodTable(NoTab) /\ \A k : ~ Has(NoTab, k)
<1>1. NoTab.size = 0 /\ DOMAIN NoTab.tab = {}
  BY DEF NoTab
<1>2. Cells(NoTab) = {}
  BY <1>1 DEF Cells
<1>3. SizeExact(NoTab)
  BY <1>1, <1>2, FS_EmptySet DEF SizeExact
<1> QED
  BY <1>1, <1>3 DEF GoodTable, IsTable, InOwnBucket, UniqueIn, Has

LEMMA InitGood ==
  ASSUME NEW n \in Nat \ {0}
  PROVE  /\ GoodTable(h_init(n)) /\ IsArray(h_init(n))
         /\ \A k : ~ Has(h_init(n), k)
<1> DEFINE t == h_init(n)
<1>1. /\ t.size = 0
      /\ t.mask = n - 1
      /\ DOMAIN t.tab = 0 .. n - 1
      /\ \A b \in 0 .. n - 1 : t.tab[b] = << >>
  BY DEF h_init
<1>2. IsArray(t)
  BY DEF h_init, IsArray
<1> HIDE DEF t
<1>3. \A b \in DOMAIN t.tab : 1 .. Len(t.tab[b]) = {}
  BY <1>1
<1>4. Cells(t) = {}
  BY <1>3 DEF Cells
<1>5. SizeExact(t)
  BY <1>1, <1>4, FS_EmptySet DEF SizeExact
<1> QED
  BY <1>2, <1>3, <1>5 DEF GoodTable, IsTable, InOwnBucket, UniqueIn, Has, t

(* A table whose size is not zero has a chain that is not empty. *)
LEMMA SizeShowsNodes ==
  ASSUME NEW t, GoodTable(t), t.size > 0
  PROVE  IsArray(t) /\ \E b \in DOMAIN t.tab : t.tab[b] # << >>
<1>1. IsArray(t)
  BY DEF GoodTable, IsTable, NoTab
<1>2. Cells(t) # {}
  BY FS_EmptySet DEF GoodTable, SizeExact
<1> QED
  BY <1>1, <1>2 DEF Cells

(* The number of nodes follows a change of one chain by one node. *)
LEMMA OneCellMore ==
  ASSUME NEW t, IsArray(t), SizeExact(t), NEW u, IsArray(u),
         NEW b \in DOMAIN t.tab,
         DOMAIN u.tab = DOMAIN t.tab,
         Len(u.tab[b]) = Len(t.tab[b]) + 1,
         \A c \in DOMAIN t.tab : c # b => Len(u.tab[c]) = Len(t.tab[c]),
         u.size = t.size + 1
  PROVE  SizeExact(u)
<1> DEFINE cell == <<b, Len(t.tab[b]) + 1>>
<1>1. \A c \in DOMAIN t.tab : Len(t.tab[c]) \in Nat
  BY DEF IsArray
<1>2. Cells(u) = Cells(t) \cup {cell}
  BY <1>1 DEF Cells
<1>3. cell \notin Cells(t)
  BY <1>1 DEF Cells
<1> QED
  BY <1>2, <1>3, FS_AddElement DEF SizeExact

LEMMA OneCellLess ==
  ASSUME NEW t, IsArray(t), SizeExact(t), NEW u,
         NEW b \in DOMAIN t.tab,
         t.tab[b] # << >>,
         DOMAIN u.tab = DOMAIN t.tab,
         Len(u.tab[b]) = Len(t.tab[b]) - 1,
         \A c \in DOMAIN t.tab : c # b => Len(u.tab[c]) = Len(t.tab[c]),
         u.size = t.size - 1
  PROVE  SizeExact(u) /\ u.size \in Nat
<1> DEFINE cell == <<b, Len(t.tab[b])>>
<1>1. \A c \in DOMAIN t.tab : Len(t.tab[c]) \in Nat
  BY DEF IsArray
<1>2. Len(t.tab[b]) > 0
  BY EmptySeq DEF IsArray
<1>3. Cells(u) = Cells(t) \ {cell}
  BY <1>1, <1>2 DEF Cells
<1>4. cell \in Cells(t)
  BY <1>1, <1>2 DEF Cells
<1> QED
  BY <1>3, <1>4, FS_RemoveElement, FS_CardinalityType DEF SizeExact

(* h_insert links one more node, in the chain its key hashes to. *)
LEMMA InsertGood ==
  ASSUME NEW t, GoodTable(t), Allocated(t), NEW node \in Node, ~ Has(t, node.key)
  PROVE  /\ GoodTable(h_insert(t, node)) /\ IsArray(h_insert(t, node))
         /\ \A k : Has(h_insert(t, node), k) <=> Has(t, k) \/ k = node.key
<1> DEFINE u == h_insert(t, node)
           p == Bucket(t, node.key)
<1>0. IsArray(t)
  BY AllocatedIsArray DEF GoodTable
<1>1. node.key \in Keys /\ p \in DOMAIN t.tab
  BY <1>0, BucketInRange DEF Node
<1>2. /\ DOMAIN u.tab = DOMAIN t.tab
      /\ u.mask = t.mask
      /\ u.size = t.size + 1
      /\ u.tab[p] = <<node>> \o t.tab[p]
      /\ \A b \in DOMAIN t.tab : b # p => u.tab[b] = t.tab[b]
  BY <1>0, <1>1 DEF h_insert, IsArray
<1>3. t.tab[p] \in Seq(Node)
  BY <1>0, <1>1 DEF IsArray
<1>4. /\ u.tab[p] \in Seq(Node)
      /\ Len(u.tab[p]) = Len(t.tab[p]) + 1
      /\ u.tab[p][1] = node
      /\ \A i \in 1 .. Len(t.tab[p]) : u.tab[p][i + 1] = t.tab[p][i]
  BY <1>2, <1>3
<1>5. IsArray(u)
  <2>1. u.tab \in [0 .. t.mask -> Seq(Node)]
    BY <1>0, <1>1, <1>2, <1>4 DEF IsArray, h_insert
  <2>2. u.size \in Nat
    BY <1>0, <1>2 DEF IsArray
  <2> QED
    BY <1>0, <1>2, <2>1, <2>2 DEF IsArray, h_insert
<1> HIDE DEF u, p
<1> DEFINE from(c, j) == IF c = p THEN j - 1 ELSE j
<1>a. ASSUME NEW c \in DOMAIN u.tab, NEW j \in 1 .. Len(u.tab[c])
      PROVE  \/ c = p /\ j = 1 /\ u.tab[c][j] = node
             \/ /\ from(c, j) \in 1 .. Len(t.tab[c])
                /\ u.tab[c][j] = t.tab[c][from(c, j)]
  <2>1. CASE c = p
    <3>1. Len(t.tab[p]) \in Nat
      BY <1>3
    <3>2. CASE j = 1
      BY <1>4, <2>1, <3>2
    <3>3. CASE j # 1
      <4>1. j - 1 \in 1 .. Len(t.tab[p])
        BY <1>4, <2>1, <3>1, <3>3
      <4>2. u.tab[p][(j - 1) + 1] = t.tab[p][j - 1]
        BY <1>4, <4>1
      <4> QED
        BY <2>1, <4>1, <4>2
    <3> QED
      BY <3>2, <3>3
  <2> QED
    BY <1>2, <2>1
<1>b. ASSUME NEW k, NEW c \in DOMAIN u.tab, NEW j \in 1 .. Len(u.tab[c]),
             u.tab[c][j].key = k, k # node.key
      PROVE  Has(t, k)
  BY <1>2, <1>a, <1>b DEF Has
<1>6. InOwnBucket(u)
  <2> SUFFICES ASSUME NEW c \in DOMAIN u.tab, NEW j \in 1 .. Len(u.tab[c])
               PROVE  c = Bucket(u, u.tab[c][j].key)
    BY DEF InOwnBucket
  <2>1. \A k : Bucket(u, k) = Bucket(t, k)
    BY <1>2 DEF Bucket
  <2>2. InOwnBucket(t)
    BY DEF GoodTable
  <2> HIDE DEF from
  <2>3. CASE c = p /\ u.tab[c][j] = node
    BY <2>1, <2>3 DEF p
  <2>4. CASE /\ from(c, j) \in 1 .. Len(t.tab[c])
             /\ u.tab[c][j] = t.tab[c][from(c, j)]
    BY <1>2, <2>1, <2>2, <2>4 DEF InOwnBucket
  <2> QED
    BY <1>a, <2>3, <2>4
<1>7. SizeExact(u)
  BY <1>0, <1>1, <1>2, <1>4, <1>5, OneCellMore DEF GoodTable
<1>8. ASSUME NEW k  PROVE Has(u, k) <=> Has(t, k) \/ k = node.key
  <2>1. Has(u, node.key)
    <3>1. p \in DOMAIN u.tab /\ 1 \in 1 .. Len(u.tab[p])
      BY <1>1, <1>2, <1>3, <1>4
    <3> QED
      BY <1>4, <3>1 DEF Has
  <2>2. ASSUME Has(t, k)  PROVE Has(u, k)
    <3>0. PICK c \in DOMAIN t.tab :
            \E i \in 1 .. Len(t.tab[c]) : t.tab[c][i].key = k
      BY <2>2 DEF Has
    <3>1. PICK i \in 1 .. Len(t.tab[c]) : t.tab[c][i].key = k
      BY <3>0
    <3>2. CASE c = p
      <4>1. i + 1 \in 1 .. Len(u.tab[c]) /\ u.tab[c][i + 1].key = k
        BY <1>3, <1>4, <3>1, <3>2
      <4> QED
        BY <1>2, <4>1 DEF Has
    <3>3. CASE c # p
      BY <1>2, <3>1, <3>3 DEF Has
    <3> QED
      BY <3>2, <3>3
  <2>3. Has(u, k) => Has(t, k) \/ k = node.key
    BY <1>b DEF Has
  <2> QED
    BY <2>1, <2>2, <2>3
<1>9. UniqueIn(u)
  <2> SUFFICES ASSUME NEW c \in DOMAIN u.tab, NEW d \in DOMAIN u.tab,
                      NEW i \in 1 .. Len(u.tab[c]), NEW j \in 1 .. Len(u.tab[d]),
                      u.tab[c][i].key = u.tab[d][j].key
               PROVE  c = d /\ i = j
    BY DEF UniqueIn
  <2>1. \A x \in DOMAIN t.tab : \A n \in 1 .. Len(t.tab[x]) :
          t.tab[x][n].key # node.key
    BY DEF Has
  <2>2. UniqueIn(t)
    BY DEF GoodTable
  <2> DEFINE old(x, n) == /\ from(x, n) \in 1 .. Len(t.tab[x])
                          /\ u.tab[x][n] = t.tab[x][from(x, n)]
             new(x, n) == x = p /\ n = 1 /\ u.tab[x][n] = node
  <2>3. (new(c, i) \/ old(c, i)) /\ (new(d, j) \/ old(d, j))
    BY <1>a
  <2>4. \A x \in DOMAIN u.tab : \A n : old(x, n) => u.tab[x][n].key # node.key
    <3> HIDE DEF from
    <3> QED
      BY <1>2, <2>1
  <2>5. CASE new(c, i) \/ new(d, j)
    <3>1. ~ (new(c, i) /\ old(d, j)) /\ ~ (new(d, j) /\ old(c, i))
      <4> HIDE DEF old
      <4> QED
        BY <2>4
    <3> QED
      BY <2>3, <2>5, <3>1
  <2>6. CASE old(c, i) /\ old(d, j)
    <3>1. c = d /\ from(c, i) = from(d, j)
      <4> HIDE DEF from
      <4>1. t.tab[c][from(c, i)].key = t.tab[d][from(d, j)].key
        BY <2>6
      <4>2. c \in DOMAIN t.tab /\ d \in DOMAIN t.tab
        BY <1>2
      <4> QED
        BY <2>2, <2>6, <4>1, <4>2 DEF UniqueIn
    <3> QED
      BY <3>1
  <2> QED
    BY <2>3, <2>5, <2>6
<1> QED
  BY <1>5, <1>6, <1>7, <1>8, <1>9 DEF GoodTable, IsTable, u

(* h_detach unlinks the node it is given and no other. *)
LEMMA DetachGood ==
  ASSUME NEW t, GoodTable(t), IsArray(t),
         NEW b \in DOMAIN t.tab, NEW i \in 1 .. Len(t.tab[b])
  PROVE  /\ GoodTable(h_detach(t, b, i)) /\ IsArray(h_detach(t, b, i))
         /\ h_detach(t, b, i).size = t.size - 1
         /\ DOMAIN h_detach(t, b, i).tab = DOMAIN t.tab
         /\ \A c \in DOMAIN t.tab : c # b => h_detach(t, b, i).tab[c] = t.tab[c]
         /\ \A k : Has(h_detach(t, b, i), k) <=> Has(t, k) /\ k # t.tab[b][i].key
<1> DEFINE u == h_detach(t, b, i)
<1>1. /\ DOMAIN u.tab = DOMAIN t.tab
      /\ u.mask = t.mask
      /\ u.size = t.size - 1
      /\ u.tab[b] = RemoveAt(t.tab[b], i)
      /\ \A c \in DOMAIN t.tab : c # b => u.tab[c] = t.tab[c]
  BY DEF h_detach, IsArray
<1>2. t.tab[b] \in Seq(Node) /\ t.tab[b] # << >>
  BY DEF IsArray
<1>3. /\ u.tab[b] \in Seq(Node)
      /\ Len(u.tab[b]) = Len(t.tab[b]) - 1
      /\ \A j \in 1 .. Len(t.tab[b]) - 1 :
           u.tab[b][j] = IF j < i THEN t.tab[b][j] ELSE t.tab[b][j + 1]
  BY <1>1, <1>2, RemoveAtProperties
<1>4. SizeExact(u) /\ u.size \in Nat
  BY <1>1, <1>2, <1>3, OneCellLess DEF GoodTable
<1>5. IsArray(u)
  <2>1. u.tab \in [0 .. t.mask -> Seq(Node)]
    BY <1>1, <1>3 DEF IsArray, h_detach
  <2> QED
    BY <1>1, <1>4, <2>1 DEF IsArray, h_detach
<1> HIDE DEF u
<1> DEFINE from(c, j) == IF c = b /\ j >= i THEN j + 1 ELSE j
<1>a. ASSUME NEW c \in DOMAIN u.tab, NEW j \in 1 .. Len(u.tab[c])
      PROVE  /\ from(c, j) \in 1 .. Len(t.tab[c])
             /\ u.tab[c][j] = t.tab[c][from(c, j)]
             /\ ~ (c = b /\ from(c, j) = i)
  <2>1. CASE c = b
    <3>1. Len(t.tab[b]) \in Nat
      BY <1>2
    <3> QED
      BY <1>3, <2>1, <3>1
  <2>2. CASE c # b
    BY <1>1, <2>2
  <2> QED
    BY <2>1, <2>2
<1>b. UniqueIn(t) /\ InOwnBucket(t)
  BY DEF GoodTable
<1>6. InOwnBucket(u)
  <2> SUFFICES ASSUME NEW c \in DOMAIN u.tab, NEW j \in 1 .. Len(u.tab[c])
               PROVE  c = Bucket(u, u.tab[c][j].key)
    BY DEF InOwnBucket
  <2> HIDE DEF from
  <2>1. \A k : Bucket(u, k) = Bucket(t, k)
    BY <1>1 DEF Bucket
  <2> QED
    BY <1>a, <1>b, <1>1, <2>1 DEF InOwnBucket
<1>7. UniqueIn(u)
  <2> SUFFICES ASSUME NEW c \in DOMAIN u.tab, NEW d \in DOMAIN u.tab,
                      NEW m \in 1 .. Len(u.tab[c]), NEW n \in 1 .. Len(u.tab[d]),
                      u.tab[c][m].key = u.tab[d][n].key
               PROVE  c = d /\ m = n
    BY DEF UniqueIn
  <2>1. c = d /\ from(c, m) = from(d, n)
    <3> HIDE DEF from
    <3>1. t.tab[c][from(c, m)].key = t.tab[d][from(d, n)].key
      BY <1>a
    <3>2. /\ c \in DOMAIN t.tab /\ d \in DOMAIN t.tab
          /\ from(c, m) \in 1 .. Len(t.tab[c])
          /\ from(d, n) \in 1 .. Len(t.tab[d])
      BY <1>a, <1>1
    <3> QED
      BY <1>b, <3>1, <3>2 DEF UniqueIn
  <2> QED
    BY <2>1
<1>8. ASSUME NEW k  PROVE Has(u, k) <=> Has(t, k) /\ k # t.tab[b][i].key
  <2>1. ASSUME Has(u, k)  PROVE Has(t, k) /\ k # t.tab[b][i].key
    <3>0. PICK c \in DOMAIN u.tab :
            \E j \in 1 .. Len(u.tab[c]) : u.tab[c][j].key = k
      BY <2>1 DEF Has
    <3>1. PICK j \in 1 .. Len(u.tab[c]) : u.tab[c][j].key = k
      BY <3>0
    <3>2. c \in DOMAIN t.tab
      BY <1>1
    <3> HIDE DEF from
    <3>3. Has(t, k)
      BY <1>a, <3>1, <3>2 DEF Has
    <3>4. /\ from(c, j) \in 1 .. Len(t.tab[c]) /\ t.tab[c][from(c, j)].key = k
          /\ ~ (c = b /\ from(c, j) = i)
      BY <1>a, <3>1
    <3>5. k # t.tab[b][i].key
      <4>1. ASSUME t.tab[c][from(c, j)].key = t.tab[b][i].key
            PROVE  c = b /\ from(c, j) = i
        BY <1>b, <3>2, <3>4, <4>1 DEF UniqueIn
      <4> QED
        BY <3>4, <4>1
    <3> QED
      BY <3>3, <3>5
  <2>2. ASSUME Has(t, k), k # t.tab[b][i].key  PROVE Has(u, k)
    <3>0. PICK c \in DOMAIN t.tab :
            \E j \in 1 .. Len(t.tab[c]) : t.tab[c][j].key = k
      BY <2>2 DEF Has
    <3>1. PICK j \in 1 .. Len(t.tab[c]) : t.tab[c][j].key = k
      BY <3>0
    <3>2. CASE c = b
      <4> DEFINE m == IF j < i THEN j ELSE j - 1
      <4>1. Len(t.tab[b]) \in Nat
        BY <1>2
      <4>2. m \in 1 .. Len(t.tab[b]) - 1
        BY <2>2, <3>1, <3>2, <4>1
      <4>a. j # i
        BY <2>2, <3>1, <3>2
      <4>b. u.tab[b][m] = IF m < i THEN t.tab[b][m] ELSE t.tab[b][m + 1]
        <5> HIDE DEF m
        <5> QED
          BY <1>3, <4>2
      <4>3. u.tab[b][m] = t.tab[b][j]
        BY <4>a, <4>b
      <4> HIDE DEF m
      <4> QED
        BY <1>1, <1>3, <3>1, <3>2, <4>2, <4>3 DEF Has
    <3>3. CASE c # b
      BY <1>1, <3>1, <3>3 DEF Has
    <3> QED
      BY <3>2, <3>3
  <2> QED
    BY <2>1, <2>2
<1> QED
  BY <1>1, <1>4, <1>5, <1>6, <1>7, <1>8 DEF GoodTable, IsTable, u

(* Changing the value of an entry moves no node. *)
LEMMA SetValueGood ==
  ASSUME NEW t, GoodTable(t), NEW k \in Keys, NEW v \in Values, Has(t, k)
  PROVE  /\ GoodTable(SetValue(t, k, v)) /\ IsArray(SetValue(t, k, v))
         /\ SetValue(t, k, v).size = t.size
         /\ DOMAIN SetValue(t, k, v).tab = DOMAIN t.tab
         /\ \A b \in DOMAIN t.tab : t.tab[b] = << >> => SetValue(t, k, v).tab[b] = << >>
         /\ \A c : Has(SetValue(t, k, v), c) <=> Has(t, c)
<1> DEFINE u == SetValue(t, k, v)
           p == Bucket(t, k)
           i == h_lookup(t, k)
<1>1. /\ IsArray(t)
      /\ p \in DOMAIN t.tab
      /\ i \in 1 .. Len(t.tab[p])
  BY LookupProperties
<1> HIDE DEF p, i
<1>2. /\ t.tab[p] \in Seq(Node)
      /\ t.tab[p][i] \in Node
  BY <1>1, ElementOfSeq DEF IsArray
<1> DEFINE node == [t.tab[p][i] EXCEPT !.val = v]
<1>3. node \in Node /\ node.key = t.tab[p][i].key
  BY <1>2 DEF Node
<1>4. /\ DOMAIN u.tab = DOMAIN t.tab
      /\ u.mask = t.mask
      /\ u.size = t.size
      /\ u.tab[p] = [t.tab[p] EXCEPT ![i] = node]
      /\ \A b \in DOMAIN t.tab : b # p => u.tab[b] = t.tab[b]
  BY <1>1 DEF SetValue, IsArray, p, i
<1>5. u.tab \in [0 .. t.mask -> Seq(Node)] /\ IsArray(u)
  <2>1. [t.tab[p] EXCEPT ![i] = node] \in Seq(Node)
    BY <1>1, <1>2, <1>3, ExceptSeq
  <2> QED
    BY <1>1, <1>4, <2>1 DEF SetValue, IsArray, p, i
<1> HIDE DEF u, node
<1>6. /\ Len(u.tab[p]) = Len(t.tab[p])
      /\ \A j \in 1 .. Len(t.tab[p]) : u.tab[p][j].key = t.tab[p][j].key
  BY <1>1, <1>2, <1>3, <1>4, ExceptSeq
<1>7. \A b \in DOMAIN t.tab :
        /\ Len(u.tab[b]) = Len(t.tab[b])
        /\ \A j \in 1 .. Len(t.tab[b]) : u.tab[b][j].key = t.tab[b][j].key
  BY <1>4, <1>6
<1>8. Cells(u) = Cells(t)
  BY <1>4, <1>7 DEF Cells
<1>9. ASSUME NEW c  PROVE Has(u, c) <=> Has(t, c)
  <2>1. Has(u, c) => Has(t, c)
    BY <1>4, <1>7 DEF Has
  <2>2. Has(t, c) => Has(u, c)
    BY <1>4, <1>7 DEF Has
  <2> QED
    BY <2>1, <2>2
<1>10. \A b \in DOMAIN t.tab : t.tab[b] = << >> => u.tab[b] = << >>
  BY <1>1, <1>4
<1>11. InOwnBucket(u) /\ UniqueIn(u)
  BY <1>4, <1>7 DEF GoodTable, InOwnBucket, UniqueIn, Bucket
<1> QED
  BY <1>4, <1>5, <1>8, <1>9, <1>10, <1>11 DEF GoodTable, IsTable, SizeExact, u

-----------------------------------------------------------------------------
(* The pair of tables and the handlers.                                    *)

(* The bucket the resize loop looks at exists as long as there is a node   *)
(* left to move.                                                           *)
LEMMA NextPosInRange ==
  ASSUME IInv, tb2.size > 0
  PROVE  /\ IsArray(tb2)
         /\ NextPos \in DOMAIN tb2.tab
         /\ \A b \in DOMAIN tb2.tab : b < NextPos => tb2.tab[b] = << >>
<1>1. IsArray(tb2) /\ \E b \in DOMAIN tb2.tab : tb2.tab[b] # << >>
  BY SizeShowsNodes DEF IInv
<1>2. /\ resizing_pos \in DOMAIN tb2.tab
      /\ \A b \in DOMAIN tb2.tab : b < resizing_pos => tb2.tab[b] = << >>
  BY DEF IInv, CursorBehindNodes
<1>3. DOMAIN tb2.tab = 0 .. tb2.mask /\ tb2.mask \in Nat
  BY <1>1 DEF IsArray
<1> QED
  BY <1>1, <1>2, <1>3 DEF NextPos

LEMMA InitEstablishesIInv == Init => IInv
<1> SUFFICES ASSUME Init PROVE IInv
  OBVIOUS
<1>1. tb1 = NoTab /\ tb2 = NoTab
  BY DEF Init
<1>2. TypeOK
  BY <1>1 DEF Init, TypeOK, IsTable, RequestCommands
<1>3. tb2.size = 0 /\ ~ Allocated(tb2)
  BY <1>1 DEF NoTab, Allocated
<1> QED
  BY <1>1, <1>2, <1>3, NoTabGood DEF IInv, CursorBehindNodes

(* The steps that touch neither table nor cursor. *)
LEMMA TablesKept ==
  ASSUME IInv, UNCHANGED tables, TypeOK'
  PROVE  IInv'
  BY DEF IInv, tables, CursorBehindNodes, Allocated

LEMMA MoveOneNodeStep ==
  ASSUME IInv, MoveOneNode
  PROVE  IInv'
<1> DEFINE node == tb2.tab[NextPos][1]
<1>1. tb2.size > 0
  BY DEF MoveOneNode, MoreWork
<1>2. /\ IsArray(tb2)
      /\ NextPos \in DOMAIN tb2.tab
      /\ \A b \in DOMAIN tb2.tab : b < NextPos => tb2.tab[b] = << >>
  BY <1>1, NextPosInRange
<1>3. /\ tb2.tab[NextPos] \in Seq(Node)
      /\ 1 \in 1 .. Len(tb2.tab[NextPos])
  BY <1>2 DEF MoveOneNode, IsArray
<1>4. node \in Node /\ node.key \in Keys
  <2>1. node \in Node
    BY <1>3, ElementOfSeq
  <2> QED
    BY <2>1 DEF Node
<1>5. Has(tb2, node.key)
  BY <1>2, <1>3 DEF Has
<1>6. Allocated(tb1) /\ ~ Has(tb1, node.key)
  BY <1>2, <1>4, <1>5, AllocatedIsArray DEF IInv, GoodTable
<1>7. tb1' = h_insert(tb1, node) /\ tb2' = h_detach(tb2, NextPos, 1)
  BY DEF MoveOneNode
<1>8. /\ GoodTable(tb1') /\ IsArray(tb1')
      /\ \A k : Has(tb1', k) <=> Has(tb1, k) \/ k = node.key
  BY <1>4, <1>6, <1>7, InsertGood DEF IInv
<1>9. /\ GoodTable(tb2') /\ IsArray(tb2')
      /\ DOMAIN tb2'.tab = DOMAIN tb2.tab
      /\ \A c \in DOMAIN tb2.tab : c # NextPos => tb2'.tab[c] = tb2.tab[c]
      /\ \A k : Has(tb2', k) <=> Has(tb2, k) /\ k # node.key
  BY <1>2, <1>3, <1>7, DetachGood DEF IInv
<1> HIDE DEF node
<1>10. TypeOK'
  <2>1. resizing_pos' \in Nat
    BY <1>2 DEF MoveOneNode, IsArray
  <2>2. moved' \in Nat
    BY DEF MoveOneNode, IInv, TypeOK
  <2> QED
    BY <1>8, <1>9, <2>1, <2>2 DEF MoveOneNode, IInv, TypeOK, GoodTable
<1>11. \A k \in Keys : ~ (Has(tb1', k) /\ Has(tb2', k))
  BY <1>8, <1>9 DEF IInv
<1>12. Allocated(tb1')
  BY <1>8, AllocatedIsArray DEF GoodTable
<1>13. CursorBehindNodes'
  <2>1. resizing_pos' = NextPos
    BY DEF MoveOneNode
  <2>2. DOMAIN tb2.tab \subseteq Nat
    BY <1>2 DEF IsArray
  <2> QED
    BY <1>2, <1>9, <2>1, <2>2 DEF CursorBehindNodes
<1> QED
  BY <1>8, <1>9, <1>10, <1>11, <1>12, <1>13 DEF IInv

LEMMA LeaveHelpResizingStep ==
  ASSUME IInv, LeaveHelpResizing
  PROVE  IInv'
<1>1. tb2' = NoTab \/ tb2' = tb2
  BY DEF LeaveHelpResizing
<1>2. /\ GoodTable(tb2')
      /\ \A k : Has(tb2', k) => Has(tb2, k)
      /\ Allocated(tb2') => Allocated(tb2)
  BY <1>1, NoTabGood DEF IInv, Allocated, NoTab
<1>3. CursorBehindNodes'
  <2>1. CASE tb2' = NoTab
    BY <2>1 DEF CursorBehindNodes, NoTab
  <2>2. CASE tb2' = tb2
    BY <2>2 DEF IInv, CursorBehindNodes, LeaveHelpResizing
  <2> QED
    BY <1>1, <2>1, <2>2
<1>4. TypeOK'
  BY <1>2 DEF LeaveHelpResizing, IInv, TypeOK, GoodTable
<1> QED
  BY <1>2, <1>3, <1>4 DEF LeaveHelpResizing, IInv

LEMMA SetUpdateStep ==
  ASSUME IInv, do_set_update
  PROVE  IInv'
<1> DEFINE k == cmd.key
           v == cmd.val
<1>1. k \in Keys /\ v \in Values
  BY DEF IInv, TypeOK, do_set_update, RequestCommands, KeysCommand, UnknownCommand
<1> HIDE DEF k, v
<1>2. CASE InTb1(k)
  <2>1. tb1' = SetValue(tb1, k, v) /\ tb2' = tb2 /\ resizing_pos' = resizing_pos
    BY <1>2 DEF do_set_update, InTb2, k, v
  <2>2. Has(tb1, k)
    BY <1>1, <1>2, LookupProperties DEF InTb1, IInv
  <2>3. /\ GoodTable(tb1') /\ IsArray(tb1')
        /\ \A c : Has(tb1', c) <=> Has(tb1, c)
    BY <1>1, <2>1, <2>2, SetValueGood DEF IInv
  <2>4. TypeOK'
    BY <2>1, <2>3 DEF do_set_update, IInv, TypeOK, GoodTable
  <2>5. Allocated(tb1')
    BY <2>3, AllocatedIsArray DEF GoodTable
  <2> QED
    BY <2>1, <2>3, <2>4, <2>5 DEF IInv, CursorBehindNodes
<1>3. CASE ~ InTb1(k)
  <2>1. tb2' = SetValue(tb2, k, v) /\ tb1' = tb1 /\ resizing_pos' = resizing_pos
    BY <1>3 DEF do_set_update, k, v
  <2>2. Has(tb2, k)
    BY <1>1, <1>3, LookupProperties DEF do_set_update, InTb2, IInv, k
  <2>3. /\ GoodTable(tb2') /\ IsArray(tb2')
        /\ tb2'.size = tb2.size
        /\ DOMAIN tb2'.tab = DOMAIN tb2.tab
        /\ \A b \in DOMAIN tb2.tab : tb2.tab[b] = << >> => tb2'.tab[b] = << >>
        /\ \A c : Has(tb2', c) <=> Has(tb2, c)
    BY <1>1, <2>1, <2>2, SetValueGood DEF IInv
  <2>4. TypeOK'
    BY <2>1, <2>3 DEF do_set_update, IInv, TypeOK, GoodTable
  <2>5. Allocated(tb1')
    <3>1. IsArray(tb2)
      BY <1>1, <2>2, LookupProperties DEF IInv
    <3> QED
      BY <2>1, <3>1, AllocatedIsArray DEF IInv, GoodTable
  <2>6. CursorBehindNodes'
    BY <2>1, <2>3 DEF IInv, CursorBehindNodes
  <2> QED
    BY <2>1, <2>3, <2>4, <2>5, <2>6 DEF IInv
<1> QED
  BY <1>2, <1>3

LEMMA InsertStep ==
  ASSUME IInv, hm_insert
  PROVE  IInv'
<1> DEFINE k == cmd.key
           node == [key |-> cmd.key, val |-> cmd.val]
           base == IF Allocated(tb1) THEN tb1 ELSE h_init(InitSize)
<1>1. k \in Keys /\ node \in Node /\ node.key = k
  BY DEF IInv, TypeOK, hm_insert, RequestCommands, KeysCommand, UnknownCommand, Node
<1>2. ~ Has(tb1, k) /\ ~ Has(tb2, k)
  BY <1>1, LookupProperties DEF hm_insert, InTb1, InTb2, IInv
<1>3. /\ GoodTable(base) /\ Allocated(base)
      /\ \A c : Has(base, c) <=> Has(tb1, c)
  <2>1. CASE Allocated(tb1)
    BY <2>1 DEF IInv
  <2>2. CASE ~ Allocated(tb1)
    <3>1. tb1 = NoTab
      BY <2>2, AllocatedIsArray DEF IInv, GoodTable, IsTable
    <3> QED
      BY <2>2, <3>1, NoTabGood, InitGood, InitSizeAssumption, AllocatedIsArray DEF GoodTable
  <2> QED
    BY <2>1, <2>2
<1>4. Inserted = h_insert(base, node)
  BY DEF Inserted
<1> HIDE DEF base, node, k
<1>5. /\ GoodTable(Inserted) /\ IsArray(Inserted)
      /\ \A c : Has(Inserted, c) <=> Has(tb1, c) \/ c = k
  BY <1>1, <1>2, <1>3, <1>4, InsertGood
<1>6. CASE ~ Allocated(tb2) /\ tb2' = Inserted /\ tb1' = h_init(2 * (Inserted.mask + 1))
           /\ resizing_pos' = 0
  <2>1. 2 * (Inserted.mask + 1) \in Nat \ {0}
    BY <1>5 DEF IsArray
  <2>2. GoodTable(tb1') /\ IsArray(tb1') /\ \A c : ~ Has(tb1', c)
    BY <1>6, <2>1, InitGood
  <2>3. TypeOK'
    BY <1>5, <1>6, <2>2 DEF hm_insert, EnterHelpResizing, IInv, TypeOK, GoodTable
  <2>4. CursorBehindNodes'
    BY <1>5, <1>6 DEF CursorBehindNodes, IsArray
  <2> QED
    BY <1>5, <1>6, <2>2, <2>3, <2>4, AllocatedIsArray DEF IInv, GoodTable
<1>7. CASE tb1' = Inserted /\ UNCHANGED <<tb2, resizing_pos>>
  <2>1. TypeOK'
    BY <1>5, <1>7 DEF hm_insert, EnterHelpResizing, IInv, TypeOK, GoodTable
  <2>2. \A c \in Keys : ~ (Has(tb1', c) /\ Has(tb2', c))
    BY <1>2, <1>5, <1>7 DEF IInv
  <2>3. Allocated(tb1')
    BY <1>5, <1>7, AllocatedIsArray DEF GoodTable
  <2>4. CursorBehindNodes'
    BY <1>7 DEF IInv, CursorBehindNodes
  <2> QED
    BY <1>5, <1>7, <2>1, <2>2, <2>3, <2>4 DEF IInv
<1> QED
  BY <1>6, <1>7 DEF hm_insert

LEMMA DelStep ==
  ASSUME IInv, do_del
  PROVE  IInv'
<1> DEFINE k == cmd.key
<1>1. k \in Keys
  BY DEF IInv, TypeOK, do_del, Dispatch, RequestCommands, KeysCommand, UnknownCommand
<1> HIDE DEF k
<1>2. ASSUME NEW t, GoodTable(t), h_lookup(t, k) # 0
      PROVE  /\ GoodTable(Unlink(t, k)) /\ IsArray(Unlink(t, k)) /\ IsArray(t)
             /\ DOMAIN Unlink(t, k).tab = DOMAIN t.tab
             /\ Unlink(t, k).size = t.size - 1
             /\ \A b \in DOMAIN t.tab : t.tab[b] = << >> => Unlink(t, k).tab[b] = << >>
             /\ \A c : Has(Unlink(t, k), c) => Has(t, c)
  <2> DEFINE p == Bucket(t, k)
             i == h_lookup(t, k)
  <2>1. IsArray(t) /\ p \in DOMAIN t.tab /\ i \in 1 .. Len(t.tab[p])
    BY <1>1, <1>2, LookupProperties
  <2>2. Unlink(t, k) = h_detach(t, p, i)
    BY DEF Unlink
  <2> HIDE DEF p, i
  <2>3. t.tab[p] # << >>
    BY <2>1
  <2> QED
    BY <1>2, <2>1, <2>2, <2>3, DetachGood
<1>3. CASE InTb1(k)
  <2>1. tb1' = Unlink(tb1, k) /\ tb2' = tb2 /\ resizing_pos' = resizing_pos
    BY <1>3 DEF do_del, InTb2, k
  <2>2. /\ GoodTable(tb1') /\ IsArray(tb1')
        /\ \A c : Has(tb1', c) => Has(tb1, c)
    BY <1>2, <1>3, <2>1 DEF IInv, InTb1
  <2>3. TypeOK'
    BY <2>1, <2>2 DEF do_del, IInv, TypeOK, GoodTable
  <2>4. Allocated(tb1')
    BY <2>2, AllocatedIsArray DEF GoodTable
  <2> QED
    BY <2>1, <2>2, <2>3, <2>4 DEF IInv, CursorBehindNodes
<1>4. CASE InTb2(k)
  <2>1. tb2' = Unlink(tb2, k) /\ tb1' = tb1 /\ resizing_pos' = resizing_pos
    BY <1>4 DEF do_del, InTb2, k
  <2>2. /\ GoodTable(tb2') /\ IsArray(tb2') /\ IsArray(tb2)
        /\ DOMAIN tb2'.tab = DOMAIN tb2.tab
        /\ tb2'.size = tb2.size - 1
        /\ \A b \in DOMAIN tb2.tab : tb2.tab[b] = << >> => tb2'.tab[b] = << >>
        /\ \A c : Has(tb2', c) => Has(tb2, c)
    BY <1>2, <1>4, <2>1 DEF IInv, InTb2
  <2>3. TypeOK'
    BY <2>1, <2>2 DEF do_del, IInv, TypeOK, GoodTable
  <2>4. Allocated(tb1')
    BY <2>1, <2>2, AllocatedIsArray DEF IInv, GoodTable
  <2>5. CursorBehindNodes'
    <3>1. tb2.size \in Nat
      BY <2>2 DEF IsArray
    <3> QED
      BY <2>1, <2>2, <3>1 DEF IInv, CursorBehindNodes
  <2> QED
    BY <2>1, <2>2, <2>3, <2>4, <2>5 DEF IInv
<1>5. CASE ~ InTb1(k) /\ ~ InTb2(k)
  <2>1. UNCHANGED tables
    BY <1>5 DEF do_del, tables, k
  <2>2. TypeOK'
    BY <2>1 DEF do_del, tables, IInv, TypeOK
  <2> QED
    BY <2>1, <2>2, TablesKept
<1> QED
  BY <1>3, <1>4, <1>5

LEMMA DetachNullStep ==
  ASSUME IInv, DetachNull
  PROVE  IInv'
<1>1. /\ IsArray(tb2)
      /\ NextPos \in DOMAIN tb2.tab
      /\ \A b \in DOMAIN tb2.tab : b < NextPos => tb2.tab[b] = << >>
  BY NextPosInRange DEF DetachNull, MoreWork
<1>2. resizing_pos' = NextPos /\ tb1' = tb1 /\ tb2' = tb2
  BY DEF DetachNull
<1>3. TypeOK'
  <2>1. NextPos \in Nat
    BY <1>1 DEF IsArray
  <2> QED
    BY <1>2, <2>1 DEF DetachNull, IInv, TypeOK
<1> QED
  BY <1>1, <1>2, <1>3 DEF IInv, CursorBehindNodes

(* One step of the handlers, or a stutter, keeps the invariant. *)
LEMMA NextKeepsIInv == IInv /\ [Next]_vars => IInv'
<1> SUFFICES ASSUME IInv, [Next]_vars PROVE IInv'
  OBVIOUS
<1> USE DEF tables
<1>1. ASSUME NEW c \in RequestCommands, do_request(c)  PROVE IInv'
  BY <1>1, TablesKept DEF do_request, IInv, TypeOK
<1>2. CASE hm_lookup
  BY <1>2, TablesKept DEF hm_lookup, EnterHelpResizing, IInv, TypeOK
<1>3. CASE do_get
  BY <1>3, TablesKept DEF do_get, IInv, TypeOK
<1>4. CASE do_keys
  BY <1>4, TablesKept DEF do_keys, IInv, TypeOK
<1>5. CASE UnknownCmd
  BY <1>5, TablesKept DEF UnknownCmd, IInv, TypeOK
<1>6. CASE DestroySwapped
  BY <1>6, TablesKept DEF DestroySwapped, IInv, TypeOK
<1>7. CASE Return
  BY <1>7, TablesKept DEF Return, IInv, TypeOK
<1>8. CASE UNCHANGED vars
  BY <1>8, TablesKept DEF vars, IInv, TypeOK
<1> QED
  BY <1>1, <1>2, <1>3, <1>4, <1>5, <1>6, <1>7, <1>8, MoveOneNodeStep,
     DetachNullStep, LeaveHelpResizingStep, SetUpdateStep, InsertStep, DelStep
     DEF Next, Handler

-----------------------------------------------------------------------------
(* The theorems.                                                           *)

(* The invariant holds in every reachable state. *)
THEOREM InvariantHolds == Spec => []IInv
  BY InitEstablishesIInv, NextKeepsIInv, PTL DEF Spec

(* Every variable keeps its type whatever do_request is called with; in    *)
(* particular no size underflows and no chain is taken for an array.       *)
THEOREM TypesHold == Spec => []TypeOK
<1>1. IInv => TypeOK
  BY DEF IInv
<1> QED
  BY <1>1, InvariantHolds, PTL

(* Every node is in the chain a lookup of its key searches, through every  *)
(* insert, delete and step of a resize (h_insert, h_detach).               *)
THEOREM NodesStayInOwnBucket == Spec => []NodesInOwnBucket
<1>1. IInv => NodesInOwnBucket
  BY DEF IInv, GoodTable, NodesInOwnBucket
<1> QED
  BY <1>1, InvariantHolds, PTL

(* No key is linked twice, in one table or across the two (do_set looks    *)
(* in both tables before hm_insert links a node).                          *)
THEOREM KeysStayUnique == Spec => []KeysUnique
<1>1. ASSUME IInv  PROVE DisjointTables
  <2> SUFFICES ASSUME NEW b \in DOMAIN tb1.tab, NEW c \in DOMAIN tb2.tab,
                      NEW i \in 1 .. Len(tb1.tab[b]), NEW j \in 1 .. Len(tb2.tab[c]),
                      tb1.tab[b][i].key = tb2.tab[c][j].key
               PROVE  FALSE
    BY DEF DisjointTables
  <2> DEFINE k == tb1.tab[b][i].key
  <2>1. Has(tb1, k) /\ Has(tb2, k)
    BY DEF Has
  <2>2. tb1.tab[b] \in Seq(Node)
    <3>1. tb1 # NoTab
      BY DEF NoTab
    <3>2. IsArray(tb1)
      BY <1>1, <3>1 DEF IInv, GoodTable, IsTable
    <3> QED
      BY <3>2 DEF IsArray
  <2>3. tb1.tab[b][i] \in Node
    BY <2>2, ElementOfSeq
  <2>4. k \in Keys
    BY <2>3 DEF Node
  <2> QED
    BY <1>1, <2>1, <2>4 DEF IInv
<1>2. IInv => KeysUnique
  BY <1>1 DEF IInv, GoodTable, KeysUnique
<1> QED
  BY <1>2, InvariantHolds, PTL

(* HTab::size is exact in both tables (h_insert, h_detach).                *)
THEOREM SizesStayExact == Spec => []SizesExact
<1>1. IInv => SizesExact
  BY DEF IInv, GoodTable, SizesExact
<1> QED
  BY <1>1, InvariantHolds, PTL

(* hm_help_resizing never indexes past the array of tb2, and leaves no     *)
(* node behind resizing_pos.                                               *)
THEOREM CursorStaysOK == Spec => []CursorOK
<1>1. IInv => CursorOK
  BY NextPosInRange DEF CursorOK, IInv, CursorBehindNodes
<1> QED
  BY <1>1, InvariantHolds, PTL

-----------------------------------------------------------------------------
(* Why the chains stay short: the load of the table, for every hash        *)
(* function, initial size and limit.                                       *)

(* The load test.                                                          *)

(* A quotient bounds its dividend. *)
LEMMA QuotientBound ==
  ASSUME NEW x \in Nat, NEW d \in Nat \ {0}, NEW k \in Nat, x \div d <= k
  PROVE  x < (k + 1) * d
<1> DEFINE q == x \div d
<1>1. q \in Nat /\ x < d * q + d
  BY DEF q
<1> HIDE DEF q
<1>2. q <= k
  BY DEF q
<1>3. d * q <= d * k
  BY <1>1, <1>2
<1>4. (k + 1) * d = d * k + d
  OBVIOUS
<1>5. d * q \in Nat /\ d * k \in Nat
  BY <1>1
<1> QED
  BY <1>1, <1>3, <1>4, <1>5

(* A number of nodes that a table may hold, a table of twice as many       *)
(* buckets may hold with one node more.                                    *)
LEMMA TwiceAsMany ==
  ASSUME NEW x \in Nat, NEW d \in Nat \ {0}, NEW k \in Nat, x < (k + 1) * d
  PROVE  x + 1 < (k + 1) * (2 * d)
<1>1. (k + 1) * d \in Nat /\ (k + 1) * (2 * d) = 2 * ((k + 1) * d)
  OBVIOUS
<1> QED
  BY <1>1

(* No table without room for a node. *)
LEMMA RoomForOne ==
  ASSUME NEW d \in Nat \ {0}, NEW k \in Nat
  PROVE  0 < (k + 1) * d
  OBVIOUS
-----------------------------------------------------------------------------
(* What the operations on a table do to its size and its mask.             *)

LEMMA InsertSize ==
  ASSUME NEW t, IsArray(t), NEW node
  PROVE  h_insert(t, node).size = t.size + 1 /\ h_insert(t, node).mask = t.mask
  BY DEF h_insert, IsArray

LEMMA DetachSize ==
  ASSUME NEW t, IsArray(t), NEW b, NEW i
  PROVE  h_detach(t, b, i).size = t.size - 1 /\ h_detach(t, b, i).mask = t.mask
  BY DEF h_detach, IsArray

LEMMA SetValueSize ==
  ASSUME NEW t, IsArray(t), NEW k, NEW v
  PROVE  SetValue(t, k, v).size = t.size /\ SetValue(t, k, v).mask = t.mask
  BY DEF SetValue, IsArray

(* The numbers of a table. *)
LEMMA TableNumbers ==
  ASSUME NEW t, IsTable(t)
  PROVE  t.size \in Nat /\ t.mask \in Nat
  BY DEF IsTable, IsArray, NoTab

LEMMA FoundTableIsArray ==
  ASSUME NEW t, GoodTable(t), NEW k \in Keys, h_lookup(t, k) # 0
  PROVE  IsArray(t)
  BY LookupProperties

(* A key that a command names. *)
LEMMA CommandKey ==
  ASSUME IInv, cmd.op \in {"set", "del"}
  PROVE  cmd.key \in Keys
  BY DEF IInv, TypeOK, RequestCommands, KeysCommand, UnknownCommand

-----------------------------------------------------------------------------
(* LoadInv is inductive, given IInv before the step.                       *)

LEMMA InitLoad == Init => LoadInv
  BY DEF Init, LoadInv, NoTab, Allocated

(* The steps that touch no table. *)
LEMMA TablesKeptLoad ==
  ASSUME LoadInv, tb1' = tb1, tb2' = tb2, n_work' = 0,
         pc' \in {"help", "segv"} \/ pc \notin {"help", "segv"}
  PROVE  LoadInv'
  BY DEF LoadInv, Allocated

LEMMA MoveOneNodeLoad ==
  ASSUME IInv, LoadInv, MoveOneNode
  PROVE  LoadInv'
<1>1. IsArray(tb2)
  BY NextPosInRange DEF MoveOneNode, MoreWork
<1>2. Allocated(tb2)
  BY <1>1, AllocatedIsArray DEF IsTable
<1>3. IsArray(tb1) /\ Allocated(tb1)
  BY <1>2, AllocatedIsArray DEF IInv, GoodTable
<1>4. /\ tb1'.size = tb1.size + 1 /\ tb1'.mask = tb1.mask
      /\ tb2'.size = tb2.size - 1
  BY <1>1, <1>3, InsertSize, DetachSize DEF MoveOneNode
<1>5. tb1'.size + tb2'.size = tb1.size + tb2.size
  BY <1>1, <1>3, <1>4 DEF IsArray
<1>6. pc' = "help" /\ n_work' = 0
  BY DEF MoveOneNode, LoadInv
<1> QED
  BY <1>3, <1>4, <1>5, <1>6 DEF LoadInv

LEMMA LeaveHelpResizingLoad ==
  ASSUME IInv, LoadInv, LeaveHelpResizing
  PROVE  LoadInv'
<1>1. tb2.size \in Nat
  BY TableNumbers DEF IInv, GoodTable
<1>2. tb2.size = 0
  BY <1>1, LimitsAssumption DEF LeaveHelpResizing, LoopDone, MoreWork, LoadInv
<1>3. tb2' = NoTab /\ tb1' = tb1 /\ n_work' = 0
  BY <1>2 DEF LeaveHelpResizing, LoadInv
<1>4. NoTab.size = 0
  BY DEF NoTab
<1> QED
  BY <1>2, <1>3, <1>4 DEF LoadInv, Allocated

LEMMA SetUpdateLoad ==
  ASSUME IInv, LoadInv, do_set_update
  PROVE  LoadInv'
<1>1. cmd.key \in Keys
  BY CommandKey DEF do_set_update
<1>2. pc = "search" /\ pc' = "reply" /\ n_work' = 0 /\ tb2 = NoTab
  BY DEF do_set_update, LoadInv
<1>3. h_lookup(NoTab, cmd.key) = 0
  BY DEF h_lookup, Allocated, NoTab
<1>4. InTb1(cmd.key)
  BY <1>2, <1>3 DEF do_set_update, InTb2
<1>5. IsArray(tb1)
  BY <1>1, <1>4, FoundTableIsArray DEF InTb1, IInv
<1>6. tb1'.size = tb1.size /\ tb1'.mask = tb1.mask /\ tb2' = tb2
  BY <1>4, <1>5, SetValueSize DEF do_set_update, InTb2
<1>7. Allocated(tb1)
  BY <1>5, AllocatedIsArray DEF IInv, GoodTable
<1> QED
  BY <1>2, <1>6, <1>7 DEF LoadInv

LEMMA DelLoad ==
  ASSUME IInv, LoadInv, do_del
  PROVE  LoadInv'
<1>1. cmd.key \in Keys
  BY CommandKey DEF do_del, Dispatch
<1>2. pc = "dispatch" /\ pc' = "reply" /\ n_work' = 0 /\ tb2 = NoTab
  BY DEF do_del, Dispatch, LoadInv
<1>3. h_lookup(NoTab, cmd.key) = 0
  BY DEF h_lookup, Allocated, NoTab
<1>4. tb2' = tb2
  BY <1>2, <1>3 DEF do_del, InTb2
<1>5. CASE InTb1(cmd.key)
  <2>1. IsArray(tb1)
    BY <1>1, <1>5, FoundTableIsArray DEF InTb1, IInv
  <2>2. tb1'.size = tb1.size - 1 /\ tb1'.mask = tb1.mask
    BY <1>5, <2>1, DetachSize DEF do_del, Unlink
  <2>3. Allocated(tb1)
    BY <2>1, AllocatedIsArray DEF IInv, GoodTable
  <2>4. tb1.size + tb2.size < (k_max_load_factor + 1) * (tb1.mask + 1)
    BY <2>3 DEF LoadInv
  <2>5. /\ tb1.size \in Nat /\ tb1.mask \in Nat /\ tb2.size \in Nat
        /\ k_max_load_factor \in Nat
    BY LimitsAssumption, TableNumbers DEF IInv, GoodTable
  <2> DEFINE bound == (k_max_load_factor + 1) * (tb1.mask + 1)
  <2>6. bound \in Nat
    BY <2>5
  <2> HIDE DEF bound
  <2>7. tb1.size - 1 + tb2.size < bound
    BY <2>4, <2>5, <2>6 DEF bound
  <2>8. tb1'.size + tb2'.size < (k_max_load_factor + 1) * (tb1'.mask + 1)
    BY <1>4, <2>2, <2>7 DEF bound
  <2> QED
    BY <1>2, <1>4, <2>8 DEF LoadInv
<1>6. CASE ~ InTb1(cmd.key)
  <2>1. tb1' = tb1
    BY <1>6 DEF do_del
  <2> QED
    BY <1>2, <1>4, <2>1, TablesKeptLoad
<1> QED
  BY <1>5, <1>6

LEMMA InsertLoad ==
  ASSUME IInv, LoadInv, hm_insert
  PROVE  LoadInv'
<1> DEFINE node == [key |-> cmd.key, val |-> cmd.val]
           base == IF Allocated(tb1) THEN tb1 ELSE h_init(InitSize)
           d == base.mask + 1
           k == k_max_load_factor
<1>1. tb2 = NoTab /\ tb2.size = 0
  BY DEF hm_insert, LoadInv, NoTab
<1>2. pc' = "help" /\ n_work' = 0
  BY DEF hm_insert, EnterHelpResizing
<1>3. k \in Nat
  BY LimitsAssumption
<1>4. /\ IsArray(base) /\ d \in Nat \ {0} /\ base.size \in Nat
      /\ base.size < (k + 1) * d
  <2>1. CASE Allocated(tb1)
    <3>1. IsArray(tb1)
      BY <2>1, AllocatedIsArray DEF IInv, GoodTable
    <3>2. tb1.size + tb2.size < (k + 1) * (tb1.mask + 1)
      BY <2>1 DEF LoadInv
    <3> QED
      BY <1>1, <2>1, <3>1, <3>2 DEF IsArray
  <2>2. CASE ~ Allocated(tb1)
    <3>1. base = h_init(InitSize) /\ InitSize \in Nat \ {0}
      BY <2>2, InitSizeAssumption
    <3>2. IsArray(base)
      BY <3>1, InitGood
    <3>3. base.size = 0 /\ d = InitSize
      BY <3>1 DEF h_init
    <3>4. 0 < (k + 1) * InitSize
      BY <1>3, <3>1, RoomForOne
    <3> QED
      BY <3>1, <3>2, <3>3, <3>4
  <2> QED
    BY <2>1, <2>2
<1>5. Inserted = h_insert(base, node)
  BY DEF Inserted
<1> HIDE DEF base, node
<1>6. Inserted.size = base.size + 1 /\ Inserted.mask = base.mask
  BY <1>4, <1>5, InsertSize
<1>7. CASE /\ tb2' = Inserted /\ tb1' = h_init(2 * (Inserted.mask + 1))
  <2>1. tb1'.size = 0 /\ tb1'.mask + 1 = 2 * d
    BY <1>4, <1>6, <1>7 DEF h_init
  <2>2. tb2'.size = base.size + 1
    BY <1>6, <1>7
  <2>3. base.size + 1 < (k + 1) * (2 * d)
    BY <1>3, <1>4, TwiceAsMany
  <2>4. tb1'.size + tb2'.size = base.size + 1
    BY <1>4, <2>1, <2>2
  <2>5. tb1'.size + tb2'.size < (k + 1) * (tb1'.mask + 1)
    BY <2>1, <2>3, <2>4
  <2> QED
    BY <1>2, <2>5 DEF LoadInv
<1>8. CASE ~ Overloaded(Inserted) /\ tb1' = Inserted /\ tb2' = tb2
  <2>1. Inserted.size \in Nat /\ Inserted.mask + 1 = d
    BY <1>4, <1>6
  <2>2. Inserted.size \div d <= k
    BY <1>3, <1>4, <1>8, <2>1 DEF Overloaded
  <2>3. Inserted.size < (k + 1) * d
    BY <1>3, <1>4, <2>1, <2>2, QuotientBound
  <2>4. tb1'.size + tb2'.size = Inserted.size
    BY <1>1, <1>8, <2>1
  <2>5. tb1'.size + tb2'.size < (k + 1) * (tb1'.mask + 1)
    BY <1>8, <2>1, <2>3, <2>4
  <2> QED
    BY <1>2, <2>5 DEF LoadInv
<1>9. ~ Allocated(tb2)
  BY <1>1 DEF Allocated, NoTab
<1> QED
  BY <1>7, <1>8, <1>9 DEF hm_insert

LEMMA NextKeepsLoad == IInv /\ LoadInv /\ [Next]_vars => LoadInv'
<1> SUFFICES ASSUME IInv, LoadInv, [Next]_vars PROVE LoadInv'
  OBVIOUS
<1> USE DEF tables
<1>0. n_work = 0
  BY DEF LoadInv
<1>1. ASSUME NEW c \in RequestCommands, do_request(c)  PROVE LoadInv'
  BY <1>0, <1>1, TablesKeptLoad DEF do_request
<1>2. CASE hm_lookup
  BY <1>2, TablesKeptLoad DEF hm_lookup, EnterHelpResizing
<1>3. CASE do_get
  BY <1>0, <1>3, TablesKeptLoad DEF do_get
<1>4. CASE do_keys
  BY <1>0, <1>4, TablesKeptLoad DEF do_keys, Dispatch
<1>5. CASE UnknownCmd
  BY <1>0, <1>5, TablesKeptLoad DEF UnknownCmd, Dispatch
<1>6. CASE DestroySwapped
  BY <1>0, <1>6, TablesKeptLoad DEF DestroySwapped
<1>7. CASE Return
  BY <1>0, <1>7, TablesKeptLoad DEF Return
<1>8. CASE DetachNull
  BY <1>0, <1>8, TablesKeptLoad DEF DetachNull
<1>9. CASE UNCHANGED vars
  BY <1>0, <1>9, TablesKeptLoad DEF vars
<1> QED
  BY <1>1, <1>2, <1>3, <1>4, <1>5, <1>6, <1>7, <1>8, <1>9, MoveOneNodeLoad,
     LeaveHelpResizingLoad, SetUpdateLoad, InsertLoad, DelLoad
     DEF Next, Handler

-----------------------------------------------------------------------------
(* Between commands no resize is half done, and the table in use has fewer *)
(* nodes than one more than k_max_load_factor for each bucket: hm_insert   *)
(* tests the load after every insertion, hm_help_resizing never stops      *)
(* before tb2 is empty.                                                    *)
THEOREM LoadStaysBounded == Spec => []LoadBounded
<1>1. Init => IInv /\ LoadInv
  BY InitEstablishesIInv, InitLoad
<1>2. IInv /\ LoadInv /\ [Next]_vars => IInv' /\ LoadInv'
  BY NextKeepsIInv, NextKeepsLoad
<1>3. ASSUME IInv, LoadInv  PROVE LoadBounded
  <2>1. tb1.size \in Nat
    BY <1>3, TableNumbers DEF IInv, GoodTable
  <2>2. NoTab.size = 0 /\ ~ Allocated(NoTab)
    BY DEF NoTab, Allocated
  <2> QED
    BY <1>3, <2>1, <2>2 DEF LoadInv, LoadBounded
<1> QED
  BY <1>1, <1>2, <1>3, PTL DEF Spec
=============================================================================
