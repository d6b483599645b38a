------------------------- MODULE HashMapRefinement -------------------------
(***************************************************************************)
(* Proof that the hash table implements the key-value store: whatever      *)
(* keys collide and wherever a resize stands, a command reads and changes  *)
(* the entry it names and no other.                                        *)
(***************************************************************************)
EXTENDS HashMapProofs

-----------------------------------------------------------------------------
(* The nodes of one table.                                                 *)

Linked(t, n) == \E b \in DOMAIN t.tab : \E i \in 1 .. Len(t.tab[b]) : t.tab[b][i] = n

LEMMA NodesAreLinked ==
  /\ \A n : n \in Nodes <=> Linked(tb1, n) \/ Linked(tb2, n)
  /\ \A n : n \in Nodes' <=> Linked(tb1', n) \/ Linked(tb2', n)
<1>1. ASSUME NEW t, NEW n  PROVE n \in NodesOf(t) <=> Linked(t, n)
  BY DEF NodesOf, Chains, Linked
<1>2. Nodes = NodesOf(tb1) \cup NodesOf(tb2) /\ Nodes' = NodesOf(tb1') \cup NodesOf(tb2')
  BY DEF Nodes, NodesOf, Chains
<1> HIDE DEF Nodes
<1> QED
  BY <1>1, <1>2

LEMMA LinkedHas ==
  ASSUME NEW t
  PROVE  /\ \A n : Linked(t, n) => Has(t, n.key)
         /\ \A k : Has(t, k) => \E n : Linked(t, n) /\ n.key = k
BY DEF Linked, Has

LEMMA LinkedNode ==
  ASSUME NEW t, IsTable(t), NEW n, Linked(t, n)
  PROVE  n \in Node
<1>1. IsArray(t)
  BY DEF IsTable, NoTab, Linked
<1>2. PICK b \in DOMAIN t.tab : \E i \in 1 .. Len(t.tab[b]) : t.tab[b][i] = n
  BY DEF Linked
<1>3. t.tab[b] \in Seq(Node)
  BY <1>1, <1>2 DEF IsArray
<1> QED
  BY <1>2, <1>3, ElementOfSeq

LEMMA LinkedOnce ==
  ASSUME NEW t, UniqueIn(t), NEW n, Linked(t, n), NEW m, Linked(t, m), n.key = m.key
  PROVE  n = m
<1>a. PICK b \in DOMAIN t.tab : \E i \in 1 .. Len(t.tab[b]) : t.tab[b][i] = n
  BY DEF Linked
<1>1. PICK i \in 1 .. Len(t.tab[b]) : t.tab[b][i] = n
  BY <1>a
<1>b. PICK c \in DOMAIN t.tab : \E j \in 1 .. Len(t.tab[c]) : t.tab[c][j] = m
  BY DEF Linked
<1>2. PICK j \in 1 .. Len(t.tab[c]) : t.tab[c][j] = m
  BY <1>b
<1>3. b = c /\ i = j
  BY <1>1, <1>2 DEF UniqueIn
<1> QED
  BY <1>1, <1>2, <1>3

LEMMA NoNodes ==
  ASSUME NEW t, \A k : ~ Has(t, k)
  PROVE  \A n : ~ Linked(t, n)
BY LinkedHas

(* A table that counts no nodes has none. *)
LEMMA SizeZero ==
  ASSUME NEW t, GoodTable(t), t.size = 0
  PROVE  /\ \A k : ~ Has(t, k)
         /\ \A b \in DOMAIN t.tab : t.tab[b] = << >>
<1>0. IsFiniteSet(Cells(t)) /\ Cardinality(Cells(t)) = 0
  BY DEF GoodTable, SizeExact
<1>1. Cells(t) = {}
  BY <1>0, FS_EmptySet, Zenon
<1>2. ASSUME NEW b \in DOMAIN t.tab, NEW i \in 1 .. Len(t.tab[b])  PROVE FALSE
  <2>1. <<b, i>> \in {b} \X (1 .. Len(t.tab[b]))
    OBVIOUS
  <2>2. <<b, i>> \in Cells(t)
    BY <2>1 DEF Cells
  <2> QED
    BY <1>1, <2>2
<1>3. \A k : ~ Has(t, k)
  BY <1>2 DEF Has
<1>4. ASSUME NEW b \in DOMAIN t.tab  PROVE t.tab[b] = << >>
  <2>1. IsArray(t)
    BY DEF GoodTable, IsTable, NoTab
  <2>2. t.tab[b] \in Seq(Node) /\ Len(t.tab[b]) \in Nat
    BY <2>1, LenProperties DEF IsArray
  <2>3. Len(t.tab[b]) = 0
    BY <1>2, <2>2
  <2> QED
    BY <2>2, <2>3, EmptySeq
<1> QED
  BY <1>3, <1>4

LEMMA InsertLinks ==
  ASSUME NEW t, GoodTable(t), Allocated(t), NEW node \in Node, ~ Has(t, node.key)
  PROVE  \A n : Linked(h_insert(t, node), n) <=> Linked(t, n) \/ n = node
<1> DEFINE u == h_insert(t, node)
           p == Bucket(t, node.key)
<1>0. IsArray(t)
  BY AllocatedIsArray DEF GoodTable
<1>1. node.key \in Keys /\ p \in DOMAIN t.tab
  BY <1>0, BucketInRange DEF Node
<1>2. /\ DOMAIN u.tab = DOMAIN t.tab
      /\ u.tab[p] = <<node>> \o t.tab[p]
      /\ \A b \in DOMAIN t.tab : b # p => u.tab[b] = t.tab[b]
  BY <1>0, <1>1 DEF h_insert, IsArray
<1>3. t.tab[p] \in Seq(Node) /\ Len(t.tab[p]) \in Nat
  BY <1>0, <1>1, LenProperties DEF IsArray
<1>4. /\ Len(u.tab[p]) = Len(t.tab[p]) + 1
      /\ u.tab[p][1] = node
      /\ \A i \in 1 .. Len(t.tab[p]) : u.tab[p][i + 1] = t.tab[p][i]
  BY <1>2, <1>3
<1>5. /\ UniqueIn(t) /\ UniqueIn(u)
      /\ \A k : Has(u, k) <=> Has(t, k) \/ k = node.key
  BY InsertGood DEF GoodTable
<1> HIDE DEF u, p
<1>6. ASSUME NEW n, Linked(u, n)  PROVE Linked(t, n) \/ n = node
  <2>a. PICK c \in DOMAIN u.tab : \E j \in 1 .. Len(u.tab[c]) : u.tab[c][j] = n
    BY <1>6 DEF Linked
  <2>1. PICK j \in 1 .. Len(u.tab[c]) : u.tab[c][j] = n
    BY <2>a
  <2>2. CASE c # p
    BY <1>2, <2>1, <2>2 DEF Linked
  <2>3. CASE c = p /\ j = 1
    BY <1>4, <2>1, <2>3
  <2>4. CASE c = p /\ j # 1
    <3>1. j - 1 \in 1 .. Len(t.tab[p]) /\ (j - 1) + 1 = j
      BY <1>3, <1>4, <2>4
    <3>2. t.tab[p][j - 1] = n
      BY <1>4, <2>1, <2>4, <3>1
    <3> QED
      BY <1>1, <3>1, <3>2 DEF Linked
  <2> QED
    BY <2>2, <2>3, <2>4
<1>7. ASSUME NEW n, Linked(t, n)  PROVE Linked(u, n)
  <2>1. Has(t, n.key) /\ n.key # node.key
    BY <1>7, LinkedHas
  <2>2. PICK m : Linked(u, m) /\ m.key = n.key
    BY <1>5, <2>1, LinkedHas
  <2>3. Linked(t, m)
    BY <1>6, <2>1, <2>2
  <2> QED
    BY <1>5, <1>7, <2>2, <2>3, LinkedOnce
<1>8. Linked(u, node)
  <2>1. PICK m : Linked(u, m) /\ m.key = node.key
    BY <1>5, LinkedHas
  <2>2. ~ Linked(t, m)
    BY <2>1, LinkedHas
  <2> QED
    BY <1>6, <2>1, <2>2
<1> QED
  BY <1>6, <1>7, <1>8 DEF u

LEMMA DetachLinks ==
  ASSUME NEW t, GoodTable(t), IsArray(t),
         NEW b \in DOMAIN t.tab, NEW i \in 1 .. Len(t.tab[b])
  PROVE  \A n : Linked(h_detach(t, b, i), n) <=> Linked(t, n) /\ n.key # t.tab[b][i].key
<1> DEFINE u == h_detach(t, b, i)
<1>1. /\ DOMAIN u.tab = DOMAIN t.tab
      /\ u.tab[b] = RemoveAt(t.tab[b], i)
      /\ \A c \in DOMAIN t.tab : c # b => u.tab[c] = t.tab[c]
  BY DEF h_detach, IsArray
<1>2. t.tab[b] \in Seq(Node) /\ Len(t.tab[b]) \in Nat
  BY LenProperties DEF IsArray
<1>3. /\ Len(u.tab[b]) = Len(t.tab[b]) - 1
      /\ \A j \in 1 .. Len(t.tab[b]) - 1 :
           u.tab[b][j] = IF j < i THEN t.tab[b][j] ELSE t.tab[b][j + 1]
  BY <1>1, <1>2, RemoveAtProperties
<1>4. /\ UniqueIn(t)
      /\ \A k : Has(u, k) <=> Has(t, k) /\ k # t.tab[b][i].key
  BY DetachGood DEF GoodTable
<1> HIDE DEF u
<1>5. ASSUME NEW n, Linked(u, n)  PROVE Linked(t, n)
  <2>a. PICK c \in DOMAIN u.tab : \E j \in 1 .. Len(u.tab[c]) : u.tab[c][j] = n
    BY <1>5 DEF Linked
  <2>1. PICK j \in 1 .. Len(u.tab[c]) : u.tab[c][j] = n
    BY <2>a
  <2>2. CASE c # b
    BY <1>1, <2>1, <2>2 DEF Linked
  <2>3. CASE c = b
    <3>1. j \in 1 .. Len(t.tab[b]) /\ j + 1 \in 1 .. Len(t.tab[b])
          /\ j \in 1 .. Len(t.tab[b]) - 1
      BY <1>2, <1>3, <2>3
    <3>2. n = t.tab[b][j] \/ n = t.tab[b][j + 1]
      BY <1>3, <2>1, <2>3, <3>1
    <3> QED
      BY <3>1, <3>2 DEF Linked
  <2> QED
    BY <2>2, <2>3
<1>6. ASSUME NEW n, Linked(u, n)  PROVE n.key # t.tab[b][i].key
  BY <1>4, <1>6, LinkedHas
<1>7. ASSUME NEW n, Linked(t, n), n.key # t.tab[b][i].key  PROVE Linked(u, n)
  <2>1. Has(u, n.key)
    BY <1>4, <1>7, LinkedHas
  <2>2. PICK m : Linked(u, m) /\ m.key = n.key
    BY <2>1, LinkedHas
  <2> QED
    BY <1>4, <1>5, <1>7, <2>2, LinkedOnce
<1> QED
  BY <1>5, <1>6, <1>7 DEF u

LEMMA SetValueLinks ==
  ASSUME NEW t, GoodTable(t), NEW k \in Keys, NEW v \in Values, Has(t, k)
  PROVE  \A n : Linked(SetValue(t, k, v), n) <=>
                  \/ Linked(t, n) /\ n.key # k
                  \/ n = [key |-> k, val |-> v]
<1> DEFINE u == SetValue(t, k, v)
           p == Bucket(t, k)
           i == h_lookup(t, k)
<1>1. /\ IsArray(t)
      /\ p \in DOMAIN t.tab
      /\ i \in 1 .. Len(t.tab[p])
      /\ t.tab[p][i].key = k
  BY LookupProperties
<1> HIDE DEF p, i
<1>2. t.tab[p] \in Seq(Node) /\ t.tab[p][i] \in Node
  BY <1>1, ElementOfSeq DEF IsArray
<1> DEFINE node == [t.tab[p][i] EXCEPT !.val = v]
<1>3. node = [key |-> k, val |-> v]
  BY <1>1, <1>2 DEF Node
<1>4. /\ DOMAIN u.tab = DOMAIN t.tab
      /\ u.tab[p] = [t.tab[p] EXCEPT ![i] = node]
      /\ \A b \in DOMAIN t.tab : b # p => u.tab[b] = t.tab[b]
  BY <1>1 DEF SetValue, IsArray, p, i
<1> HIDE DEF u, node
<1>5. /\ Len(u.tab[p]) = Len(t.tab[p]) /\ u.tab[p][i] = node
      /\ \A j \in 1 .. Len(t.tab[p]) : j # i => u.tab[p][j] = t.tab[p][j]
  <2>1. node \in Node
    BY <1>3 DEF Node
  <2> QED
    BY <1>1, <1>2, <1>4, <2>1, ExceptSeq
<1>6. UniqueIn(t) /\ UniqueIn(u) /\ \A c : Has(u, c) <=> Has(t, c)
  BY SetValueGood DEF GoodTable, u
<1>7. Linked(u, [key |-> k, val |-> v])
  BY <1>1, <1>3, <1>4, <1>5 DEF Linked
<1>8. ASSUME NEW n, Linked(u, n), n # node  PROVE Linked(t, n)
  <2>a. PICK c \in DOMAIN u.tab : \E j \in 1 .. Len(u.tab[c]) : u.tab[c][j] = n
    BY <1>8 DEF Linked
  <2>1. PICK j \in 1 .. Len(u.tab[c]) : u.tab[c][j] = n
    BY <2>a
  <2>2. CASE c # p
    BY <1>4, <2>1, <2>2 DEF Linked
  <2>3. CASE c = p
    BY <1>4, <1>5, <1>8, <2>1, <2>3 DEF Linked
  <2> QED
    BY <2>2, <2>3
<1>9. ASSUME NEW n, Linked(u, n), n # node  PROVE n.key # k
  BY <1>3, <1>6, <1>7, <1>9, LinkedOnce
<1>10. ASSUME NEW n, Linked(t, n), n.key # k  PROVE Linked(u, n)
  <2>1. PICK m : Linked(u, m) /\ m.key = n.key
    BY <1>6, <1>10, LinkedHas
  <2>2. Linked(t, m)
    BY <1>3, <1>8, <1>10, <2>1
  <2> QED
    BY <1>6, <1>10, <2>1, <2>2, LinkedOnce
<1> QED
  BY <1>3, <1>7, <1>8, <1>9, <1>10 DEF u

-----------------------------------------------------------------------------
(* What a set of nodes stores.                                             *)

KeysDistinct(N) == \A n, m \in N : n.key = m.key => n = m

ContentsOf(N) == [k \in {n.key : n \in N} |-> (CHOOSE n \in N : n.key = k).val]

LEMMA ContentsIs ==
  Contents = ContentsOf(Nodes) /\ Contents' = ContentsOf(Nodes')
BY DEF Contents, ContentsOf

LEMMA ContentsProperties ==
  ASSUME NEW N, KeysDistinct(N)
  PROVE  /\ DOMAIN ContentsOf(N) = {n.key : n \in N}
         /\ ContentsOf(N) = [k \in DOMAIN ContentsOf(N) |-> ContentsOf(N)[k]]
         /\ \A n \in N : ContentsOf(N)[n.key] = n.val
<1>1. /\ DOMAIN ContentsOf(N) = {n.key : n \in N}
      /\ \A k \in {n.key : n \in N} : ContentsOf(N)[k] = (CHOOSE n \in N : n.key = k).val
      /\ ContentsOf(N) = [k \in DOMAIN ContentsOf(N) |-> ContentsOf(N)[k]]
  BY DEF ContentsOf
<1>2. ASSUME NEW n \in N  PROVE (CHOOSE m \in N : m.key = n.key) = n
  <2>1. \E m \in N : m.key = n.key
    OBVIOUS
  <2> QED
    BY <2>1 DEF KeysDistinct
<1> QED
  BY <1>1, <1>2

(* The contents once a node that is new, or that takes the place of the    *)
(* one with its key, is linked.                                            *)
Updated(f, k, v) == [c \in DOMAIN f \cup {k} |-> IF c = k THEN v ELSE f[c]]

LEMMA ContentsAdd ==
  ASSUME NEW N, KeysDistinct(N), NEW k, NEW v, NEW M,
         M = {n \in N : n.key # k} \cup {[key |-> k, val |-> v]}
  PROVE  ContentsOf(M) = Updated(ContentsOf(N), k, v)
<1>1. PICK new \in M : new = [key |-> k, val |-> v] /\ new.key = k /\ new.val = v
  <2>1. [key |-> k, val |-> v] \in M
    OBVIOUS
  <2> QED
    BY <2>1
<1>2. \A n \in M : n = new \/ (n \in N /\ n.key # k)
  BY <1>1
<1>3. \A n \in N : n.key # k => n \in M
  OBVIOUS
<1>4. KeysDistinct(M)
  BY <1>1, <1>2 DEF KeysDistinct
<1>5. /\ DOMAIN ContentsOf(N) = {n.key : n \in N}
      /\ \A n \in N : ContentsOf(N)[n.key] = n.val
  BY ContentsProperties
<1>6. /\ DOMAIN ContentsOf(M) = {n.key : n \in M}
      /\ ContentsOf(M) = [c \in DOMAIN ContentsOf(M) |-> ContentsOf(M)[c]]
      /\ \A n \in M : ContentsOf(M)[n.key] = n.val
  BY <1>4, ContentsProperties
<1>7. {n.key : n \in M} = {n.key : n \in N} \cup {k}
  BY <1>1, <1>2, <1>3
<1>8. ASSUME NEW c \in {n.key : n \in M}
      PROVE  ContentsOf(M)[c] = IF c = k THEN v ELSE ContentsOf(N)[c]
  <2>1. PICK n \in M : n.key = c
    OBVIOUS
  <2>2. CASE n = new
    BY <1>1, <1>6, <2>1, <2>2
  <2>3. CASE n \in N /\ n.key # k
    BY <1>5, <1>6, <2>1, <2>3
  <2> QED
    BY <1>2, <2>2, <2>3
<1> QED
  BY <1>5, <1>6, <1>7, <1>8 DEF Updated

LEMMA ContentsRemove ==
  ASSUME NEW N, KeysDistinct(N), NEW k, NEW M, M = {n \in N : n.key # k}
  PROVE  ContentsOf(M) = [c \in DOMAIN ContentsOf(N) \ {k} |-> ContentsOf(N)[c]]
<1>1. KeysDistinct(M)
  BY DEF KeysDistinct
<1>2. /\ DOMAIN ContentsOf(N) = {n.key : n \in N}
      /\ \A n \in N : ContentsOf(N)[n.key] = n.val
  BY ContentsProperties
<1>3. /\ DOMAIN ContentsOf(M) = {n.key : n \in M}
      /\ ContentsOf(M) = [c \in DOMAIN ContentsOf(M) |-> ContentsOf(M)[c]]
      /\ \A n \in M : ContentsOf(M)[n.key] = n.val
  BY <1>1, ContentsProperties
<1>4. {n.key : n \in M} = {n.key : n \in N} \ {k}
  OBVIOUS
<1>5. ASSUME NEW c \in {n.key : n \in M}  PROVE ContentsOf(M)[c] = ContentsOf(N)[c]
  BY <1>2, <1>3
<1> QED
  BY <1>2, <1>3, <1>4, <1>5

LEMMA NodesDistinct ==
  ASSUME IInv
  PROVE  KeysDistinct(Nodes) /\ Nodes \subseteq Node
<1>1. ASSUME NEW n \in Nodes  PROVE n \in Node /\ n.key \in Keys
  <2>1. n \in Node
    BY NodesAreLinked, LinkedNode DEF IInv, GoodTable
  <2> QED
    BY <2>1 DEF Node
<1>2. ASSUME NEW n \in Nodes, NEW m \in Nodes, n.key = m.key  PROVE n = m
  <2>1. UniqueIn(tb1) /\ UniqueIn(tb2)
    BY DEF IInv, GoodTable
  <2>2. ~ (Has(tb1, n.key) /\ Has(tb2, n.key))
    BY <1>1 DEF IInv
  <2>3. Linked(tb1, n) \/ Linked(tb2, n)
    BY NodesAreLinked
  <2>4. Linked(tb1, m) \/ Linked(tb2, m)
    BY NodesAreLinked
  <2>5. ~ (Linked(tb1, n) /\ Linked(tb2, m)) /\ ~ (Linked(tb2, n) /\ Linked(tb1, m))
    BY <1>2, <2>2, LinkedHas
  <2> QED
    BY <1>2, <2>1, <2>3, <2>4, <2>5, LinkedOnce
<1> QED
  BY <1>1, <1>2 DEF KeysDistinct

(* A key exists if one of the two tables has it. *)
LEMMA KeysOf ==
  ASSUME IInv
  PROVE  \A k : k \in DOMAIN Contents <=> Has(tb1, k) \/ Has(tb2, k)
<1>1. DOMAIN Contents = {n.key : n \in Nodes}
  BY NodesDistinct, ContentsIs, ContentsProperties
<1>2. \A n : n \in Nodes <=> Linked(tb1, n) \/ Linked(tb2, n)
  BY NodesAreLinked
<1>3. ASSUME NEW k, k \in DOMAIN Contents  PROVE Has(tb1, k) \/ Has(tb2, k)
  BY <1>1, <1>2, <1>3, LinkedHas
<1>4. ASSUME NEW k, Has(tb1, k) \/ Has(tb2, k)  PROVE k \in DOMAIN Contents
  <2>1. PICK n : (Linked(tb1, n) \/ Linked(tb2, n)) /\ n.key = k
    BY <1>4, LinkedHas
  <2> QED
    BY <1>1, <1>2, <2>1
<1> QED
  BY <1>3, <1>4

-----------------------------------------------------------------------------
(* What the steps of the handlers do to the nodes.                         *)

LEMMA SameNodes ==
  ASSUME NEW N, \A n : n \in N <=> Linked(tb1', n) \/ Linked(tb2', n)
  PROVE  Nodes' = N
<1>1. \A n : n \in Nodes' <=> n \in N
  BY NodesAreLinked
<1> QED
  BY <1>1, Zenon

LEMMA MoveNodes ==
  ASSUME IInv, MoveOneNode
  PROVE  Nodes' = Nodes
<1>1. tb2.size > 0
  BY DEF MoveOneNode, MoreWork
<1>2. IsArray(tb2) /\ NextPos \in DOMAIN tb2.tab
  BY <1>1, NextPosInRange
<1>3. tb2.tab[NextPos] \in Seq(Node) /\ 1 \in 1 .. Len(tb2.tab[NextPos])
  BY <1>2 DEF MoveOneNode, IsArray
<1>4. PICK node \in Node : node = tb2.tab[NextPos][1]
  BY <1>3, ElementOfSeq
<1>5. Has(tb2, node.key) /\ Linked(tb2, node) /\ node.key \in Keys
  BY <1>2, <1>3, <1>4 DEF Has, Linked, Node
<1>6. GoodTable(tb1) /\ GoodTable(tb2) /\ Allocated(tb1) /\ ~ Has(tb1, node.key)
  BY <1>2, <1>5, AllocatedIsArray DEF IInv, GoodTable
<1>7. tb1' = h_insert(tb1, node) /\ tb2' = h_detach(tb2, NextPos, 1)
  BY <1>4 DEF MoveOneNode
<1>8. \A n : Linked(tb1', n) <=> Linked(tb1, n) \/ n = node
  BY <1>6, <1>7, InsertLinks
<1>9. \A n : Linked(tb2', n) <=> Linked(tb2, n) /\ n.key # node.key
  BY <1>2, <1>3, <1>4, <1>6, <1>7, DetachLinks
<1>10. \A n : Linked(tb2, n) /\ n.key = node.key => n = node
  BY <1>5, <1>6, LinkedOnce DEF GoodTable
<1>11. \A n : Linked(tb1', n) \/ Linked(tb2', n) <=> Linked(tb1, n) \/ Linked(tb2, n)
  BY <1>5, <1>8, <1>9, <1>10
<1> QED
  BY <1>11, NodesAreLinked, SameNodes

LEMMA LeaveNodes ==
  ASSUME IInv, LeaveHelpResizing
  PROVE  Nodes' = Nodes
<1>1. tb1' = tb1
  BY DEF LeaveHelpResizing
<1>2. \A n : Linked(tb2', n) <=> Linked(tb2, n)
  <2>1. CASE tb2.size = 0
    <3>1. tb2' = NoTab /\ GoodTable(tb2)
      BY <2>1 DEF LeaveHelpResizing, IInv
    <3>2. \A n : ~ Linked(tb2, n)
      BY <2>1, <3>1, SizeZero, NoNodes
    <3>3. \A n : ~ Linked(tb2', n)
      BY <3>1, NoTabGood, NoNodes
    <3> QED
      BY <3>2, <3>3
  <2>2. CASE tb2.size # 0
    BY <2>2 DEF LeaveHelpResizing
  <2> QED
    BY <2>1, <2>2
<1> QED
  BY <1>1, <1>2, NodesAreLinked, SameNodes

LEMMA UpdateNodes ==
  ASSUME IInv, do_set_update
  PROVE  Nodes' = {n \in Nodes : n.key # cmd.key} \cup {[key |-> cmd.key, val |-> cmd.val]}
<1>1. PICK k \in Keys, v \in Values : k = cmd.key /\ v = cmd.val
  BY DEF IInv, TypeOK, do_set_update, RequestCommands, KeysCommand, UnknownCommand
<1>2. GoodTable(tb1) /\ GoodTable(tb2) /\ ~ (Has(tb1, k) /\ Has(tb2, k))
  BY DEF IInv
<1>3. CASE InTb1(k)
  <2>1. tb1' = SetValue(tb1, k, v) /\ tb2' = tb2
    BY <1>1, <1>3 DEF do_set_update, InTb2
  <2>2. Has(tb1, k)
    BY <1>2, <1>3, LookupProperties DEF InTb1
  <2>3. \A n : Linked(tb1', n) <=> (Linked(tb1, n) /\ n.key # k) \/ n = [key |-> k, val |-> v]
    BY <1>2, <2>1, <2>2, SetValueLinks
  <2>4. \A n : Linked(tb2, n) => n.key # k
    BY <1>2, <2>2, LinkedHas
  <2>5. \A n : Linked(tb1', n) \/ Linked(tb2', n) <=>
                 n \in {m \in Nodes : m.key # k} \cup {[key |-> k, val |-> v]}
    BY <2>1, <2>3, <2>4, NodesAreLinked
  <2> QED
    BY <1>1, <2>5, SameNodes
<1>4. CASE ~ InTb1(k)
  <2>1. tb2' = SetValue(tb2, k, v) /\ tb1' = tb1 /\ InTb2(k)
    BY <1>1, <1>4 DEF do_set_update
  <2>2. Has(tb2, k)
    BY <1>2, <2>1, LookupProperties DEF InTb2
  <2>3. \A n : Linked(tb2', n) <=> (Linked(tb2, n) /\ n.key # k) \/ n = [key |-> k, val |-> v]
    BY <1>2, <2>1, <2>2, SetValueLinks
  <2>4. \A n : Linked(tb1, n) => n.key # k
    BY <1>2, <2>2, LinkedHas
  <2>5. \A n : Linked(tb1', n) \/ Linked(tb2', n) <=>
                 n \in {m \in Nodes : m.key # k} \cup {[key |-> k, val |-> v]}
    BY <2>1, <2>3, <2>4, NodesAreLinked
  <2> QED
    BY <1>1, <2>5, SameNodes
<1> QED
  BY <1>3, <1>4

LEMMA InsertNodes ==
  ASSUME IInv, hm_insert
  PROVE  Nodes' = {n \in Nodes : n.key # cmd.key} \cup {[key |-> cmd.key, val |-> cmd.val]}
<1>1. PICK k \in Keys, v \in Values : k = cmd.key /\ v = cmd.val
  BY DEF IInv, TypeOK, hm_insert, RequestCommands, KeysCommand, UnknownCommand
<1>2. GoodTable(tb1) /\ GoodTable(tb2)
  BY DEF IInv
<1>3. ~ Has(tb1, k) /\ ~ Has(tb2, k)
  BY <1>1, <1>2, LookupProperties DEF hm_insert, InTb1, InTb2
<1>4. PICK node \in Node : node = [key |-> k, val |-> v] /\ node.key = k
  <2>1. [key |-> k, val |-> v] \in Node
    BY DEF Node
  <2> QED
    BY <2>1
<1>5. PICK base : base = IF Allocated(tb1) THEN tb1 ELSE h_init(InitSize)
  OBVIOUS
<1>6. GoodTable(base) /\ Allocated(base) /\ ~ Has(base, k)
      /\ \A n : Linked(base, n) <=> Linked(tb1, n)
  <2>1. CASE Allocated(tb1)
    BY <1>2, <1>3, <1>5, <2>1
  <2>2. CASE ~ Allocated(tb1)
    <3>1. tb1 = NoTab
      BY <1>2, <2>2, AllocatedIsArray DEF GoodTable, IsTable
    <3>2. base = h_init(InitSize) /\ InitSize \in Nat \ {0}
      BY <1>5, <2>2, InitSizeAssumption
    <3>3. GoodTable(base) /\ IsArray(base) /\ \A c : ~ Has(base, c)
      BY <3>2, InitGood
    <3>4. \A n : ~ Linked(base, n) /\ ~ Linked(tb1, n)
      BY <3>1, <3>3, NoTabGood, NoNodes
    <3> QED
      BY <3>3, <3>4, AllocatedIsArray DEF GoodTable
  <2> QED
    BY <2>1, <2>2
<1>7. Inserted = h_insert(base, node)
  BY <1>1, <1>4, <1>5 DEF Inserted
<1>8. \A n : Linked(Inserted, n) <=> Linked(tb1, n) \/ n = node
  BY <1>4, <1>6, <1>7, InsertLinks
<1>9. \A n : Linked(tb1', n) \/ Linked(tb2', n) <=> Linked(Inserted, n) \/ Linked(tb2, n)
  <2>1. CASE ~ Allocated(tb2) /\ tb2' = Inserted /\ tb1' = h_init(2 * (Inserted.mask + 1))
    <3>1. IsArray(Inserted)
      BY <1>4, <1>6, <1>7, InsertGood
    <3>2. 2 * (Inserted.mask + 1) \in Nat \ {0}
      BY <3>1 DEF IsArray
    <3>3. \A n : ~ Linked(tb1', n)
      BY <2>1, <3>2, InitGood, NoNodes
    <3>4. tb2 = NoTab
      BY <1>2, <2>1, AllocatedIsArray DEF GoodTable, IsTable
    <3>5. \A n : ~ Linked(tb2, n)
      BY <3>4, NoTabGood, NoNodes
    <3> QED
      BY <2>1, <3>3, <3>5
  <2>2. CASE tb1' = Inserted /\ tb2' = tb2
    BY <2>2
  <2> QED
    BY <2>1, <2>2 DEF hm_insert
<1>10. \A n : Linked(tb1, n) \/ Linked(tb2, n) => n.key # k
  BY <1>3, LinkedHas
<1>11. \A n : Linked(tb1', n) \/ Linked(tb2', n) <=>
                n \in {m \in Nodes : m.key # k} \cup {[key |-> k, val |-> v]}
  BY <1>4, <1>8, <1>9, <1>10, NodesAreLinked
<1> QED
  BY <1>1, <1>11, SameNodes

LEMMA UnlinkLinks ==
  ASSUME NEW t, GoodTable(t), NEW k \in Keys, Has(t, k)
  PROVE  \A n : Linked(Unlink(t, k), n) <=> Linked(t, n) /\ n.key # k
<1>1. /\ IsArray(t) /\ Bucket(t, k) \in DOMAIN t.tab
      /\ h_lookup(t, k) \in 1 .. Len(t.tab[Bucket(t, k)])
      /\ t.tab[Bucket(t, k)][h_lookup(t, k)].key = k
  BY LookupProperties
<1>2. PICK b, i : b = Bucket(t, k) /\ i = h_lookup(t, k)
  OBVIOUS
<1>3. IsArray(t) /\ b \in DOMAIN t.tab /\ i \in 1 .. Len(t.tab[b]) /\ t.tab[b][i].key = k
  BY <1>1, <1>2
<1>4. Unlink(t, k) = h_detach(t, b, i)
  BY <1>2 DEF Unlink
<1>5. \A n : Linked(h_detach(t, b, i), n) <=> Linked(t, n) /\ n.key # t.tab[b][i].key
  BY <1>3, DetachLinks
<1> QED
  BY <1>3, <1>4, <1>5

LEMMA DelNodes ==
  ASSUME IInv, do_del
  PROVE  Nodes' = {n \in Nodes : n.key # cmd.key}
<1>1. PICK k \in Keys : k = cmd.key
  BY DEF IInv, TypeOK, do_del, Dispatch, RequestCommands, KeysCommand, UnknownCommand
<1>2. GoodTable(tb1) /\ GoodTable(tb2) /\ ~ (Has(tb1, k) /\ Has(tb2, k))
  BY DEF IInv
<1>3. (InTb1(k) <=> Has(tb1, k)) /\ (InTb2(k) <=> Has(tb2, k))
  BY <1>2, LookupProperties DEF InTb1, InTb2
<1>4. /\ tb1' = IF InTb1(k) THEN Unlink(tb1, k) ELSE tb1
      /\ tb2' = IF InTb2(k) THEN Unlink(tb2, k) ELSE tb2
  BY <1>1 DEF do_del
<1>5. \A n : Linked(tb1', n) <=> Linked(tb1, n) /\ n.key # k
  BY <1>2, <1>3, <1>4, UnlinkLinks, LinkedHas
<1>6. \A n : Linked(tb2', n) <=> Linked(tb2, n) /\ n.key # k
  BY <1>2, <1>3, <1>4, UnlinkLinks, LinkedHas
<1>7. \A n : Linked(tb1', n) \/ Linked(tb2', n) <=> n \in {m \in Nodes : m.key # k}
  BY <1>5, <1>6, NodesAreLinked
<1> QED
  BY <1>1, <1>7, SameNodes

-----------------------------------------------------------------------------
(* The order in which h_scan and do_keys visit the nodes.                  *)

NodesIn(s) == {s[i] : i \in 1 .. Len(s)}

(* s lists the nodes of N, each once. *)
Lists(s, N) ==
  /\ s \in Seq(Node)
  /\ NodesIn(s) = N
  /\ \A i, j \in 1 .. Len(s) : s[i].key = s[j].key => i = j

LEMMA ListsConcat ==
  ASSUME NEW s, NEW N, Lists(s, N), NEW r, NEW M, Lists(r, M),
         \A n \in N, m \in M : n.key # m.key
  PROVE  Lists(s \o r, N \cup M)
<1>1. /\ s \in Seq(Node) /\ r \in Seq(Node) /\ Len(s) \in Nat /\ Len(r) \in Nat
      /\ \A i \in 1 .. Len(s) : s[i] \in N
      /\ \A i \in 1 .. Len(r) : r[i] \in M
  BY LenProperties DEF Lists, NodesIn
<1>2. PICK c : c = s \o r
  OBVIOUS
<1>3. /\ c \in Seq(Node) /\ Len(c) = Len(s) + Len(r)
      /\ \A i \in 1 .. Len(s) + Len(r) : c[i] = IF i <= Len(s) THEN s[i] ELSE r[i - Len(s)]
  BY <1>1, <1>2, ConcatProperties
<1>4. ASSUME NEW i \in 1 .. Len(c)
      PROVE  \/ i \in 1 .. Len(s) /\ c[i] = s[i]
             \/ i - Len(s) \in 1 .. Len(r) /\ c[i] = r[i - Len(s)]
  BY <1>1, <1>3
<1>5. \A i \in 1 .. Len(s) : i \in 1 .. Len(c) /\ c[i] = s[i]
  BY <1>1, <1>3
<1>6. ASSUME NEW i \in 1 .. Len(r)
      PROVE  i + Len(s) \in 1 .. Len(c) /\ c[i + Len(s)] = r[i]
  <2>1. i + Len(s) \in 1 .. Len(s) + Len(r) /\ ~ (i + Len(s) <= Len(s))
        /\ (i + Len(s)) - Len(s) = i
    BY <1>1
  <2>2. c[i + Len(s)] = r[(i + Len(s)) - Len(s)]
    BY <1>3, <2>1
  <2> QED
    BY <1>3, <2>1, <2>2
<1>7. NodesIn(c) = N \cup M
  <2>1. ASSUME NEW n \in N  PROVE \E i \in 1 .. Len(c) : c[i] = n
    <3>1. PICK i \in 1 .. Len(s) : s[i] = n
      BY DEF Lists, NodesIn
    <3> QED
      BY <1>5, <3>1
  <2>2. ASSUME NEW n \in M  PROVE \E i \in 1 .. Len(c) : c[i] = n
    <3>1. PICK i \in 1 .. Len(r) : r[i] = n
      BY DEF Lists, NodesIn
    <3> QED
      BY <1>6, <3>1
  <2>3. \A i \in 1 .. Len(c) : c[i] \in N \cup M
    BY <1>1, <1>4
  <2> QED
    BY <2>1, <2>2, <2>3 DEF NodesIn
<1>8. ASSUME NEW i \in 1 .. Len(c), NEW j \in 1 .. Len(c), c[i].key = c[j].key
      PROVE  i = j
  <2>1. CASE i \in 1 .. Len(s) /\ c[i] = s[i] /\ j \in 1 .. Len(s) /\ c[j] = s[j]
    BY <1>8, <2>1 DEF Lists
  <2>2. CASE /\ i - Len(s) \in 1 .. Len(r) /\ c[i] = r[i - Len(s)]
             /\ j - Len(s) \in 1 .. Len(r) /\ c[j] = r[j - Len(s)]
    <3>1. i - Len(s) = j - Len(s)
      BY <1>8, <2>2 DEF Lists
    <3> QED
      BY <1>1, <1>3, <3>1
  <2>3. CASE (c[i] \in N /\ c[j] \in M) \/ (c[i] \in M /\ c[j] \in N)
    BY <1>8, <2>3
  <2> QED
    BY <1>1, <1>4, <2>1, <2>2, <2>3
<1> QED
  BY <1>2, <1>3, <1>7, <1>8 DEF Lists

LEMMA ListsNothing == Lists(<< >>, {})
BY EmptySeq DEF Lists, NodesIn

(* The first n chains of a table, one after the other. *)
FirstChains(t, n) == FlattenSeq([i \in 1 .. n |-> t.tab[i - 1]])

LinkedBefore(t, n) ==
  {m \in Node : \E b \in DOMAIN t.tab : b < n /\ \E i \in 1 .. Len(t.tab[b]) : t.tab[b][i] = m}

LEMMA ChainLists ==
  ASSUME NEW t, GoodTable(t), IsArray(t), NEW b \in DOMAIN t.tab
  PROVE  Lists(t.tab[b], NodesIn(t.tab[b]))
BY DEF Lists, IsArray, GoodTable, UniqueIn

LEMMA ChainsListed ==
  ASSUME NEW t, GoodTable(t), IsArray(t)
  PROVE  \A n \in Nat : n <= t.mask + 1 => Lists(FirstChains(t, n), LinkedBefore(t, n))
<1> DEFINE S == {n \in Nat : n <= t.mask + 1 => Lists(FirstChains(t, n), LinkedBefore(t, n))}
<1>0. t.mask \in Nat /\ DOMAIN t.tab = 0 .. t.mask /\ \A b \in 0 .. t.mask : t.tab[b] \in Seq(Node)
  BY DEF IsArray
<1>1. 0 \in S
  <2>1. FirstChains(t, 0) = << >>
    <3>1. [i \in 1 .. 0 |-> t.tab[i - 1]] = << >>
      OBVIOUS
    <3> QED
      BY <3>1, FlattenSeqEmpty DEF FirstChains
  <2>2. LinkedBefore(t, 0) = {}
    BY <1>0 DEF LinkedBefore
  <2> QED
    BY <2>1, <2>2, ListsNothing
<1>2. ASSUME NEW n \in Nat, n \in S, n + 1 <= t.mask + 1
      PROVE  Lists(FirstChains(t, n + 1), LinkedBefore(t, n + 1))
  <2>1. n \in DOMAIN t.tab /\ n <= t.mask + 1
    BY <1>0, <1>2
  <2>2. Lists(FirstChains(t, n), LinkedBefore(t, n))
    BY <1>2, <2>1
  <2>3. PICK chain \in Seq(Node) : chain = t.tab[n]
    BY <1>0, <2>1
  <2>4. Lists(chain, NodesIn(chain))
    BY <2>1, <2>3, ChainLists
  <2>5. FirstChains(t, n + 1) = FirstChains(t, n) \o chain
    <3>1. PICK s : s = [i \in 1 .. n |-> t.tab[i - 1]]
      OBVIOUS
    <3>2. PICK u : u = [i \in 1 .. n + 1 |-> t.tab[i - 1]]
      OBVIOUS
    <3>3. \A i \in 1 .. n + 1 : i - 1 \in 0 .. t.mask /\ t.tab[i - 1] \in Seq(Node)
      BY <1>0, <1>2
    <3>4. u \in [1 .. n + 1 -> Seq(Node)]
      BY <3>2, <3>3
    <3>5. s \in [1 .. n -> Seq(Node)] /\ \A i \in 1 .. n : u[i] = s[i]
      BY <3>1, <3>2, <3>3
    <3>6. u[n + 1] = chain
      BY <2>3, <3>2
    <3>7. FlattenSeq(u) = FlattenSeq(s) \o u[n + 1]
      BY <3>4, <3>5, FlattenSeqNext
    <3>8. FirstChains(t, n + 1) = FlattenSeq(u) /\ FirstChains(t, n) = FlattenSeq(s)
      BY <3>1, <3>2 DEF FirstChains
    <3> QED
      BY <3>6, <3>7, <3>8
  <2>6. LinkedBefore(t, n + 1) = LinkedBefore(t, n) \cup NodesIn(chain)
    <3>1. ASSUME NEW m \in LinkedBefore(t, n + 1)
          PROVE  m \in LinkedBefore(t, n) \cup NodesIn(chain)
      <4>1. PICK b \in DOMAIN t.tab : b < n + 1 /\ \E i \in 1 .. Len(t.tab[b]) : t.tab[b][i] = m
        BY DEF LinkedBefore
      <4>2. b = n \/ b < n
        BY <1>0, <4>1
      <4> QED
        BY <2>3, <4>1, <4>2 DEF LinkedBefore, NodesIn
    <3>2. ASSUME NEW m \in LinkedBefore(t, n)  PROVE m \in LinkedBefore(t, n + 1)
      BY <1>0 DEF LinkedBefore
    <3>3. ASSUME NEW i \in 1 .. Len(chain)  PROVE chain[i] \in LinkedBefore(t, n + 1)
      <4>1. chain[i] \in Node /\ n < n + 1
        BY ElementOfSeq
      <4> QED
        BY <2>1, <2>3, <4>1 DEF LinkedBefore
    <3> QED
      BY <3>1, <3>2, <3>3 DEF NodesIn
  <2>7. \A m \in LinkedBefore(t, n), c \in NodesIn(chain) : m.key # c.key
    <3> SUFFICES ASSUME NEW m \in LinkedBefore(t, n), NEW i \in 1 .. Len(chain),
                        m.key = chain[i].key
                 PROVE  FALSE
      BY DEF NodesIn
    <3>1. PICK b \in DOMAIN t.tab : b < n /\ \E j \in 1 .. Len(t.tab[b]) : t.tab[b][j] = m
      BY DEF LinkedBefore
    <3>2. PICK j \in 1 .. Len(t.tab[b]) : t.tab[b][j] = m
      BY <3>1
    <3>3. b = n
      BY <2>1, <2>3, <3>2 DEF GoodTable, UniqueIn
    <3> QED
      BY <1>0, <3>1, <3>3
  <2>8. Lists(FirstChains(t, n) \o chain, LinkedBefore(t, n) \cup NodesIn(chain))
    BY <2>2, <2>4, <2>7, ListsConcat, Zenon
  <2> QED
    BY <2>5, <2>6, <2>8, Zenon
<1>3. \A n \in Nat : n \in S => n + 1 \in S
  <2> SUFFICES ASSUME NEW n \in Nat, n \in S  PROVE n + 1 \in S
    OBVIOUS
  <2>1. n + 1 <= t.mask + 1 => Lists(FirstChains(t, n + 1), LinkedBefore(t, n + 1))
    BY <1>2
  <2>2. n + 1 \in Nat
    OBVIOUS
  <2> QED
    BY <2>1, <2>2, Zenon
<1> HIDE DEF S
<1>4. \A n \in Nat : n \in S
  BY <1>1, <1>3, NaturalsFromZero
<1> QED
  BY <1>4 DEF S

(* h_scan visits every node of a table once. *)
LEMMA ScanLists ==
  ASSUME NEW t, GoodTable(t)
  PROVE  Lists(h_scan(t), {n \in Node : Linked(t, n)})
<1>1. CASE t.size = 0
  <2>1. h_scan(t) = << >>
    BY <1>1 DEF h_scan
  <2>2. \A n : ~ Linked(t, n)
    BY <1>1, SizeZero, NoNodes
  <2> QED
    BY <2>1, <2>2, ListsNothing
<1>2. CASE t.size # 0
  <2>1. IsArray(t) /\ t.mask \in Nat
    BY <1>2 DEF GoodTable, IsTable, NoTab, IsArray
  <2>2. h_scan(t) = FirstChains(t, t.mask + 1)
    BY <1>2 DEF h_scan, FirstChains
  <2>3. Lists(FirstChains(t, t.mask + 1), LinkedBefore(t, t.mask + 1))
    <3>1. t.mask + 1 \in Nat /\ t.mask + 1 <= t.mask + 1
      BY <2>1
    <3> QED
      BY <2>1, <3>1, ChainsListed
  <2>4. \A b \in DOMAIN t.tab : b < t.mask + 1
    BY <2>1 DEF IsArray
  <2>5. LinkedBefore(t, t.mask + 1) = {n \in Node : Linked(t, n)}
    BY <2>4 DEF LinkedBefore, Linked
  <2> QED
    BY <2>2, <2>3, <2>5
<1> QED
  BY <1>1, <1>2

(* do_keys answers with every key once, and with their number. *)
LEMMA ScanKeysEnumerates ==
  ASSUME IInv
  PROVE  /\ Len(ScanKeys) = Cardinality(DOMAIN Contents)
         /\ {ScanKeys[i] : i \in 1 .. Len(ScanKeys)} = DOMAIN Contents
         /\ hm_size = Cardinality(DOMAIN Contents)
<1>1. GoodTable(tb1) /\ GoodTable(tb2) /\ \A k \in Keys : ~ (Has(tb1, k) /\ Has(tb2, k))
  BY DEF IInv
<1>2. PICK s, r : s = h_scan(tb1) /\ r = h_scan(tb2)
  OBVIOUS
<1>3. Lists(s, {n \in Node : Linked(tb1, n)}) /\ Lists(r, {n \in Node : Linked(tb2, n)})
  BY <1>1, <1>2, ScanLists
<1>4. PICK c : c = s \o r
  OBVIOUS
<1>5. Lists(c, {n \in Node : Linked(tb1, n)} \cup {n \in Node : Linked(tb2, n)})
  <2>1. \A n, m \in Node : Linked(tb1, n) /\ Linked(tb2, m) => n.key # m.key
    BY <1>1, LinkedHas DEF Node
  <2> QED
    BY <1>3, <1>4, <2>1, ListsConcat
<1>6. {n \in Node : Linked(tb1, n)} \cup {n \in Node : Linked(tb2, n)} = Nodes
  BY NodesAreLinked, NodesDistinct
<1>7. /\ c \in Seq(Node) /\ Len(c) \in Nat /\ NodesIn(c) = Nodes
      /\ \A i, j \in 1 .. Len(c) : c[i].key = c[j].key => i = j
  BY <1>5, <1>6, LenProperties DEF Lists
<1>8. DOMAIN Contents = {n.key : n \in Nodes}
  BY NodesDistinct, ContentsIs, ContentsProperties
<1>9. PICK ks : ks = ScanKeys
  OBVIOUS
<1>10. /\ Len(ks) = Len(c) /\ ks = [i \in 1 .. Len(c) |-> ks[i]]
       /\ \A i \in 1 .. Len(c) : ks[i] = c[i].key
  <2>1. ks = [i \in 1 .. Len(c) |-> c[i].key]
    BY <1>2, <1>4, <1>9 DEF ScanKeys
  <2> QED
    BY <1>7, <2>1
<1>11. {ks[i] : i \in 1 .. Len(ks)} = DOMAIN Contents
  BY <1>7, <1>8, <1>10 DEF NodesIn
<1>12. Cardinality(DOMAIN Contents) = Len(c)
  <2>1. ks \in [1 .. Len(c) -> DOMAIN Contents]
    BY <1>10, <1>11
  <2>2. ks \in Bijection(1 .. Len(c), DOMAIN Contents)
    BY <1>7, <1>10, <1>11, <2>1 DEF Bijection, Injection, Surjection, IsInjective
  <2>3. ExistsBijection(1 .. Len(c), DOMAIN Contents)
    BY <2>2 DEF ExistsBijection
  <2> QED
    BY <1>7, <2>3, FS_NatBijection, FS_CountingElements
<1>13. hm_size = Len(c)
  <2>1. Len(c) = Len(s) + Len(r)
    BY <1>3, <1>4, ConcatProperties DEF Lists
  <2> QED
    BY <1>2, <2>1 DEF hm_size
<1> QED
  BY <1>9, <1>10, <1>11, <1>12, <1>13

-----------------------------------------------------------------------------
(* The steps of the table under the mapping.  A step that leaves the nodes *)
(* as they are leaves the contents as they are.                            *)

LEMMA NodesKept == Nodes' = Nodes => Contents' = Contents
BY ContentsIs, Zenon

LEMMA TablesUnchanged ==
  ASSUME tb1' = tb1, tb2' = tb2
  PROVE  Contents' = Contents
BY DEF Contents, Nodes, NodesOf, Chains

LEMMA InvokeStep ==
  ASSUME NEW c \in RequestCommands, do_request(c)
  PROVE  KV!Next
<1>1. Contents' = Contents
  BY TablesUnchanged DEF do_request, tables
<1>2. /\ AbstractStatus = "ready" /\ AbstractStatus' = "invoked"
      /\ AbstractOut' = NoReply /\ cmd' = c
  BY DEF do_request, AbstractStatus, AbstractOut, AfterInsert
<1>3. c \in KV!RequestCommands /\ NoReply = KV!NoReply
  BY DEF RequestCommands, KV!RequestCommands, KeysCommand, KV!KeysCommand,
         UnknownCommand, KV!UnknownCommand, NoReply, KV!NoReply
<1>4. KV!Invoke(c)
  BY <1>1, <1>2, <1>3 DEF KV!Invoke
<1> QED
  BY <1>3, <1>4 DEF KV!Next

(* The steps of a resize, and the two faults, change nothing a caller of   *)
(* do_request can tell.                                                    *)
LEMMA HiddenStep ==
  ASSUME IInv,
         hm_lookup \/ MoveOneNode \/ DetachNull \/ LeaveHelpResizing \/ DestroySwapped
  PROVE  UNCHANGED KV!vars
<1>1. Contents' = Contents
  <2>1. CASE MoveOneNode
    BY <2>1, MoveNodes, NodesKept, Zenon
  <2>2. CASE LeaveHelpResizing
    BY <2>2, LeaveNodes, NodesKept, Zenon
  <2>3. CASE hm_lookup \/ DetachNull \/ DestroySwapped
    <3>1. tb1' = tb1 /\ tb2' = tb2
      BY <2>3 DEF hm_lookup, DetachNull, DestroySwapped, tables
    <3> QED
      BY <3>1, TablesUnchanged
  <2> QED
    BY <2>1, <2>2, <2>3
<1>2. /\ AbstractStatus' = AbstractStatus
      /\ AbstractOut' = AbstractOut
      /\ cmd' = cmd
  BY DEF AbstractStatus, AbstractOut, AfterInsert, Dispatch, EnterHelpResizing,
         hm_lookup, MoveOneNode, DetachNull, LeaveHelpResizing, DestroySwapped
<1> QED
  BY <1>1, <1>2 DEF KV!vars

(* What a command reads and writes, and when it takes effect. *)
LEMMA GetStep ==
  ASSUME IInv, do_get
  PROVE  KV!Get
<1>1. Contents' = Contents
  BY TablesUnchanged DEF do_get, tables
<1>2. /\ AbstractStatus = "invoked" /\ AbstractStatus' = "applied" /\ cmd' = cmd
      /\ AbstractOut' = out' /\ cmd.op = "get"
  BY DEF do_get, AbstractStatus, AbstractOut, AfterInsert
<1>3. PICK k \in Keys : k = cmd.key
  BY DEF IInv, TypeOK, do_get, RequestCommands, KeysCommand, UnknownCommand
<1>4. GoodTable(tb1) /\ GoodTable(tb2)
  BY DEF IInv
<1>5. (InTb1(k) \/ InTb2(k)) <=> k \in DOMAIN Contents
  BY <1>3, <1>4, LookupProperties, KeysOf DEF InTb1, InTb2
<1>6. CASE InTb1(k) \/ InTb2(k)
  <2>1. Found(k) \in Nodes /\ Found(k).key = k
    <3>1. PICK t : t \in {tb1, tb2} /\ h_lookup(t, k) # 0
                   /\ Found(k) = t.tab[Bucket(t, k)][h_lookup(t, k)]
      BY <1>6 DEF Found, InTb1, InTb2
    <3>2. Bucket(t, k) \in DOMAIN t.tab /\ h_lookup(t, k) \in 1 .. Len(t.tab[Bucket(t, k)])
          /\ Found(k).key = k
      BY <1>3, <1>4, <3>1, LookupProperties
    <3>3. Linked(t, Found(k))
      BY <3>1, <3>2 DEF Linked
    <3> QED
      BY <3>1, <3>2, <3>3, NodesAreLinked
  <2>2. Contents[k] = Found(k).val
    BY <2>1, NodesDistinct, ContentsIs, ContentsProperties
  <2>3. out' = StrReply(Contents[k])
    BY <1>3, <1>6, <2>2 DEF do_get
  <2> QED
    BY <1>1, <1>2, <1>3, <1>5, <1>6, <2>3 DEF KV!Get, KV!Apply, StrReply, KV!StrReply
<1>7. CASE ~ (InTb1(k) \/ InTb2(k))
  <2>1. out' = NilReply
    BY <1>3, <1>7 DEF do_get
  <2> QED
    BY <1>1, <1>2, <1>3, <1>5, <1>7, <2>1 DEF KV!Get, KV!Apply, NilReply, KV!NilReply
<1> QED
  BY <1>6, <1>7

LEMMA SetStep ==
  ASSUME IInv, do_set_update \/ hm_insert
  PROVE  KV!Set
<1>1. Nodes' = {n \in Nodes : n.key # cmd.key} \cup {[key |-> cmd.key, val |-> cmd.val]}
  BY UpdateNodes, InsertNodes
<1>2. Contents' = [k \in DOMAIN Contents \cup {cmd.key} |->
                     IF k = cmd.key THEN cmd.val ELSE Contents[k]]
  <2>1. KeysDistinct(Nodes)
    BY NodesDistinct
  <2>2. PICK N, M, k, v : N = Nodes /\ M = Nodes' /\ k = cmd.key /\ v = cmd.val
    OBVIOUS
  <2>3. M = {n \in N : n.key # k} \cup {[key |-> k, val |-> v]} /\ KeysDistinct(N)
    <3>1. {n \in Nodes : n.key # cmd.key} = {n \in N : n.key # k}
      BY <2>2
    <3>2. {[key |-> cmd.key, val |-> cmd.val]} = {[key |-> k, val |-> v]}
      BY <2>2
    <3> QED
      BY <1>1, <2>1, <2>2, <3>1, <3>2, Zenon
  <2>4. ContentsOf(M) = Updated(ContentsOf(N), k, v)
    BY <2>3, ContentsAdd
  <2>5. Contents' = ContentsOf(M) /\ Contents = ContentsOf(N)
    BY <2>2, ContentsIs
  <2> QED
    BY <2>2, <2>4, <2>5 DEF Updated
<1>3. /\ AbstractStatus = "invoked" /\ AbstractStatus' = "applied" /\ cmd' = cmd
      /\ AbstractOut' = NilReply /\ cmd.op = "set"
  BY DEF do_set_update, hm_insert, EnterHelpResizing, AbstractStatus, AbstractOut, AfterInsert
<1> QED
  BY <1>2, <1>3 DEF KV!Set, KV!Apply, NilReply, KV!NilReply

LEMMA DelCommandStep ==
  ASSUME IInv, do_del
  PROVE  KV!Del
<1>1. Contents' = [k \in DOMAIN Contents \ {cmd.key} |-> Contents[k]]
  <2>1. Nodes' = {n \in Nodes : n.key # cmd.key} /\ KeysDistinct(Nodes)
    BY DelNodes, NodesDistinct
  <2>2. PICK N, M, k : N = Nodes /\ M = Nodes' /\ k = cmd.key
    OBVIOUS
  <2>3. M = {n \in N : n.key # k} /\ KeysDistinct(N)
    BY <2>1, <2>2
  <2>4. ContentsOf(M) = [c \in DOMAIN ContentsOf(N) \ {k} |-> ContentsOf(N)[c]]
    BY <2>3, ContentsRemove, Zenon
  <2>5. Contents' = ContentsOf(M) /\ Contents = ContentsOf(N)
    BY <2>2, ContentsIs
  <2> QED
    BY <2>2, <2>4, <2>5
<1>2. /\ AbstractStatus = "invoked" /\ AbstractStatus' = "applied" /\ cmd' = cmd
      /\ AbstractOut' = out' /\ cmd.op = "del"
  BY DEF do_del, Dispatch, AbstractStatus, AbstractOut, AfterInsert
<1>3. PICK k \in Keys : k = cmd.key
  BY <1>2 DEF IInv, TypeOK, RequestCommands, KeysCommand, UnknownCommand
<1>4. (InTb1(k) \/ InTb2(k)) <=> k \in DOMAIN Contents
  BY <1>3, LookupProperties, KeysOf DEF IInv, InTb1, InTb2
<1>5. out' = IntReply(IF cmd.key \in DOMAIN Contents THEN 1 ELSE 0)
  BY <1>3, <1>4 DEF do_del
<1> QED
  BY <1>1, <1>2, <1>5 DEF KV!Del, KV!Apply, IntReply, KV!IntReply

LEMMA KeysListStep ==
  ASSUME IInv, do_keys
  PROVE  KV!KeysList
<1>1. Contents' = Contents
  BY TablesUnchanged DEF do_keys, tables
<1>2. /\ AbstractStatus = "invoked" /\ AbstractStatus' = "applied" /\ cmd' = cmd
      /\ AbstractOut' = out' /\ cmd.op = "keys"
  BY DEF do_keys, Dispatch, AbstractStatus, AbstractOut, AfterInsert
<1>3. out' = ArrReply(hm_size, ScanKeys)
  BY DEF do_keys
<1>4. \A S : KV!Cardinality(S) = Cardinality(S)
  BY DEF KV!Cardinality, Cardinality
<1>5. KV!Enumerates(ScanKeys, DOMAIN Contents) /\ hm_size = KV!Cardinality(DOMAIN Contents)
  BY <1>4, ScanKeysEnumerates DEF KV!Enumerates
<1>6. /\ out'.tag = "arr" /\ out'.items = ScanKeys
      /\ out' = KV!ArrReply(KV!Cardinality(DOMAIN Contents), out'.items)
  BY <1>3, <1>5 DEF ArrReply, KV!ArrReply
<1> QED
  BY <1>1, <1>2, <1>5, <1>6 DEF KV!KeysList, KV!Apply

LEMMA UnknownStep ==
  ASSUME UnknownCmd
  PROVE  KV!Unknown
<1>1. Contents' = Contents
  BY TablesUnchanged DEF UnknownCmd, tables
<1>2. /\ AbstractStatus = "invoked" /\ AbstractStatus' = "applied" /\ cmd' = cmd
      /\ AbstractOut' = ErrReply("ERR_UNKNOWN") /\ cmd.op = "unknown"
  BY DEF UnknownCmd, Dispatch, AbstractStatus, AbstractOut, AfterInsert
<1> QED
  BY <1>1, <1>2 DEF KV!Unknown, KV!Apply, ErrReply, KV!ErrReply

LEMMA ReturnStep ==
  ASSUME Return
  PROVE  KV!Return
<1>1. Contents' = Contents
  BY TablesUnchanged DEF Return, tables
<1>2. /\ AbstractStatus = "applied" /\ AbstractStatus' = "ready" /\ cmd' = cmd
      /\ AbstractOut' = AbstractOut
  BY DEF Return, AbstractStatus, AbstractOut, AfterInsert
<1> QED
  BY <1>1, <1>2 DEF KV!Return

LEMMA StepRefines == IInv /\ [Next]_vars => [KV!Next]_(KV!vars)
<1> SUFFICES ASSUME IInv, [Next]_vars PROVE [KV!Next]_(KV!vars)
  OBVIOUS
<1>1. ASSUME NEW c \in RequestCommands, do_request(c)  PROVE KV!Next
  BY <1>1, InvokeStep
<1>2. CASE hm_lookup \/ MoveOneNode \/ DetachNull \/ LeaveHelpResizing \/ DestroySwapped
  BY <1>2, HiddenStep
<1>3. CASE do_get
  BY <1>3, GetStep DEF KV!Next
<1>4. CASE do_set_update \/ hm_insert
  BY <1>4, SetStep DEF KV!Next
<1>5. CASE do_del
  BY <1>5, DelCommandStep DEF KV!Next
<1>6. CASE do_keys
  BY <1>6, KeysListStep DEF KV!Next
<1>7. CASE UnknownCmd
  BY <1>7, UnknownStep DEF KV!Next
<1>8. CASE Return
  BY <1>8, ReturnStep DEF KV!Next
<1>9. CASE UNCHANGED vars
  <2>1. Contents' = Contents
    BY <1>9, TablesUnchanged DEF vars
  <2> QED
    BY <1>9, <2>1 DEF vars, KV!vars, AbstractStatus, AbstractOut, AfterInsert
<1> QED
  BY <1>1, <1>2, <1>3, <1>4, <1>5, <1>6, <1>7, <1>8, <1>9 DEF Next, Handler

LEMMA InitRefines == Init => KV!Init
<1> SUFFICES ASSUME Init PROVE KV!Init
  OBVIOUS
<1>1. Contents = << >>
  <2>1. Nodes = {}
    <3>1. DOMAIN tb1.tab = {} /\ DOMAIN tb2.tab = {}
      BY DEF Init, NoTab
    <3> QED
      BY <3>1 DEF Nodes, NodesOf, Chains
  <2>2. DOMAIN Contents = {} /\ Contents = [k \in {} |-> Contents[k]]
    BY <2>1 DEF Contents
  <2> QED
    BY <2>2
<1>2. AbstractStatus = "ready" /\ AbstractOut = NoReply /\ cmd = UnknownCommand
  BY DEF Init, AbstractStatus, AbstractOut, AfterInsert
<1> QED
  BY <1>1, <1>2 DEF KV!Init, NoReply, KV!NoReply, UnknownCommand, KV!UnknownCommand

(* The hash table implements the key-value store (do_request and all it    *)
(* calls): for every hash function, number of keys and size of the first   *)
(* table, and in every state of a resize, a command reads and changes the  *)
(* entry it names and no other, at one instant, and `keys' lists every     *)
(* key once.                                                               *)
THEOREM HashMapImplementsKVStore == Spec => ImplementsKVStore
<1>1. Init => KV!Init
  BY InitRefines
<1>2. IInv /\ [Next]_vars => [KV!Next]_(KV!vars)
  BY StepRefines
<1>3. Spec => []IInv
  BY InvariantHolds
<1> QED
  BY <1>1, <1>2, <1>3, PTL DEF Spec, KV!Spec, ImplementsKVStore
=============================================================================
