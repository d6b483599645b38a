----------------------------- MODULE ZSetProofs -----------------------------
(***************************************************************************)
(* The inductive invariant of the sorted set, and what follows from it for *)
(* every set of nodes: the links of the tree agree through every rotation, *)
(* splice and swap, no node survives being added by tree_add, and between  *)
(* calls the two indexes hold the same nodes and every count is right.     *)
(***************************************************************************)
EXTENDS ZSetProps, AVLTreeProofs

(* LinksAgree and Acyclic for any heap and any nodes. *)
Agree(h, N) ==
  \A n \in N :
    /\ {h[n].left, h[n].right, h[n].parent} \subseteq N \cup {NULL}
    /\ h[n].left # NULL => h[h[n].left].parent = n
    /\ h[n].right # NULL => h[h[n].right].parent = n
    /\ h[n].parent # NULL => n \in {h[h[n].parent].left, h[h[n].parent].right}
    /\ h[n].left = h[n].right => h[n].left = NULL
    /\ h[n].parent = NULL => \A m \in N : h[m].parent = NULL => m = n

Ranked(h, N, k, top) ==
  \A n \in N :
    /\ k[n] <= top
    /\ h[n].left # NULL => k[h[n].left] < k[n]
    /\ h[n].right # NULL => k[h[n].right] < k[n]

LEMMA AgreeIsTree ==
  ASSUME NEW h \in Heap, NEW N \in SUBSET Node
  PROVE  /\ Agree(h, N) <=> Wired(N, LeftOf(h), RightOf(h), ParentOf(h))
         /\ \A k, top : Ranked(h, N, k, top) <=> Sinks(N, LeftOf(h), RightOf(h), k, top)
         /\ Agree(h, N) /\ (\E top \in Nat : \E k \in [Node -> Nat] : Ranked(h, N, k, top))
              <=> HeapTree(h, N)
<1>1. PICK l, r, p : l = LeftOf(h) /\ r = RightOf(h) /\ p = ParentOf(h)
  OBVIOUS
<1>2. \A x \in N : l[x] = h[x].left /\ r[x] = h[x].right /\ p[x] = h[x].parent
  BY <1>1, HeapLinks
<1>3. Agree(h, N) <=> Wired(N, l, r, p)
  <2>1. ASSUME Agree(h, N)  PROVE Wired(N, l, r, p)
    BY <1>2, <2>1 DEF Agree, Wired
  <2>2. ASSUME Wired(N, l, r, p)  PROVE Agree(h, N)
    BY <1>2, <2>2 DEF Agree, Wired
  <2> QED
    BY <2>1, <2>2
<1>4. ASSUME NEW k, NEW top  PROVE Ranked(h, N, k, top) <=> Sinks(N, l, r, k, top)
  BY <1>2 DEF Ranked, Sinks
<1>5. IsTree(N, l, r, p) <=>
        Wired(N, l, r, p) /\ \E top \in Nat : \E k \in [Node -> Nat] : Sinks(N, l, r, k, top)
  BY DEF IsTree
<1>6. HeapTree(h, N) <=> IsTree(N, l, r, p)
  BY <1>1 DEF HeapTree
<1> QED
  BY <1>1, <1>3, <1>4, <1>5, <1>6

(* The control of the running call. *)
Control == AtRest /\ Placing /\ ByHand /\ Added /\ Removed /\ Repairing /\ Targeted

LEMMA Invariant ==
  ASSUME IInv
  PROVE  TypeOK /\ HeapTree(heap, linked) /\ Control /\ Seeking
<1>1. heap \in Heap /\ linked \in SUBSET Node
  BY DEF IInv, TypeOK, Heap
<1>2. LinksAgree <=> Agree(heap, linked)
  BY DEF LinksAgree, Agree
<1>3. \A k, top : Falls(k, top) <=> Ranked(heap, linked, k, top)
  BY DEF Falls, Ranked
<1>4. HeapTree(heap, linked)
  BY <1>1, <1>2, <1>3, AgreeIsTree DEF IInv, Acyclic
<1> QED
  BY <1>4 DEF IInv, Control

LEMMA InvariantNext ==
  ASSUME TypeOK', HeapTree(heap', linked'), Control', Seeking'
  PROVE  IInv'
<1>1. heap' \in Heap /\ linked' \in SUBSET Node
  BY DEF TypeOK, Heap
<1>2. LinksAgree' <=> Agree(heap', linked')
  BY DEF LinksAgree, Agree
<1>3. \A k, top : Falls(k, top)' <=> Ranked(heap', linked', k, top)
  BY DEF Falls, Ranked
<1>4. LinksAgree' /\ Acyclic'
  BY <1>1, <1>2, <1>3, AgreeIsTree DEF Acyclic
<1> QED
  BY <1>4 DEF IInv, Control

-----------------------------------------------------------------------------
(* The parts of Control and Seeking that depend on where the call is.      *)

LEMMA InitIInv == Init => IInv
<1> SUFFICES ASSUME Init PROVE IInv
  OBVIOUS
<1>1. avl_init \in AVLNode
  BY WordAssumption DEF avl_init, AVLNode, Uint, Link
<1>2. TypeOK
  BY <1>1 DEF Init, TypeOK, Link, DefaultScore
<1>3. LinksAgree
  BY DEF Init, LinksAgree
<1>4. Acyclic
  <2>1. PICK k : k = [n \in Node |-> 0]
    OBVIOUS
  <2>2. k \in [Node -> Nat] /\ Falls(k, 0) /\ 0 \in Nat
    BY <2>1 DEF Init, Falls
  <2> QED
    BY <2>2 DEF Acyclic
<1>5. Control
  BY DEF Init, Control, AtRest, Placing, ByHand, Added, Removed, Repairing, Targeted, Fixing,
         IsRoot
<1>6. Seeking
  BY DEF Init, Seeking
<1> QED
  BY <1>2, <1>3, <1>4, <1>5, <1>6 DEF IInv, Control

LEMMA StepHcmpFaults ==
  ASSUME IInv, NEW x \in Names, HcmpFaults(x)
  PROVE  IInv'
<1>1. TypeOK /\ HeapTree(heap, linked) /\ Control /\ Seeking
  BY Invariant
<1>2. TypeOK'
  BY <1>1 DEF TypeOK, HcmpFaults, zsetVars
<1>3. HeapTree(heap', linked')
  BY <1>1 DEF HcmpFaults
<1>4. Control'
  BY <1>1 DEF Control, AtRest, Placing, ByHand, Added, Removed, Repairing, Targeted, Fixing,
              HcmpFaults, zsetVars
<1>5. Seeking'
  BY DEF Seeking, HcmpFaults
<1> QED
  BY <1>2, <1>3, <1>4, <1>5, InvariantNext

LEMMA StepNewNode ==
  ASSUME IInv, NEW x \in Names, NEW s \in Int, NEW who \in {"add", "byhand"},
         NewNode(x, s, who)
  PROVE  IInv'
<1>1. TypeOK /\ HeapTree(heap, linked) /\ Control /\ Seeking
  BY Invariant
<1>2. PICK n \in {<<x, 1>>, <<x, 2>>} \ hmap :
        /\ heap' = [heap EXCEPT ![n] = avl_init]
        /\ score' = [score EXCEPT ![n] = s]
        /\ hmap' = hmap \cup {n}
        /\ target' = n
  BY DEF NewNode
<1>3. n \in Node /\ n \notin hmap
  BY <1>2, ZNodeAssumption
<1>4. /\ pc = "idle" /\ linked = hmap /\ frames = << >> /\ IsRoot(tree)
      /\ linked' = linked /\ frames' = frames /\ tree' = tree /\ ret' = ret
      /\ arg' = s /\ op' = who
      /\ at' = IF who = "byhand" THEN NULL ELSE tree
      /\ pc' = IF who = "byhand" THEN "append" ELSE "descend"
  BY <1>1 DEF NewNode, Control, AtRest
<1>5. avl_init \in AVLNode
  BY WordAssumption DEF avl_init, AVLNode, Uint, Link
<1>6. TypeOK'
  BY <1>1, <1>2, <1>3, <1>4, <1>5 DEF TypeOK, Link
<1>7. ChangedAt(heap', heap, n, avl_init)
  BY <1>2 DEF ChangedAt
<1>8. HeapTree(heap', linked) /\ \A m \in linked : heap'[m] = heap[m]
  BY <1>1, <1>3, <1>4, <1>5, <1>7, TreeOutside
<1>9. heap'[n] = avl_init
  BY <1>1, <1>2, <1>3 DEF TypeOK
<1>10. IsRoot(tree)'
  BY <1>4, <1>8 DEF IsRoot
<1>11. Unlinked(target)'
  BY <1>2, <1>3, <1>4, <1>9 DEF Unlinked, avl_init
<1>12. pc' = "descend" => at' \in linked' \/ (at' = NULL /\ linked' = {})
  BY <1>4 DEF IsRoot
<1>13. linked' = hmap' \ {target'}
  BY <1>2, <1>3, <1>4
<1>14. AtRest' /\ Placing'
  BY <1>4, <1>10, <1>11, <1>12, <1>13 DEF AtRest, Placing
<1>15. ByHand' /\ Added' /\ Removed' /\ Repairing'
  BY <1>4 DEF ByHand, Added, Removed, Repairing, Fixing
<1>16. Targeted'
  BY <1>2, <1>3, <1>4 DEF Targeted
<1>17. Seeking'
  BY <1>4 DEF Seeking
<1> QED
  BY <1>4, <1>6, <1>8, <1>14, <1>15, <1>16, <1>17, InvariantNext DEF Control

LEMMA StepUpdate ==
  ASSUME IInv, NEW n \in hmap, NEW s \in Int, zset_update(n, s)
  PROVE  IInv'
<1>1. TypeOK /\ HeapTree(heap, linked) /\ Control /\ Seeking
  BY Invariant
<1>2. /\ pc = "idle" /\ linked = hmap /\ frames = << >>
      /\ pc' = "del" /\ op' = "update" /\ target' = n /\ at' = n /\ arg' = s
      /\ UNCHANGED <<heap, linked, frames, ret, tree, hmap, score>>
  BY <1>1 DEF zset_update, Control, AtRest
<1>3. n \in Node
  BY <1>1 DEF TypeOK
<1>4. TypeOK'
  BY <1>1, <1>2, <1>3 DEF TypeOK, Link
<1>5. HeapTree(heap', linked')
  BY <1>1, <1>2
<1>6. Control'
  BY <1>2, <1>3 DEF Control, AtRest, Placing, ByHand, Added, Removed, Repairing, Targeted, Fixing
<1>7. Len(frames') = 0
  BY <1>2
<1>8. Waiting'
  BY <1>2, <1>7 DEF Waiting
<1>9. Seeking'
  BY <1>2, <1>7, <1>8 DEF Seeking, Gone
<1> QED
  BY <1>4, <1>5, <1>6, <1>9, InvariantNext

LEMMA StepPop ==
  ASSUME IInv, NEW x \in Names, zset_pop(x)
  PROVE  IInv'
<1>1. TypeOK /\ HeapTree(heap, linked) /\ Control /\ Seeking
  BY Invariant
<1>2. PICK n \in hmap : hmap' = hmap \ {n} /\ target' = n /\ at' = n
  BY DEF zset_pop, Alike, hm_pop
<1>3. /\ pc = "idle" /\ linked = hmap /\ frames = << >>
      /\ pc' = "del" /\ op' = "pop"
      /\ UNCHANGED <<heap, linked, frames, ret, tree, score, arg>>
  BY <1>1 DEF zset_pop, Control, AtRest
<1>4. n \in Node
  BY <1>1 DEF TypeOK
<1>5. TypeOK'
  BY <1>1, <1>2, <1>3, <1>4 DEF TypeOK, Link
<1>6. HeapTree(heap', linked')
  BY <1>1, <1>3
<1>7. Control'
  BY <1>2, <1>3, <1>4
     DEF Control, AtRest, Placing, ByHand, Added, Removed, Repairing, Targeted, Fixing
<1>8. Len(frames') = 0
  BY <1>3
<1>9. Waiting'
  BY <1>3, <1>8 DEF Waiting
<1>10. Seeking'
  BY <1>2, <1>3, <1>8, <1>9 DEF Seeking, Gone
<1> QED
  BY <1>5, <1>6, <1>7, <1>10, InvariantNext

LEMMA StepDescend ==
  ASSUME IInv, Descend
  PROVE  IInv'
<1>1. TypeOK /\ HeapTree(heap, linked) /\ Control /\ Seeking
  BY Invariant
<1>2. /\ pc = "descend" /\ op = "add" /\ frames = << >> /\ linked = hmap \ {target}
      /\ Unlinked(target) /\ at \in linked /\ target \in Node /\ target \in hmap
      /\ UNCHANGED <<frames, ret, tree, hmap, score, op, target, arg>>
  BY <1>1 DEF Descend, zsetVars, Control, Placing, Targeted
<1>3. PICK less \in BOOLEAN :
        \/ /\ (IF less THEN heap[at].left ELSE heap[at].right) # NULL
           /\ at' = IF less THEN heap[at].left ELSE heap[at].right
           /\ UNCHANGED <<heap, linked, pc>>
        \/ /\ (IF less THEN heap[at].left ELSE heap[at].right) = NULL
           /\ heap' = LeafLinked(heap, at, target, less)
           /\ linked' = linked \cup {target}
           /\ at' = target
           /\ pc' = "fix"
  <2>1. PICK answer \in zless(target, at) :
          \/ /\ (IF answer THEN heap[at].left ELSE heap[at].right) # NULL
             /\ at' = IF answer THEN heap[at].left ELSE heap[at].right
             /\ UNCHANGED <<heap, linked, pc>>
          \/ /\ (IF answer THEN heap[at].left ELSE heap[at].right) = NULL
             /\ heap' = LeafLinked(heap, at, target, answer)
             /\ linked' = linked \cup {target}
             /\ at' = target
             /\ pc' = "fix"
    BY DEF Descend, LeafLinked
  <2>2. CASE answer
    <3>1. LeafLinked(heap, at, target, answer) = LeafLinked(heap, at, target, TRUE)
      BY <2>2 DEF LeafLinked
    <3> QED
      BY <2>1, <2>2, <3>1
  <2>3. CASE ~ answer
    <3>1. LeafLinked(heap, at, target, answer) = LeafLinked(heap, at, target, FALSE)
      BY <2>3 DEF LeafLinked
    <3> QED
      BY <2>1, <2>3, <3>1
  <2> QED
    BY <2>2, <2>3
<1>4. CASE UNCHANGED <<heap, linked, pc>>
  <2>1. at' \in linked
    BY <1>1, <1>2, <1>3, <1>4, TreeLinks
  <2>2. TypeOK'
    BY <1>1, <1>2, <1>4, <2>1 DEF TypeOK, Link
  <2>3. HeapTree(heap', linked')
    BY <1>1, <1>4
  <2>4. Control'
    BY <1>1, <1>2, <1>4, <2>1 DEF Control, AtRest, Placing, ByHand, Added, Removed, Repairing,
                                  Targeted, Fixing, Unlinked
  <2>5. Seeking'
    BY <1>2, <1>4 DEF Seeking
  <2> QED
    BY <2>2, <2>3, <2>4, <2>5, InvariantNext
<1>5. CASE pc' = "fix"
  <2>1. /\ (IF less THEN heap[at].left ELSE heap[at].right) = NULL
        /\ heap' = LeafLinked(heap, at, target, less)
        /\ linked' = linked \cup {target} /\ at' = target /\ pc' = "fix"
    BY <1>2, <1>3, <1>5
  <2>2. target \notin linked /\ heap[target].left = NULL /\ heap[target].right = NULL
    BY <1>2 DEF Unlinked
  <2>3. /\ HeapTree(heap', linked \cup {target})
        /\ heap'[target].left = NULL /\ heap'[target].right = NULL
    BY <1>1, <1>2, <2>1, <2>2, TreeLeaf
  <2>4. TypeOK'
    <3>1. heap' \in [Node -> AVLNode]
      BY <2>3 DEF HeapTree, Heap
    <3> QED
      BY <1>1, <1>2, <2>1, <3>1 DEF TypeOK, Link
  <2>5. Control'
    BY <1>2, <2>1, <2>3 DEF Control, AtRest, Placing, ByHand, Added, Removed, Repairing,
                            Targeted, Fixing
  <2>6. Seeking'
    BY <2>1 DEF Seeking
  <2> QED
    BY <2>1, <2>3, <2>4, <2>5, <2>6, InvariantNext
<1> QED
  BY <1>3, <1>4, <1>5

LEMMA StepLinkRoot ==
  ASSUME IInv, LinkRoot
  PROVE  IInv'
<1>1. TypeOK /\ HeapTree(heap, linked) /\ Control /\ Seeking
  BY Invariant
<1>2. /\ pc = "descend" /\ at = NULL /\ pc' = "fix"
      /\ tree' = target /\ linked' = linked \cup {target} /\ at' = target
      /\ UNCHANGED <<heap, frames, ret, hmap, score, op, target, arg>>
  BY DEF LinkRoot
<1>3. /\ op = "add" /\ frames = << >> /\ linked = hmap \ {target} /\ Unlinked(target)
      /\ target \in Node /\ target \in hmap
      /\ at \in linked \/ linked = {}
  BY <1>1, <1>2 DEF Control, Placing, Targeted
<1>4. linked = {}
  BY <1>1, <1>2, <1>3, NodeAssumption DEF TypeOK
<1>5. heap \in Heap /\ heap[target].left = NULL /\ heap[target].right = NULL
      /\ heap[target].parent = NULL
  BY <1>1, <1>3 DEF Unlinked, HeapTree
<1>6. HeapTree(heap', linked')
  <2>1. HeapTree(heap, {target})
    BY <1>3, <1>5, TreeOfOne
  <2>2. linked' = {target}
    BY <1>2, <1>4
  <2> QED
    BY <1>2, <2>1, <2>2
<1>7. TypeOK'
  BY <1>1, <1>2, <1>3 DEF TypeOK, Link
<1>8. Control'
  BY <1>2, <1>3, <1>5 DEF Control, AtRest, Placing, ByHand, Added, Removed, Repairing,
                          Targeted, Fixing
<1>9. Seeking'
  BY <1>2 DEF Seeking
<1> QED
  BY <1>6, <1>7, <1>8, <1>9, InvariantNext

LEMMA StepGoRight ==
  ASSUME IInv, GoRight
  PROVE  IInv'
<1>1. TypeOK /\ HeapTree(heap, linked) /\ Control /\ Seeking
  BY Invariant
<1>2. /\ pc = "append" /\ Edge # NULL /\ at' = Edge
      /\ UNCHANGED <<heap, linked, pc, frames, ret, tree, hmap, score, op, target, arg>>
  BY DEF GoRight, zsetVars
<1>3. IsRoot(tree) /\ at \in linked \cup {NULL}
  BY <1>1, <1>2 DEF Control, Placing
<1>4. at' \in linked
  <2>1. CASE at = NULL
    BY <1>2, <1>3, <2>1 DEF Edge, IsRoot
  <2>2. CASE at # NULL
    BY <1>1, <1>2, <1>3, <2>2, TreeLinks DEF Edge
  <2> QED
    BY <2>1, <2>2
<1>5. TypeOK'
  BY <1>1, <1>2, <1>4 DEF TypeOK, Link
<1>6. HeapTree(heap', linked')
  BY <1>1, <1>2
<1>7. Control'
  BY <1>1, <1>2, <1>4 DEF Control, AtRest, Placing, ByHand, Added, Removed, Repairing,
                          Targeted, Fixing, IsRoot, Unlinked
<1>8. Seeking'
  BY <1>2 DEF Seeking
<1> QED
  BY <1>5, <1>6, <1>7, <1>8, InvariantNext

LEMMA StepLinkByHand ==
  ASSUME IInv, LinkByHand
  PROVE  IInv'
<1>1. TypeOK /\ HeapTree(heap, linked) /\ Control /\ Seeking
  BY Invariant
<1>2. /\ pc = "append" /\ pc' = "update" /\ at' = target
      /\ linked' = linked \cup {target}
      /\ UNCHANGED <<frames, ret, tree, hmap, score, op, target, arg>>
  BY DEF LinkByHand, zsetVars
<1>3. heap' = HandLinked(heap, at, target, Edge)
  BY DEF LinkByHand, HandLinked
<1>4. /\ op = "byhand" /\ frames = << >> /\ linked = hmap \ {target} /\ Unlinked(target)
      /\ target \in Node /\ target \in hmap
      /\ IsRoot(tree) /\ at \in linked \cup {NULL}
  BY <1>1, <1>2 DEF Control, Placing, Targeted
<1>5. /\ at = NULL => (Edge \in linked /\ heap[Edge].parent = NULL)
                        \/ (Edge = NULL /\ linked = {})
      /\ at # NULL => Edge = heap[at].right
  BY <1>4 DEF Edge, IsRoot
<1>6. target \notin linked /\ heap[target].right = NULL
  BY <1>4 DEF Unlinked
<1>7. HeapTree(heap', linked \cup {target})
  BY <1>1, <1>3, <1>4, <1>5, <1>6, TreePlaced
<1>8. TypeOK'
  <2>1. heap' \in [Node -> AVLNode]
    BY <1>7 DEF HeapTree, Heap
  <2> QED
    BY <1>1, <1>2, <1>4, <2>1 DEF TypeOK, Link
<1>9. Control'
  BY <1>2, <1>4 DEF Control, AtRest, Placing, ByHand, Added, Removed, Repairing, Targeted, Fixing
<1>10. Seeking'
  BY <1>2 DEF Seeking
<1> QED
  BY <1>2, <1>7, <1>8, <1>9, <1>10, InvariantNext

LEMMA StepUpdateByHand ==
  ASSUME IInv, UpdateByHand
  PROVE  IInv'
<1>1. TypeOK /\ HeapTree(heap, linked) /\ Control /\ Seeking
  BY Invariant
<1>2. /\ pc = "update" /\ heap' = avl_update(heap, at)
      /\ \/ heap[at].parent # NULL /\ at' = heap[at].parent /\ UNCHANGED <<pc, ret>>
         \/ heap[at].parent = NULL /\ ret' = at /\ pc' = "return" /\ UNCHANGED at
      /\ UNCHANGED <<linked, frames, tree, hmap, score, op, target, arg>>
  BY DEF UpdateByHand, zsetVars
<1>3. op = "byhand" /\ frames = << >> /\ linked = hmap /\ at \in linked
      /\ target \in Node /\ target \in hmap
  BY <1>1, <1>2 DEF Control, ByHand, Targeted
<1>4. /\ at \in Node /\ heap \in Heap /\ heap[at].parent \in linked \cup {NULL}
      /\ linked \subseteq Node
  BY <1>1, <1>3, TreeLinks
<1>5. HeapTree(heap', linked) /\ SameLinks(heap', heap)
  BY <1>1, <1>2, <1>4, TreeUpdate
<1>6. heap'[at].parent = heap[at].parent
  <2>1. heap' \in Heap
    BY <1>5 DEF HeapTree
  <2> QED
    BY <1>4, <1>5, <2>1, HeapLinks DEF SameLinks
<1>7. TypeOK'
  <2>1. heap' \in [Node -> AVLNode]
    BY <1>5 DEF HeapTree, Heap
  <2> QED
    BY <1>1, <1>2, <1>4, <2>1 DEF TypeOK, Link
<1>8. IsRoot(ret)' \/ UNCHANGED pc
  BY <1>2, <1>3, <1>6 DEF IsRoot
<1>9. at' \in linked \/ pc' = "return"
  BY <1>2, <1>4
<1>10. pc' \in {"update", "return"}
  BY <1>2
<1>11. Control'
  BY <1>2, <1>3, <1>8, <1>9, <1>10 DEF Control, AtRest, Placing, ByHand, Added, Removed,
                                Repairing, Targeted, Fixing
<1>12. Seeking'
  BY <1>10 DEF Seeking
<1> QED
  BY <1>2, <1>5, <1>7, <1>11, <1>12, InvariantNext

LEMMA StepTreeAddReturns ==
  ASSUME IInv, tree_add_returns
  PROVE  IInv'
<1>1. TypeOK /\ HeapTree(heap, linked) /\ Control /\ Seeking
  BY Invariant
<1>2. /\ pc = "return" /\ frames = << >> /\ op \in {"add", "byhand"}
      /\ tree' = ret /\ pc' = "idle" /\ at' = NULL /\ ret' = NULL /\ op' = "none"
      /\ target' = NULL /\ arg' = DefaultScore
      /\ UNCHANGED <<heap, linked, frames, hmap, score>>
  BY DEF tree_add_returns, Returning
<1>3. linked = hmap /\ IsRoot(ret)
  BY <1>1, <1>2 DEF Control, ByHand, Repairing
<1>4. TypeOK'
  BY <1>1, <1>2 DEF TypeOK, Link, DefaultScore
<1>5. HeapTree(heap', linked')
  BY <1>1, <1>2
<1>6. Control'
  BY <1>2, <1>3 DEF Control, AtRest, Placing, ByHand, Added, Removed, Repairing, Targeted,
                    Fixing, IsRoot
<1>7. Seeking'
  BY <1>2 DEF Seeking
<1> QED
  BY <1>4, <1>5, <1>6, <1>7, InvariantNext

LEMMA StepReinsert ==
  ASSUME IInv, Reinsert
  PROVE  IInv'
<1>1. TypeOK /\ HeapTree(heap, linked) /\ Control /\ Seeking
  BY Invariant
<1>2. /\ pc = "return" /\ frames = << >> /\ op = "update"
      /\ tree' = ret /\ pc' = "descend" /\ at' = ret /\ ret' = NULL /\ op' = "add"
      /\ heap' = [heap EXCEPT ![target] = avl_init]
      /\ score' = [score EXCEPT ![target] = arg]
      /\ UNCHANGED <<linked, frames, hmap, target, arg>>
  BY DEF Reinsert, Returning
<1>3. /\ IsRoot(ret) /\ target \in Node /\ target \in hmap
      /\ linked = hmap \ {target}
  BY <1>1, <1>2 DEF Control, Repairing, Targeted, Removed, Gone
<1>4. avl_init \in AVLNode
  BY WordAssumption DEF avl_init, AVLNode, Uint, Link
<1>5. ChangedAt(heap', heap, target, avl_init)
  BY <1>2 DEF ChangedAt
<1>6. HeapTree(heap', linked)
  BY <1>1, <1>3, <1>4, <1>5, TreeOutside
<1>7. TypeOK'
  BY <1>1, <1>2, <1>3, <1>4 DEF TypeOK, Link
<1>8. heap'[target] = avl_init
  BY <1>1, <1>2, <1>3 DEF TypeOK
<1>9. Unlinked(target)'
  BY <1>2, <1>3, <1>8 DEF Unlinked, avl_init
<1>10. Control'
  BY <1>2, <1>3, <1>9 DEF Control, AtRest, Placing, ByHand, Added, Removed, Repairing,
                          Targeted, Fixing, IsRoot
<1>11. Seeking'
  BY <1>2 DEF Seeking
<1> QED
  BY <1>2, <1>6, <1>7, <1>10, <1>11, InvariantNext

LEMMA StepPopReturns ==
  ASSUME IInv, PopReturns
  PROVE  IInv'
<1>1. TypeOK /\ HeapTree(heap, linked) /\ Control /\ Seeking
  BY Invariant
<1>2. /\ pc = "return" /\ frames = << >> /\ op = "pop"
      /\ tree' = ret /\ pc' = "idle" /\ at' = NULL /\ ret' = NULL /\ op' = "none"
      /\ target' = NULL
      /\ heap' = [heap EXCEPT ![target] = avl_init]
      /\ score' = [score EXCEPT ![target] = DefaultScore]
      /\ UNCHANGED <<linked, frames, hmap, arg>>
  BY DEF PopReturns, Returning
<1>3. IsRoot(ret) /\ target \in Node /\ target \notin hmap /\ linked = hmap
  BY <1>1, <1>2 DEF Control, Repairing, Targeted, Removed, Gone
<1>4. avl_init \in AVLNode
  BY WordAssumption DEF avl_init, AVLNode, Uint, Link
<1>5. ChangedAt(heap', heap, target, avl_init)
  BY <1>2 DEF ChangedAt
<1>6. HeapTree(heap', linked) /\ \A x \in linked : heap'[x] = heap[x]
  BY <1>1, <1>3, <1>4, <1>5, TreeOutside
<1>7. TypeOK'
  BY <1>1, <1>2, <1>3, <1>4 DEF TypeOK, Link, DefaultScore
<1>8. IsRoot(tree)'
  BY <1>2, <1>3, <1>6 DEF IsRoot
<1>9. Control'
  BY <1>2, <1>3, <1>8 DEF Control, AtRest, Placing, ByHand, Added, Removed, Repairing,
                          Targeted, Fixing
<1>10. Seeking'
  BY <1>2 DEF Seeking
<1> QED
  BY <1>2, <1>6, <1>7, <1>9, <1>10, InvariantNext

-----------------------------------------------------------------------------
(* avl_fix.                                                                *)

(* The greatest unsigned number is less than nothing: what has no child on *)
(* either side is taken for right-heavy, and has no child to lift.         *)
LEMMA LeafLiftsNull ==
  ASSUME NEW n, heap[n].left = NULL, heap[n].right = NULL
  PROVE  Lifted(n) = NULL
<1>1. Lean(n) = 0
  <2>1. Lean(n) = Minus(Word - 1, Word - 1)
    BY DEF Lean, avl_height
  <2>2. Minus(Word - 1, Word - 1) = 0
    BY WordAssumption DEF Minus
  <2> QED
    BY <2>1, <2>2
<1>2. ~ LeftHeavy(n) /\ RightHeavy(n)
  BY <1>1, WordAssumption DEF LeftHeavy, RightHeavy
<1> QED
  BY <1>2 DEF Lifted, RightLifted

LEMMA StepFixUpdate ==
  ASSUME IInv, FixUpdate, UNCHANGED zsetVars
  PROVE  IInv'
<1>1. TypeOK /\ HeapTree(heap, linked) /\ Control /\ Seeking
  BY Invariant
<1>2. /\ pc = "fix" /\ pc' = "balance" /\ heap' = avl_update(heap, at)
      /\ UNCHANGED <<linked, at, frames, ret, tree, hmap, score, op, target, arg>>
  BY DEF FixUpdate, zsetVars
<1>3. at \in linked
  BY <1>1, <1>2 DEF Control, Repairing, Fixing
<1>4. at \in Node /\ heap \in Heap
  BY <1>1, <1>3, TreeLinks
<1>5. HeapTree(heap', linked) /\ SameLinks(heap', heap)
  BY <1>1, <1>2, <1>4, TreeUpdate
<1>6. heap'[at].left = heap[at].left /\ heap'[at].right = heap[at].right
  <2>1. heap' \in Heap
    BY <1>5 DEF HeapTree
  <2> QED
    BY <1>4, <1>5, <2>1, HeapLinks DEF SameLinks
<1>7. TypeOK'
  <2>1. heap' \in [Node -> AVLNode]
    BY <1>5 DEF HeapTree, Heap
  <2> QED
    BY <1>1, <1>2, <2>1 DEF TypeOK
<1>8. Added'
  BY <1>1, <1>2, <1>6 DEF Control, Added
<1>9. Removed'
  BY <1>1, <1>2 DEF Control, Removed, Fixing, Waiting, Gone
<1>10. Control'
  BY <1>1, <1>2, <1>8, <1>9 DEF Control, AtRest, Placing, ByHand, Repairing, Targeted, Fixing
<1>11. Seeking'
  BY <1>2 DEF Seeking
<1> QED
  BY <1>2, <1>5, <1>7, <1>10, <1>11, InvariantNext

(* avl_fix_left and avl_fix_right keep the tree and leave a child to lift. *)
LEMMA FixLeftKeepsTree ==
  ASSUME HeapTree(heap, linked), at \in linked, LeftLifted(at) # NULL,
         NEW g, g = avl_fix_left
  PROVE  HeapTree(g, linked) /\ g[at].left # NULL
<1>1. PICK h : h = heap
  OBVIOUS
<1>2. PICK l : l = h[at].left
  OBVIOUS
<1>3. l # NULL /\ (IsLR(l) => h[l].right # NULL)
  BY <1>1, <1>2 DEF LeftLifted
<1>4. HeapTree(h, linked)
  BY <1>1
<1>5. h \in Heap /\ l \in linked /\ h[l].parent = at /\ at \in Node /\ at # NULL
  BY <1>2, <1>3, <1>4, TreeLinks
<1>6. CASE ~ IsLR(l)
  BY <1>1, <1>2, <1>3, <1>4, <1>6 DEF avl_fix_left
<1>7. CASE IsLR(l)
  <2>1. PICK m : m = h[l].right
    OBVIOUS
  <2>2. PICK half : half = rot_left(h, l)
    OBVIOUS
  <2>3. PICK g2 : g2 = Relink(half, at, l, m)
    OBVIOUS
  <2>4. m # NULL
    BY <1>3, <1>7, <2>1
  <2>5. HeapTree(g2, linked) /\ g2[at].left = m /\ half[at].left = l
    BY <1>2, <1>4, <1>5, <2>1, <2>2, <2>3, <2>4, TreeTurned
  <2>6. g2 = [half EXCEPT ![at].left = m]
    BY <2>3, <2>5 DEF Relink
  <2>7. g = g2
    BY <1>1, <1>2, <1>7, <2>1, <2>2, <2>6 DEF avl_fix_left
  <2> QED
    BY <2>4, <2>5, <2>7
<1> QED
  BY <1>6, <1>7

LEMMA FixRightKeepsTree ==
  ASSUME HeapTree(heap, linked), at \in linked, RightLifted(at) # NULL,
         NEW g, g = avl_fix_right
  PROVE  HeapTree(g, linked) /\ g[at].right # NULL
<1>1. PICK h : h = heap
  OBVIOUS
<1>2. PICK r : r = h[at].right
  OBVIOUS
<1>3. r # NULL /\ (IsRL(r) => h[r].left # NULL)
  BY <1>1, <1>2 DEF RightLifted
<1>4. HeapTree(h, linked)
  BY <1>1
<1>5. h \in Heap /\ r \in linked /\ h[r].parent = at /\ at \in Node /\ at # NULL
  BY <1>2, <1>3, <1>4, TreeLinks
<1>6. CASE ~ IsRL(r)
  BY <1>1, <1>2, <1>3, <1>4, <1>6 DEF avl_fix_right
<1>7. CASE IsRL(r)
  <2>1. PICK m : m = h[r].left
    OBVIOUS
  <2>2. PICK half : half = rot_right(h, r)
    OBVIOUS
  <2>3. PICK g2 : g2 = Relink(half, at, r, m)
    OBVIOUS
  <2>4. m # NULL
    BY <1>3, <1>7, <2>1
  <2>5. h[at].left # r
    <3>1. h[r].parent # NULL => (h[h[r].parent].left = r <=> h[h[r].parent].right # r)
      BY <1>4, <1>5, TreeLinks
    <3> QED
      BY <1>2, <1>5, <3>1
  <2>6. HeapTree(g2, linked) /\ g2[at].right = m /\ half[at].left = h[at].left
    BY <1>4, <1>5, <2>1, <2>2, <2>3, <2>4, <2>5, TreeTurnedBack
  <2>7. g2 = [half EXCEPT ![at].right = m]
    BY <2>3, <2>5, <2>6 DEF Relink
  <2>8. g = g2
    BY <1>1, <1>2, <1>7, <2>1, <2>2, <2>7 DEF avl_fix_right
  <2> QED
    BY <2>4, <2>6, <2>8
<1> QED
  BY <1>6, <1>7

LEMMA StepFixSide ==
  ASSUME IInv, FixSide, UNCHANGED zsetVars
  PROVE  IInv'
<1>1. TypeOK /\ HeapTree(heap, linked) /\ Control /\ Seeking
  BY Invariant
<1>2. /\ pc = "balance" /\ Lifted(at) # NULL
      /\ UNCHANGED <<linked, at, frames, ret, tree, hmap, score, op, target, arg>>
  BY DEF FixSide, zsetVars
<1>3. at \in linked /\ op \in {"add", "update", "pop"}
  BY <1>1, <1>2 DEF Control, Repairing, Fixing
<1>4. op # "add"
  BY <1>1, <1>2, LeafLiftsNull DEF Control, Added
<1>5. /\ HeapTree(heap', linked)
      /\ \/ pc' = "rot_right" /\ heap'[at].left # NULL
         \/ pc' = "rot_left" /\ heap'[at].right # NULL
         \/ pc' = "balanced"
  <2>1. CASE LeftHeavy(at)
    <3>1. heap' = avl_fix_left /\ pc' = "rot_right" /\ LeftLifted(at) # NULL
      BY <1>2, <2>1 DEF FixSide, Lifted, RightHeavy
    <3> QED
      BY <1>1, <1>3, <3>1, FixLeftKeepsTree
  <2>2. CASE RightHeavy(at)
    <3>1. ~ LeftHeavy(at)
      BY <2>2 DEF RightHeavy
    <3>2. heap' = avl_fix_right /\ pc' = "rot_left" /\ RightLifted(at) # NULL
      BY <1>2, <2>2, <3>1 DEF FixSide, Lifted
    <3> QED
      BY <1>1, <1>3, <3>2, FixRightKeepsTree
  <2>3. CASE ~ LeftHeavy(at) /\ ~ RightHeavy(at)
    BY <1>1, <2>3 DEF FixSide
  <2> QED
    BY <2>1, <2>2, <2>3
<1>6. TypeOK'
  <2>1. heap' \in [Node -> AVLNode]
    BY <1>5 DEF HeapTree, Heap
  <2> QED
    BY <1>1, <1>2, <1>5, <2>1 DEF TypeOK
<1>7. Removed'
  BY <1>1, <1>2, <1>3, <1>5 DEF Control, Removed, Fixing, Waiting, Gone
<1>8. Repairing'
  BY <1>2, <1>3, <1>5 DEF Repairing, Fixing
<1>9. pc' \in {"rot_right", "rot_left", "balanced"}
  BY <1>5
<1>10. Control'
  BY <1>1, <1>2, <1>3, <1>4, <1>7, <1>8, <1>9
     DEF Control, AtRest, Placing, ByHand, Added, Targeted
<1>11. Seeking'
  BY <1>9 DEF Seeking
<1> QED
  BY <1>2, <1>5, <1>6, <1>10, <1>11, InvariantNext

LEMMA StepFixLiftsNull ==
  ASSUME IInv, FixLiftsNull, UNCHANGED zsetVars
  PROVE  IInv'
<1>1. TypeOK /\ HeapTree(heap, linked) /\ Control /\ Seeking
  BY Invariant
<1>2. /\ pc = "balance" /\ pc' = "segv"
      /\ UNCHANGED <<heap, linked, at, frames, ret, tree, hmap, score, op, target, arg>>
  BY DEF FixLiftsNull, zsetVars
<1>3. TypeOK'
  BY <1>1, <1>2 DEF TypeOK
<1>4. op # "byhand"
  BY <1>1, <1>2 DEF Control, ByHand
<1>5. Control'
  BY <1>1, <1>2, <1>4 DEF Control, AtRest, Placing, ByHand, Added, Removed, Repairing,
                          Targeted, Fixing
<1>6. Seeking'
  BY <1>2 DEF Seeking
<1>7. HeapTree(heap', linked')
  BY <1>1, <1>2
<1> QED
  BY <1>3, <1>5, <1>6, <1>7, InvariantNext

(* The end of a round. *)
LEMMA RoundKeepsTree ==
  ASSUME IInv, Rotate
  PROVE  /\ HeapTree(heap', linked)
         /\ \/ /\ pc' = "fix" /\ at' \in linked /\ UNCHANGED ret
            \/ /\ pc' = "return" /\ ret' \in linked /\ heap'[ret'].parent = NULL
               /\ UNCHANGED at
<1>1. TypeOK /\ HeapTree(heap, linked) /\ Control
  BY Invariant
<1>2. pc \in {"rot_right", "rot_left", "balanced"} /\ at \in linked
  BY <1>1 DEF Rotate, Control, Repairing, Fixing
<1>3. PICK q : q = heap[at].parent
  OBVIOUS
<1>4. q \in linked \cup {NULL}
  BY <1>1, <1>2, <1>3, TreeLinks
<1>5. ASSUME NEW half, NEW top, NextRound(half, top)
      PROVE  \/ /\ q # NULL /\ heap' = Relink(half, q, at, top) /\ at' = half[top].parent
                /\ pc' = "fix" /\ UNCHANGED ret
             \/ /\ q = NULL /\ heap' = half /\ ret' = top /\ pc' = "return" /\ UNCHANGED at
  BY <1>3, <1>5 DEF NextRound
<1>6. CASE pc = "rot_right"
  <2>1. PICK m : m = heap[at].left
    OBVIOUS
  <2>2. PICK half : half = rot_right(heap, at)
    OBVIOUS
  <2>3. m # NULL
    BY <1>1, <1>6, <2>1 DEF Control, Repairing
  <2>4. NextRound(half, m)
    BY <1>6, <2>1, <2>2 DEF Rotate
  <2>5. /\ q = NULL => heap' = half
        /\ q # NULL => heap' = Relink(half, q, at, m)
    BY <1>5, <2>4
  <2>6. HeapTree(heap', linked) /\ m \in linked /\ half[m].parent = q /\ heap'[m].parent = q
    BY <1>1, <1>2, <1>3, <2>1, <2>2, <2>3, <2>5, TreeTurnedBack
  <2> QED
    BY <1>4, <1>5, <2>4, <2>6
<1>7. CASE pc = "rot_left"
  <2>1. PICK m : m = heap[at].right
    OBVIOUS
  <2>2. PICK half : half = rot_left(heap, at)
    OBVIOUS
  <2>3. m # NULL
    BY <1>1, <1>7, <2>1 DEF Control, Repairing
  <2>4. NextRound(half, m)
    BY <1>7, <2>1, <2>2 DEF Rotate
  <2>5. /\ q = NULL => heap' = half
        /\ q # NULL => heap' = Relink(half, q, at, m)
    BY <1>5, <2>4
  <2>6. HeapTree(heap', linked) /\ m \in linked /\ half[m].parent = q /\ heap'[m].parent = q
    BY <1>1, <1>2, <1>3, <2>1, <2>2, <2>3, <2>5, TreeTurned
  <2> QED
    BY <1>4, <1>5, <2>4, <2>6
<1>8. CASE pc = "balanced"
  <2>1. NextRound(heap, at)
    BY <1>8 DEF Rotate
  <2>2. CASE q = NULL
    <3>1. heap' = heap /\ ret' = at /\ pc' = "return" /\ UNCHANGED at
      BY <1>5, <2>1, <2>2
    <3> QED
      BY <1>1, <1>2, <1>3, <2>2, <3>1
  <2>3. CASE q # NULL
    <3>1. heap' = Relink(heap, q, at, at) /\ at' = q /\ pc' = "fix" /\ UNCHANGED ret
      BY <1>3, <1>5, <2>1, <2>3
    <3>2. HeapTree(heap', linked)
      BY <1>1, <1>2, <1>3, <2>3, <3>1, TreeRelinked
    <3> QED
      BY <1>4, <2>3, <3>1, <3>2
  <2> QED
    BY <2>2, <2>3
<1> QED
  BY <1>2, <1>6, <1>7, <1>8

LEMMA StepRotate ==
  ASSUME IInv, Rotate, UNCHANGED zsetVars
  PROVE  IInv'
<1>1. TypeOK /\ HeapTree(heap, linked) /\ Control /\ Seeking
  BY Invariant
<1>2. /\ pc \in {"rot_right", "rot_left", "balanced"}
      /\ UNCHANGED <<linked, frames, tree, hmap, score, op, target, arg>>
  BY DEF Rotate, zsetVars
<1>3. op \in {"update", "pop"}
  BY <1>1, <1>2 DEF Control, Repairing, Added, Fixing
<1>4. /\ HeapTree(heap', linked)
      /\ \/ /\ pc' = "fix" /\ at' \in linked /\ UNCHANGED ret
         \/ /\ pc' = "return" /\ ret' \in linked /\ heap'[ret'].parent = NULL
            /\ UNCHANGED at
  BY RoundKeepsTree
<1>5. TypeOK'
  <2>1. heap' \in [Node -> AVLNode]
    BY <1>4 DEF HeapTree, Heap
  <2> QED
    BY <1>1, <1>2, <1>4, <2>1 DEF TypeOK, Link
<1>6. Removed'
  BY <1>1, <1>2, <1>3 DEF Control, Removed, Fixing, Waiting, Gone
<1>7. Repairing'
  BY <1>2, <1>3, <1>4 DEF Repairing, Fixing, IsRoot
<1>8. pc' \in {"fix", "return"}
  BY <1>4
<1>9. Control'
  BY <1>1, <1>2, <1>3, <1>6, <1>7, <1>8
     DEF Control, AtRest, Placing, ByHand, Added, Targeted
<1>10. Seeking'
  BY <1>8 DEF Seeking
<1> QED
  BY <1>2, <1>4, <1>5, <1>9, <1>10, InvariantNext

-----------------------------------------------------------------------------
(* avl_del.  The nodes that wait are above the node that the call is at:   *)
(* any k that falls with every link to a child tells them from it.         *)

Below(n) ==
  \A k \in [Node -> Nat], top \in Nat :
    Falls(k, top) => \A i \in 1 .. Len(frames) : k[n] < k[frames[i].node]

LEMMA FrameTypes ==
  ASSUME TypeOK, NEW i \in 1 .. Len(frames)
  PROVE  frames[i].node \in Node /\ frames[i].victim \in Link
<1>1. PICK R : R = [node : Node, victim : Link]
  OBVIOUS
<1>2. PICK s \in Seq(R) : s = frames
  BY <1>1 DEF TypeOK
<1>3. i \in 1 .. Len(s)
  BY <1>2
<1>4. s[i] \in R
  BY <1>2, <1>3
<1> QED
  BY <1>1, <1>2, <1>4

LEMMA BelowIsNotWaiting ==
  ASSUME IInv, NEW n, Below(n)
  PROVE  \A i \in 1 .. Len(frames) : frames[i].node # n
<1>1. PICK top \in Nat, k \in [Node -> Nat] : Falls(k, top)
  BY DEF IInv, Acyclic
<1>2. ASSUME NEW i \in 1 .. Len(frames), frames[i].node = n  PROVE FALSE
  <2>1. k[n] < k[n]
    BY <1>1, <1>2 DEF Below
  <2>2. n \in Node
    BY <1>2, FrameTypes DEF IInv
  <2>3. k[n] \in Nat
    BY <2>2
  <2> QED
    BY <2>1, <2>3
<1> QED
  BY <1>2

LEMMA ChildIsBelow ==
  ASSUME IInv, NEW n \in linked, NEW c, c = heap[n].left \/ c = heap[n].right, c # NULL,
         Below(n)
  PROVE  /\ Below(c)
         /\ \A k \in [Node -> Nat], top \in Nat : Falls(k, top) => k[c] < k[n]
<1>1. HeapTree(heap, linked) /\ TypeOK
  BY Invariant
<1>2. c \in linked /\ n \in Node /\ c \in Node
  BY <1>1, TreeLinks
<1>3. ASSUME NEW k \in [Node -> Nat], NEW top \in Nat, Falls(k, top)
      PROVE  k[c] < k[n]
  BY <1>3 DEF Falls
<1>4. ASSUME NEW k \in [Node -> Nat], NEW top \in Nat, Falls(k, top),
             NEW i \in 1 .. Len(frames)
      PROVE  k[c] < k[frames[i].node]
  <2>1. k[n] < k[frames[i].node] /\ k[c] < k[n]
    BY <1>3, <1>4 DEF Below
  <2>2. frames[i].node \in Node
    BY <1>1, <1>4, FrameTypes
  <2>3. PICK x, y, z \in Nat : x = k[c] /\ y = k[n] /\ z = k[frames[i].node]
    BY <1>2, <2>2
  <2> QED
    BY <2>1, <2>3
<1> QED
  BY <1>3, <1>4 DEF Below

LEMMA StepSeekVictim ==
  ASSUME IInv, SeekVictim, UNCHANGED zsetVars
  PROVE  IInv'
<1>1. TypeOK /\ HeapTree(heap, linked) /\ Control /\ Seeking
  BY Invariant
<1>2. /\ pc = "del" /\ pc' = "victim" /\ heap[at].right # NULL /\ at' = heap[at].right
      /\ frames' = Append(frames, [node |-> at, victim |-> NULL])
      /\ UNCHANGED <<heap, linked, ret, tree, hmap, score, op, target, arg>>
  BY DEF SeekVictim, zsetVars
<1>3. /\ op \in {"update", "pop"} /\ at \in linked /\ linked = hmap \cup {target}
      /\ Waiting /\ at = Gone /\ Below(at)
  BY <1>1, <1>2 DEF Seeking, Below
<1>4. at \in Node /\ at' \in linked
  BY <1>1, <1>2, <1>3, TreeLinks
<1>5. frames \in Seq([node : Node, victim : Link])
  BY <1>1 DEF TypeOK
<1>6. PICK rec \in [node : Node, victim : Link] : rec = [node |-> at, victim |-> NULL]
  BY <1>4 DEF Link
<1>7. PICK n \in Nat : n = Len(frames)
  BY <1>5
<1>8. /\ frames' \in Seq([node : Node, victim : Link]) /\ Len(frames') = n + 1
      /\ \A i \in 1 .. n : frames'[i] = frames[i]
      /\ frames'[n + 1] = rec
  BY <1>2, <1>5, <1>6, <1>7
<1>9. rec.node = at
  BY <1>6
<1>10. TypeOK'
  BY <1>1, <1>2, <1>4, <1>8 DEF TypeOK, Link
<1>11. \A i \in 1 .. n : frames[i].node # at
  BY <1>3, <1>7, BelowIsNotWaiting
<1>12. IF n = 0 THEN at = target ELSE at = frames[n].victim
  <2>1. n = 0 <=> frames = << >>
    BY <1>5, <1>7
  <2> QED
    BY <1>3, <1>7, <2>1 DEF Gone
<1>13. Waiting'
  <2>1. \A i \in 1 .. n + 1 : frames'[i].node \in linked
    <3>1. \A i \in 1 .. n : frames[i].node \in linked
      BY <1>3, <1>7 DEF Waiting
    <3>2. \A i \in 1 .. n + 1 : i \in 1 .. n \/ i = n + 1
      OBVIOUS
    <3> QED
      BY <1>3, <1>8, <1>9, <3>1, <3>2
  <2>2. \A i, j \in 1 .. n + 1 : frames'[i].node = frames'[j].node => i = j
    <3>1. \A i, j \in 1 .. n : frames[i].node = frames[j].node => i = j
      BY <1>3, <1>7 DEF Waiting
    <3>2. \A i \in 1 .. n + 1 : i \in 1 .. n \/ i = n + 1
      OBVIOUS
    <3> QED
      BY <1>8, <1>9, <1>11, <3>1, <3>2
  <2>3. \A i \in 1 .. n : frames'[i].victim = frames'[i + 1].node
    <3>1. \A i \in 1 .. n - 1 : frames[i].victim = frames[i + 1].node
      BY <1>3, <1>7 DEF Waiting
    <3> SUFFICES ASSUME NEW i \in 1 .. n  PROVE frames'[i].victim = frames'[i + 1].node
      OBVIOUS
    <3>2. CASE i = n
      BY <1>8, <1>9, <1>12, <3>2
    <3>3. CASE i \in 1 .. n - 1
      <4>1. i + 1 \in 1 .. n
        BY <3>3
      <4> QED
        BY <1>8, <3>1, <3>3, <4>1
    <3> QED
      BY <3>2, <3>3
  <2>4. frames'[1].node = target
    <3>1. CASE n = 0
      BY <1>8, <1>9, <1>12, <3>1
    <3>2. CASE n # 0
      <4>1. frames # << >> /\ 1 \in 1 .. n
        BY <1>7, <3>2
      <4> QED
        BY <1>3, <1>8, <4>1 DEF Waiting
    <3> QED
      BY <3>1, <3>2
  <2> QED
    BY <1>2, <1>7, <1>8, <2>1, <2>2, <2>3, <2>4 DEF Waiting
<1>14. Below(at)'
  <2> SUFFICES ASSUME NEW k \in [Node -> Nat], NEW top \in Nat, Falls(k, top)',
                      NEW i \in 1 .. n + 1
               PROVE  k[at'] < k[frames'[i].node]
    BY <1>8 DEF Below
  <2>1. Falls(k, top)
    BY <1>2 DEF Falls
  <2>2. Below(at') /\ k[at'] < k[at]
    BY <1>2, <1>3, <2>1, ChildIsBelow
  <2>3. CASE i \in 1 .. n
    BY <1>7, <1>8, <2>1, <2>2, <2>3 DEF Below
  <2>4. CASE i = n + 1
    BY <1>8, <1>9, <2>2, <2>4
  <2> QED
    BY <2>3, <2>4
<1>15. Seeking'
  <2>1. frames' # << >>
    BY <1>7, <1>8
  <2> QED
    BY <1>2, <1>3, <1>4, <1>13, <1>14, <2>1 DEF Seeking, Below
<1>16. Control'
  BY <1>1, <1>2, <1>3 DEF Control, AtRest, Placing, ByHand, Added, Removed, Repairing,
                          Targeted, Fixing
<1>17. HeapTree(heap', linked')
  BY <1>1, <1>2
<1> QED
  BY <1>10, <1>15, <1>16, <1>17, InvariantNext

LEMMA StepGoLeft ==
  ASSUME IInv, GoLeft, UNCHANGED zsetVars
  PROVE  IInv'
<1>1. TypeOK /\ HeapTree(heap, linked) /\ Control /\ Seeking
  BY Invariant
<1>2. /\ pc = "victim" /\ heap[at].left # NULL /\ at' = heap[at].left
      /\ UNCHANGED <<heap, linked, pc, frames, ret, tree, hmap, score, op, target, arg>>
  BY DEF GoLeft, AtVictim, zsetVars
<1>3. /\ op \in {"update", "pop"} /\ at \in linked /\ linked = hmap \cup {target}
      /\ Waiting /\ frames # << >> /\ Below(at)
  BY <1>1, <1>2 DEF Seeking, Below
<1>4. at' \in linked
  BY <1>1, <1>2, <1>3, TreeLinks
<1>5. TypeOK'
  BY <1>1, <1>2, <1>4 DEF TypeOK, Link
<1>6. Below(at)'
  <2> SUFFICES ASSUME NEW k \in [Node -> Nat], NEW top \in Nat, Falls(k, top)',
                      NEW i \in 1 .. Len(frames)
               PROVE  k[at'] < k[frames[i].node]
    BY <1>2 DEF Below
  <2>1. Falls(k, top)
    BY <1>2 DEF Falls
  <2>2. Below(at')
    BY <1>2, <1>3, ChildIsBelow
  <2> QED
    BY <2>1, <2>2 DEF Below
<1>7. Waiting'
  BY <1>2, <1>3 DEF Waiting
<1>8. Seeking'
  BY <1>2, <1>3, <1>4, <1>6, <1>7 DEF Seeking, Below
<1>9. Control'
  BY <1>1, <1>2, <1>3 DEF Control, AtRest, Placing, ByHand, Added, Removed, Repairing,
                          Targeted, Fixing
<1>10. HeapTree(heap', linked')
  BY <1>1, <1>2
<1> QED
  BY <1>5, <1>8, <1>9, <1>10, InvariantNext

LEMMA StepDetachVictim ==
  ASSUME IInv, DetachVictim, UNCHANGED zsetVars
  PROVE  IInv'
<1>1. TypeOK /\ HeapTree(heap, linked) /\ Control /\ Seeking
  BY Invariant
<1>2. /\ pc = "victim" /\ pc' = "del"
      /\ frames' = [frames EXCEPT ![Len(frames)].victim = at]
      /\ UNCHANGED <<heap, linked, at, ret, tree, hmap, score, op, target, arg>>
  BY DEF DetachVictim, AtVictim, zsetVars
<1>3. /\ op \in {"update", "pop"} /\ at \in linked /\ linked = hmap \cup {target}
      /\ Waiting /\ frames # << >> /\ Below(at)
  BY <1>1, <1>2 DEF Seeking, Below
<1>4. at \in Node /\ at \in Link
  BY <1>1, <1>3 DEF TypeOK
<1>5. PICK R : R = [node : Node, victim : Link]
  OBVIOUS
<1>6. PICK s \in Seq(R), n \in Nat : s = frames /\ n = Len(s)
  BY <1>1, <1>5 DEF TypeOK
<1>7. n >= 1 /\ n \in 1 .. n /\ s[n] \in R
  BY <1>3, <1>6
<1>8. PICK rec : rec = [s[n] EXCEPT !.victim = at]
  OBVIOUS
<1>9. rec \in R /\ rec.node = s[n].node /\ rec.victim = at
  BY <1>4, <1>5, <1>7, <1>8
<1>10. frames' = [s EXCEPT ![n] = rec]
  BY <1>2, <1>6, <1>8
<1>11. /\ frames' \in Seq(R) /\ Len(frames') = n
       /\ \A i \in 1 .. n : frames'[i] = IF i = n THEN rec ELSE s[i]
  BY <1>6, <1>7, <1>9, <1>10
<1>12. \A i \in 1 .. n : frames'[i].node = s[i].node
  BY <1>9, <1>11
<1>13. \A i \in 1 .. n : i # n => frames'[i].victim = s[i].victim
  BY <1>11
<1>14. frames'[n].victim = at
  BY <1>7, <1>9, <1>11
<1>15. frames' # << >>
  BY <1>7, <1>11
<1>16. Waiting'
  <2>1. /\ \A i \in 1 .. n : s[i].node \in linked
        /\ \A i, j \in 1 .. n : s[i].node = s[j].node => i = j
        /\ \A i \in 1 .. n - 1 : s[i].victim = s[i + 1].node
        /\ s[1].node = target
    BY <1>3, <1>6 DEF Waiting
  <2>2. \A i \in 1 .. n - 1 : i \in 1 .. n /\ i # n /\ i + 1 \in 1 .. n
    BY <1>7
  <2>3. \A i \in 1 .. n - 1 : frames'[i].victim = frames'[i + 1].node
    BY <1>12, <1>13, <2>1, <2>2
  <2>4. \A i \in 1 .. n : frames'[i].node \in linked'
    BY <1>2, <1>12, <2>1
  <2>5. \A i, j \in 1 .. n : frames'[i].node = frames'[j].node => i = j
    BY <1>12, <2>1
  <2>6. 1 \in 1 .. n
    BY <1>7
  <2>7. frames'[1].node = target
    BY <1>12, <2>1, <2>6
  <2> QED
    BY <1>2, <1>11, <2>3, <2>4, <2>5, <2>7 DEF Waiting
<1>17. TypeOK'
  BY <1>1, <1>2, <1>5, <1>11 DEF TypeOK
<1>18. Gone' = at
  BY <1>11, <1>14, <1>15 DEF Gone
<1>19. Below(at)'
  <2> SUFFICES ASSUME NEW k \in [Node -> Nat], NEW top \in Nat, Falls(k, top)',
                      NEW i \in 1 .. n
               PROVE  k[at] < k[frames'[i].node]
    BY <1>2, <1>11 DEF Below
  <2>1. Falls(k, top)
    BY <1>2 DEF Falls
  <2>2. k[at] < k[frames[i].node]
    BY <1>3, <1>6, <2>1 DEF Below
  <2> QED
    BY <1>6, <1>12, <2>2
<1>20. Seeking'
  BY <1>2, <1>3, <1>16, <1>18, <1>19 DEF Seeking, Below
<1>21. Control'
  BY <1>1, <1>2, <1>3 DEF Control, AtRest, Placing, ByHand, Added, Removed, Repairing,
                          Targeted, Fixing
<1>22. HeapTree(heap', linked')
  BY <1>1, <1>2
<1> QED
  BY <1>17, <1>20, <1>21, <1>22, InvariantNext

LEMMA StepSplice ==
  ASSUME IInv, Splice, UNCHANGED zsetVars
  PROVE  IInv'
<1>1. TypeOK /\ HeapTree(heap, linked) /\ Control /\ Seeking
  BY Invariant
<1>2. PICK q, c : q = heap[at].parent /\ c = heap[at].left
  OBVIOUS
<1>3. PICK up : up = SetParent(heap, c, q)
  OBVIOUS
<1>4. /\ pc = "del" /\ heap[at].right = NULL /\ linked' = linked \ {at}
      /\ \/ /\ q # NULL /\ heap' = Relink(up, q, at, c) /\ at' = q /\ pc' = "fix"
            /\ UNCHANGED ret
         \/ /\ q = NULL /\ heap' = up /\ ret' = c /\ pc' = "return" /\ UNCHANGED at
      /\ UNCHANGED <<frames, tree, hmap, score, op, target, arg>>
  BY <1>2, <1>3 DEF Splice, ChildUp, zsetVars
<1>5. /\ op \in {"update", "pop"} /\ at \in linked /\ linked = hmap \cup {target}
      /\ Waiting /\ at = Gone /\ Below(at)
  BY <1>1, <1>4 DEF Seeking, Below
<1>6. /\ HeapTree(heap', linked \ {at})
      /\ q = NULL => \/ c = NULL /\ linked \ {at} = {}
                     \/ c \in linked \ {at} /\ heap'[c].parent = NULL
      /\ q # NULL => q \in linked \ {at}
  <2>1. /\ q = NULL => heap' = up
        /\ q # NULL => heap' = Relink(up, q, at, c)
    BY <1>4
  <2>2. HeapTree(heap, linked) /\ at \in linked /\ heap[at].right = NULL
    BY <1>1, <1>4, <1>5
  <2>3. PICK h, n, g : h = heap /\ n = at /\ g = heap'
    OBVIOUS
  <2>4. HeapTree(h, linked) /\ n \in linked /\ h[n].right = NULL
    BY <2>2, <2>3
  <2>5. c = h[n].left /\ q = h[n].parent /\ up = SetParent(h, c, q)
    BY <1>2, <1>3, <2>3
  <2>6. (q = NULL => g = up) /\ (q # NULL => g = Relink(up, q, n, c))
    BY <2>1, <2>3
  <2>7. /\ HeapTree(g, linked \ {n})
        /\ q = NULL => \/ c = NULL /\ linked \ {n} = {}
                       \/ c \in linked \ {n} /\ g[c].parent = NULL
        /\ q # NULL => q \in linked \ {n}
    BY <2>4, <2>5, <2>6, TreeSpliced
  <2> QED
    BY <2>3, <2>7
<1>7. TypeOK'
  <2>1. heap' \in [Node -> AVLNode]
    BY <1>6 DEF HeapTree, Heap
  <2> QED
    BY <1>1, <1>4, <1>6, <2>1 DEF TypeOK, Link
<1>8. \A i \in 1 .. Len(frames) : frames[i].node # at
  BY <1>5, BelowIsNotWaiting
<1>9. Waiting'
  BY <1>4, <1>5, <1>8 DEF Waiting
<1>10. Gone' = Gone
  BY <1>4 DEF Gone
<1>11. Removed'
  BY <1>4, <1>5, <1>9, <1>10 DEF Removed
<1>12. Repairing'
  BY <1>4, <1>5, <1>6 DEF Repairing, Fixing, IsRoot
<1>13. pc' \in {"fix", "return"}
  BY <1>4
<1>14. Control'
  BY <1>1, <1>4, <1>5, <1>11, <1>12, <1>13
     DEF Control, AtRest, Placing, ByHand, Added, Targeted
<1>15. Seeking'
  BY <1>13 DEF Seeking
<1> QED
  BY <1>4, <1>6, <1>7, <1>14, <1>15, InvariantNext

LEMMA StepSwapVictim ==
  ASSUME IInv, SwapVictim, UNCHANGED zsetVars
  PROVE  IInv'
<1>1. TypeOK /\ HeapTree(heap, linked) /\ Control /\ Seeking
  BY Invariant
<1>2. PICK R : R = [node : Node, victim : Link]
  OBVIOUS
<1>3. PICK s \in Seq(R), m \in Nat : s = frames /\ m = Len(s)
  BY <1>1, <1>2 DEF TypeOK
<1>4. PICK n, v : n = s[m].node /\ v = s[m].victim
  OBVIOUS
<1>5. /\ pc = "return" /\ pc' = "return" /\ frames # << >>
      /\ heap' = Swapped(n, v)
      /\ linked' = (linked \ {n}) \cup {v}
      /\ ret' = IF heap[n].parent = NULL THEN v ELSE ret
      /\ frames' = SubSeq(s, 1, m - 1)
      /\ UNCHANGED <<at, tree, hmap, score, op, target, arg>>
  BY <1>3, <1>4 DEF SwapVictim, zsetVars
<1>6. m >= 1 /\ m \in 1 .. m /\ s[m] \in R
  BY <1>3, <1>5
<1>7. op \in {"update", "pop"} /\ IsRoot(ret)
  BY <1>1, <1>5 DEF Control, Repairing, ByHand
<1>8. Waiting /\ Gone \in hmap \cup {target} /\ linked = (hmap \cup {target}) \ {Gone}
  BY <1>1, <1>5, <1>7 DEF Control, Removed
<1>9. Gone = v
  BY <1>3, <1>4, <1>5 DEF Gone
<1>10. /\ \A i \in 1 .. m : s[i].node \in linked
       /\ \A i, j \in 1 .. m : s[i].node = s[j].node => i = j
       /\ \A i \in 1 .. m - 1 : s[i].victim = s[i + 1].node
       /\ s[1].node = target
  BY <1>3, <1>5, <1>8 DEF Waiting
<1>11. n \in linked /\ v \notin linked /\ v \in Node /\ linked \subseteq Node
  <2>1. hmap \cup {target} \subseteq Node
    BY <1>1, <1>7 DEF Control, Targeted, TypeOK
  <2> QED
    BY <1>4, <1>6, <1>8, <1>9, <1>10, <2>1
<1>12. /\ HeapTree(heap', (linked \ {n}) \cup {v})
       /\ heap'[v].parent = heap[n].parent
       /\ \A x \in linked \ {n} : heap[x].parent = NULL => heap'[x].parent = NULL
  BY <1>1, <1>5, <1>11, TreeSwapped
<1>13. IsRoot(ret)'
  <2>1. CASE heap[n].parent = NULL
    BY <1>5, <1>12, <2>1 DEF IsRoot
  <2>2. CASE heap[n].parent # NULL
    <3>1. ret \in linked \ {n} /\ heap[ret].parent = NULL
      BY <1>7, <1>11, <2>2 DEF IsRoot
    <3> QED
      BY <1>5, <1>12, <2>2, <3>1 DEF IsRoot
  <2> QED
    BY <2>1, <2>2
<1>14. /\ frames' \in Seq(R) /\ Len(frames') = m - 1
       /\ \A i \in 1 .. m - 1 : frames'[i] = s[i]
  BY <1>3, <1>5, <1>6
<1>15. frames' = << >> <=> m = 1
  BY <1>3, <1>6, <1>14
<1>16. Gone' = n
  <2>1. CASE m = 1
    BY <1>4, <1>5, <1>10, <1>15, <2>1 DEF Gone
  <2>2. CASE m # 1
    <3>1. m - 1 \in 1 .. m - 1 /\ (m - 1) + 1 = m
      BY <1>6, <2>2
    <3>2. s[m - 1].victim = n
      BY <1>4, <1>10, <3>1
    <3>3. Gone' = frames'[m - 1].victim
      BY <1>14, <1>15, <2>2 DEF Gone
    <3> QED
      BY <1>14, <3>1, <3>2, <3>3
  <2> QED
    BY <2>1, <2>2
<1>17. linked' = (hmap \cup {target}) \ {n} /\ n \in hmap \cup {target}
  BY <1>5, <1>8, <1>9, <1>11
<1>18. Waiting'
  <2>1. \A i \in 1 .. m - 1 : i \in 1 .. m /\ i # m
    BY <1>6
  <2>2. \A i \in 1 .. m - 1 : s[i].node \in linked /\ s[i].node # n
    BY <1>4, <1>6, <1>10, <2>1
  <2>3. \A i \in 1 .. m - 1 : frames'[i].node \in linked'
    BY <1>5, <1>14, <2>2
  <2>4. \A i, j \in 1 .. m - 1 : frames'[i].node = frames'[j].node => i = j
    BY <1>10, <1>14, <2>1
  <2>5. \A i \in 1 .. (m - 1) - 1 : frames'[i].victim = frames'[i + 1].node
    <3>1. \A i \in 1 .. (m - 1) - 1 : i \in 1 .. m - 1 /\ i + 1 \in 1 .. m - 1
      BY <1>6
    <3> QED
      BY <1>10, <1>14, <3>1
  <2>6. frames' # << >> => frames'[1].node = target
    <3>1. frames' # << >> => 1 \in 1 .. m - 1
      BY <1>6, <1>15
    <3> QED
      BY <1>10, <1>14, <3>1
  <2> QED
    BY <1>5, <1>14, <2>3, <2>4, <2>5, <2>6 DEF Waiting
<1>19. TypeOK'
  <2>1. heap' \in [Node -> AVLNode]
    BY <1>12 DEF HeapTree, Heap
  <2>2. ret' \in Link
    BY <1>1, <1>5, <1>11 DEF TypeOK, Link
  <2> QED
    BY <1>1, <1>2, <1>5, <1>11, <1>14, <2>1, <2>2 DEF TypeOK
<1>20. Removed'
  BY <1>5, <1>16, <1>17, <1>18 DEF Removed
<1>21. Repairing'
  BY <1>5, <1>7, <1>13 DEF Repairing, Fixing
<1>22. Control'
  BY <1>1, <1>5, <1>7, <1>20, <1>21 DEF Control, AtRest, Placing, ByHand, Added, Targeted
<1>23. Seeking'
  BY <1>5 DEF Seeking
<1> QED
  BY <1>5, <1>12, <1>19, <1>22, <1>23, InvariantNext

-----------------------------------------------------------------------------
(* Every step.                                                             *)

LEMMA StepCall ==
  ASSUME IInv, Call
  PROVE  IInv'
<1>1. CASE \E x \in Names : HcmpFaults(x) \/ zset_pop(x)
  BY <1>1, StepHcmpFaults, StepPop
<1>2. CASE \E x \in Names : \E s \in Scores[x] : zset_add(x, s)
  <2>1. PICK x \in Names : \E s \in Scores[x] : zset_add(x, s)
    BY <1>2
  <2>2. PICK s \in Scores[x] : NewNode(x, s, "add")
    BY <2>1 DEF zset_add
  <2>3. s \in Int
    BY <2>1, <2>2, ScoreAssumption
  <2> QED
    BY <2>1, <2>2, <2>3, StepNewNode
<1>3. CASE \E n \in hmap : \E s \in Scores[Name(n)] : zset_update(n, s)
  <2>1. PICK n \in hmap : \E s \in Scores[Name(n)] : zset_update(n, s)
    BY <1>3
  <2>2. Name(n) \in Names
    BY <2>1, ZNodeAssumption DEF IInv, TypeOK, Name
  <2>3. PICK s \in Scores[Name(n)] : zset_update(n, s)
    BY <2>1
  <2>4. s \in Int
    BY <2>2, ScoreAssumption
  <2> QED
    BY <2>3, <2>4, StepUpdate
<1>4. CASE \E i \in 1 .. Len(List) : AppendByHand(i)
  <2>1. PICK i \in 1 .. Len(List) : NewNode(List[i][1], List[i][2], "byhand")
    BY <1>4 DEF AppendByHand
  <2>2. List[i][1] \in Names /\ List[i][2] \in Int
    <3>1. PICK R : R = Names \X Int
      OBVIOUS
    <3>2. PICK l \in Seq(R) : l = List
      BY <3>1, ListAssumption
    <3>3. i \in 1 .. Len(l)
      BY <3>2
    <3>4. l[i] \in R
      BY <3>2, <3>3
    <3> QED
      BY <3>1, <3>2, <3>4
  <2> QED
    BY <2>1, <2>2, StepNewNode
<1> QED
  BY <1>1, <1>2, <1>3, <1>4 DEF Call

LEMMA StepTree ==
  ASSUME IInv, Tree
  PROVE  IInv'
<1>1. UNCHANGED zsetVars
  BY DEF Tree
<1>2. CASE avl_fix
  BY <1>1, <1>2, StepFixUpdate, StepFixSide, StepFixLiftsNull, StepRotate DEF avl_fix
<1>3. CASE avl_del
  BY <1>1, <1>3, StepSeekVictim, StepGoLeft, StepDetachVictim, StepSplice, StepSwapVictim
     DEF avl_del
<1> QED
  BY <1>2, <1>3 DEF Tree

LEMMA StepUnchanged ==
  ASSUME IInv, UNCHANGED vars
  PROVE  IInv'
<1>1. TypeOK /\ HeapTree(heap, linked) /\ Control /\ Seeking
  BY Invariant
<1>2. UNCHANGED <<heap, linked, pc, at, frames, ret, tree, hmap, score, op, target, arg>>
  BY DEF vars, treeVars
<1>3. TypeOK'
  BY <1>1, <1>2 DEF TypeOK
<1>4. HeapTree(heap', linked')
  BY <1>1, <1>2
<1>5. Control'
  BY <1>1, <1>2 DEF Control, AtRest, Placing, ByHand, Added, Removed, Repairing, Targeted,
                    Fixing, Waiting, Gone, IsRoot, Unlinked
<1>6. Seeking'
  BY <1>1, <1>2 DEF Seeking, Waiting, Gone, Falls
<1> QED
  BY <1>3, <1>4, <1>5, <1>6, InvariantNext

LEMMA NextKeepsIInv == IInv /\ [Next]_vars => IInv'
<1> SUFFICES ASSUME IInv, [Next]_vars PROVE IInv'
  OBVIOUS
<1>1. CASE Call
  BY <1>1, StepCall
<1>2. CASE Running
  <2>1. CASE Tree
    BY <2>1, StepTree
  <2>2. CASE Descend \/ LinkRoot
    BY <2>2, StepDescend, StepLinkRoot
  <2>3. CASE GoRight \/ LinkByHand \/ UpdateByHand
    BY <2>3, StepGoRight, StepLinkByHand, StepUpdateByHand
  <2>4. CASE tree_add_returns \/ Reinsert \/ PopReturns
    BY <2>4, StepTreeAddReturns, StepReinsert, StepPopReturns
  <2> QED
    BY <1>2, <2>1, <2>2, <2>3, <2>4 DEF Running
<1>3. CASE UNCHANGED vars
  BY <1>3, StepUnchanged
<1> QED
  BY <1>1, <1>2, <1>3 DEF Next

(* The inductive invariant holds in every state of every run.              *)
THEOREM InvariantOfZSet == Spec => []IInv
<1>1. Init => IInv
  BY InitIInv
<1>2. IInv /\ [Next]_vars => IInv'
  BY NextKeepsIInv
<1> QED
  BY <1>1, <1>2, PTL DEF Spec

(* The variables keep their types: no link leads to what is not a node,    *)
(* and depths and sizes are unsigned words.                                *)
THEOREM ZSetTypesStayCorrect == Spec => []TypeOK
<1>1. IInv => TypeOK
  BY DEF IInv
<1> QED
  BY <1>1, InvariantOfZSet, PTL

(* Whatever rotations, splices and swaps the calls make, the links to      *)
(* children and to parents agree, and one node has no parent.              *)
THEOREM LinksStayAgreed == Spec => []LinksAgree
<1>1. IInv => LinksAgree
  BY DEF IInv
<1> QED
  BY <1>1, InvariantOfZSet, PTL

(* A defect: contrary to avl_tree.h:35-38 and zset.h:51 no insertion       *)
(* survives; whatever the tree, members and scores, the first round of     *)
(* avl_fix after tree_add is the last step of the process.                 *)
THEOREM AddingIsFatal == Spec => AddDies
<1>1. IInv /\ [Next]_vars => [op = "add" /\ pc = "balance" => pc' = "segv"]_vars
  <2> SUFFICES ASSUME IInv, Next, op = "add", pc = "balance"  PROVE pc' = "segv"
    OBVIOUS
  <2>1. Lifted(at) = NULL
    BY LeafLiftsNull DEF IInv, Added
  <2>2. ~ Call
    BY DEF Call, HcmpFaults, zset_pop, zset_add, zset_update, AppendByHand, NewNode
  <2>3. ~ avl_del
    BY DEF avl_del, SeekVictim, GoLeft, DetachVictim, AtVictim, Splice, SwapVictim
  <2>4. avl_fix => pc' = "segv"
    BY <2>1 DEF avl_fix, FixUpdate, FixSide, FixLiftsNull, Rotate
  <2>5. ~ (Descend \/ LinkRoot \/ GoRight \/ LinkByHand \/ UpdateByHand)
    BY DEF Descend, LinkRoot, GoRight, LinkByHand, UpdateByHand
  <2>6. ~ (tree_add_returns \/ Reinsert \/ PopReturns)
    BY DEF tree_add_returns, Reinsert, PopReturns, Returning
  <2> QED
    BY <2>2, <2>3, <2>4, <2>5, <2>6 DEF Next, Running, Tree
<1> QED
  BY <1>1, InvariantOfZSet, PTL DEF Spec, AddDies

-----------------------------------------------------------------------------
(* The two indexes.                                                        *)

(* The recursive definition of Subtree has a solution, and only one.       *)
LEMMA SubtreeIsReached ==
  ASSUME HeapTree(heap, linked), NEW n \in linked \cup {NULL}
  PROVE  Subtree(n) = ReachedFrom(heap, linked, n)
<1> DEFINE D == linked \cup {NULL}
           AtAndBelow(f, m) == IF m = NULL THEN {}
                              ELSE {m} \cup f[heap[m].left] \cup f[heap[m].right]
           sub == CHOOSE f : f = [m \in D |-> AtAndBelow(f, m)]
<1>1. Subtree(n) = sub[n]
  BY DEF Subtree
<1>2. NULL \notin linked
  BY NodeAssumption DEF HeapTree, IsTree
<1>3. \E f : f = [m \in D |-> AtAndBelow(f, m)]
  <2>1. PICK f : f = [m \in D |-> ReachedFrom(heap, linked, m)]
    OBVIOUS
  <2>2. ASSUME NEW m \in D  PROVE ReachedFrom(heap, linked, m) = AtAndBelow(f, m)
    <3>1. CASE m = NULL
      BY <3>1 DEF ReachedFrom
    <3>2. CASE m # NULL
      <4>1. heap[m].left \in D /\ heap[m].right \in D
        BY <3>2, TreeLinks
      <4> QED
        BY <2>1, <3>2, <4>1, ReachedStep
    <3> QED
      BY <3>1, <3>2
  <2>3. f = [m \in D |-> AtAndBelow(f, m)]
    BY <2>1, <2>2
  <2> QED
    BY <2>3
<1>4. sub = [m \in D |-> AtAndBelow(sub, m)]
  BY <1>3
<1>5. sub[NULL] = {} /\ \A m \in linked :
        sub[m] = {m} \cup sub[heap[m].left] \cup sub[heap[m].right]
  BY <1>2, <1>4
<1> HIDE DEF sub
<1> QED
  BY <1>1, <1>5, ReachedIsUnique

(* Between calls the hash table and the tree hold the same nodes, and the  *)
(* root leads to all of them: none is lost by a delete that moves a victim *)
(* into its place.                                                         *)
THEOREM IndexesStayEqual == Spec => []IndexesAgree
<1>1. ASSUME IInv  PROVE IndexesAgree
  <2>1. TypeOK /\ HeapTree(heap, linked) /\ Control
    BY <1>1, Invariant
  <2> SUFFICES ASSUME pc = "idle"  PROVE linked = hmap /\ Subtree(tree) = hmap
    BY DEF IndexesAgree
  <2>2. linked = hmap /\ IsRoot(tree)
    BY <2>1 DEF Control, AtRest
  <2>3. ReachedFrom(heap, linked, tree) = linked
    <3>1. CASE tree \in linked /\ heap[tree].parent = NULL
      BY <2>1, <3>1, ReachedFromRoot
    <3>2. CASE tree = NULL /\ linked = {}
      BY <3>2 DEF ReachedFrom
    <3> QED
      BY <2>2, <3>1, <3>2 DEF IsRoot
  <2>4. tree \in linked \cup {NULL}
    BY <2>2 DEF IsRoot
  <2> QED
    BY <2>1, <2>2, <2>3, <2>4, SubtreeIsReached
<1> QED
  BY <1>1, InvariantOfZSet, PTL

-----------------------------------------------------------------------------
(* The sizes of subtrees.                                                  *)

StaleTwo == {"fix", "update", "rot_left", "rot_right"}
StaleOne == {"balance", "balanced"}

LEMMA StaleNodes ==
  /\ pc \in StaleTwo => Stale = {at, heap[at].parent}
  /\ pc \in StaleOne => Stale = {heap[at].parent}
  /\ pc \notin StaleTwo \cup StaleOne => Stale = {}
BY DEF Stale, StaleTwo, StaleOne

LEMMA StaleNodesNext ==
  /\ pc' \in StaleTwo => Stale' = {at', heap'[at'].parent}
  /\ pc' \in StaleOne => Stale' = {heap'[at'].parent}
  /\ pc' \notin StaleTwo \cup StaleOne => Stale' = {}
BY DEF Stale, StaleTwo, StaleOne

(* What CountsInv says of a heap h and a tree of the nodes N. *)
SumsBut(h, N, S) == IsFiniteSet(N) /\ \A n \in N \ S : SumsUp(h, n)

LEMMA Sums ==
  ASSUME CountsInv, pc # "segv"
  PROVE  SumsBut(heap, linked, Stale)
BY DEF CountsInv, Counted, SumsBut, SumsUp

LEMMA SumsNext ==
  ASSUME SumsBut(heap', linked', Stale')
  PROVE  CountsInv'
BY DEF CountsInv, Counted, SumsBut, SumsUp

(* A step that neither changes the tree nor has a count to update. *)
LEMMA CountsStill ==
  ASSUME CountsInv, UNCHANGED <<heap, linked>>, pc # "segv",
         pc' = "segv" \/ (pc \notin StaleTwo \cup StaleOne /\ pc' \notin StaleTwo \cup StaleOne)
  PROVE  CountsInv'
<1>1. CASE pc' = "segv"
  BY <1>1 DEF CountsInv
<1>2. CASE pc \notin StaleTwo \cup StaleOne /\ pc' \notin StaleTwo \cup StaleOne
  <2>1. Stale = {} /\ Stale' = {}
    BY <1>2, StaleNodes, StaleNodesNext
  <2>2. SumsBut(heap, linked, {})
    BY <2>1, Sums
  <2> QED
    BY <2>1, <2>2, SumsNext
<1> QED
  BY <1>1, <1>2

(* A step that changes the heap outside the tree only. *)
LEMMA CountsOutside ==
  ASSUME CountsInv, HeapTree(heap, linked), UNCHANGED linked, \A x \in linked : heap'[x] = heap[x],
         pc # "segv", pc \notin StaleTwo \cup StaleOne, pc' \notin StaleTwo \cup StaleOne
  PROVE  CountsInv'
<1>1. Stale = {} /\ Stale' = {}
  BY StaleNodes, StaleNodesNext
<1>2. SumsBut(heap, linked, {})
  BY <1>1, Sums
<1>3. PICK h, g : h = heap /\ g = heap'
  OBVIOUS
<1>4. \A x \in linked : SumsUp(h, x) => SumsUp(g, x)
  BY <1>3, SameSums
<1>5. SumsBut(heap', linked', {})
  BY <1>2, <1>3, <1>4 DEF SumsBut
<1> QED
  BY <1>1, <1>5, SumsNext

LEMMA CountsNewNode ==
  ASSUME IInv, CountsInv, NEW x \in Names, NEW s \in Int, NEW who \in {"add", "byhand"},
         NewNode(x, s, who)
  PROVE  CountsInv'
<1>1. TypeOK /\ HeapTree(heap, linked) /\ Control
  BY Invariant
<1>2. PICK n \in {<<x, 1>>, <<x, 2>>} \ hmap : heap' = [heap EXCEPT ![n] = avl_init]
  BY DEF NewNode
<1>3. n \in Node /\ n \notin hmap
  BY <1>2, ZNodeAssumption
<1>4. pc = "idle" /\ linked = hmap /\ linked' = linked /\ pc' \in {"append", "descend"}
  BY <1>1 DEF NewNode, Control, AtRest
<1>5. avl_init \in AVLNode
  BY WordAssumption DEF avl_init, AVLNode, Uint, Link
<1>6. ChangedAt(heap', heap, n, avl_init)
  BY <1>2 DEF ChangedAt
<1>7. \A m \in linked : heap'[m] = heap[m]
  BY <1>1, <1>3, <1>4, <1>5, <1>6, TreeOutside
<1> QED
  BY <1>1, <1>4, <1>7, CountsOutside DEF StaleTwo, StaleOne

LEMMA CountsReturned ==
  ASSUME IInv, CountsInv, Reinsert \/ PopReturns
  PROVE  CountsInv'
<1>1. TypeOK /\ HeapTree(heap, linked) /\ Control
  BY Invariant
<1>2. /\ pc = "return" /\ frames = << >> /\ op \in {"update", "pop"}
      /\ pc' \in {"descend", "idle"} /\ heap' = [heap EXCEPT ![target] = avl_init]
      /\ UNCHANGED linked
  BY DEF Reinsert, PopReturns, Returning
<1>3. target \in Node /\ target \notin linked
  BY <1>1, <1>2 DEF Control, Targeted, Removed, Gone
<1>4. avl_init \in AVLNode
  BY WordAssumption DEF avl_init, AVLNode, Uint, Link
<1>5. ChangedAt(heap', heap, target, avl_init)
  BY <1>2 DEF ChangedAt
<1>6. \A m \in linked : heap'[m] = heap[m]
  BY <1>1, <1>3, <1>4, <1>5, TreeOutside
<1> QED
  BY <1>1, <1>2, <1>6, CountsOutside DEF StaleTwo, StaleOne

LEMMA CountsDescend ==
  ASSUME IInv, CountsInv, Descend
  PROVE  CountsInv'
<1>1. TypeOK /\ HeapTree(heap, linked) /\ Control
  BY Invariant
<1>2. /\ pc = "descend" /\ op = "add" /\ Unlinked(target) /\ at \in linked /\ target \in Node
  BY <1>1 DEF Descend, Control, Placing, Targeted
<1>3. PICK less \in BOOLEAN :
        \/ UNCHANGED <<heap, linked, pc>>
        \/ /\ heap' = LeafLinked(heap, at, target, less)
           /\ linked' = linked \cup {target}
           /\ at' = target
           /\ pc' = "fix"
  <2>1. PICK answer :
          \/ UNCHANGED <<heap, linked, pc>>
          \/ /\ heap' = LeafLinked(heap, at, target, answer)
             /\ linked' = linked \cup {target}
             /\ at' = target
             /\ pc' = "fix"
    BY DEF Descend, LeafLinked
  <2>2. CASE answer
    <3>1. LeafLinked(heap, at, target, answer) = LeafLinked(heap, at, target, TRUE)
      BY <2>2 DEF LeafLinked
    <3> QED
      BY <2>1, <2>2, <3>1
  <2>3. CASE ~ answer
    <3>1. LeafLinked(heap, at, target, answer) = LeafLinked(heap, at, target, FALSE)
      BY <2>3 DEF LeafLinked
    <3> QED
      BY <2>1, <2>3, <3>1
  <2> QED
    BY <2>2, <2>3
<1>4. CASE UNCHANGED <<heap, linked, pc>>
  BY <1>2, <1>4, CountsStill DEF StaleTwo, StaleOne
<1>5. CASE pc' = "fix"
  <2>1. /\ heap' = LeafLinked(heap, at, target, less)
        /\ linked' = linked \cup {target} /\ at' = target
    BY <1>2, <1>3, <1>5
  <2>2. target \notin linked /\ heap[target].left = NULL /\ heap[target].right = NULL
    BY <1>2 DEF Unlinked
  <2>3. PICK h, g, t, a : h = heap /\ g = heap' /\ t = target /\ a = at
    OBVIOUS
  <2>4. /\ HeapTree(h, linked) /\ a \in linked /\ t \in Node /\ t \notin linked
        /\ h[t].left = NULL /\ h[t].right = NULL /\ g = LeafLinked(h, a, t, less)
    BY <1>1, <1>2, <2>1, <2>2, <2>3
  <2>5. h \in Heap /\ a \in Node /\ t # a
    BY <2>4, TreeLinks
  <2>6. g[t].parent = a
    BY <2>4, <2>5, LeafParent
  <2>7. \A x \in linked : x # a /\ SumsUp(h, x) => SumsUp(g, x)
    BY <2>4, LeafCounts
  <2>8. Stale' = {t, a}
    BY <1>5, <2>1, <2>3, <2>6, StaleNodesNext DEF StaleTwo
  <2>9. SumsBut(h, linked, {})
    BY <1>2, <2>3, Sums, StaleNodes DEF StaleTwo, StaleOne
  <2>10. IsFiniteSet(linked \cup {t})
    BY <2>9, FS_AddElement DEF SumsBut
  <2>11. SumsBut(heap', linked', Stale')
    BY <2>1, <2>3, <2>7, <2>8, <2>9, <2>10 DEF SumsBut
  <2> QED
    BY <2>11, SumsNext
<1> QED
  BY <1>3, <1>4, <1>5

LEMMA CountsLinkRoot ==
  ASSUME IInv, CountsInv, LinkRoot
  PROVE  CountsInv'
<1>1. Control
  BY Invariant
<1>2. pc = "descend" /\ at = NULL /\ pc' = "fix" /\ linked' = linked \cup {target} /\ at' = target
  BY DEF LinkRoot
<1>3. linked = {}
  BY <1>1, <1>2, NodeAssumption DEF Control, Placing, IInv, TypeOK
<1>4. target \in Stale'
  BY <1>2, StaleNodesNext DEF StaleTwo
<1>5. IsFiniteSet(linked \cup {target})
  BY <1>2, Sums, FS_AddElement DEF SumsBut
<1>6. SumsBut(heap', linked', Stale')
  BY <1>2, <1>3, <1>4, <1>5 DEF SumsBut
<1> QED
  BY <1>6, SumsNext

LEMMA CountsLinkByHand ==
  ASSUME IInv, CountsInv, LinkByHand
  PROVE  CountsInv'
<1>1. TypeOK /\ HeapTree(heap, linked) /\ Control
  BY Invariant
<1>2. /\ pc = "append" /\ pc' = "update" /\ at' = target /\ linked' = linked \cup {target}
      /\ heap' = HandLinked(heap, at, target, Edge)
  BY DEF LinkByHand, HandLinked
<1>3. /\ Unlinked(target) /\ target \in Node /\ op = "byhand"
      /\ IsRoot(tree) /\ at \in linked \cup {NULL}
  BY <1>1, <1>2 DEF Control, Placing, Targeted
<1>4. Edge \in linked \cup {NULL}
  <2>1. CASE at = NULL
    BY <1>3, <2>1 DEF Edge, IsRoot
  <2>2. CASE at # NULL
    BY <1>1, <1>3, <2>2, TreeLinks DEF Edge
  <2> QED
    BY <2>1, <2>2
<1>5. target \notin linked /\ heap[target].right = NULL
  BY <1>3 DEF Unlinked
<1>6. PICK h, g, t, a, e : h = heap /\ g = heap' /\ t = target /\ a = at /\ e = Edge
  OBVIOUS
<1>7. /\ HeapTree(h, linked) /\ a \in linked \cup {NULL} /\ t \in Node /\ t \notin linked
      /\ h[t].right = NULL /\ e \in linked \cup {NULL} /\ g = HandLinked(h, a, t, e)
  BY <1>1, <1>2, <1>3, <1>4, <1>5, <1>6
<1>8. h \in Heap /\ a \in Link /\ e \in Link /\ t # a /\ e # t
  BY <1>7, NodeAssumption DEF HeapTree, IsTree, Link
<1>9. g[t].parent = a
  BY <1>7, <1>8, PlacedParent
<1>10. \A x \in linked : x # a /\ SumsUp(h, x) => SumsUp(g, x)
  BY <1>7, PlacedCounts
<1>11. Stale' = {t, a}
  BY <1>2, <1>6, <1>9, StaleNodesNext DEF StaleTwo
<1>12. SumsBut(h, linked, {})
  BY <1>2, <1>6, Sums, StaleNodes DEF StaleTwo, StaleOne
<1>13. IsFiniteSet(linked \cup {t})
  BY <1>12, FS_AddElement DEF SumsBut
<1>14. SumsBut(heap', linked', Stale')
  BY <1>2, <1>6, <1>10, <1>11, <1>12, <1>13 DEF SumsBut
<1> QED
  BY <1>14, SumsNext

(* avl_update makes the count of the node it is given true, and that of    *)
(* its parent alone may become false.                                      *)
LEMMA UpdateLeaves ==
  ASSUME HeapTree(heap, linked), at \in linked, CountsInv, pc \in {"fix", "update"},
         heap' = avl_update(heap, at)
  PROVE  SumsBut(heap', linked, {heap[at].parent}) /\ heap'[at].parent = heap[at].parent
<1>1. PICK h, g, n, q : h = heap /\ g = heap' /\ n = at /\ q = heap[at].parent
  OBVIOUS
<1>2. HeapTree(h, linked) /\ n \in linked /\ q = h[n].parent /\ g = avl_update(h, n)
  BY <1>1
<1>3. h \in Heap /\ n \in Node
  BY <1>2, TreeLinks
<1>4. HeapTree(g, linked) /\ SameLinks(g, h)
  BY <1>2, <1>3, TreeUpdate
<1>5. g[n].parent = q
  <2>1. g \in Heap
    BY <1>4 DEF HeapTree
  <2> QED
    BY <1>2, <1>3, <1>4, <2>1, HeapLinks DEF SameLinks
<1>6. SumsUp(g, n) /\ \A x \in linked : x # n /\ x # q /\ SumsUp(h, x) => SumsUp(g, x)
  BY <1>2, TreeUpdateCounts
<1>7. SumsBut(h, linked, {n, q})
  BY <1>1, Sums, StaleNodes DEF StaleTwo
<1>8. SumsBut(g, linked, {q})
  BY <1>6, <1>7 DEF SumsBut
<1> QED
  BY <1>1, <1>5, <1>8

LEMMA CountsUpdateByHand ==
  ASSUME IInv, CountsInv, UpdateByHand
  PROVE  CountsInv'
<1>1. TypeOK /\ HeapTree(heap, linked) /\ Control
  BY Invariant
<1>2. /\ pc = "update" /\ heap' = avl_update(heap, at)
      /\ \/ heap[at].parent # NULL /\ at' = heap[at].parent /\ pc' = pc
         \/ heap[at].parent = NULL /\ pc' = "return"
      /\ linked' = linked
  BY DEF UpdateByHand
<1>3. at \in linked
  BY <1>1, <1>2 DEF Control, ByHand
<1>4. SumsBut(heap', linked, {heap[at].parent})
  BY <1>1, <1>2, <1>3, UpdateLeaves
<1>5. CASE heap[at].parent # NULL
  <2>1. heap[at].parent \in Stale'
    BY <1>2, <1>5, StaleNodesNext DEF StaleTwo
  <2>2. SumsBut(heap', linked', Stale')
    BY <1>2, <1>4, <2>1 DEF SumsBut
  <2> QED
    BY <2>2, SumsNext
<1>6. CASE heap[at].parent = NULL
  <2>1. NULL \notin linked
    BY <1>1, <1>3, TreeLinks
  <2>2. SumsBut(heap', linked', Stale')
    BY <1>2, <1>4, <1>6, <2>1 DEF SumsBut
  <2> QED
    BY <2>2, SumsNext
<1> QED
  BY <1>5, <1>6

LEMMA CountsFixUpdate ==
  ASSUME IInv, CountsInv, FixUpdate
  PROVE  CountsInv'
<1>1. TypeOK /\ HeapTree(heap, linked) /\ Control
  BY Invariant
<1>2. /\ pc = "fix" /\ pc' = "balance" /\ heap' = avl_update(heap, at)
      /\ UNCHANGED <<linked, at>>
  BY DEF FixUpdate
<1>3. at \in linked
  BY <1>1, <1>2 DEF Control, Repairing, Fixing
<1>4. SumsBut(heap', linked, {heap[at].parent}) /\ heap'[at].parent = heap[at].parent
  BY <1>1, <1>2, <1>3, UpdateLeaves
<1>5. Stale' = {heap[at].parent}
  BY <1>2, <1>4, StaleNodesNext DEF StaleOne
<1> QED
  BY <1>2, <1>4, <1>5, SumsNext

(* The rotation of a child below the node that avl_fix is at. *)
LEMMA FixLeftCounts ==
  ASSUME HeapTree(heap, linked), at \in linked, LeftLifted(at) # NULL,
         NEW g, g = avl_fix_left
  PROVE  /\ g[at].parent = heap[at].parent
         /\ \A x \in linked : x # at /\ SumsUp(heap, x) => SumsUp(g, x)
<1>1. PICK h : h = heap
  OBVIOUS
<1>2. PICK l : l = h[at].left
  OBVIOUS
<1>3. l # NULL /\ (IsLR(l) => h[l].right # NULL)
  BY <1>1, <1>2 DEF LeftLifted
<1>4. HeapTree(h, linked)
  BY <1>1
<1>5. h \in Heap /\ l \in linked /\ h[l].parent = at /\ at \in Node /\ at # NULL
  BY <1>2, <1>3, <1>4, TreeLinks
<1>6. CASE ~ IsLR(l)
  BY <1>1, <1>2, <1>6 DEF avl_fix_left
<1>7. CASE IsLR(l)
  <2>1. PICK m : m = h[l].right
    OBVIOUS
  <2>2. PICK half : half = rot_left(h, l)
    OBVIOUS
  <2>3. PICK g2 : g2 = Relink(half, at, l, m)
    OBVIOUS
  <2>4. m # NULL
    BY <1>3, <1>7, <2>1
  <2>5. half[at].left = l
    BY <1>2, <1>4, <1>5, <2>1, <2>2, <2>3, <2>4, TreeTurned
  <2>6. g2 = [half EXCEPT ![at].left = m]
    BY <2>3, <2>5 DEF Relink
  <2>7. g = g2
    BY <1>1, <1>2, <1>7, <2>1, <2>2, <2>6 DEF avl_fix_left
  <2>8. g2[at].parent = h[at].parent
    BY <1>4, <1>5, <2>1, <2>2, <2>3, <2>4, TurnedParent
  <2>9. /\ SumsUp(g2, l) /\ SumsUp(g2, m)
        /\ \A x \in linked : x # l /\ x # m /\ x # at /\ SumsUp(h, x) => SumsUp(g2, x)
    BY <1>4, <1>5, <2>1, <2>2, <2>3, <2>4, TurnedCounts
  <2> QED
    BY <1>1, <2>7, <2>8, <2>9
<1> QED
  BY <1>6, <1>7

LEMMA FixRightCounts ==
  ASSUME HeapTree(heap, linked), at \in linked, RightLifted(at) # NULL,
         NEW g, g = avl_fix_right
  PROVE  /\ g[at].parent = heap[at].parent
         /\ \A x \in linked : x # at /\ SumsUp(heap, x) => SumsUp(g, x)
<1>1. PICK h : h = heap
  OBVIOUS
<1>2. PICK r : r = h[at].right
  OBVIOUS
<1>3. r # NULL /\ (IsRL(r) => h[r].left # NULL)
  BY <1>1, <1>2 DEF RightLifted
<1>4. HeapTree(h, linked)
  BY <1>1
<1>5. h \in Heap /\ r \in linked /\ h[r].parent = at /\ at \in Node /\ at # NULL
  BY <1>2, <1>3, <1>4, TreeLinks
<1>6. CASE ~ IsRL(r)
  BY <1>1, <1>2, <1>6 DEF avl_fix_right
<1>7. CASE IsRL(r)
  <2>1. PICK m : m = h[r].left
    OBVIOUS
  <2>2. PICK half : half = rot_right(h, r)
    OBVIOUS
  <2>3. PICK g2 : g2 = Relink(half, at, r, m)
    OBVIOUS
  <2>4. m # NULL
    BY <1>3, <1>7, <2>1
  <2>5. h[at].left # r
    <3>1. h[r].parent # NULL => (h[h[r].parent].left = r <=> h[h[r].parent].right # r)
      BY <1>4, <1>5, TreeLinks
    <3> QED
      BY <1>2, <1>5, <3>1
  <2>6. half[at].left = h[at].left
    BY <1>4, <1>5, <2>1, <2>2, <2>3, <2>4, <2>5, TreeTurnedBack
  <2>7. g2 = [half EXCEPT ![at].right = m]
    BY <2>3, <2>5, <2>6 DEF Relink
  <2>8. g = g2
    BY <1>1, <1>2, <1>7, <2>1, <2>2, <2>7 DEF avl_fix_right
  <2>9. g2[at].parent = h[at].parent
    BY <1>4, <1>5, <2>1, <2>2, <2>3, <2>4, TurnedBackParent
  <2>10. /\ SumsUp(g2, r) /\ SumsUp(g2, m)
         /\ \A x \in linked : x # r /\ x # m /\ x # at /\ SumsUp(h, x) => SumsUp(g2, x)
    BY <1>4, <1>5, <2>1, <2>2, <2>3, <2>4, TurnedBackCounts
  <2> QED
    BY <1>1, <2>8, <2>9, <2>10
<1> QED
  BY <1>6, <1>7

LEMMA CountsFixSide ==
  ASSUME IInv, CountsInv, FixSide
  PROVE  CountsInv'
<1>1. TypeOK /\ HeapTree(heap, linked) /\ Control
  BY Invariant
<1>2. pc = "balance" /\ Lifted(at) # NULL /\ UNCHANGED <<linked, at>>
  BY DEF FixSide
<1>3. at \in linked
  BY <1>1, <1>2 DEF Control, Repairing, Fixing
<1>4. /\ heap'[at].parent = heap[at].parent
      /\ \/ /\ pc' \in {"rot_right", "rot_left"}
            /\ \A x \in linked : x # at /\ SumsUp(heap, x) => SumsUp(heap', x)
         \/ pc' = "balanced" /\ heap' = heap
  <2>1. CASE LeftHeavy(at)
    <3>1. heap' = avl_fix_left /\ pc' = "rot_right" /\ LeftLifted(at) # NULL
      BY <1>2, <2>1 DEF FixSide, Lifted, RightHeavy
    <3> QED
      BY <1>1, <1>3, <3>1, FixLeftCounts
  <2>2. CASE RightHeavy(at)
    <3>1. ~ LeftHeavy(at)
      BY <2>2 DEF RightHeavy
    <3>2. heap' = avl_fix_right /\ pc' = "rot_left" /\ RightLifted(at) # NULL
      BY <1>2, <2>2, <3>1 DEF FixSide, Lifted
    <3> QED
      BY <1>1, <1>3, <3>2, FixRightCounts
  <2>3. CASE ~ LeftHeavy(at) /\ ~ RightHeavy(at)
    BY <2>3 DEF FixSide
  <2> QED
    BY <2>1, <2>2, <2>3
<1>5. SumsBut(heap, linked, {heap[at].parent})
  BY <1>2, Sums, StaleNodes DEF StaleOne
<1>6. CASE pc' = "balanced" /\ heap' = heap
  <2>1. Stale' = {heap[at].parent}
    BY <1>2, <1>4, <1>6, StaleNodesNext DEF StaleOne
  <2> QED
    BY <1>2, <1>5, <1>6, <2>1, SumsNext
<1>7. CASE /\ pc' \in {"rot_right", "rot_left"}
           /\ \A x \in linked : x # at /\ SumsUp(heap, x) => SumsUp(heap', x)
  <2>1. Stale' = {at, heap[at].parent}
    BY <1>2, <1>4, <1>7, StaleNodesNext DEF StaleTwo
  <2>2. SumsBut(heap', linked', Stale')
    BY <1>2, <1>5, <1>7, <2>1 DEF SumsBut
  <2> QED
    BY <2>2, SumsNext
<1> QED
  BY <1>4, <1>6, <1>7

(* A rotation updates the two nodes it turns, the lower one first. *)
LEMMA RoundLeaves ==
  ASSUME IInv, CountsInv, Rotate, NEW q, q = heap[at].parent
  PROVE  /\ SumsBut(heap', linked, {q})
         /\ q # NULL => pc' = "fix" /\ at' = q
         /\ q = NULL => pc' = "return"
<1>1. TypeOK /\ HeapTree(heap, linked) /\ Control
  BY Invariant
<1>2. pc \in {"rot_right", "rot_left", "balanced"} /\ at \in linked
  BY <1>1 DEF Rotate, Control, Repairing, Fixing
<1>3. q \in linked \cup {NULL} /\ NULL \notin linked
  BY <1>1, <1>2, TreeLinks
<1>4. ASSUME NEW half, NEW top, NextRound(half, top)
      PROVE  /\ q # NULL => /\ heap' = Relink(half, q, at, top) /\ at' = half[top].parent
                            /\ pc' = "fix"
             /\ q = NULL => heap' = half /\ pc' = "return"
  BY <1>4 DEF NextRound
<1>5. PICK h, g, n : h = heap /\ g = heap' /\ n = at
  OBVIOUS
<1>6. HeapTree(h, linked) /\ n \in linked /\ q = h[n].parent
  BY <1>1, <1>2, <1>5
<1>7. CASE pc = "rot_right"
  <2>1. PICK m : m = h[n].left
    OBVIOUS
  <2>2. PICK half : half = rot_right(h, n)
    OBVIOUS
  <2>3. m # NULL
    BY <1>1, <1>5, <1>7, <2>1 DEF Control, Repairing
  <2>4. NextRound(half, m)
    BY <1>5, <1>7, <2>1, <2>2 DEF Rotate
  <2>5. (q = NULL => g = half) /\ (q # NULL => g = Relink(half, q, n, m))
    BY <1>4, <1>5, <2>4
  <2>6. half[m].parent = q
    BY <1>6, <2>1, <2>2, <2>3, <2>5, TreeTurnedBack
  <2>7. /\ SumsUp(g, n) /\ SumsUp(g, m)
        /\ \A x \in linked : x # n /\ x # m /\ x # q /\ SumsUp(h, x) => SumsUp(g, x)
    BY <1>6, <2>1, <2>2, <2>3, <2>5, TurnedBackCounts
  <2>8. SumsBut(h, linked, {n, q})
    BY <1>5, <1>6, <1>7, Sums, StaleNodes DEF StaleTwo
  <2>9. SumsBut(g, linked, {q})
    BY <2>7, <2>8 DEF SumsBut
  <2> QED
    BY <1>4, <1>5, <2>4, <2>6, <2>9
<1>8. CASE pc = "rot_left"
  <2>1. PICK m : m = h[n].right
    OBVIOUS
  <2>2. PICK half : half = rot_left(h, n)
    OBVIOUS
  <2>3. m # NULL
    BY <1>1, <1>5, <1>8, <2>1 DEF Control, Repairing
  <2>4. NextRound(half, m)
    BY <1>5, <1>8, <2>1, <2>2 DEF Rotate
  <2>5. (q = NULL => g = half) /\ (q # NULL => g = Relink(half, q, n, m))
    BY <1>4, <1>5, <2>4
  <2>6. half[m].parent = q
    BY <1>6, <2>1, <2>2, <2>3, <2>5, TreeTurned
  <2>7. /\ SumsUp(g, n) /\ SumsUp(g, m)
        /\ \A x \in linked : x # n /\ x # m /\ x # q /\ SumsUp(h, x) => SumsUp(g, x)
    BY <1>6, <2>1, <2>2, <2>3, <2>5, TurnedCounts
  <2>8. SumsBut(h, linked, {n, q})
    BY <1>5, <1>6, <1>8, Sums, StaleNodes DEF StaleTwo
  <2>9. SumsBut(g, linked, {q})
    BY <2>7, <2>8 DEF SumsBut
  <2> QED
    BY <1>4, <1>5, <2>4, <2>6, <2>9
<1>9. CASE pc = "balanced"
  <2>1. NextRound(h, n)
    BY <1>5, <1>9 DEF Rotate
  <2>2. SumsBut(h, linked, {q})
    BY <1>5, <1>6, <1>9, Sums, StaleNodes DEF StaleOne
  <2>3. CASE q = NULL
    BY <1>4, <1>5, <2>1, <2>2, <2>3
  <2>4. CASE q # NULL
    <3>1. g = Relink(h, q, n, n) /\ at' = q /\ pc' = "fix"
      BY <1>4, <1>5, <1>6, <2>1, <2>4
    <3>2. h \in Heap /\ n \in Link /\ q \in Node /\ linked \subseteq Node
      BY <1>3, <1>6, <2>4, TreeLinks DEF Link
    <3>3. Relinked(g, h, q, n, n) /\ SameCounts(g, h)
      BY <3>1, <3>2, RelinkLinks, RelinkCounts
    <3>4. g \in Heap
      BY <3>3 DEF Relinked
    <3>5. ASSUME NEW x \in linked, x # q, SumsUp(h, x)  PROVE SumsUp(g, x)
      <4>1. x \in Node /\ h[x].left \in Link /\ h[x].right \in Link
        BY <3>2, HeapLinks
      <4>2. g[x].left = h[x].left /\ g[x].right = h[x].right
        BY <3>2, <3>3, <3>4, <3>5, <4>1, HeapLinks DEF Relinked
      <4>3. /\ g[x].cnt = h[x].cnt
            /\ h[x].left # NULL => g[h[x].left].cnt = h[h[x].left].cnt
            /\ h[x].right # NULL => g[h[x].right].cnt = h[h[x].right].cnt
        BY <3>3, <4>1 DEF SameCounts, Link
      <4> QED
        BY <3>5, <4>2, <4>3, SumKept
    <3>6. SumsBut(g, linked, {q})
      BY <2>2, <3>5 DEF SumsBut
    <3> QED
      BY <1>5, <2>4, <3>1, <3>6
  <2> QED
    BY <2>3, <2>4
<1> QED
  BY <1>2, <1>7, <1>8, <1>9

LEMMA CountsRotate ==
  ASSUME IInv, CountsInv, Rotate
  PROVE  CountsInv'
<1>1. HeapTree(heap, linked) /\ linked' = linked
  BY Invariant DEF Rotate
<1>2. PICK q : q = heap[at].parent
  OBVIOUS
<1>3. /\ SumsBut(heap', linked, {q})
      /\ q # NULL => pc' = "fix" /\ at' = q
  BY <1>2, RoundLeaves
<1>4. NULL \notin linked
  BY <1>1, NodeAssumption DEF HeapTree, IsTree
<1>5. q # NULL => q \in Stale'
  BY <1>3, StaleNodesNext DEF StaleTwo
<1>6. SumsBut(heap', linked', Stale')
  BY <1>1, <1>3, <1>4, <1>5 DEF SumsBut
<1> QED
  BY <1>6, SumsNext

LEMMA CountsSplice ==
  ASSUME IInv, CountsInv, Splice
  PROVE  CountsInv'
<1>1. TypeOK /\ HeapTree(heap, linked) /\ Seeking
  BY Invariant
<1>2. PICK h, g, n : h = heap /\ g = heap' /\ n = at
  OBVIOUS
<1>3. PICK q, c : q = h[n].parent /\ c = h[n].left
  OBVIOUS
<1>4. PICK up : up = SetParent(h, c, q)
  OBVIOUS
<1>5. /\ pc = "del" /\ linked' = linked \ {n}
      /\ \/ q # NULL /\ g = Relink(up, q, n, c) /\ at' = q /\ pc' = "fix"
         \/ q = NULL /\ g = up /\ pc' = "return"
  BY <1>2, <1>3, <1>4 DEF Splice, ChildUp
<1>6. HeapTree(h, linked) /\ n \in linked
  BY <1>1, <1>2, <1>5 DEF Seeking
<1>7. (q = NULL => g = up) /\ (q # NULL => g = Relink(up, q, n, c))
  BY <1>5
<1>8. \A x \in linked : x # q /\ SumsUp(h, x) => SumsUp(g, x)
  BY <1>3, <1>4, <1>6, <1>7, SplicedCounts
<1>9. SumsBut(h, linked, {})
  BY <1>2, <1>5, Sums, StaleNodes DEF StaleTwo, StaleOne
<1>10. NULL \notin linked
  BY <1>6, TreeLinks
<1>11. q # NULL => q \in Stale'
  BY <1>5, StaleNodesNext DEF StaleTwo
<1>12. IsFiniteSet(linked \ {n})
  BY <1>9, FS_RemoveElement DEF SumsBut
<1>13. SumsBut(heap', linked', Stale')
  BY <1>2, <1>5, <1>8, <1>9, <1>10, <1>11, <1>12 DEF SumsBut
<1> QED
  BY <1>13, SumsNext

LEMMA CountsSwapVictim ==
  ASSUME IInv, CountsInv, SwapVictim
  PROVE  CountsInv'
<1>1. TypeOK /\ HeapTree(heap, linked) /\ Control
  BY Invariant
<1>2. PICK R : R = [node : Node, victim : Link]
  OBVIOUS
<1>3. PICK s \in Seq(R), m \in Nat : s = frames /\ m = Len(s)
  BY <1>1, <1>2 DEF TypeOK
<1>4. PICK n, v : n = s[m].node /\ v = s[m].victim
  OBVIOUS
<1>5. /\ pc = "return" /\ pc' = "return" /\ frames # << >>
      /\ heap' = Swapped(n, v)
      /\ linked' = (linked \ {n}) \cup {v}
  BY <1>3, <1>4 DEF SwapVictim
<1>6. m >= 1 /\ m \in 1 .. m
  BY <1>3, <1>5
<1>7. op \in {"update", "pop"}
  BY <1>1, <1>5 DEF Control, Repairing, ByHand
<1>8. Waiting /\ Gone \in hmap \cup {target} /\ linked = (hmap \cup {target}) \ {Gone}
  BY <1>1, <1>5, <1>7 DEF Control, Removed
<1>9. Gone = v /\ s[m].node \in linked
  BY <1>3, <1>4, <1>5, <1>6, <1>8 DEF Gone, Waiting
<1>10. n \in linked /\ v \notin linked /\ v \in Node
  <2>1. hmap \cup {target} \subseteq Node
    BY <1>1, <1>7 DEF Control, Targeted, TypeOK
  <2> QED
    BY <1>4, <1>8, <1>9, <2>1
<1>11. Stale = {} /\ Stale' = {}
  BY <1>5, StaleNodes, StaleNodesNext DEF StaleTwo, StaleOne
<1>12. SumsBut(heap, linked, {})
  BY <1>5, <1>11, Sums
<1>13. \A x \in linked : SumsUp(heap, x)
  BY <1>12 DEF SumsBut
<1>14. \A x \in (linked \ {n}) \cup {v} : SumsUp(heap', x)
  BY <1>1, <1>5, <1>10, <1>13, SwappedCounts
<1>15. IsFiniteSet((linked \ {n}) \cup {v})
  <2>1. IsFiniteSet(linked \ {n})
    BY <1>12, FS_RemoveElement DEF SumsBut
  <2> QED
    BY <2>1, FS_AddElement
<1>16. SumsBut(heap', linked', {})
  BY <1>5, <1>14, <1>15 DEF SumsBut
<1> QED
  BY <1>11, <1>16, SumsNext

-----------------------------------------------------------------------------
(* Every step.                                                             *)

LEMMA CountsCall ==
  ASSUME IInv, CountsInv, Call
  PROVE  CountsInv'
<1>1. CASE \E x \in Names : HcmpFaults(x) \/ zset_pop(x)
  BY <1>1, CountsStill DEF HcmpFaults, zset_pop, StaleTwo, StaleOne
<1>2. CASE \E x \in Names : \E s \in Scores[x] : zset_add(x, s)
  <2>1. PICK x \in Names : \E s \in Scores[x] : zset_add(x, s)
    BY <1>2
  <2>2. PICK s \in Scores[x] : NewNode(x, s, "add")
    BY <2>1 DEF zset_add
  <2>3. s \in Int
    BY <2>1, <2>2, ScoreAssumption
  <2> QED
    BY <2>1, <2>2, <2>3, CountsNewNode
<1>3. CASE \E n \in hmap : \E s \in Scores[Name(n)] : zset_update(n, s)
  BY <1>3, CountsStill DEF zset_update, StaleTwo, StaleOne
<1>4. CASE \E i \in 1 .. Len(List) : AppendByHand(i)
  <2>1. PICK i \in 1 .. Len(List) : NewNode(List[i][1], List[i][2], "byhand")
    BY <1>4 DEF AppendByHand
  <2>2. List[i][1] \in Names /\ List[i][2] \in Int
    <3>1. PICK R : R = Names \X Int
      OBVIOUS
    <3>2. PICK l \in Seq(R) : l = List
      BY <3>1, ListAssumption
    <3>3. i \in 1 .. Len(l)
      BY <3>2
    <3>4. l[i] \in R
      BY <3>2, <3>3
    <3> QED
      BY <3>1, <3>2, <3>4
  <2> QED
    BY <2>1, <2>2, CountsNewNode
<1> QED
  BY <1>1, <1>2, <1>3, <1>4 DEF Call

LEMMA CountsTree ==
  ASSUME IInv, CountsInv, Tree
  PROVE  CountsInv'
<1>1. CASE avl_fix
  <2>1. CASE FixLiftsNull
    BY <2>1, CountsStill DEF FixLiftsNull
  <2> QED
    BY <1>1, <2>1, CountsFixUpdate, CountsFixSide, CountsRotate DEF avl_fix
<1>2. CASE avl_del
  <2>1. CASE SeekVictim \/ GoLeft \/ DetachVictim
    BY <2>1, CountsStill DEF SeekVictim, GoLeft, DetachVictim, AtVictim, StaleTwo, StaleOne
  <2> QED
    BY <1>2, <2>1, CountsSplice, CountsSwapVictim DEF avl_del
<1> QED
  BY <1>1, <1>2 DEF Tree

LEMMA NextKeepsCounts == IInv /\ CountsInv /\ [Next]_vars => CountsInv'
<1> SUFFICES ASSUME IInv, CountsInv, [Next]_vars PROVE CountsInv'
  OBVIOUS
<1>1. CASE Call
  BY <1>1, CountsCall
<1>2. CASE Running
  <2>1. CASE Tree
    BY <2>1, CountsTree
  <2>2. CASE Descend \/ LinkRoot
    BY <2>2, CountsDescend, CountsLinkRoot
  <2>3. CASE LinkByHand \/ UpdateByHand
    BY <2>3, CountsLinkByHand, CountsUpdateByHand
  <2>4. CASE Reinsert \/ PopReturns
    BY <2>4, CountsReturned
  <2>5. CASE GoRight \/ tree_add_returns
    BY <2>5, CountsStill DEF GoRight, tree_add_returns, Returning, StaleTwo, StaleOne
  <2> QED
    BY <1>2, <2>1, <2>2, <2>3, <2>4, <2>5 DEF Running
<1>3. CASE UNCHANGED vars
  BY <1>3 DEF vars, treeVars, CountsInv, Counted, Stale, avl_cnt
<1> QED
  BY <1>1, <1>2, <1>3 DEF Next

(* In every state, also in the middle of a rotation sequence, the count of *)
(* each node is one more than those of its children together, but for the  *)
(* node that avl_fix is at and the one above it.                           *)
THEOREM CountsStayInvariant == Spec => []CountsInv
<1>1. Init => CountsInv
  BY FS_EmptySet DEF Init, CountsInv
<1>2. IInv /\ CountsInv /\ [Next]_vars => CountsInv'
  BY NextKeepsCounts
<1> QED
  BY <1>1, <1>2, InvariantOfZSet, PTL DEF Spec

(* Between calls every count is the number of nodes that the node's links  *)
(* lead to, whatever was inserted and removed before.                      *)
THEOREM CountsStayExact == Spec => []CountsExact
<1>1. ASSUME IInv, CountsInv  PROVE CountsExact
  <2>1. HeapTree(heap, linked)
    BY <1>1, Invariant
  <2> SUFFICES ASSUME pc = "idle", Cardinality(linked) < Word, NEW n \in linked
               PROVE  heap[n].cnt = Cardinality(Subtree(n))
    BY DEF CountsExact
  <2>2. SumsBut(heap, linked, {})
    BY <1>1, Sums, StaleNodes DEF StaleTwo, StaleOne
  <2>3. IsFiniteSet(linked) /\ \A x \in linked : SumsUp(heap, x)
    BY <2>2 DEF SumsBut
  <2>4. heap[n].cnt = Cardinality(ReachedFrom(heap, linked, n))
    BY <2>1, <2>3, SumsAreSizes
  <2> QED
    BY <2>1, <2>4, SubtreeIsReached
<1> QED
  BY <1>1, InvariantOfZSet, CountsStayInvariant, PTL

-----------------------------------------------------------------------------
(* The order of the tree.                                                  *)

(* The parts of OrderInv, of any heap and scores. *)
Lists(s, S) ==
  \A n \in S :
    /\ \E j \in 1 .. Len(List) : List[j] = <<Name(n), s[n]>>
    /\ \A m \in S : Name(m) = Name(n) => m = n

Follows(i, S) == \A m, n \in S : Place(m) < Place(n) => i[m] < i[n]

Answers(s, l, r) ==
  {less \in BOOLEAN :
     IF s[l] # s[r]
     THEN less <=> s[l] < s[r]
     ELSE /\ <<Name(l), Name(r)>> \in Before => less
          /\ <<Name(r), Name(l)>> \in Before => ~ less}

Descends(h, s, t, path) ==
  \A c \in path :
    h[c].parent # NULL =>
      /\ h[c].parent \in path
      /\ h[h[c].parent].left = c => Answers(s, h[c].parent, t) # {TRUE}
      /\ h[h[c].parent].right = c => Answers(s, t, h[c].parent) # {TRUE}

LEMMA Order ==
  ASSUME OrderInv
  PROVE  /\ linked \ Brought \subseteq Members
         /\ Lists(score, Members)
         /\ \E i \in [Node -> Int] : Spans(heap, linked, i) /\ Follows(i, linked \cap Members)
         /\ Descending /\ Appending /\ Succession /\ Leftmost
<1>1. linked \ Brought \subseteq Members /\ Lists(score, Members)
  BY DEF OrderInv, Listed, Lists
<1>2. \A lo, i, hi, top : Between(lo, i, hi, top) => Spread(heap, linked, lo, i, hi, top)
  BY DEF Between, Spread
<1>3. PICK i \in [Node -> Int] :
        /\ \E lo, hi \in [Node -> Int], top \in Int : Between(lo, i, hi, top)
        /\ \A m, n \in linked \cap Members : Place(m) < Place(n) => i[m] < i[n]
  BY DEF OrderInv, InOrder
<1>4. Spans(heap, linked, i)
  BY <1>2, <1>3 DEF Spans
<1>5. Follows(i, linked \cap Members)
  BY <1>3 DEF Follows
<1> QED
  BY <1>1, <1>4, <1>5 DEF OrderInv

LEMMA OrderNext ==
  ASSUME linked' \ Brought' \subseteq Members', Lists(score', Members'),
         NEW i \in [Node -> Int], Spans(heap', linked', i), Follows(i, linked' \cap Members'),
         Descending', Appending', Succession', Leftmost'
  PROVE  OrderInv'
<1>1. Listed'
  BY DEF Listed, Lists
<1>2. \A lo, hi, top : Spread(heap', linked', lo, i, hi, top) => Between(lo, i, hi, top)'
  BY DEF Between, Spread
<1>3. \E lo, hi \in [Node -> Int], top \in Int : Between(lo, i, hi, top)'
  BY <1>2 DEF Spans
<1>4. InOrder'
  BY <1>3 DEF InOrder, Follows
<1> QED
  BY <1>1, <1>4 DEF OrderInv

LEMMA OnPath ==
  ASSUME Descending, op = "add"
  PROVE  /\ target \in linked => heap[target].left = NULL /\ heap[target].right = NULL
         /\ \E path \in SUBSET linked :
              /\ Descends(heap, score, target, path)
              /\ pc = "descend" /\ at # NULL => at \in path
              /\ target \in linked => target \in path
<1>1. PICK path \in SUBSET linked :
        /\ Descended(path)
        /\ pc = "descend" /\ at # NULL => at \in path
        /\ target \in linked => target \in path
  BY DEF Descending
<1>2. \A l, r : MustPrecede(l, r) <=> Answers(score, l, r) = {TRUE}
  BY DEF MustPrecede, zless, Answers
<1>3. Descends(heap, score, target, path)
  BY <1>1, <1>2 DEF Descends, Descended
<1> QED
  BY <1>1, <1>3 DEF Descending

LEMMA OnPathNext ==
  ASSUME target' \in linked' => heap'[target'].left = NULL /\ heap'[target'].right = NULL,
         NEW path \in SUBSET linked', Descends(heap', score', target', path),
         pc' = "descend" /\ at' # NULL => at' \in path, target' \in linked' => target' \in path
  PROVE  Descending'
<1>1. \A l, r : MustPrecede(l, r)' <=> Answers(score', l, r) = {TRUE}
  BY DEF MustPrecede, zless, Answers
<1>2. Descended(path)'
  BY <1>1 DEF Descends, Descended
<1> QED
  BY <1>2 DEF Descending

LEMMA OnEdge ==
  ASSUME Appending, pc = "append"
  PROVE  /\ \A n \in linked : Place(n) < Place(target)
         /\ \E edge \in SUBSET linked : EdgeTo(heap, edge, at)
BY DEF Appending, RightEdge, EdgeTo

LEMMA OnEdgeNext ==
  ASSUME \A n \in linked' : Place(n) < Place(target'),
         NEW edge \in SUBSET linked', EdgeTo(heap', edge, at')
  PROVE  Appending'
BY DEF Appending, RightEdge, EdgeTo

-----------------------------------------------------------------------------
(* Places in the list. *)

LEMMA PlaceInList ==
  ASSUME NEW s, NEW S, Lists(s, S), NEW n \in S
  PROVE  Place(n) \in 1 .. Len(List) /\ List[Place(n)] = <<Name(n), s[n]>>
<1>1. PICK j \in 1 .. Len(List) : List[j] = <<Name(n), s[n]>>
  BY DEF Lists
<1>2. List[j][1] = Name(n)
  BY <1>1
<1>3. Place(n) \in 1 .. Len(List) /\ List[Place(n)][1] = Name(n)
  BY <1>2 DEF Place
<1>4. Len(List) \in Nat
  BY ListAssumption
<1>5. ~ (j < Place(n)) /\ ~ (Place(n) < j)
  <2>1. \A i, k \in 1 .. Len(List) : i < k => List[i][1] # List[k][1]
    BY ListAssumption
  <2>2. PICK k \in 1 .. Len(List) : k = Place(n)
    BY <1>3
  <2>3. List[j][1] = List[k][1]
    BY <1>2, <1>3, <2>2
  <2> QED
    BY <2>1, <2>2, <2>3
<1>6. Place(n) = j
  BY <1>3, <1>4, <1>5
<1> QED
  BY <1>1, <1>6

LEMMA PlacesDiffer ==
  ASSUME NEW s, NEW S, Lists(s, S), NEW m \in S, NEW n \in S, m # n
  PROVE  /\ Place(m) \in Int /\ Place(n) \in Int
         /\ Place(m) < Place(n) \/ Place(n) < Place(m)
<1>1. /\ Place(m) \in 1 .. Len(List) /\ List[Place(m)] = <<Name(m), s[m]>>
      /\ Place(n) \in 1 .. Len(List) /\ List[Place(n)] = <<Name(n), s[n]>>
  BY PlaceInList
<1>2. Place(m) # Place(n)
  <2>1. ASSUME Place(m) = Place(n)  PROVE Name(m) = Name(n)
    BY <1>1, <2>1
  <2> QED
    BY <2>1 DEF Lists
<1>3. Len(List) \in Nat
  BY ListAssumption
<1> QED
  BY <1>1, <1>2, <1>3

(* zless does not put a node before one that is before it in the list. *)
LEMMA PlaceOrders ==
  ASSUME Lists(score, Members), NEW m \in Members, NEW n \in Members, Place(m) < Place(n)
  PROVE  ~ MustPrecede(n, m)
<1>1. /\ Place(m) \in 1 .. Len(List) /\ List[Place(m)] = <<Name(m), score[m]>>
      /\ Place(n) \in 1 .. Len(List) /\ List[Place(n)] = <<Name(n), score[n]>>
  BY PlaceInList
<1>2. PICK a, b : a = List[Place(m)] /\ b = List[Place(n)]
  OBVIOUS
<1>3. a[2] < b[2] \/ (a[2] = b[2] /\ <<b[1], a[1]>> \notin Before)
  BY <1>1, <1>2, ListAssumption
<1>4. score[m] < score[n] \/ (score[m] = score[n] /\ <<Name(n), Name(m)>> \notin Before)
  BY <1>1, <1>2, <1>3
<1>5. score[m] \in Int /\ score[n] \in Int
  <2>1. PICK R : R = Names \X Int
    OBVIOUS
  <2>2. PICK l \in Seq(R) : l = List
    BY <2>1, ListAssumption
  <2>3. l[Place(m)] \in R /\ l[Place(n)] \in R
    BY <1>1, <2>2
  <2> QED
    BY <1>1, <2>1, <2>2, <2>3
<1>6. CASE score[m] < score[n]
  <2>1. score[n] # score[m] /\ ~ (score[n] < score[m])
    BY <1>5, <1>6
  <2>2. TRUE \notin zless(n, m)
    BY <2>1 DEF zless
  <2> QED
    BY <2>2 DEF MustPrecede
<1>7. CASE score[m] = score[n] /\ <<Name(n), Name(m)>> \notin Before
  <2>1. FALSE \in zless(n, m)
    BY <1>7 DEF zless
  <2> QED
    BY <2>1 DEF MustPrecede
<1> QED
  BY <1>4, <1>6, <1>7

(* Of two nodes in the tree the one that i puts first is first in the list.*)
LEMMA FollowsBack ==
  ASSUME NEW s, NEW S, Lists(s, S), NEW i \in [Node -> Int], NEW T, Follows(i, T),
         T \subseteq S, T \subseteq Node, NEW m \in T, NEW n \in T
  PROVE  /\ i[m] < i[n] <=> Place(m) < Place(n)
         /\ Place(m) \in Int /\ i[m] \in Int
<1>1. i[m] \in Int /\ i[n] \in Int
  OBVIOUS
<1>2. Place(m) \in Int /\ Place(n) \in Int
  <2>1. Place(m) \in 1 .. Len(List) /\ Place(n) \in 1 .. Len(List)
    BY PlaceInList
  <2> QED
    BY <2>1, ListAssumption
<1>3. /\ Place(m) < Place(n) => i[m] < i[n]
      /\ Place(n) < Place(m) => i[n] < i[m]
  BY DEF Follows
<1>4. CASE m = n
  BY <1>1, <1>2, <1>4
<1>5. CASE m # n
  <2>1. Place(m) < Place(n) \/ Place(n) < Place(m)
    BY <1>5, PlacesDiffer
  <2> QED
    BY <1>1, <1>2, <1>3, <2>1
<1> QED
  BY <1>1, <1>2, <1>4, <1>5

(* tree_add goes to the left only of a node that need not be before the    *)
(* new one, and to the right only of one that need not be after it.        *)
LEMMA AnswerOrders ==
  ASSUME TypeOK, NEW t \in Node, NEW a \in Node, NEW less \in zless(t, a)
  PROVE  /\ less => Answers(score, a, t) # {TRUE}
         /\ ~ less => Answers(score, t, a) # {TRUE}
<1>1. score[t] \in Int /\ score[a] \in Int
  BY DEF TypeOK
<1>2. PICK s : s = score
  OBVIOUS
<1>3. ~ less => FALSE \in Answers(s, t, a)
  BY <1>2 DEF zless, Answers
<1>4. less => FALSE \in Answers(s, a, t)
  <2>1. CASE s[t] # s[a]
    <3>1. less => ~ (s[a] < s[t])
      BY <1>1, <1>2, <2>1 DEF zless
    <3> QED
      BY <2>1, <3>1 DEF Answers
  <2>2. CASE s[t] = s[a]
    <3>1. <<Name(a), Name(t)>> \in Before => <<Name(t), Name(a)>> \notin Before
      BY NameAssumption
    <3>2. less => <<Name(a), Name(t)>> \notin Before
      BY <1>2, <2>2 DEF zless
    <3> QED
      BY <2>2, <3>2 DEF Answers
  <2> QED
    BY <2>1, <2>2
<1> QED
  BY <1>2, <1>3, <1>4

LEMMA OrderIsSearchOrder ==
  ASSUME IInv, OrderInv
  PROVE  SearchOrder
<1>1. TypeOK /\ HeapTree(heap, linked)
  BY Invariant
<1>2. /\ linked \ Brought \subseteq Members /\ Lists(score, Members)
      /\ Descending
  BY Order
<1>3. PICK i \in [Node -> Int] :
        Spans(heap, linked, i) /\ Follows(i, linked \cap Members)
  BY Order
<1>4. linked \subseteq Node /\ NULL \notin linked
  BY <1>1, NodeAssumption DEF HeapTree, IsTree
<1>5. \A l, r : MustPrecede(l, r) <=> Answers(score, l, r) = {TRUE}
  BY DEF MustPrecede, zless, Answers
<1>6. ReachedFrom(heap, linked, NULL) = {}
  BY DEF ReachedFrom
<1> SUFFICES ASSUME NEW n \in linked
             PROVE  /\ \A m \in Subtree(heap[n].left) : ~ MustPrecede(n, m)
                    /\ \A m \in Subtree(heap[n].right) : ~ MustPrecede(m, n)
  BY DEF SearchOrder
<1>7. heap[n].left \in linked \cup {NULL} /\ heap[n].right \in linked \cup {NULL}
  BY <1>1, TreeLinks
<1>8. /\ Subtree(heap[n].left) = ReachedFrom(heap, linked, heap[n].left)
      /\ Subtree(heap[n].right) = ReachedFrom(heap, linked, heap[n].right)
  BY <1>1, <1>7, SubtreeIsReached
<1>9. CASE n \in Brought
  <2>1. n = target /\ op = "add"
    BY <1>9 DEF Brought
  <2>2. heap[n].left = NULL /\ heap[n].right = NULL
    BY <1>2, <2>1, OnPath
  <2> QED
    BY <1>6, <1>8, <2>2
<1>10. ASSUME n \notin Brought, NEW c \in linked, c = heap[n].left \/ c = heap[n].right,
              NEW m \in ReachedFrom(heap, linked, c), m \in Brought
       PROVE  /\ c = heap[n].left => ~ MustPrecede(n, m)
              /\ c = heap[n].right => ~ MustPrecede(m, n)
  <2>1. m = target /\ op = "add"
    BY <1>10 DEF Brought
  <2>2. m \in linked /\ n # NULL /\ heap[c].parent = n
    BY <1>1, <1>4, <1>10, ReachedCloses, TreeLinks
  <2>3. PICK path \in SUBSET linked :
          Descends(heap, score, target, path) /\ target \in path
    BY <1>2, <2>1, <2>2, OnPath
  <2>4. \A x \in path : heap[x].parent # NULL => heap[x].parent \in path
    BY <2>3 DEF Descends
  <2>5. c \in path
    BY <1>1, <1>10, <2>1, <2>3, <2>4, UpToTop
  <2>6. /\ heap[n].left = c => Answers(score, n, m) # {TRUE}
        /\ heap[n].right = c => Answers(score, m, n) # {TRUE}
    BY <2>1, <2>2, <2>3, <2>5 DEF Descends
  <2> QED
    BY <1>5, <2>6
<1>11. ASSUME n \notin Brought, NEW m \in linked, m \notin Brought
       PROVE  /\ i[m] < i[n] => ~ MustPrecede(n, m)
              /\ i[n] < i[m] => ~ MustPrecede(m, n)
  <2>1. m \in linked \cap Members /\ n \in linked \cap Members
    BY <1>2, <1>11
  <2>2. PICK T : T = linked \cap Members
    OBVIOUS
  <2>3. Follows(i, T) /\ T \subseteq Members /\ T \subseteq Node /\ m \in T /\ n \in T
    BY <1>3, <1>4, <2>1, <2>2
  <2>4. (i[m] < i[n] <=> Place(m) < Place(n)) /\ (i[n] < i[m] <=> Place(n) < Place(m))
    BY <1>2, <2>3, FollowsBack
  <2> QED
    BY <1>2, <2>1, <2>4, PlaceOrders
<1>12. CASE n \notin Brought
  <2>1. ASSUME NEW m \in ReachedFrom(heap, linked, heap[n].left)  PROVE ~ MustPrecede(n, m)
    <3>1. m \in linked /\ i[m] < i[n]
      BY <1>1, <1>3, SpansOrder
    <3>2. heap[n].left \in linked
      BY <1>6, <1>7
    <3> QED
      BY <1>10, <1>11, <1>12, <3>1, <3>2
  <2>2. ASSUME NEW m \in ReachedFrom(heap, linked, heap[n].right)  PROVE ~ MustPrecede(m, n)
    <3>1. m \in linked /\ i[n] < i[m]
      BY <1>1, <1>3, SpansOrder
    <3>2. heap[n].right \in linked
      BY <1>6, <1>7
    <3> QED
      BY <1>10, <1>11, <1>12, <3>1, <3>2
  <2> QED
    BY <1>8, <2>1, <2>2
<1> QED
  BY <1>9, <1>12

-----------------------------------------------------------------------------
(* Steps that leave the links between the nodes of the tree alone.         *)

LEMMA OrderKept ==
  ASSUME OrderInv, linked' = linked,
         \A x \in linked : heap'[x].left = heap[x].left /\ heap'[x].right = heap[x].right,
         linked' \ Brought' \subseteq Members', Lists(score', Members'),
         linked \cap Members' \subseteq Members,
         Descending', Appending', Succession', Leftmost'
  PROVE  OrderInv'
<1>1. PICK i \in [Node -> Int] :
        Spans(heap, linked, i) /\ Follows(i, linked \cap Members)
  BY Order
<1>2. PICK h, g, N : h = heap /\ g = heap' /\ N = linked
  OBVIOUS
<1>3. Spans(g, N, i)
  <2>1. \A x \in N : g[x].left = h[x].left /\ g[x].right = h[x].right
    BY <1>2
  <2>2. Spans(h, N, i)
    BY <1>1, <1>2
  <2> QED
    BY <2>1, <2>2, KeptSpans
<1>4. Spans(heap', linked', i)
  BY <1>2, <1>3
<1>5. Follows(i, linked' \cap Members')
  BY <1>1 DEF Follows
<1> QED
  BY <1>4, <1>5, OrderNext

LEMMA ListsSome ==
  ASSUME NEW s, NEW S, Lists(s, S), NEW T, T \subseteq S, NEW s2, \A n \in T : s2[n] = s[n]
  PROVE  Lists(s2, T)
BY DEF Lists

LEMMA SuccessionKept ==
  ASSUME Succession, frames' = frames, linked' \subseteq linked, pc' = "victim" \/ pc # "victim"
  PROVE  Succession'
BY DEF Succession, Succeeds

LEMMA NoSuccession ==
  ASSUME TypeOK, frames' = << >>, pc' # "victim"
  PROVE  Succession' /\ Leftmost'
BY DEF Succession, Leftmost

LEMMA MembersNext ==
  /\ UNCHANGED <<op, target, hmap>> => Members' = Members /\ Brought' = Brought
BY DEF Members, Brought

LEMMA DescendingKept ==
  ASSUME TypeOK, HeapTree(heap, linked), Descending, UNCHANGED <<linked, score, op, target>>,
         \A x \in linked : /\ heap'[x].left = heap[x].left /\ heap'[x].right = heap[x].right
                           /\ heap'[x].parent = heap[x].parent,
         pc' # "descend"
  PROVE  Descending'
<1>1. CASE op # "add"
  BY <1>1 DEF Descending
<1>2. CASE op = "add"
  <2>1. target \in linked => heap[target].left = NULL /\ heap[target].right = NULL
    BY <1>2, OnPath
  <2>2. PICK path \in SUBSET linked :
          /\ Descends(heap, score, target, path)
          /\ target \in linked => target \in path
    BY <1>2, OnPath
  <2>3. ASSUME NEW c \in path, heap'[c].parent # NULL
        PROVE  /\ heap'[c].parent \in path
               /\ heap'[heap'[c].parent].left = c
                    => Answers(score', heap'[c].parent, target') # {TRUE}
               /\ heap'[heap'[c].parent].right = c
                    => Answers(score', target', heap'[c].parent) # {TRUE}
    <3>1. c \in linked /\ heap'[c].parent = heap[c].parent
      OBVIOUS
    <3>2. PICK p \in path : p = heap[c].parent
      BY <2>2, <2>3, <3>1 DEF Descends
    <3>3. heap'[p].left = heap[p].left /\ heap'[p].right = heap[p].right
      OBVIOUS
    <3>4. /\ heap[p].left = c => Answers(score, p, target) # {TRUE}
          /\ heap[p].right = c => Answers(score, target, p) # {TRUE}
      BY <2>2, <2>3, <3>1, <3>2 DEF Descends
    <3> QED
      BY <3>1, <3>2, <3>3, <3>4
  <2>4. Descends(heap', score', target', path)
    BY <2>3 DEF Descends
  <2>5. target' \in linked' => heap'[target'].left = NULL /\ heap'[target'].right = NULL
    BY <2>1
  <2> QED
    BY <2>2, <2>4, <2>5, OnPathNext
<1> QED
  BY <1>1, <1>2

LEMMA IdleMembers ==
  ASSUME IInv, OrderInv, pc = "idle"
  PROVE  /\ hmap \subseteq Members /\ linked = hmap /\ frames = << >> /\ op # "add"
         /\ Lists(score, hmap) /\ IsRoot(tree)
<1>1. Control /\ TypeOK
  BY Invariant
<1>2. linked = hmap /\ frames = << >> /\ op # "add" /\ IsRoot(tree)
  BY <1>1 DEF Control, AtRest, Added
<1>3. hmap \subseteq Members
  BY <1>2 DEF Members
<1>4. Lists(score, Members)
  BY Order
<1> QED
  BY <1>2, <1>3, <1>4, ListsSome

LEMMA OrderHcmpFaults ==
  ASSUME IInv, OrderInv, NEW x \in Names, HcmpFaults(x)
  PROVE  OrderInv'
<1>1. TypeOK /\ HeapTree(heap, linked)
  BY Invariant
<1>2. /\ pc = "idle" /\ pc' = "segv"
      /\ UNCHANGED <<heap, linked, at, frames, ret, tree, hmap, score, op, target, arg>>
  BY DEF HcmpFaults, zsetVars
<1>3. /\ linked \ Brought \subseteq Members /\ Lists(score, Members)
      /\ Descending /\ Succession
  BY Order
<1>4. Members' = Members /\ Brought' = Brought
  BY <1>2, MembersNext
<1>5. Descending'
  BY <1>1, <1>2, <1>3, DescendingKept
<1>6. Succession'
  BY <1>2, <1>3, SuccessionKept
<1>7. Appending' /\ Leftmost'
  BY <1>2 DEF Appending, Leftmost
<1> QED
  BY <1>2, <1>3, <1>4, <1>5, <1>6, <1>7, OrderKept

LEMMA OrderUpdate ==
  ASSUME IInv, OrderInv, NEW n \in hmap, NEW s \in Int, zset_update(n, s)
  PROVE  OrderInv'
<1>1. TypeOK
  BY Invariant
<1>2. /\ pc = "idle" /\ pc' = "del" /\ op' = "update" /\ target' = n
      /\ UNCHANGED <<heap, linked, frames, ret, tree, hmap, score>>
  BY DEF zset_update
<1>3. /\ hmap \subseteq Members /\ linked = hmap /\ frames = << >> /\ Lists(score, hmap)
  BY <1>2, IdleMembers
<1>4. Members' = hmap
  BY <1>2 DEF Members
<1>5. Descending' /\ Appending' /\ Succession' /\ Leftmost'
  BY <1>1, <1>2, <1>3, NoSuccession DEF Descending, Appending
<1> QED
  BY <1>2, <1>3, <1>4, <1>5, OrderKept

LEMMA OrderPop ==
  ASSUME IInv, OrderInv, NEW x \in Names, zset_pop(x)
  PROVE  OrderInv'
<1>1. TypeOK
  BY Invariant
<1>2. PICK n \in hmap : hmap' = hmap \ {n} /\ target' = n
  BY DEF zset_pop, Alike, hm_pop
<1>3. /\ pc = "idle" /\ pc' = "del" /\ op' = "pop"
      /\ UNCHANGED <<heap, linked, frames, ret, tree, score>>
  BY DEF zset_pop
<1>4. /\ hmap \subseteq Members /\ linked = hmap /\ frames = << >> /\ Lists(score, hmap)
  BY <1>3, IdleMembers
<1>5. Members' = hmap
  BY <1>2, <1>3 DEF Members
<1>6. Descending' /\ Appending' /\ Succession' /\ Leftmost'
  BY <1>1, <1>3, <1>4, NoSuccession DEF Descending, Appending
<1> QED
  BY <1>3, <1>4, <1>5, <1>6, OrderKept

(* The search for the place of a new node begins at the root. *)
LEMMA DescentBegins ==
  ASSUME op' = "add", target' \notin linked', at' = NULL \/ at' \in linked',
         at' # NULL => heap'[at'].parent = NULL
  PROVE  Descending'
<1>1. PICK path \in SUBSET linked' : path = IF at' = NULL THEN {} ELSE {at'}
  OBVIOUS
<1>2. Descends(heap', score', target', path)
  BY <1>1 DEF Descends
<1> QED
  BY <1>1, <1>2, OnPathNext

LEMMA OrderNewNode ==
  ASSUME IInv, OrderInv, NEW x \in Names, NEW s \in Int, NewNode(x, s, "add")
  PROVE  OrderInv'
<1>1. TypeOK /\ HeapTree(heap, linked)
  BY Invariant
<1>2. PICK n \in {<<x, 1>>, <<x, 2>>} \ hmap :
        /\ heap' = [heap EXCEPT ![n] = avl_init]
        /\ score' = [score EXCEPT ![n] = s]
        /\ hmap' = hmap \cup {n} /\ target' = n
  BY DEF NewNode
<1>3. /\ pc = "idle" /\ pc' = "descend" /\ op' = "add" /\ at' = tree
      /\ UNCHANGED <<linked, frames, ret, tree>>
  BY DEF NewNode
<1>4. /\ hmap \subseteq Members /\ linked = hmap /\ frames = << >> /\ Lists(score, hmap)
      /\ IsRoot(tree)
  BY <1>3, IdleMembers
<1>5. Members' = hmap
  BY <1>2, <1>3 DEF Members
<1>6. \A y \in linked : heap'[y] = heap[y]
  BY <1>1, <1>2, <1>4 DEF TypeOK
<1>7. \A y \in hmap : score'[y] = score[y]
  BY <1>1, <1>2, <1>4 DEF TypeOK
<1>8. Lists(score', hmap)
  BY <1>4, <1>7, ListsSome
<1>9. target' \notin linked' /\ (at' = NULL \/ at' \in linked')
  BY <1>2, <1>3, <1>4 DEF IsRoot
<1>10. at' # NULL => heap'[at'].parent = NULL
  BY <1>3, <1>4, <1>6 DEF IsRoot
<1>11. Descending'
  BY <1>3, <1>9, <1>10, DescentBegins
<1>12. Appending' /\ Succession' /\ Leftmost'
  BY <1>1, <1>3, <1>4, NoSuccession DEF Appending
<1> QED
  BY <1>3, <1>4, <1>5, <1>6, <1>8, <1>11, <1>12, OrderKept

(* A list that is followed in its own order. *)
LEMMA OrderAppendByHand ==
  ASSUME IInv, OrderInv, NEW i \in 1 .. Len(List), AppendByHand(i)
  PROVE  OrderInv'
<1>1. TypeOK /\ HeapTree(heap, linked)
  BY Invariant
<1>2. PICK x, s : x = List[i][1] /\ s = List[i][2]
  OBVIOUS
<1>3. PICK n \in {<<x, 1>>, <<x, 2>>} \ hmap :
        /\ heap' = [heap EXCEPT ![n] = avl_init]
        /\ score' = [score EXCEPT ![n] = s]
        /\ hmap' = hmap \cup {n} /\ target' = n
  BY <1>2 DEF AppendByHand, NewNode
<1>4. /\ pc = "idle" /\ pc' = "append" /\ op' = "byhand" /\ at' = NULL
      /\ UNCHANGED <<linked, frames, ret, tree>>
  BY DEF AppendByHand, NewNode
<1>5. /\ hmap \subseteq Members /\ linked = hmap /\ frames = << >> /\ Lists(score, hmap)
  BY <1>4, IdleMembers
<1>6. Members' = hmap \cup {n}
  BY <1>3, <1>4 DEF Members
<1>7. x \in Names /\ s \in Int /\ List[i] = <<x, s>>
  <2>1. PICK R : R = Names \X Int
    OBVIOUS
  <2>2. PICK l \in Seq(R) : l = List
    BY <2>1, ListAssumption
  <2>3. l[i] \in R
    BY <2>2
  <2> QED
    BY <1>2, <2>1, <2>2, <2>3
<1>8. n \in Node /\ Name(n) = x
  BY <1>3, <1>7, ZNodeAssumption DEF Name
<1>9. \A y \in linked : heap'[y] = heap[y]
  BY <1>1, <1>3, <1>5 DEF TypeOK
<1>10. score'[n] = s /\ \A y \in hmap : score'[y] = score[y]
  BY <1>1, <1>3, <1>5, <1>8 DEF TypeOK
<1>11. ASSUME NEW m \in hmap  PROVE Place(m) < i /\ Name(m) # x
  <2>1. {Name(y) : y \in hmap} = {List[j][1] : j \in 1 .. i - 1}
    BY DEF AppendByHand
  <2>2. PICK j \in 1 .. i - 1 : Name(m) = List[j][1]
    BY <2>1
  <2>3. Place(m) \in 1 .. Len(List) /\ List[Place(m)] = <<Name(m), score[m]>>
    BY <1>5, PlaceInList
  <2>4. j \in 1 .. Len(List) /\ j < i /\ i \in Int /\ Place(m) \in Int /\ Len(List) \in Nat
    BY <2>3, ListAssumption
  <2>5. \A a, b \in 1 .. Len(List) : a < b => List[a][1] # List[b][1]
    BY ListAssumption
  <2>6. PICK k \in 1 .. Len(List) : k = Place(m) /\ List[k][1] = List[j][1]
    BY <2>2, <2>3
  <2>7. k = j
    BY <2>4, <2>5, <2>6
  <2> QED
    BY <1>2, <2>2, <2>4, <2>5, <2>6, <2>7
<1>12. Lists(score', hmap \cup {n})
  <2>1. Lists(score', hmap)
    BY <1>5, <1>10, ListsSome
  <2>2. List[i] = <<Name(n), score'[n]>>
    BY <1>7, <1>8, <1>10
  <2>3. \A m \in hmap : Name(m) # Name(n)
    BY <1>8, <1>11
  <2> QED
    BY <2>1, <2>2, <2>3 DEF Lists
<1>13. Place(n) = i
  <2>1. n \in hmap \cup {n}
    OBVIOUS
  <2>2. Place(n) \in 1 .. Len(List) /\ List[Place(n)] = <<Name(n), score'[n]>>
    BY <1>12, <2>1, PlaceInList
  <2>3. PICK k \in 1 .. Len(List) : k = Place(n) /\ List[k][1] = List[i][1]
    BY <1>2, <1>8, <2>2
  <2>4. \A a, b \in 1 .. Len(List) : a < b => List[a][1] # List[b][1]
    BY ListAssumption
  <2> QED
    BY <2>3, <2>4
<1>14. Appending'
  <2>1. \A m \in linked' : Place(m) < Place(target')
    BY <1>3, <1>4, <1>5, <1>11, <1>13
  <2>2. PICK edge \in SUBSET linked' : edge = {}
    OBVIOUS
  <2>3. EdgeTo(heap', edge, at')
    BY <1>4, <2>2 DEF EdgeTo
  <2> QED
    BY <2>1, <2>3, OnEdgeNext
<1>15. Descending' /\ Succession' /\ Leftmost'
  BY <1>1, <1>4, <1>5, NoSuccession DEF Descending
<1>16. linked' \ Brought' \subseteq Members' /\ linked \cap Members' \subseteq Members
  BY <1>3, <1>4, <1>5, <1>6
<1> QED
  BY <1>4, <1>6, <1>9, <1>12, <1>14, <1>15, <1>16, OrderKept

LEMMA OrderTreeAddReturns ==
  ASSUME IInv, OrderInv, tree_add_returns
  PROVE  OrderInv'
<1>1. TypeOK /\ Control
  BY Invariant
<1>2. /\ pc = "return" /\ frames = << >> /\ op \in {"add", "byhand"}
      /\ pc' = "idle" /\ op' = "none"
      /\ UNCHANGED <<heap, linked, frames, hmap, score>>
  BY DEF tree_add_returns, Returning
<1>3. op = "byhand" /\ target \in hmap /\ linked = hmap
  BY <1>1, <1>2 DEF Control, Added, ByHand, Targeted
<1>4. Members = hmap /\ Members' = hmap
  BY <1>2, <1>3 DEF Members
<1>5. Lists(score, Members)
  BY Order
<1>6. Descending' /\ Appending' /\ Succession' /\ Leftmost'
  BY <1>1, <1>2, NoSuccession DEF Descending, Appending
<1> QED
  BY <1>2, <1>3, <1>4, <1>5, <1>6, OrderKept

LEMMA OrderReinsert ==
  ASSUME IInv, OrderInv, Reinsert
  PROVE  OrderInv'
<1>1. TypeOK /\ HeapTree(heap, linked) /\ Control
  BY Invariant
<1>2. /\ pc = "return" /\ frames = << >> /\ op = "update"
      /\ pc' = "descend" /\ at' = ret /\ op' = "add"
      /\ heap' = [heap EXCEPT ![target] = avl_init]
      /\ score' = [score EXCEPT ![target] = arg]
      /\ UNCHANGED <<linked, frames, hmap, target, arg>>
  BY DEF Reinsert, Returning
<1>3. /\ IsRoot(ret) /\ target \in Node /\ target \in hmap
      /\ linked = hmap \ {target}
  BY <1>1, <1>2 DEF Control, Repairing, Targeted, Removed, Gone
<1>4. Members = hmap /\ Members' = hmap \ {target}
  BY <1>2, <1>3 DEF Members
<1>5. /\ \A y \in linked : heap'[y] = heap[y]
      /\ \A y \in Members' : score'[y] = score[y]
  BY <1>1, <1>2, <1>3, <1>4 DEF TypeOK
<1>6. Lists(score, Members)
  BY Order
<1>7. Lists(score', Members')
  BY <1>4, <1>5, <1>6, ListsSome
<1>8. /\ target' \notin linked' /\ (at' = NULL \/ at' \in linked')
      /\ at' # NULL => heap'[at'].parent = NULL
  BY <1>2, <1>3, <1>5 DEF IsRoot
<1>9. Descending'
  BY <1>2, <1>8, DescentBegins
<1>10. Appending' /\ Succession' /\ Leftmost'
  BY <1>1, <1>2, NoSuccession DEF Appending
<1> QED
  BY <1>2, <1>3, <1>4, <1>5, <1>7, <1>9, <1>10, OrderKept

LEMMA OrderPopReturns ==
  ASSUME IInv, OrderInv, PopReturns
  PROVE  OrderInv'
<1>1. TypeOK /\ HeapTree(heap, linked) /\ Control
  BY Invariant
<1>2. /\ pc = "return" /\ frames = << >> /\ op = "pop"
      /\ pc' = "idle" /\ op' = "none"
      /\ heap' = [heap EXCEPT ![target] = avl_init]
      /\ score' = [score EXCEPT ![target] = DefaultScore]
      /\ UNCHANGED <<linked, frames, hmap, arg>>
  BY DEF PopReturns, Returning
<1>3. target \in Node /\ target \notin hmap /\ linked = hmap
  BY <1>1, <1>2 DEF Control, Targeted, Removed, Gone
<1>4. Members = hmap \cup {target} /\ Members' = hmap
  BY <1>2 DEF Members
<1>5. /\ \A y \in linked : heap'[y] = heap[y]
      /\ \A y \in Members' : score'[y] = score[y]
  BY <1>1, <1>2, <1>3, <1>4 DEF TypeOK
<1>6. Lists(score, Members)
  BY Order
<1>7. Lists(score', Members')
  BY <1>4, <1>5, <1>6, ListsSome
<1>8. Descending' /\ Appending' /\ Succession' /\ Leftmost'
  BY <1>1, <1>2, NoSuccession DEF Descending, Appending
<1> QED
  BY <1>2, <1>3, <1>4, <1>5, <1>7, <1>8, OrderKept

-----------------------------------------------------------------------------
(* Linking.                                                                *)

LEMMA OrderDescend ==
  ASSUME IInv, OrderInv, Descend
  PROVE  OrderInv'
<1>1. TypeOK /\ HeapTree(heap, linked) /\ Control
  BY Invariant
<1>2. /\ pc = "descend" /\ op = "add" /\ frames = << >> /\ linked = hmap \ {target}
      /\ Unlinked(target) /\ at \in linked /\ target \in Node /\ target \in hmap
      /\ UNCHANGED <<frames, ret, tree, hmap, score, op, target, arg>>
  BY <1>1 DEF Descend, zsetVars, Control, Placing, Targeted
<1>3. PICK less \in BOOLEAN :
        /\ less => Answers(score, at, target) # {TRUE}
        /\ ~ less => Answers(score, target, at) # {TRUE}
        /\ \/ /\ (IF less THEN heap[at].left ELSE heap[at].right) # NULL
              /\ at' = IF less THEN heap[at].left ELSE heap[at].right
              /\ UNCHANGED <<heap, linked, pc>>
           \/ /\ (IF less THEN heap[at].left ELSE heap[at].right) = NULL
              /\ heap' = LeafLinked(heap, at, target, less)
              /\ linked' = linked \cup {target}
              /\ at' = target
              /\ pc' = "fix"
  <2>1. PICK answer \in zless(target, at) :
          \/ /\ (IF answer THEN heap[at].left ELSE heap[at].right) # NULL
             /\ at' = IF answer THEN heap[at].left ELSE heap[at].right
             /\ UNCHANGED <<heap, linked, pc>>
          \/ /\ (IF answer THEN heap[at].left ELSE heap[at].right) = NULL
             /\ heap' = LeafLinked(heap, at, target, answer)
             /\ linked' = linked \cup {target}
             /\ at' = target
             /\ pc' = "fix"
    BY DEF Descend, LeafLinked
  <2>2. at \in Node
    BY <1>1, <1>2, TreeLinks
  <2>3. /\ answer => Answers(score, at, target) # {TRUE}
        /\ ~ answer => Answers(score, target, at) # {TRUE}
    BY <1>1, <1>2, <2>2, AnswerOrders
  <2>4. answer \in BOOLEAN
    BY DEF zless
  <2> QED
    BY <2>1, <2>3, <2>4
<1>4. PICK path \in SUBSET linked : Descends(heap, score, target, path) /\ at \in path
  <2>1. at # NULL
    BY <1>1, <1>2, TreeLinks
  <2> QED
    BY <1>2, <2>1, Order, OnPath
<1>5. /\ linked \ Brought \subseteq Members /\ Lists(score, Members)
      /\ Members' = Members /\ Brought' = Brought /\ Brought = {target}
      /\ Members = hmap \ {target}
  BY <1>2, Order, MembersNext DEF Brought, Members
<1>6. target \notin linked /\ heap[target].left = NULL /\ heap[target].right = NULL
  BY <1>2 DEF Unlinked
<1>7. PICK h, t, a, s : h = heap /\ t = target /\ a = at /\ s = score
  OBVIOUS
<1>8. /\ HeapTree(h, linked) /\ a \in linked /\ t \in Node /\ t \notin linked
      /\ h[t].left = NULL /\ h[t].right = NULL /\ NULL \notin linked
      /\ a \in path /\ Descends(h, s, t, path)
      /\ less => Answers(s, a, t) # {TRUE}
      /\ ~ less => Answers(s, t, a) # {TRUE}
  BY <1>1, <1>2, <1>3, <1>4, <1>6, <1>7, TreeLinks
<1>9. CASE UNCHANGED <<heap, linked, pc>>
  <2>1. PICK c : c = IF less THEN h[a].left ELSE h[a].right
    OBVIOUS
  <2>2. c # NULL /\ at' = c
    BY <1>2, <1>3, <1>7, <1>9, <2>1
  <2>3. c \in linked /\ h[c].parent = a /\ a # NULL
    BY <1>8, <2>1, <2>2, TreeLinks
  <2>4. h[a].left = c <=> h[a].right # c
    BY <1>8, <2>3, TreeLinks
  <2>5. PICK path2 \in SUBSET linked : path2 = path \cup {c}
    BY <2>3
  <2>6. /\ h[a].left = c => Answers(s, a, t) # {TRUE}
        /\ h[a].right = c => Answers(s, t, a) # {TRUE}
    BY <1>8, <2>1, <2>4
  <2>7. Descends(h, s, t, path2)
    BY <1>8, <2>3, <2>5, <2>6 DEF Descends
  <2>8. Descending'
    <3>1. target' \notin linked' /\ at' \in path2
      BY <1>2, <1>6, <1>9, <2>2, <2>5
    <3>2. Descends(heap', score', target', path2)
      BY <1>2, <1>7, <1>9, <2>7
    <3>3. path2 \in SUBSET linked'
      BY <1>9
    <3> QED
      BY <3>1, <3>2, <3>3, OnPathNext
  <2>9. Appending' /\ Succession' /\ Leftmost'
    BY <1>1, <1>2, <1>9, NoSuccession DEF Appending
  <2> QED
    BY <1>2, <1>5, <1>9, <2>8, <2>9, OrderKept
<1>10. CASE pc' = "fix"
  <2>1. /\ (IF less THEN heap[at].left ELSE heap[at].right) = NULL
        /\ heap' = LeafLinked(heap, at, target, less)
        /\ linked' = linked \cup {target} /\ at' = target
    BY <1>2, <1>3, <1>10
  <2>2. PICK g : g = heap'
    OBVIOUS
  <2>3. /\ g = LeafLinked(h, a, t, less)
        /\ less => h[a].left = NULL
        /\ ~ less => h[a].right = NULL
    BY <1>7, <2>1, <2>2
  <2>4. g[t].parent = a /\ \A x \in linked : g[x].parent = h[x].parent
    BY <1>8, <2>3, LeafParents
  <2>5. LeafGrown(g, h, linked, a, t, less)
    BY <1>8, <2>3, LeafGrows
  <2>6. PICK path2 \in SUBSET (linked \cup {t}) : path2 = path \cup {t}
    OBVIOUS
  <2>7. Descends(g, s, t, path2)
    <3>1. ASSUME NEW c \in path, g[c].parent # NULL
          PROVE  /\ g[c].parent \in path2
                 /\ g[g[c].parent].left = c => Answers(s, g[c].parent, t) # {TRUE}
                 /\ g[g[c].parent].right = c => Answers(s, t, g[c].parent) # {TRUE}
      <4>1. c \in linked /\ c # t /\ g[c].parent = h[c].parent
        BY <1>8, <2>4
      <4>2. PICK p \in path : p = h[c].parent
        BY <1>8, <3>1, <4>1 DEF Descends
      <4>3. (g[p].left = c => h[p].left = c) /\ (g[p].right = c => h[p].right = c)
        BY <2>5, <4>1 DEF LeafGrown
      <4> QED
        BY <1>8, <2>6, <3>1, <4>1, <4>2, <4>3 DEF Descends
    <3>2. /\ g[a].left = t => Answers(s, a, t) # {TRUE}
          /\ g[a].right = t => Answers(s, t, a) # {TRUE}
      <4>1. h[a].left # t /\ h[a].right # t
        BY <1>8, TreeLinks, NodeAssumption
      <4> QED
        BY <1>8, <2>5, <4>1 DEF LeafGrown
    <3>3. \A c \in path2 : c \in path \/ c = t
      BY <2>6
    <3> QED
      BY <1>8, <2>4, <2>6, <3>1, <3>2, <3>3 DEF Descends
  <2>8. Descending'
    <3>1. Descends(heap', score', target', path2) /\ path2 \in SUBSET linked'
      BY <1>2, <1>7, <2>1, <2>2, <2>6, <2>7
    <3>2. heap'[target'].left = NULL /\ heap'[target'].right = NULL /\ target' \in path2
      BY <1>2, <1>7, <2>2, <2>5, <2>6 DEF LeafGrown
    <3> QED
      BY <1>10, <3>1, <3>2, OnPathNext
  <2>9. Appending' /\ Succession' /\ Leftmost'
    BY <1>1, <1>2, <1>10, NoSuccession DEF Appending
  <2>10. PICK i \in [Node -> Int] : Spans(h, linked, i) /\ Follows(i, linked \cap Members)
    BY <1>7, Order
  <2>11. PICK i2 \in [Node -> Int] :
           Spans(g, linked \cup {t}, i2) /\ \A x \in linked : i2[x] = 2 * i[x]
    BY <1>8, <2>3, <2>10, LeafSpans
  <2>12. Spans(heap', linked', i2)
    BY <1>7, <2>1, <2>2, <2>11
  <2>13. linked' \cap Members' = linked \cap Members
    BY <1>5, <2>1
  <2>14. Follows(i2, linked \cap Members)
    <3>1. ASSUME NEW x \in linked \cap Members, NEW y \in linked \cap Members,
                 Place(x) < Place(y)
          PROVE  i2[x] < i2[y]
      <4>1. i[x] < i[y]
        BY <2>10, <3>1 DEF Follows
      <4>2. x \in Node /\ y \in Node
        BY <1>8, TreeLinks
      <4>3. i[x] \in Int /\ i[y] \in Int
        BY <4>2
      <4>4. 2 * i[x] < 2 * i[y]
        BY <4>1, <4>3
      <4> QED
        BY <2>11, <4>4
    <3> QED
      BY <3>1 DEF Follows
  <2>15. linked' \ Brought' \subseteq Members'
    BY <1>5, <2>1
  <2>16. Lists(score', Members') /\ Follows(i2, linked' \cap Members')
    BY <1>2, <1>5, <2>13, <2>14
  <2> QED
    BY <2>8, <2>9, <2>12, <2>15, <2>16, OrderNext
<1> QED
  BY <1>3, <1>9, <1>10

LEMMA OrderLinkRoot ==
  ASSUME IInv, OrderInv, LinkRoot
  PROVE  OrderInv'
<1>1. TypeOK /\ HeapTree(heap, linked) /\ Control
  BY Invariant
<1>2. /\ pc = "descend" /\ pc' = "fix" /\ at = NULL /\ at' = target
      /\ linked' = linked \cup {target}
      /\ UNCHANGED <<heap, frames, ret, hmap, score, op, target, arg>>
  BY DEF LinkRoot
<1>3. /\ op = "add" /\ frames = << >> /\ Unlinked(target) /\ target \in Node /\ linked = {}
  BY <1>1, <1>2, NodeAssumption DEF Control, Placing, Targeted, HeapTree, IsTree
<1>4. /\ heap[target].left = NULL /\ heap[target].right = NULL /\ heap[target].parent = NULL
  BY <1>3 DEF Unlinked
<1>5. linked' = {target}
  BY <1>2, <1>3
<1>6. /\ Lists(score, Members) /\ Members' = Members
      /\ linked' \ Brought' = {} /\ linked' \cap Members' = {}
  BY <1>2, <1>3, <1>5, Order, MembersNext DEF Brought, Members
<1>7. PICK i : i = [x \in Node |-> 0]
  OBVIOUS
<1>8. i \in [Node -> Int]
  BY <1>7
<1>9. Spans(heap, {target}, i)
  BY <1>3, <1>4, <1>8, RootSpans
<1>10. Spans(heap', linked', i)
  BY <1>2, <1>5, <1>9
<1>11. Follows(i, linked' \cap Members')
  BY <1>6 DEF Follows
<1>12. Descending'
  <2>1. PICK path \in SUBSET linked' : path = {target}
    BY <1>5
  <2>2. Descends(heap', score', target', path)
    BY <1>2, <1>4, <2>1 DEF Descends
  <2> QED
    BY <1>2, <1>4, <2>1, <2>2, OnPathNext
<1>13. Appending' /\ Succession' /\ Leftmost'
  BY <1>1, <1>2, <1>3, NoSuccession DEF Appending
<1>14. linked' \ Brought' \subseteq Members' /\ Lists(score', Members')
  BY <1>2, <1>6
<1> QED
  BY <1>8, <1>10, <1>11, <1>12, <1>13, <1>14, OrderNext

LEMMA OrderGoRight ==
  ASSUME IInv, OrderInv, GoRight
  PROVE  OrderInv'
<1>1. TypeOK /\ HeapTree(heap, linked) /\ Control
  BY Invariant
<1>2. /\ pc = "append" /\ at' = Edge /\ Edge # NULL
      /\ UNCHANGED <<heap, linked, pc, frames, ret, tree, hmap, score, op, target, arg>>
  BY DEF GoRight, zsetVars
<1>3. /\ op = "byhand" /\ frames = << >> /\ IsRoot(tree) /\ at \in linked \cup {NULL}
  BY <1>1, <1>2 DEF Control, Placing
<1>4. PICK h, a, e : h = heap /\ a = at /\ e = Edge
  OBVIOUS
<1>5. PICK edge \in SUBSET linked : EdgeTo(h, edge, a)
  BY <1>2, <1>4, Order, OnEdge
<1>6. HeapTree(h, linked) /\ NULL \notin linked /\ e # NULL
  BY <1>1, <1>2, <1>4, NodeAssumption DEF HeapTree, IsTree
<1>7. /\ e \in linked
      /\ a = NULL => h[e].parent = NULL
      /\ a # NULL => a \in linked /\ e = h[a].right /\ h[e].parent = a
  <2>1. CASE a = NULL
    BY <1>2, <1>3, <1>4, <2>1 DEF Edge, IsRoot
  <2>2. CASE a # NULL
    <3>1. a \in linked /\ e = h[a].right
      BY <1>3, <1>4, <2>2 DEF Edge
    <3> QED
      BY <1>6, <2>2, <3>1, TreeLinks
  <2> QED
    BY <2>1, <2>2
<1>8. PICK edge2 \in SUBSET linked : edge2 = edge \cup {e}
  BY <1>7
<1>9. h[e].right \notin edge2
  <2>1. h[e].right # NULL => h[h[e].right].parent = e
    BY <1>6, <1>7, TreeLinks
  <2>2. h[e].right # e /\ e # NULL
    BY <1>6, <1>7, TreeLinks
  <2>3. e \notin edge
    BY <1>5, <1>7 DEF EdgeTo
  <2>4. ASSUME h[e].right \in edge  PROVE FALSE
    <3>1. h[e].right # NULL
      BY <1>6, <2>4
    <3>2. h[h[e].right].parent \in edge
      BY <1>5, <2>1, <2>2, <2>4, <3>1 DEF EdgeTo
    <3> QED
      BY <2>1, <2>3, <3>1, <3>2
  <2> QED
    BY <1>8, <2>2, <2>4
<1>10. EdgeTo(h, edge2, e)
  <2>1. ASSUME NEW x \in edge2, h[x].parent # NULL
        PROVE  h[x].parent \in edge2 /\ h[h[x].parent].right = x
    <3>1. CASE x \in edge
      BY <1>5, <1>8, <2>1, <3>1 DEF EdgeTo
    <3>2. CASE x = e
      BY <1>5, <1>7, <1>8, <2>1, <3>2 DEF EdgeTo
    <3> QED
      BY <1>8, <3>1, <3>2
  <2> QED
    BY <1>6, <1>8, <1>9, <2>1 DEF EdgeTo
<1>11. Appending'
  <2>1. \A n \in linked' : Place(n) < Place(target')
    BY <1>2, Order, OnEdge
  <2>2. EdgeTo(heap', edge2, at') /\ edge2 \in SUBSET linked'
    BY <1>2, <1>4, <1>10
  <2> QED
    BY <2>1, <2>2, OnEdgeNext
<1>12. Descending' /\ Succession' /\ Leftmost'
  BY <1>1, <1>2, <1>3, NoSuccession DEF Descending
<1>13. /\ linked \ Brought \subseteq Members /\ Lists(score, Members)
       /\ Members' = Members /\ Brought' = Brought
  BY <1>2, Order, MembersNext
<1> QED
  BY <1>2, <1>11, <1>12, <1>13, OrderKept

LEMMA OrderLinkByHand ==
  ASSUME IInv, OrderInv, LinkByHand
  PROVE  OrderInv'
<1>1. TypeOK /\ HeapTree(heap, linked) /\ Control
  BY Invariant
<1>2. /\ pc = "append" /\ pc' = "update" /\ at' = target /\ linked' = linked \cup {target}
      /\ heap' = HandLinked(heap, at, target, Edge)
      /\ UNCHANGED <<frames, ret, tree, hmap, score, op, target, arg>>
  BY DEF LinkByHand, HandLinked, zsetVars
<1>3. /\ Unlinked(target) /\ target \in Node /\ op = "byhand" /\ frames = << >>
      /\ IsRoot(tree) /\ at \in linked \cup {NULL} /\ target \in hmap
  BY <1>1, <1>2 DEF Control, Placing, Targeted
<1>4. Edge \in linked \cup {NULL}
  <2>1. CASE at = NULL
    BY <1>3, <2>1 DEF Edge, IsRoot
  <2>2. CASE at # NULL
    BY <1>1, <1>3, <2>2, TreeLinks DEF Edge
  <2> QED
    BY <2>1, <2>2
<1>5. target \notin linked /\ heap[target].right = NULL
  BY <1>3 DEF Unlinked
<1>6. PICK h, g, t, a, e : h = heap /\ g = heap' /\ t = target /\ a = at /\ e = Edge
  OBVIOUS
<1>7. /\ HeapTree(h, linked) /\ a \in linked \cup {NULL} /\ t \in Node /\ t \notin linked
      /\ h[t].right = NULL /\ e \in linked \cup {NULL} /\ g = HandLinked(h, a, t, e)
      /\ a # NULL => e = h[a].right
      /\ linked \subseteq Node
  BY <1>1, <1>2, <1>3, <1>4, <1>5, <1>6 DEF Edge, HeapTree, IsTree
<1>8. PICK edge \in SUBSET linked : EdgeTo(h, edge, a)
  BY <1>2, <1>6, Order, OnEdge
<1>9. PICK i \in [Node -> Int] : Spans(h, linked, i) /\ Follows(i, linked \cap Members)
  BY <1>6, Order
<1>10. PICK i2 \in [Node -> Int] :
         /\ Spans(g, linked \cup {t}, i2)
         /\ \A x \in linked : i2[x] = i[x] /\ i2[x] < i2[t]
  BY <1>7, <1>8, <1>9, PlacedSpans
<1>11. /\ linked \ Brought \subseteq Members /\ Lists(score, Members)
       /\ Members' = Members /\ Brought' = Brought /\ Brought = {} /\ Members = hmap
  BY <1>2, <1>3, Order, MembersNext DEF Brought, Members
<1>12. Follows(i2, linked' \cap Members')
  <2>1. ASSUME NEW x \in linked \cup {t}, NEW y \in linked \cup {t}, Place(x) < Place(y)
        PROVE  i2[x] < i2[y]
    <3>1. t \in Members /\ linked \subseteq Members
      BY <1>3, <1>6, <1>11
    <3>2. x \in Members /\ y \in Members /\ \A z \in linked : Place(z) < Place(t)
      BY <1>2, <1>6, <3>1, Order, OnEdge
    <3>3. Place(x) \in Int /\ Place(y) \in Int
      <4>1. Place(x) \in 1 .. Len(List) /\ Place(y) \in 1 .. Len(List)
        BY <1>11, <3>2, PlaceInList
      <4> QED
        BY <4>1, ListAssumption
    <3>4. x # t
      <4>1. ASSUME x = t  PROVE FALSE
        <5>1. Place(y) < Place(x) \/ y = x
          BY <3>2, <4>1
        <5> QED
          BY <2>1, <3>3, <5>1
      <4> QED
        BY <4>1
    <3>5. CASE y = t
      BY <1>10, <3>4, <3>5
    <3>6. CASE y # t
      <4>1. x \in linked \cap Members /\ y \in linked \cap Members
        BY <3>2, <3>4, <3>6
      <4>2. i[x] < i[y]
        BY <1>9, <2>1, <4>1 DEF Follows
      <4> QED
        BY <1>10, <4>1, <4>2
    <3> QED
      BY <3>5, <3>6
  <2> QED
    BY <1>2, <1>6, <2>1 DEF Follows
<1>13. Spans(heap', linked', i2)
  BY <1>2, <1>6, <1>10
<1>14. linked' \ Brought' \subseteq Members' /\ Lists(score', Members')
  BY <1>2, <1>3, <1>11
<1>15. Descending' /\ Appending' /\ Succession' /\ Leftmost'
  BY <1>1, <1>2, <1>3, NoSuccession DEF Descending, Appending
<1> QED
  BY <1>12, <1>13, <1>14, <1>15, OrderNext

-----------------------------------------------------------------------------
(* Repairs.                                                                *)

(* avl_update changes no link. *)
LEMMA UpdateKeepsLinks ==
  ASSUME HeapTree(heap, linked), at \in linked, heap' = avl_update(heap, at)
  PROVE  \A x \in linked : /\ heap'[x].left = heap[x].left
                           /\ heap'[x].right = heap[x].right
                           /\ heap'[x].parent = heap[x].parent
<1>1. PICK h, g, n : h = heap /\ g = heap' /\ n = at
  OBVIOUS
<1>2. HeapTree(h, linked) /\ n \in linked /\ g = avl_update(h, n)
  BY <1>1
<1>3. h \in Heap /\ linked \subseteq Node /\ n \in Node
  BY <1>2, TreeLinks
<1>4. g \in Heap /\ SameLinks(g, h)
  BY <1>2, <1>3, UpdateLinks
<1>5. \A x \in linked : /\ g[x].left = h[x].left /\ g[x].right = h[x].right
                        /\ g[x].parent = h[x].parent
  <2> SUFFICES ASSUME NEW x \in linked
               PROVE  /\ g[x].left = h[x].left /\ g[x].right = h[x].right
                      /\ g[x].parent = h[x].parent
    OBVIOUS
  <2>1. x \in Node
    BY <1>3
  <2> QED
    BY <1>3, <1>4, <2>1, HeapLinks DEF SameLinks
<1> QED
  BY <1>1, <1>5

LEMMA OrderUpdateByHand ==
  ASSUME IInv, OrderInv, UpdateByHand
  PROVE  OrderInv'
<1>1. TypeOK /\ HeapTree(heap, linked) /\ Control
  BY Invariant
<1>2. /\ pc = "update" /\ pc' \in {"update", "return"} /\ heap' = avl_update(heap, at)
      /\ UNCHANGED <<linked, frames, tree, hmap, score, op, target, arg>>
  BY DEF UpdateByHand, zsetVars
<1>3. op = "byhand" /\ frames = << >> /\ at \in linked
  BY <1>1, <1>2 DEF Control, ByHand
<1>4. \A x \in linked : heap'[x].left = heap[x].left /\ heap'[x].right = heap[x].right
  BY <1>1, <1>2, <1>3, UpdateKeepsLinks
<1>5. /\ linked \ Brought \subseteq Members /\ Lists(score, Members)
      /\ Members' = Members /\ Brought' = Brought
  BY <1>2, Order, MembersNext
<1>6. Descending' /\ Appending' /\ Succession' /\ Leftmost'
  BY <1>1, <1>2, <1>3, NoSuccession DEF Descending, Appending
<1> QED
  BY <1>2, <1>4, <1>5, <1>6, OrderKept

LEMMA OrderFixUpdate ==
  ASSUME IInv, OrderInv, FixUpdate, UNCHANGED zsetVars
  PROVE  OrderInv'
<1>1. TypeOK /\ HeapTree(heap, linked) /\ Control
  BY Invariant
<1>2. /\ pc = "fix" /\ pc' = "balance" /\ heap' = avl_update(heap, at)
      /\ UNCHANGED <<linked, at, frames, ret, tree, hmap, score, op, target, arg>>
  BY DEF FixUpdate, zsetVars
<1>3. at \in linked
  BY <1>1, <1>2 DEF Control, Repairing, Fixing
<1>4. \A x \in linked : /\ heap'[x].left = heap[x].left /\ heap'[x].right = heap[x].right
                        /\ heap'[x].parent = heap[x].parent
  BY <1>1, <1>2, <1>3, UpdateKeepsLinks
<1>5. /\ linked \ Brought \subseteq Members /\ Lists(score, Members)
      /\ Members' = Members /\ Brought' = Brought /\ Descending /\ Succession
  BY <1>2, Order, MembersNext
<1>6. Descending'
  BY <1>1, <1>2, <1>4, <1>5, DescendingKept
<1>7. Succession'
  BY <1>2, <1>5, SuccessionKept
<1>8. Appending' /\ Leftmost'
  BY <1>2 DEF Appending, Leftmost
<1> QED
  BY <1>2, <1>4, <1>5, <1>6, <1>7, <1>8, OrderKept

LEMMA OrderFixLiftsNull ==
  ASSUME IInv, OrderInv, FixLiftsNull, UNCHANGED zsetVars
  PROVE  OrderInv'
<1>1. TypeOK /\ HeapTree(heap, linked)
  BY Invariant
<1>2. /\ pc = "balance" /\ pc' = "segv"
      /\ UNCHANGED <<heap, linked, at, frames, ret, tree, hmap, score, op, target, arg>>
  BY DEF FixLiftsNull, zsetVars
<1>3. /\ linked \ Brought \subseteq Members /\ Lists(score, Members)
      /\ Members' = Members /\ Brought' = Brought /\ Descending /\ Succession
  BY <1>2, Order, MembersNext
<1>4. Descending'
  BY <1>1, <1>2, <1>3, DescendingKept
<1>5. Succession'
  BY <1>2, <1>3, SuccessionKept
<1>6. Appending' /\ Leftmost'
  BY <1>2 DEF Appending, Leftmost
<1> QED
  BY <1>2, <1>3, <1>4, <1>5, <1>6, OrderKept

(* A step of avl_fix that turns the tree. *)
LEMMA OrderTurned ==
  ASSUME IInv, OrderInv, op # "add", pc \in {"balance", "rot_right", "rot_left", "balanced"},
         pc' \notin {"append", "victim"}, UNCHANGED <<linked, frames, zsetVars>>,
         \A i \in [Node -> Int] : Spans(heap, linked, i) => Spans(heap', linked, i)
  PROVE  OrderInv'
<1>1. UNCHANGED <<linked, frames, tree, hmap, score, op, target, arg>>
  BY DEF zsetVars
<1>2. /\ linked \ Brought \subseteq Members /\ Lists(score, Members)
      /\ Members' = Members /\ Brought' = Brought /\ Succession
  BY <1>1, Order, MembersNext
<1>3. PICK i \in [Node -> Int] : Spans(heap, linked, i) /\ Follows(i, linked \cap Members)
  BY Order
<1>4. Spans(heap', linked', i)
  BY <1>1, <1>3
<1>5. Follows(i, linked' \cap Members')
  BY <1>1, <1>2, <1>3
<1>6. Succession'
  BY <1>1, <1>2, SuccessionKept
<1>7. Descending' /\ Appending' /\ Leftmost'
  BY <1>1 DEF Descending, Appending, Leftmost
<1> QED
  BY <1>1, <1>2, <1>4, <1>5, <1>6, <1>7, OrderNext

LEMMA FixLeftSpans ==
  ASSUME HeapTree(heap, linked), at \in linked, LeftLifted(at) # NULL,
         NEW g, g = avl_fix_left, NEW i \in [Node -> Int], Spans(heap, linked, i)
  PROVE  Spans(g, linked, i)
<1>1. PICK h : h = heap
  OBVIOUS
<1>2. PICK l : l = h[at].left
  OBVIOUS
<1>3. l # NULL /\ (IsLR(l) => h[l].right # NULL)
  BY <1>1, <1>2 DEF LeftLifted
<1>4. HeapTree(h, linked) /\ Spans(h, linked, i)
  BY <1>1
<1>5. h \in Heap /\ l \in linked /\ h[l].parent = at /\ at \in Node /\ at # NULL
  BY <1>2, <1>3, <1>4, TreeLinks
<1>6. CASE ~ IsLR(l)
  BY <1>1, <1>2, <1>6 DEF avl_fix_left
<1>7. CASE IsLR(l)
  <2>1. PICK m : m = h[l].right
    OBVIOUS
  <2>2. PICK half : half = rot_left(h, l)
    OBVIOUS
  <2>3. PICK g2 : g2 = Relink(half, at, l, m)
    OBVIOUS
  <2>4. m # NULL
    BY <1>3, <1>7, <2>1
  <2>5. half[at].left = l
    BY <1>2, <1>4, <1>5, <2>1, <2>2, <2>3, <2>4, TreeTurned
  <2>6. g2 = [half EXCEPT ![at].left = m]
    BY <2>3, <2>5 DEF Relink
  <2>7. g = g2
    BY <1>1, <1>2, <1>7, <2>1, <2>2, <2>6 DEF avl_fix_left
  <2>8. Spans(g2, linked, i)
    BY <1>4, <1>5, <2>1, <2>2, <2>3, <2>4, TurnedSpans
  <2> QED
    BY <2>7, <2>8
<1> QED
  BY <1>6, <1>7

LEMMA FixRightSpans ==
  ASSUME HeapTree(heap, linked), at \in linked, RightLifted(at) # NULL,
         NEW g, g = avl_fix_right, NEW i \in [Node -> Int], Spans(heap, linked, i)
  PROVE  Spans(g, linked, i)
<1>1. PICK h : h = heap
  OBVIOUS
<1>2. PICK r : r = h[at].right
  OBVIOUS
<1>3. r # NULL /\ (IsRL(r) => h[r].left # NULL)
  BY <1>1, <1>2 DEF RightLifted
<1>4. HeapTree(h, linked) /\ Spans(h, linked, i)
  BY <1>1
<1>5. h \in Heap /\ r \in linked /\ h[r].parent = at /\ at \in Node /\ at # NULL
  BY <1>2, <1>3, <1>4, TreeLinks
<1>6. CASE ~ IsRL(r)
  BY <1>1, <1>2, <1>6 DEF avl_fix_right
<1>7. CASE IsRL(r)
  <2>1. PICK m : m = h[r].left
    OBVIOUS
  <2>2. PICK half : half = rot_right(h, r)
    OBVIOUS
  <2>3. PICK g2 : g2 = Relink(half, at, r, m)
    OBVIOUS
  <2>4. m # NULL
    BY <1>3, <1>7, <2>1
  <2>5. h[at].left # r
    <3>1. h[r].parent # NULL => (h[h[r].parent].left = r <=> h[h[r].parent].right # r)
      BY <1>4, <1>5, TreeLinks
    <3> QED
      BY <1>2, <1>5, <3>1
  <2>6. half[at].left = h[at].left
    BY <1>4, <1>5, <2>1, <2>2, <2>3, <2>4, <2>5, TreeTurnedBack
  <2>7. g2 = [half EXCEPT ![at].right = m]
    BY <2>3, <2>5, <2>6 DEF Relink
  <2>8. g = g2
    BY <1>1, <1>2, <1>7, <2>1, <2>2, <2>7 DEF avl_fix_right
  <2>9. Spans(g2, linked, i)
    BY <1>4, <1>5, <2>1, <2>2, <2>3, <2>4, TurnedBackSpans
  <2> QED
    BY <2>8, <2>9
<1> QED
  BY <1>6, <1>7

LEMMA OrderFixSide ==
  ASSUME IInv, OrderInv, FixSide, UNCHANGED zsetVars
  PROVE  OrderInv'
<1>1. HeapTree(heap, linked) /\ Control
  BY Invariant
<1>2. pc = "balance" /\ Lifted(at) # NULL /\ UNCHANGED <<linked, frames>>
  BY DEF FixSide
<1>3. at \in linked
  BY <1>1, <1>2 DEF Control, Repairing, Fixing
<1>4. op # "add"
  BY <1>1, <1>2, LeafLiftsNull DEF Control, Added
<1>5. /\ pc' \in {"rot_right", "rot_left", "balanced"}
      /\ \A i \in [Node -> Int] : Spans(heap, linked, i) => Spans(heap', linked, i)
  <2>1. CASE LeftHeavy(at)
    <3>1. heap' = avl_fix_left /\ pc' = "rot_right" /\ LeftLifted(at) # NULL
      BY <1>2, <2>1 DEF FixSide, Lifted, RightHeavy
    <3> QED
      BY <1>1, <1>3, <3>1, FixLeftSpans
  <2>2. CASE RightHeavy(at)
    <3>1. ~ LeftHeavy(at)
      BY <2>2 DEF RightHeavy
    <3>2. heap' = avl_fix_right /\ pc' = "rot_left" /\ RightLifted(at) # NULL
      BY <1>2, <2>2, <3>1 DEF FixSide, Lifted
    <3> QED
      BY <1>1, <1>3, <3>2, FixRightSpans
  <2>3. CASE ~ LeftHeavy(at) /\ ~ RightHeavy(at)
    BY <2>3 DEF FixSide
  <2> QED
    BY <2>1, <2>2, <2>3
<1> QED
  BY <1>2, <1>4, <1>5, OrderTurned

LEMMA RoundSpans ==
  ASSUME IInv, Rotate, NEW i \in [Node -> Int], Spans(heap, linked, i)
  PROVE  Spans(heap', linked, i)
<1>1. TypeOK /\ HeapTree(heap, linked) /\ Control
  BY Invariant
<1>2. pc \in {"rot_right", "rot_left", "balanced"} /\ at \in linked
  BY <1>1 DEF Rotate, Control, Repairing, Fixing
<1>3. PICK q : q = heap[at].parent
  OBVIOUS
<1>4. q \in linked \cup {NULL} /\ NULL \notin linked
  BY <1>1, <1>2, <1>3, TreeLinks
<1>5. ASSUME NEW half, NEW top, NextRound(half, top)
      PROVE  /\ q # NULL => heap' = Relink(half, q, at, top)
             /\ q = NULL => heap' = half
  BY <1>3, <1>5 DEF NextRound
<1>6. PICK h, g, n : h = heap /\ g = heap' /\ n = at
  OBVIOUS
<1>7. HeapTree(h, linked) /\ n \in linked /\ q = h[n].parent /\ Spans(h, linked, i)
  BY <1>1, <1>2, <1>3, <1>6
<1>8. CASE pc = "rot_right"
  <2>1. PICK m : m = h[n].left
    OBVIOUS
  <2>2. PICK half : half = rot_right(h, n)
    OBVIOUS
  <2>3. m # NULL
    BY <1>1, <1>6, <1>8, <2>1 DEF Control, Repairing
  <2>4. NextRound(half, m)
    BY <1>6, <1>8, <2>1, <2>2 DEF Rotate
  <2>5. (q = NULL => g = half) /\ (q # NULL => g = Relink(half, q, n, m))
    BY <1>5, <1>6, <2>4
  <2>6. Spans(g, linked, i)
    BY <1>7, <2>1, <2>2, <2>3, <2>5, TurnedBackSpans
  <2> QED
    BY <1>6, <2>6
<1>9. CASE pc = "rot_left"
  <2>1. PICK m : m = h[n].right
    OBVIOUS
  <2>2. PICK half : half = rot_left(h, n)
    OBVIOUS
  <2>3. m # NULL
    BY <1>1, <1>6, <1>9, <2>1 DEF Control, Repairing
  <2>4. NextRound(half, m)
    BY <1>6, <1>9, <2>1, <2>2 DEF Rotate
  <2>5. (q = NULL => g = half) /\ (q # NULL => g = Relink(half, q, n, m))
    BY <1>5, <1>6, <2>4
  <2>6. Spans(g, linked, i)
    BY <1>7, <2>1, <2>2, <2>3, <2>5, TurnedSpans
  <2> QED
    BY <1>6, <2>6
<1>10. CASE pc = "balanced"
  <2>1. NextRound(h, n)
    BY <1>6, <1>10 DEF Rotate
  <2>2. CASE q = NULL
    BY <1>5, <1>6, <1>7, <2>1, <2>2
  <2>3. CASE q # NULL
    <3>1. g = Relink(h, q, n, n)
      BY <1>5, <1>6, <2>1, <2>3
    <3>2. h \in Heap /\ n \in Link /\ q \in Node /\ linked \subseteq Node /\ q \in linked
      BY <1>4, <1>7, <2>3, TreeLinks DEF Link
    <3>3. Relinked(g, h, q, n, n)
      BY <3>2, <3>1, RelinkLinks
    <3>4. g \in Heap
      BY <3>3 DEF Relinked
    <3>5. h[q].left = n <=> h[q].right # n
      BY <1>7, <2>3, TreeLinks
    <3>6. ASSUME NEW x \in linked
          PROVE  g[x].left = h[x].left /\ g[x].right = h[x].right
      <4>1. x \in Node
        BY <3>2
      <4> QED
        BY <3>2, <3>3, <3>4, <3>5, <4>1, HeapLinks DEF Relinked
    <3>7. Spans(g, linked, i)
      BY <1>7, <3>6, KeptSpans
    <3> QED
      BY <1>6, <3>7
  <2> QED
    BY <2>2, <2>3
<1> QED
  BY <1>2, <1>8, <1>9, <1>10

LEMMA OrderRotate ==
  ASSUME IInv, OrderInv, Rotate, UNCHANGED zsetVars
  PROVE  OrderInv'
<1>1. Control
  BY Invariant
<1>2. pc \in {"rot_right", "rot_left", "balanced"} /\ UNCHANGED <<linked, frames>>
  BY DEF Rotate
<1>3. op # "add"
  BY <1>1, <1>2 DEF Control, Added
<1>4. pc' \in {"fix", "return"}
  BY <1>2 DEF Rotate, NextRound
<1>5. \A i \in [Node -> Int] : Spans(heap, linked, i) => Spans(heap', linked, i)
  BY RoundSpans
<1> QED
  BY <1>2, <1>3, <1>4, <1>5, OrderTurned

-----------------------------------------------------------------------------
(* Removals.                                                               *)

LEMMA OrderSplice ==
  ASSUME IInv, OrderInv, Splice, UNCHANGED zsetVars
  PROVE  OrderInv'
<1>1. TypeOK /\ HeapTree(heap, linked) /\ Seeking
  BY Invariant
<1>2. PICK h, g, n : h = heap /\ g = heap' /\ n = at
  OBVIOUS
<1>3. PICK q, c : q = h[n].parent /\ c = h[n].left
  OBVIOUS
<1>4. PICK up : up = SetParent(h, c, q)
  OBVIOUS
<1>5. /\ pc = "del" /\ linked' = linked \ {n} /\ h[n].right = NULL
      /\ \/ q # NULL /\ g = Relink(up, q, n, c) /\ pc' = "fix"
         \/ q = NULL /\ g = up /\ pc' = "return"
      /\ UNCHANGED <<frames, tree, hmap, score, op, target, arg>>
  BY <1>2, <1>3, <1>4 DEF Splice, ChildUp, zsetVars
<1>6. HeapTree(h, linked) /\ n \in linked /\ op \in {"update", "pop"}
  BY <1>1, <1>2, <1>5 DEF Seeking
<1>7. (q = NULL => g = up) /\ (q # NULL => g = Relink(up, q, n, c))
  BY <1>5
<1>8. PICK i \in [Node -> Int] : Spans(h, linked, i) /\ Follows(i, linked \cap Members)
  BY <1>2, Order
<1>9. Spans(g, linked \ {n}, i)
  BY <1>3, <1>4, <1>5, <1>6, <1>7, <1>8, SplicedSpans
<1>10. /\ linked \ Brought \subseteq Members /\ Lists(score, Members)
       /\ Members' = Members /\ Brought' = Brought /\ Succession
  BY <1>5, Order, MembersNext
<1>11. Follows(i, linked' \cap Members')
  BY <1>5, <1>8, <1>10 DEF Follows
<1>12. Succession'
  BY <1>5, <1>10, SuccessionKept
<1>13. Descending' /\ Appending' /\ Leftmost'
  BY <1>5, <1>6 DEF Descending, Appending, Leftmost
<1>14. Spans(heap', linked', i)
  BY <1>2, <1>5, <1>9
<1>15. linked' \ Brought' \subseteq Members' /\ Lists(score', Members')
  BY <1>5, <1>10
<1> QED
  BY <1>11, <1>12, <1>13, <1>14, <1>15, OrderNext

-----------------------------------------------------------------------------
(* The search for a victim, and what becomes of it.  No node that is       *)
(* brought in is in the tree meanwhile: the numbers of the certificate and *)
(* the places in the list agree on all of it.                              *)

Successor(N, v, n) ==
  Place(n) < Place(v) /\ \A m \in N : ~ (Place(n) < Place(m) /\ Place(m) < Place(v))

Chain(N, s, len, open) ==
  /\ \A a, b \in 1 .. len : a < b => Place(s[a].node) < Place(s[b].node)
  /\ \A a \in 1 .. len : a # open => Successor(N, s[a].victim, s[a].node)

LEMMA ChainNow ==
  ASSUME Succession, NEW s, s = frames, NEW len, len = Len(s)
  PROVE  /\ pc = "victim" => Chain(linked, s, len, len)
         /\ pc # "victim" => Chain(linked, s, len, 0)
BY DEF Succession, Succeeds, Successor, Chain

LEMMA ChainNext ==
  ASSUME NEW s, s = frames', NEW len, len = Len(s),
         pc' = "victim" => Chain(linked', s, len, len),
         pc' # "victim" => Chain(linked', s, len, 0), len \in Nat
  PROVE  Succession'
<1>1. \A v, n : Succeeds(v, n)' <=> Successor(linked', v, n)
  BY DEF Succeeds, Successor
<1>2. \A a \in 1 .. len : a # 0
  OBVIOUS
<1> QED
  BY <1>1, <1>2 DEF Succession, Chain

(* The victim of n is c, or to the left of c. *)
Leads(h, N, n, c) ==
  /\ c \in ReachedFrom(h, N, h[n].right)
  /\ \A m \in N : Place(n) < Place(m) /\ Place(m) < Place(c) => m \in ReachedFrom(h, N, h[c].left)

LEMMA LeftmostNow ==
  ASSUME HeapTree(heap, linked), Leftmost, pc = "victim", at \in linked,
         NEW n \in linked, n = frames[Len(frames)].node
  PROVE  Leads(heap, linked, n, at)
<1>1. heap[n].right \in linked \cup {NULL} /\ heap[at].left \in linked \cup {NULL}
  BY TreeLinks
<1>2. /\ Subtree(heap[n].right) = ReachedFrom(heap, linked, heap[n].right)
      /\ Subtree(heap[at].left) = ReachedFrom(heap, linked, heap[at].left)
  BY <1>1, SubtreeIsReached
<1> QED
  BY <1>2 DEF Leftmost, Leads

LEMMA LeftmostNext ==
  ASSUME HeapTree(heap, linked), UNCHANGED <<heap, linked>>,
         NEW s, s = frames', NEW n \in linked, n = s[Len(s)].node,
         NEW c \in linked, c = at', Leads(heap, linked, n, c)
  PROVE  Leftmost'
<1>1. \A x : Subtree(x)' = Subtree(x)
  BY DEF Subtree
<1>2. PICK r, l : r = heap[n].right /\ l = heap[c].left
  OBVIOUS
<1>3. r \in linked \cup {NULL} /\ l \in linked \cup {NULL}
  BY <1>2, TreeLinks
<1>4. /\ Subtree(r)' = ReachedFrom(heap, linked, r)
      /\ Subtree(l)' = ReachedFrom(heap, linked, l)
  BY <1>1, <1>3, SubtreeIsReached
<1>5. heap'[n].right = r /\ heap'[c].left = l
  BY <1>2
<1>6. /\ c \in Subtree(heap[n].right)'
      /\ \A m \in linked' :
           Place(n) < Place(m) /\ Place(m) < Place(c) => m \in Subtree(heap[c].left)'
  BY <1>2, <1>4, <1>5 DEF Leads
<1> QED
  BY <1>6 DEF Leftmost

LEMMA PlacesAgree ==
  ASSUME IInv, OrderInv, op # "add"
  PROVE  /\ linked \subseteq Members
         /\ \E i \in [Node -> Int] :
              /\ Spans(heap, linked, i)
              /\ \A m, n \in linked : /\ i[m] < i[n] <=> Place(m) < Place(n)
                                      /\ Place(m) \in Int /\ i[m] \in Int
<1>1. HeapTree(heap, linked)
  BY Invariant
<1>2. linked \subseteq Node
  BY <1>1 DEF HeapTree, IsTree
<1>3. PICK S, T : S = Members /\ T = linked
  OBVIOUS
<1>4. T \subseteq S /\ Lists(score, S) /\ T \subseteq Node
  BY <1>2, <1>3, Order DEF Brought
<1>5. PICK i \in [Node -> Int] : Spans(heap, linked, i) /\ Follows(i, linked \cap Members)
  BY Order
<1>6. linked \cap Members = T
  BY <1>3, <1>4
<1>7. Follows(i, T)
  BY <1>5, <1>6
<1>8. \A m, n \in T : /\ i[m] < i[n] <=> Place(m) < Place(n)
                      /\ Place(m) \in Int /\ i[m] \in Int
  BY <1>4, <1>7, FollowsBack
<1> QED
  BY <1>3, <1>4, <1>5, <1>8

LEMMA OrderSeekVictim ==
  ASSUME IInv, OrderInv, SeekVictim, UNCHANGED zsetVars
  PROVE  OrderInv'
<1>1. TypeOK /\ HeapTree(heap, linked) /\ Seeking
  BY Invariant
<1>2. /\ pc = "del" /\ pc' = "victim" /\ heap[at].right # NULL /\ at' = heap[at].right
      /\ frames' = Append(frames, [node |-> at, victim |-> NULL])
      /\ UNCHANGED <<heap, linked, ret, tree, hmap, score, op, target, arg>>
  BY DEF SeekVictim, zsetVars
<1>3. op \in {"update", "pop"} /\ at \in linked /\ Waiting /\ at = Gone
  BY <1>1, <1>2 DEF Seeking
<1>4. PICK h, n, c : h = heap /\ n = at /\ c = heap[at].right
  OBVIOUS
<1>5. HeapTree(h, linked) /\ n \in linked /\ c \in linked /\ c = h[n].right /\ n \in Node
  BY <1>1, <1>2, <1>3, <1>4, TreeLinks
<1>6. PICK rec : rec = [node |-> n, victim |-> NULL]
  OBVIOUS
<1>7. PICK R : R = [node : Node, victim : Link]
  OBVIOUS
<1>8. rec \in R /\ rec.node = n
  BY <1>5, <1>6, <1>7 DEF Link
<1>9. PICK s \in Seq(R), m \in Nat : s = frames /\ m = Len(s)
  BY <1>1, <1>7 DEF TypeOK
<1>10. PICK s2 : s2 = frames'
  OBVIOUS
<1>11. s2 = Append(s, rec)
  BY <1>2, <1>4, <1>6, <1>9, <1>10
<1>12. /\ Len(s2) = m + 1 /\ s2[m + 1] = rec
       /\ \A j \in 1 .. m : s2[j] = s[j]
  BY <1>8, <1>9, <1>11
<1>13. PICK i \in [Node -> Int] :
         /\ Spans(h, linked, i)
         /\ \A x, y \in linked : /\ i[x] < i[y] <=> Place(x) < Place(y)
                                 /\ Place(x) \in Int /\ i[x] \in Int
  BY <1>3, <1>4, PlacesAgree
<1>14. Chain(linked, s, m, 0)
  BY <1>2, <1>9, Order, ChainNow
<1>15. /\ \A a \in 1 .. m : s[a].node \in linked
       /\ m >= 1 => s[m].victim = n
  <2>1. m >= 1 => s # << >>
    BY <1>9
  <2> QED
    BY <1>3, <1>4, <1>9, <2>1 DEF Waiting, Gone
<1>16. \A a \in 1 .. m : Place(s[a].node) < Place(n)
  <2> SUFFICES ASSUME NEW a \in 1 .. m PROVE Place(s[a].node) < Place(n)
    OBVIOUS
  <2>1. m \in 1 .. m /\ m # 0
    OBVIOUS
  <2>2. Place(s[m].node) < Place(n)
    BY <1>14, <1>15, <2>1 DEF Chain, Successor
  <2>3. a = m \/ Place(s[a].node) < Place(s[m].node)
    BY <1>14, <2>1 DEF Chain
  <2>4. /\ Place(s[a].node) \in Int /\ Place(s[m].node) \in Int /\ Place(n) \in Int
    BY <1>5, <1>13, <1>15, <2>1
  <2> QED
    BY <2>2, <2>3, <2>4
<1>17. Chain(linked, s2, m + 1, m + 1)
  <2>1. ASSUME NEW a \in 1 .. m + 1, NEW b \in 1 .. m + 1, a < b
        PROVE  Place(s2[a].node) < Place(s2[b].node)
    <3>1. a \in 1 .. m
      BY <2>1
    <3>2. CASE b = m + 1
      BY <1>8, <1>12, <1>16, <3>1, <3>2
    <3>3. CASE b \in 1 .. m
      BY <1>12, <1>14, <2>1, <3>1, <3>3 DEF Chain
    <3> QED
      BY <3>2, <3>3
  <2>2. ASSUME NEW a \in 1 .. m + 1, a # m + 1
        PROVE  Successor(linked, s2[a].victim, s2[a].node)
    <3>1. a \in 1 .. m /\ a # 0
      BY <2>2
    <3> QED
      BY <1>12, <1>14, <3>1 DEF Chain
  <2> QED
    BY <2>1, <2>2 DEF Chain
<1>18. Succession'
  <2>1. PICK len \in Nat : len = m + 1
    OBVIOUS
  <2>2. len = Len(s2)
    BY <1>12, <2>1
  <2>3. Chain(linked', s2, len, len)
    BY <1>2, <1>17, <2>1
  <2>4. pc' = "victim"
    BY <1>2
  <2> QED
    BY <1>10, <2>2, <2>3, <2>4, ChainNext
<1>19. Leads(h, linked, n, c)
  <2>1. c \in ReachedFrom(h, linked, c)
    BY <1>5, ReachedCloses
  <2>2. ASSUME NEW x \in linked, Place(n) < Place(x), Place(x) < Place(c)
        PROVE  x \in ReachedFrom(h, linked, h[c].left)
    <3>1. i[n] < i[x] /\ i[x] < i[c]
      BY <1>5, <1>13, <2>2
    <3> QED
      BY <1>5, <1>13, <3>1, BetweenRight
  <2> QED
    BY <1>5, <2>1, <2>2 DEF Leads
<1>20. n = s2[Len(s2)].node
  BY <1>8, <1>12
<1>21. Leftmost'
  BY <1>1, <1>2, <1>4, <1>5, <1>10, <1>19, <1>20, LeftmostNext
<1>22. Descending' /\ Appending'
  BY <1>2, <1>3 DEF Descending, Appending
<1>23. /\ linked \ Brought \subseteq Members /\ Lists(score, Members)
       /\ Members' = Members /\ Brought' = Brought
  BY <1>2, Order, MembersNext
<1> QED
  BY <1>2, <1>18, <1>21, <1>22, <1>23, OrderKept

LEMMA OrderGoLeft ==
  ASSUME IInv, OrderInv, GoLeft, UNCHANGED zsetVars
  PROVE  OrderInv'
<1>1. TypeOK /\ HeapTree(heap, linked) /\ Seeking
  BY Invariant
<1>2. /\ pc = "victim" /\ pc' = "victim" /\ heap[at].left # NULL /\ at' = heap[at].left
      /\ UNCHANGED <<heap, linked, frames, ret, tree, hmap, score, op, target, arg>>
  BY DEF GoLeft, AtVictim, zsetVars
<1>3. op \in {"update", "pop"} /\ at \in linked /\ Waiting /\ frames # << >>
  BY <1>1, <1>2 DEF Seeking
<1>4. PICK s \in Seq([node : Node, victim : Link]), m \in Nat : s = frames /\ m = Len(s)
  BY <1>1 DEF TypeOK
<1>5. m \in 1 .. m /\ s[m].node \in linked
  BY <1>3, <1>4 DEF Waiting
<1>6. PICK h, n, c, d : h = heap /\ n = s[m].node /\ c = at /\ d = heap[at].left
  OBVIOUS
<1>7. /\ HeapTree(h, linked) /\ n \in linked /\ c \in linked /\ d \in linked /\ d # NULL
      /\ d = h[c].left
  BY <1>1, <1>2, <1>3, <1>5, <1>6, TreeLinks
<1>8. PICK i \in [Node -> Int] :
        /\ Spans(h, linked, i)
        /\ \A x, y \in linked : /\ i[x] < i[y] <=> Place(x) < Place(y)
                                /\ Place(x) \in Int /\ i[x] \in Int
  BY <1>3, <1>6, PlacesAgree
<1>9. Leads(h, linked, n, c)
  BY <1>1, <1>2, <1>3, <1>4, <1>5, <1>6, Order, LeftmostNow
<1>10. d \in ReachedFrom(h, linked, h[n].right)
  <2>1. PICK r : r = h[n].right
    OBVIOUS
  <2>2. c \in ReachedFrom(h, linked, r)
    BY <1>9, <2>1 DEF Leads
  <2>3. r # NULL
    BY <2>2 DEF ReachedFrom
  <2>4. r \in linked
    BY <1>7, <2>1, <2>3, TreeLinks
  <2>5. WithChildren(h, ReachedFrom(h, linked, r))
    BY <1>7, <2>4, ReachedCloses
  <2> QED
    BY <1>7, <2>1, <2>2, <2>5 DEF WithChildren
<1>11. ASSUME NEW x \in linked, Place(n) < Place(x), Place(x) < Place(d)
       PROVE  x \in ReachedFrom(h, linked, h[d].left)
  <2>1. d \in ReachedFrom(h, linked, d)
    BY <1>7, ReachedCloses
  <2>2. i[d] < i[c]
    BY <1>7, <1>8, <2>1, SpansOrder
  <2>3. Place(x) < Place(c)
    <3>1. Place(d) < Place(c)
      BY <1>7, <1>8, <2>2
    <3>2. Place(x) \in Int /\ Place(c) \in Int /\ Place(d) \in Int
      BY <1>7, <1>8
    <3> QED
      BY <1>11, <3>1, <3>2
  <2>4. x \in ReachedFrom(h, linked, d)
    BY <1>7, <1>9, <1>11, <2>3 DEF Leads
  <2>5. x # d
    <3>1. Place(d) \in Int
      BY <1>7, <1>8
    <3> QED
      BY <1>11, <3>1
  <2>6. x \notin ReachedFrom(h, linked, h[d].right)
    <3>1. i[x] < i[d] /\ i[x] \in Int /\ i[d] \in Int
      BY <1>7, <1>8, <1>11
    <3>2. ~ (i[d] < i[x])
      BY <3>1
    <3> QED
      BY <1>7, <1>8, <3>2, SpansOrder
  <2>7. ReachedFrom(h, linked, d) =
          {d} \cup ReachedFrom(h, linked, h[d].left) \cup ReachedFrom(h, linked, h[d].right)
    BY <1>7, ReachedStep
  <2> QED
    BY <2>4, <2>5, <2>6, <2>7
<1>12. Leads(h, linked, n, d)
  BY <1>10, <1>11 DEF Leads
<1>13. Leftmost'
  <2>1. s = frames' /\ n = s[Len(s)].node /\ d = at'
    BY <1>2, <1>4, <1>6
  <2> QED
    BY <1>1, <1>2, <1>6, <1>7, <1>12, <2>1, LeftmostNext
<1>14. Succession'
  BY <1>2, Order, SuccessionKept
<1>15. Descending' /\ Appending'
  BY <1>2, <1>3 DEF Descending, Appending
<1>16. /\ linked \ Brought \subseteq Members /\ Lists(score, Members)
       /\ Members' = Members /\ Brought' = Brought
  BY <1>2, Order, MembersNext
<1> QED
  BY <1>2, <1>13, <1>14, <1>15, <1>16, OrderKept

LEMMA OrderDetachVictim ==
  ASSUME IInv, OrderInv, DetachVictim, UNCHANGED zsetVars
  PROVE  OrderInv'
<1>1. TypeOK /\ HeapTree(heap, linked) /\ Seeking
  BY Invariant
<1>2. /\ pc = "victim" /\ pc' = "del" /\ heap[at].left = NULL
      /\ frames' = [frames EXCEPT ![Len(frames)].victim = at]
      /\ UNCHANGED <<heap, linked, at, ret, tree, hmap, score, op, target, arg>>
  BY DEF DetachVictim, AtVictim, zsetVars
<1>3. op \in {"update", "pop"} /\ at \in linked /\ Waiting /\ frames # << >>
  BY <1>1, <1>2 DEF Seeking
<1>4. PICK R : R = [node : Node, victim : Link]
  OBVIOUS
<1>5. PICK s \in Seq(R), m \in Nat : s = frames /\ m = Len(s)
  BY <1>1, <1>4 DEF TypeOK
<1>6. m \in 1 .. m /\ s[m] \in R /\ s[m].node \in linked
  BY <1>3, <1>5 DEF Waiting
<1>7. PICK h, n, c : h = heap /\ n = s[m].node /\ c = at
  OBVIOUS
<1>8. /\ HeapTree(h, linked) /\ n \in linked /\ c \in linked /\ h[c].left = NULL
      /\ c \in Node
  BY <1>1, <1>2, <1>3, <1>6, <1>7, TreeLinks
<1>9. PICK rec : rec = [s[m] EXCEPT !.victim = c]
  OBVIOUS
<1>10. rec \in R /\ rec.node = n /\ rec.victim = c
  BY <1>4, <1>6, <1>7, <1>8, <1>9 DEF Link
<1>11. PICK s2 : s2 = frames'
  OBVIOUS
<1>12. s2 = [s EXCEPT ![m] = rec]
  BY <1>2, <1>5, <1>7, <1>9, <1>11
<1>13. Len(s2) = m /\ \A j \in 1 .. m : s2[j] = IF j = m THEN rec ELSE s[j]
  BY <1>5, <1>6, <1>10, <1>12
<1>14. Leads(h, linked, n, c)
  BY <1>1, <1>2, <1>3, <1>5, <1>6, <1>7, Order, LeftmostNow
<1>15. PICK i \in [Node -> Int] :
         /\ Spans(h, linked, i)
         /\ \A x, y \in linked : /\ i[x] < i[y] <=> Place(x) < Place(y)
                                 /\ Place(x) \in Int /\ i[x] \in Int
  BY <1>3, <1>7, PlacesAgree
<1>16. Successor(linked, c, n)
  <2>1. Place(n) < Place(c)
    <3>1. c \in ReachedFrom(h, linked, h[n].right)
      BY <1>14 DEF Leads
    <3>2. i[n] < i[c]
      BY <1>8, <1>15, <3>1, SpansOrder
    <3> QED
      BY <1>8, <1>15, <3>2
  <2>2. ReachedFrom(h, linked, h[c].left) = {}
    BY <1>8 DEF ReachedFrom
  <2> QED
    BY <1>14, <2>1, <2>2 DEF Leads, Successor
<1>17. Chain(linked, s, m, m)
  BY <1>2, <1>5, Order, ChainNow
<1>18. Chain(linked, s2, m, 0)
  <2>1. \A a \in 1 .. m : s2[a].node = s[a].node
    BY <1>7, <1>10, <1>13
  <2>2. ASSUME NEW a \in 1 .. m  PROVE Successor(linked, s2[a].victim, s2[a].node)
    <3>1. CASE a = m
      BY <1>10, <1>13, <1>16, <3>1
    <3>2. CASE a # m
      BY <1>13, <1>17, <3>2 DEF Chain
    <3> QED
      BY <3>1, <3>2
  <2> QED
    BY <1>17, <2>1, <2>2 DEF Chain
<1>19. Succession'
  <2>1. Chain(linked', s2, m, 0) /\ pc' # "victim"
    BY <1>2, <1>18
  <2> QED
    BY <1>11, <1>13, <2>1, ChainNext
<1>20. Descending' /\ Appending' /\ Leftmost'
  BY <1>2, <1>3 DEF Descending, Appending, Leftmost
<1>21. /\ linked \ Brought \subseteq Members /\ Lists(score, Members)
       /\ Members' = Members /\ Brought' = Brought
  BY <1>2, Order, MembersNext
<1> QED
  BY <1>2, <1>19, <1>20, <1>21, OrderKept

LEMMA OrderSwapVictim ==
  ASSUME IInv, OrderInv, SwapVictim, UNCHANGED zsetVars
  PROVE  OrderInv'
<1>1. TypeOK /\ HeapTree(heap, linked) /\ Control
  BY Invariant
<1>2. PICK R : R = [node : Node, victim : Link]
  OBVIOUS
<1>3. PICK s \in Seq(R), m \in Nat : s = frames /\ m = Len(s)
  BY <1>1, <1>2 DEF TypeOK
<1>4. PICK n, v : n = s[m].node /\ v = s[m].victim
  OBVIOUS
<1>5. /\ pc = "return" /\ pc' = "return" /\ frames # << >>
      /\ heap' = Swapped(n, v) /\ linked' = (linked \ {n}) \cup {v}
      /\ frames' = SubSeq(s, 1, m - 1)
      /\ UNCHANGED <<tree, hmap, score, op, target, arg>>
  BY <1>3, <1>4 DEF SwapVictim, zsetVars
<1>6. m >= 1 /\ m \in 1 .. m
  BY <1>3, <1>5
<1>7. op \in {"update", "pop"}
  BY <1>1, <1>5 DEF Control, Repairing, ByHand
<1>8. Waiting /\ Gone \in hmap \cup {target} /\ linked = (hmap \cup {target}) \ {Gone}
  BY <1>1, <1>5, <1>7 DEF Control, Removed
<1>9. Gone = v /\ \A a \in 1 .. m : s[a].node \in linked
  BY <1>3, <1>4, <1>5, <1>6, <1>8 DEF Gone, Waiting
<1>10. \A a \in 1 .. m - 1 : s[a].victim = s[a + 1].node
  BY <1>3, <1>8 DEF Waiting
<1>11. n \in linked /\ v \notin linked /\ v \in Node
  <2>1. hmap \cup {target} \subseteq Node
    BY <1>1, <1>7 DEF Control, Targeted, TypeOK
  <2> QED
    BY <1>4, <1>6, <1>8, <1>9, <2>1
<1>12. PICK S, N : S = Members /\ N = linked
  OBVIOUS
<1>13. Members' = S /\ Brought' = {} /\ v \in S /\ N \subseteq S /\ Lists(score, S)
  <2>1. Members' = Members /\ Members = hmap \cup {target} /\ Brought' = {}
    BY <1>5, <1>7 DEF Members, Brought
  <2> QED
    BY <1>7, <1>8, <1>9, <1>12, <2>1, Order
<1>14. PICK i \in [Node -> Int] :
         /\ Spans(heap, N, i)
         /\ \A x, y \in N : /\ i[x] < i[y] <=> Place(x) < Place(y)
                            /\ Place(x) \in Int /\ i[x] \in Int
  BY <1>7, <1>12, PlacesAgree
<1>15. PICK i2 \in [Node -> Int] : \A x \in Node : i2[x] = IF x = v THEN i[n] ELSE i[x]
  <2>1. N \subseteq Node
    BY <1>1, <1>12 DEF HeapTree, IsTree
  <2>2. i[n] \in Int
    BY <1>11, <1>12, <1>14
  <2>3. [x \in Node |-> IF x = v THEN i[n] ELSE i[x]] \in [Node -> Int]
    BY <2>2
  <2> QED
    BY <2>3
<1>16. Spans(heap', linked', i2)
  <2>1. PICK g : g = heap'
    OBVIOUS
  <2>2. Spans(g, (N \ {n}) \cup {v}, i2)
    BY <1>1, <1>5, <1>11, <1>12, <1>14, <1>15, <2>1, SwappedSpans
  <2> QED
    BY <1>5, <1>12, <2>1, <2>2
<1>17. Chain(N, s, m, 0)
  BY <1>3, <1>5, <1>12, Order, ChainNow
<1>18. Place(v) \in Int /\ Place(n) < Place(v)
  <2>1. Place(v) \in 1 .. Len(List)
    BY <1>13, PlaceInList
  <2>2. Successor(N, v, n)
    BY <1>4, <1>6, <1>17 DEF Chain
  <2> QED
    BY <2>1, <2>2, ListAssumption DEF Successor
<1>19. ASSUME NEW x \in N, x # n, Place(x) < Place(v)  PROVE Place(x) < Place(n)
  <2>1. Place(x) < Place(n) \/ Place(n) < Place(x)
    BY <1>11, <1>12, <1>13, <1>19, PlacesDiffer
  <2>2. Successor(N, v, n)
    BY <1>4, <1>6, <1>17 DEF Chain
  <2> QED
    BY <1>19, <2>1, <2>2 DEF Successor
<1>20. ASSUME NEW x \in (N \ {n}) \cup {v}, NEW y \in (N \ {n}) \cup {v}, Place(x) < Place(y)
       PROVE  i2[x] < i2[y]
  <2>1. N \subseteq Node /\ n \in N /\ v \notin N
    BY <1>1, <1>11, <1>12 DEF HeapTree, IsTree
  <2>2. i2[v] = i[n] /\ \A z \in N : i2[z] = i[z]
    BY <1>11, <1>15, <2>1
  <2>3. CASE x # v /\ y # v
    BY <1>14, <1>20, <2>2, <2>3
  <2>4. CASE x = v /\ y # v
    <3>1. Place(n) < Place(y)
      <4>1. Place(n) \in Int /\ Place(y) \in Int
        BY <1>14, <2>1, <2>4
      <4> QED
        BY <1>18, <1>20, <2>4, <4>1
    <3> QED
      BY <1>14, <2>1, <2>2, <2>4, <3>1
  <2>5. CASE x # v /\ y = v
    <3>1. Place(x) < Place(n)
      BY <1>19, <1>20, <2>5
    <3> QED
      BY <1>14, <2>1, <2>2, <2>5, <3>1
  <2>6. CASE x = v /\ y = v
    BY <1>18, <1>20, <2>6
  <2> QED
    BY <2>3, <2>4, <2>5, <2>6
<1>21. Follows(i2, linked' \cap Members')
  BY <1>5, <1>12, <1>20 DEF Follows
<1>22. PICK s2 : s2 = frames'
  OBVIOUS
<1>23. PICK len \in Nat : len = m - 1
  BY <1>6
<1>24. Len(s2) = len /\ \A a \in 1 .. len : s2[a] = s[a]
  BY <1>3, <1>5, <1>22, <1>23
<1>25. ASSUME NEW a \in 1 .. len  PROVE Successor(linked', s[a].victim, s[a].node)
  <2>1. a \in 1 .. m /\ a # 0 /\ a + 1 \in 1 .. m /\ s[a].victim = s[a + 1].node
    BY <1>10, <1>23
  <2>2. Successor(N, s[a].victim, s[a].node)
    BY <1>17, <2>1 DEF Chain
  <2>3. ~ (Place(v) < Place(s[a].victim))
    <3>1. a + 1 = m \/ Place(s[a + 1].node) < Place(n)
      BY <1>4, <1>6, <1>17, <1>23, <2>1 DEF Chain
    <3>2. Place(s[a + 1].node) \in Int /\ Place(n) \in Int
      BY <1>9, <1>11, <1>12, <1>14, <2>1
    <3> QED
      BY <1>4, <1>18, <2>1, <3>1, <3>2
  <2> QED
    BY <1>5, <1>12, <2>2, <2>3 DEF Successor
<1>26. Chain(linked', s2, len, 0)
  <2>1. \A a \in 1 .. len : a \in 1 .. m
    BY <1>23
  <2> QED
    BY <1>17, <1>24, <1>25, <2>1 DEF Chain
<1>27. Succession'
  BY <1>5, <1>22, <1>24, <1>26, ChainNext
<1>28. Descending' /\ Appending' /\ Leftmost'
  BY <1>5, <1>7 DEF Descending, Appending, Leftmost
<1>29. linked' \ Brought' \subseteq Members' /\ Lists(score', Members')
  BY <1>5, <1>12, <1>13
<1> QED
  BY <1>16, <1>21, <1>27, <1>28, <1>29, OrderNext

-----------------------------------------------------------------------------
(* Every step.                                                             *)

LEMMA OrderCall ==
  ASSUME IInv, OrderInv, Call
  PROVE  OrderInv'
<1>1. CASE \E x \in Names : HcmpFaults(x) \/ zset_pop(x)
  BY <1>1, OrderHcmpFaults, OrderPop
<1>2. CASE \E x \in Names : \E s \in Scores[x] : zset_add(x, s)
  <2>1. PICK x \in Names : \E s \in Scores[x] : zset_add(x, s)
    BY <1>2
  <2>2. PICK s \in Scores[x] : NewNode(x, s, "add")
    BY <2>1 DEF zset_add
  <2>3. s \in Int
    BY <2>1, <2>2, ScoreAssumption
  <2> QED
    BY <2>1, <2>2, <2>3, OrderNewNode
<1>3. CASE \E n \in hmap : \E s \in Scores[Name(n)] : zset_update(n, s)
  <2>1. PICK n \in hmap : \E s \in Scores[Name(n)] : zset_update(n, s)
    BY <1>3
  <2>2. PICK s \in Scores[Name(n)] : zset_update(n, s)
    BY <2>1
  <2>3. Name(n) \in Names
    <3>1. n \in Names \X {1, 2}
      BY Invariant, ZNodeAssumption DEF TypeOK
    <3> QED
      BY <3>1 DEF Name
  <2>4. s \in Int
    BY <2>2, <2>3, ScoreAssumption
  <2> QED
    BY <2>1, <2>2, <2>4, OrderUpdate
<1>4. CASE \E i \in 1 .. Len(List) : AppendByHand(i)
  BY <1>4, OrderAppendByHand
<1> QED
  BY <1>1, <1>2, <1>3, <1>4 DEF Call

LEMMA OrderTree ==
  ASSUME IInv, OrderInv, Tree
  PROVE  OrderInv'
<1>1. CASE avl_fix
  BY <1>1, OrderFixUpdate, OrderFixSide, OrderFixLiftsNull, OrderRotate DEF avl_fix, Tree
<1>2. CASE avl_del
  BY <1>2, OrderSeekVictim, OrderGoLeft, OrderDetachVictim, OrderSplice, OrderSwapVictim
     DEF avl_del, Tree
<1> QED
  BY <1>1, <1>2 DEF Tree

LEMMA OrderUnchanged ==
  ASSUME OrderInv, UNCHANGED vars
  PROVE  OrderInv'
<1>1. UNCHANGED <<heap, linked, pc, at, frames, ret, tree, hmap, score, op, target, arg>>
  BY DEF vars, treeVars
<1>2. Descending'
  <2>1. CASE op # "add"
    BY <1>1, <2>1 DEF Descending
  <2>2. CASE op = "add"
    <3>1. PICK path \in SUBSET linked :
            /\ Descends(heap, score, target, path)
            /\ pc = "descend" /\ at # NULL => at \in path
            /\ target \in linked => target \in path
      BY <2>2, Order, OnPath
    <3>2. Descends(heap', score', target', path)
      BY <1>1, <3>1
    <3>3. target \in linked => heap[target].left = NULL /\ heap[target].right = NULL
      BY <2>2, Order, OnPath
    <3> QED
      BY <1>1, <3>1, <3>2, <3>3, OnPathNext
  <2> QED
    BY <2>1, <2>2
<1>3. Appending'
  BY <1>1 DEF OrderInv, Appending, RightEdge
<1>4. Succession'
  BY <1>1 DEF OrderInv, Succession, Succeeds
<1>5. Leftmost'
  BY <1>1 DEF OrderInv, Leftmost, Subtree
<1>6. /\ linked \ Brought \subseteq Members /\ Lists(score, Members)
      /\ Members' = Members /\ Brought' = Brought
  BY <1>1, Order, MembersNext
<1> QED
  BY <1>1, <1>2, <1>3, <1>4, <1>5, <1>6, OrderKept

LEMMA NextKeepsOrder == IInv /\ OrderInv /\ [Next]_vars => OrderInv'
<1> SUFFICES ASSUME IInv, OrderInv, [Next]_vars PROVE OrderInv'
  OBVIOUS
<1>1. CASE Call
  BY <1>1, OrderCall
<1>2. CASE Running
  <2>1. CASE Tree
    BY <2>1, OrderTree
  <2>2. CASE Descend \/ LinkRoot
    BY <2>2, OrderDescend, OrderLinkRoot
  <2>3. CASE GoRight \/ LinkByHand \/ UpdateByHand
    BY <2>3, OrderGoRight, OrderLinkByHand, OrderUpdateByHand
  <2>4. CASE tree_add_returns \/ Reinsert \/ PopReturns
    BY <2>4, OrderTreeAddReturns, OrderReinsert, OrderPopReturns
  <2> QED
    BY <1>2, <2>1, <2>2, <2>3, <2>4 DEF Running
<1>3. CASE UNCHANGED vars
  BY <1>3, OrderUnchanged
<1> QED
  BY <1>1, <1>2, <1>3 DEF Next

LEMMA InitIsInOrder ==
  ASSUME Init
  PROVE  OrderInv
<1>1. linked = {} /\ hmap = {} /\ op = "none" /\ pc = "idle" /\ frames = << >>
  BY DEF Init
<1>2. Listed
  <2>1. Members = {}
    BY <1>1 DEF Members
  <2> QED
    BY <1>1, <2>1 DEF Listed
<1>3. InOrder
  <2>1. PICK i \in [Node -> Int] : i = [n \in Node |-> 0]
    <3>1. [n \in Node |-> 0] \in [Node -> Int]
      OBVIOUS
    <3> QED
      BY <3>1
  <2>2. Between(i, i, i, 0)
    BY <1>1 DEF Between
  <2>3. \E lo, hi \in [Node -> Int], top \in Int : Between(lo, i, hi, top)
    BY <2>2
  <2> QED
    BY <1>1, <2>3 DEF InOrder
<1>4. Descending /\ Appending /\ Succession /\ Leftmost
  BY <1>1 DEF Descending, Appending, Succession, Leftmost
<1> QED
  BY <1>2, <1>3, <1>4 DEF OrderInv

(* In every state there are numbers that put the nodes in the order of the *)
(* tree, and the nodes that stay in it come as the list has them; the      *)
(* search for a place and the search for a victim have not left their way. *)
THEOREM OrderStays == Spec => []OrderInv
<1>1. Init => OrderInv
  BY InitIsInOrder
<1>2. IInv /\ OrderInv /\ [Next]_vars => OrderInv'
  BY NextKeepsOrder
<1> QED
  BY <1>1, <1>2, InvariantOfZSet, PTL DEF Spec

(* In every state, also between the steps of a rotation or a removal, no   *)
(* node to the left of another must come after it, and none to the right   *)
(* before it: zless leads every search the right way.                      *)
THEOREM SearchOrderStays == Spec => []SearchOrder
<1>1. IInv /\ OrderInv => SearchOrder
  BY OrderIsSearchOrder
<1> QED
  BY <1>1, InvariantOfZSet, OrderStays, PTL
=============================================================================
