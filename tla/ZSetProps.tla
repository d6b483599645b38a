----------------------------- MODULE ZSetProps -----------------------------
(***************************************************************************)
(* What the tree and the sorted set keep, over every sequence of calls     *)
(* that a process survives.                                                *)
(***************************************************************************)
EXTENDS ZSet

(* The nodes at and below n. *)
Subtree(n) ==
  LET sub[m \in linked \cup {NULL}] ==
        IF m = NULL THEN {} ELSE {m} \cup sub[heap[m].left] \cup sub[heap[m].right]
  IN  sub[n]

(* zless puts l before r whatever the memory behind their names holds. *)
MustPrecede(l, r) == zless(l, r) = {TRUE}

-----------------------------------------------------------------------------
(* The type of every variable. *)
TypeOK ==
  /\ heap \in [Node -> AVLNode]
  /\ linked \subseteq Node
  /\ pc \in {"idle", "descend", "append", "update", "del", "victim", "fix", "balance",
            "rot_left", "rot_right", "balanced", "return", "segv"}
  /\ at \in Link /\ ret \in Link /\ tree \in Link /\ target \in Link
  /\ frames \in Seq([node : Node, victim : Link])
  /\ hmap \subseteq Node
  /\ score \in [Node -> Int]
  /\ op \in {"none", "add", "byhand", "update", "pop"}
  /\ arg \in Int

(* The links of the nodes in the tree lead to nodes in the tree, and those *)
(* to a child and those to a parent agree: no rotation, splice or swap     *)
(* leaves a node reachable over a stale pointer, or cuts one off.  Only    *)
(* one node has no parent.                                                 *)
LinksAgree ==
  \A n \in linked :
    /\ {heap[n].left, heap[n].right, heap[n].parent} \subseteq linked \cup {NULL}
    /\ heap[n].left # NULL => heap[heap[n].left].parent = n
    /\ heap[n].right # NULL => heap[heap[n].right].parent = n
    /\ heap[n].parent # NULL => n \in {heap[heap[n].parent].left, heap[heap[n].parent].right}
    /\ heap[n].left = heap[n].right => heap[n].left = NULL
    /\ heap[n].parent = NULL => \A m \in linked : heap[m].parent = NULL => m = n

(* Every node has its predecessors on its left and its successors on its   *)
(* right, in every state of a rotation sequence or a delete: a rotation    *)
(* carries the middle subtree over, a victim is the next node in order.    *)
SearchOrder ==
  \A n \in linked :
    /\ \A m \in Subtree(heap[n].left) : ~ MustPrecede(n, m)
    /\ \A m \in Subtree(heap[n].right) : ~ MustPrecede(m, n)

(* Between calls cnt is the number of nodes below a node and itself, in a  *)
(* tree that a uint32_t can count, although each rotation recomputes two   *)
(* of them only, and the copy of a node over its victim takes what avl_fix *)
(* has left there.                                                         *)
CountsExact ==
  pc = "idle" /\ Cardinality(linked) < Word =>
    \A n \in linked : heap[n].cnt = Cardinality(Subtree(n))

(* Between calls the two indexes of a sorted set hold the same nodes, and  *)
(* zset->tree leads to all of them.                                        *)
IndexesAgree ==
  pc = "idle" => linked = hmap /\ Subtree(tree) = hmap

-----------------------------------------------------------------------------
(* The inductive invariant behind TypeOK, LinksAgree, AddDies and the      *)
(* agreement of the indexes: how far the running call has come, and that   *)
(* the tree has no cycle, which no single link shows.                      *)

(* k falls with every link to a child. *)
Falls(k, top) ==
  \A n \in linked :
    /\ k[n] <= top
    /\ heap[n].left # NULL => k[heap[n].left] < k[n]
    /\ heap[n].right # NULL => k[heap[n].right] < k[n]

Acyclic == \E top \in Nat : \E k \in [Node -> Nat] : Falls(k, top)

IsRoot(n) ==
  \/ n \in linked /\ heap[n].parent = NULL
  \/ n = NULL /\ linked = {}

(* The node that is out of the tree while avl_fix repairs it: the one to   *)
(* be removed, or the victim that is to take the place of one above it.    *)
Gone == IF frames = << >> THEN target ELSE frames[Len(frames)].victim

(* Each call of avl_del waits for the removal of its victim, which is the  *)
(* node that the next call is about.                                       *)
Waiting ==
  /\ \A i \in 1 .. Len(frames) : frames[i].node \in linked
  /\ \A i, j \in 1 .. Len(frames) : frames[i].node = frames[j].node => i = j
  /\ \A i \in 1 .. Len(frames) - 1 : frames[i].victim = frames[i + 1].node
  /\ frames # << >> => frames[1].node = target

(* A new node has no links before it is linked. *)
Unlinked(n) ==
  n \notin linked /\ heap[n].left = NULL /\ heap[n].right = NULL /\ heap[n].parent = NULL

AtRest == pc = "idle" => frames = << >> /\ linked = hmap /\ IsRoot(tree)

Placing ==
  pc \in {"descend", "append"} =>
    /\ op = IF pc = "descend" THEN "add" ELSE "byhand"
    /\ frames = << >> /\ linked = hmap \ {target} /\ Unlinked(target)
    /\ pc = "descend" => at \in linked \/ (at = NULL /\ linked = {})
    /\ pc = "append" => IsRoot(tree) /\ at \in linked \cup {NULL}

ByHand ==
  /\ pc = "update" => op = "byhand"
  /\ op = "byhand" =>
       /\ pc \in {"append", "update", "return"} /\ frames = << >>
       /\ pc # "append" => linked = hmap
       /\ pc = "update" => at \in linked

(* What tree_add has linked is a leaf when avl_fix begins, and the process *)
(* is gone before that changes.                                            *)
Added ==
  op = "add" =>
    /\ pc \in {"descend", "fix", "balance", "segv"} /\ frames = << >>
    /\ pc \in {"fix", "balance"} =>
         at = target /\ heap[at].left = NULL /\ heap[at].right = NULL

Seeking ==
  pc \in {"del", "victim"} =>
    /\ op \in {"update", "pop"} /\ at \in linked /\ linked = hmap \cup {target}
    /\ Waiting
    /\ IF pc = "del" THEN at = Gone ELSE frames # << >>
    /\ \A k \in [Node -> Nat], top \in Nat :
         Falls(k, top) => \A i \in 1 .. Len(frames) : k[at] < k[frames[i].node]

Fixing == pc \in {"fix", "balance", "rot_left", "rot_right", "balanced"}

Removed ==
  (Fixing \/ pc = "return") /\ op \in {"update", "pop"} =>
    Waiting /\ Gone \in hmap \cup {target} /\ linked = (hmap \cup {target}) \ {Gone}

Repairing ==
  /\ Fixing => at \in linked /\ op \in {"add", "update", "pop"}
  /\ pc = "rot_left" => heap[at].right # NULL
  /\ pc = "rot_right" => heap[at].left # NULL
  /\ pc = "return" => IsRoot(ret) /\ op \in {"byhand", "update", "pop"}

Targeted ==
  /\ op # "none" => target \in Node
  /\ op \in {"add", "byhand", "update"} => target \in hmap
  /\ op = "pop" => target \notin hmap

IInv ==
  /\ TypeOK
  /\ LinksAgree
  /\ Acyclic
  /\ AtRest /\ Placing /\ ByHand /\ Added /\ Seeking /\ Removed /\ Repairing
  /\ Targeted

-----------------------------------------------------------------------------
(* The inductive invariant behind CountsExact, on top of IInv.             *)

(* What avl_update keeps at n for the nodes below n and itself. *)
Counted(n) ==
  heap[n].cnt = Plus(1, Plus(avl_cnt(heap, heap[n].left), avl_cnt(heap, heap[n].right)))

(* The nodes whose count the running call has still to bring up to date:   *)
(* the one it is at, until it has updated it, and the parent, whose count  *)
(* was made for what is below it no longer.                                *)
Stale ==
  CASE pc \in {"fix", "update", "rot_left", "rot_right"} -> {at, heap[at].parent}
    [] pc \in {"balance", "balanced"} -> {heap[at].parent}
    [] OTHER -> {}

CountsInv ==
  /\ IsFiniteSet(linked)
  /\ pc # "segv" => \A n \in linked \ Stale : Counted(n)

-----------------------------------------------------------------------------
(* The inductive invariant behind SearchOrder, on top of IInv.             *)

(* The nodes that are where the list puts them: the tree is made by hand,  *)
(* and what tree_add brings in does not stay.                              *)
Brought == IF op = "add" THEN {target} ELSE {}

Members == CASE op = "none" -> hmap
             [] op = "add"  -> hmap \ {target}
             [] OTHER       -> hmap \cup {target}

Place(n) == CHOOSE j \in 1 .. Len(List) : List[j][1] = Name(n)

Listed ==
  /\ linked \ Brought \subseteq Members
  /\ \A n \in Members :
       /\ \E j \in 1 .. Len(List) : List[j] = <<Name(n), score[n]>>
       /\ \A m \in Members : Name(m) = Name(n) => m = n

(* What is below a node lies between its bounds lo and hi, and the node    *)
(* between what is below it on the two sides.                              *)
Between(lo, i, hi, top) ==
  \A n \in linked :
    /\ lo[n] <= i[n] /\ i[n] <= hi[n] /\ hi[n] <= top
    /\ heap[n].left # NULL => lo[n] <= lo[heap[n].left] /\ hi[heap[n].left] < i[n]
    /\ heap[n].right # NULL => i[n] < lo[heap[n].right] /\ hi[heap[n].right] <= hi[n]

InOrder ==
  \E i \in [Node -> Int] :
    /\ \E lo, hi \in [Node -> Int], top \in Int : Between(lo, i, hi, top)
    /\ \A m, n \in linked \cap Members : Place(m) < Place(n) => i[m] < i[n]

(* The path from the root to the node that tree_add has come to, or has    *)
(* linked, and the answers of zless on the way.                            *)
Descended(path) ==
  \A c \in path :
    LET p == heap[c].parent
    IN  p # NULL =>
          /\ p \in path
          /\ heap[p].left = c => ~ MustPrecede(p, target)
          /\ heap[p].right = c => ~ MustPrecede(target, p)

Descending ==
  op = "add" =>
    /\ target \in linked => heap[target].left = NULL /\ heap[target].right = NULL
    /\ \E path \in SUBSET linked :
         /\ Descended(path)
         /\ pc = "descend" /\ at # NULL => at \in path
         /\ target \in linked => target \in path

(* The right edge of the tree down to the node that a caller has come to   *)
(* who links by hand.                                                      *)
RightEdge(edge) ==
  \A c \in edge :
    LET p == heap[c].parent
    IN  p # NULL => p \in edge /\ heap[p].right = c

Appending ==
  pc = "append" =>
    /\ \A n \in linked : Place(n) < Place(target)
    /\ \E edge \in SUBSET linked :
         /\ RightEdge(edge)
         /\ IF at = NULL THEN edge = {} ELSE at \in edge /\ heap[at].right \notin edge

(* A victim comes directly after the node whose place it is to take, among *)
(* the nodes that are still in the tree.                                   *)
Succeeds(v, n) ==
  Place(n) < Place(v) /\ \A m \in linked : ~ (Place(n) < Place(m) /\ Place(m) < Place(v))

Succession ==
  /\ \A a, b \in 1 .. Len(frames) : a < b => Place(frames[a].node) < Place(frames[b].node)
  /\ \A a \in 1 .. Len(frames) :
       (pc = "victim" /\ a = Len(frames)) \/ Succeeds(frames[a].victim, frames[a].node)

(* What comes between the node and where the search for its victim is lies *)
(* to the left of there.                                                   *)
Leftmost ==
  pc = "victim" =>
    LET n == frames[Len(frames)].node
    IN  /\ at \in Subtree(heap[n].right)
        /\ \A m \in linked :
             Place(n) < Place(m) /\ Place(m) < Place(at) => m \in Subtree(heap[at].left)

OrderInv ==
  Listed /\ InOrder /\ Descending /\ Appending /\ Succession /\ Leftmost

-----------------------------------------------------------------------------
(* A defect, not a promise: avl_tree.h:35-38 has avl_fix rebalance the     *)
(* tree after an insertion and return its root, and zset.h:51 has zset_add *)
(* return true once the name is inserted.  Instead avl_fix begins at the   *)
(* new leaf, finds its depths equal, takes the right side for the heavier  *)
(* one, since -1 is the greatest unsigned number, and lifts a child that   *)
(* is not there, whatever the tree.  So what the process survives has no   *)
(* insertion by tree_add in it, which the invariants of this module rest   *)
(* on.                                                                     *)
AddDies == [][op = "add" /\ pc = "balance" => pc' = "segv"]_vars

(* A call returns or the process dies: the climb to the root and the       *)
(* search for a victim end in every tree that the calls leave behind.      *)
CallEnds == pc \in {"del", "descend"} ~> pc \in {"idle", "segv"}
=============================================================================
