------------------------------ MODULE AVLTree ------------------------------
(***************************************************************************)
(* The tree of avl_tree.cpp: nodes that a caller embeds in its own, linked *)
(* to parent and children, with the depth and the size of each subtree in  *)
(* an unsigned word.                                                       *)
(*                                                                         *)
(* The heap maps a node to its AVLNode.  avl_fix takes three steps for     *)
(* each node on its way up, avl_del one for each link it follows down to   *)
(* the victim and each return of its recursion.  A caller (module ZSet)    *)
(* sets pc and at to call one of the two and finds the result at "return". *)
(***************************************************************************)
EXTENDS Integers, Sequences

CONSTANTS
  Node,     (* the addresses of nodes                                      *)
  NULL,     (* the null pointer                                            *)
  Word      (* the number of values of a uint32_t: 2^32                    *)

ASSUME NodeAssumption == NULL \notin Node

ASSUME WordAssumption == Word \in Nat /\ Word > 2

VARIABLES
  heap,     (* the AVLNode at each address                                 *)
  linked,   (* history: the nodes that make up the tree                    *)
  pc,       (* where the running call is                                   *)
  at,       (* the node it is at: `node', `victim' or `cur'                *)
  frames,   (* the calls of avl_del that wait for their victim's removal   *)
  ret       (* the root that avl_fix or avl_del returns                    *)

treeVars == <<heap, linked, pc, at, frames, ret>>

Link == Node \cup {NULL}
Uint == 0 .. Word - 1

AVLNode == [height : Uint, cnt : Uint, left : Link, right : Link, parent : Link]

avl_init == [height |-> 0, cnt |-> 1, left |-> NULL, right |-> NULL, parent |-> NULL]

-----------------------------------------------------------------------------
(* The functions without a loop, on a heap h.  Each of them dereferences   *)
(* the node n it is given.                                                 *)

(* The difference of two unsigned words. *)
Minus(x, y) == (x - y) % Word

max(x, y) == IF x > y THEN x ELSE y

avl_height(h, n) == IF n = NULL THEN Word - 1 ELSE h[n].height

avl_cnt(h, n) == IF n = NULL THEN 0 ELSE h[n].cnt

(* Mutant: the sum is kept in a wider word. *)
WideSum(x, y) == x + y

(* The sum of two unsigned words: a node without a child on one side has   *)
(* the depth 0, like a leaf.                                               *)
Plus(x, y) == (x + y) % Word

avl_update(h, n) ==
  [h EXCEPT
     ![n].height = Plus(1, max(avl_height(h, h[n].left), avl_height(h, h[n].right))),
     ![n].cnt = Plus(1, Plus(avl_cnt(h, h[n].left), avl_cnt(h, h[n].right)))]

SetParent(h, n, p) == IF n = NULL THEN h ELSE [h EXCEPT ![n].parent = p]

(* The link of p that led to n leads to m. *)
Relink(h, p, n, m) ==
  IF h[p].left = n THEN [h EXCEPT ![p].left = m] ELSE [h EXCEPT ![p].right = m]

(* Mutant: the upper node is updated before the lower one.                 *)
LeftUpperFirst(h, n) ==
  LET m == h[n].right
      s == h[m].left
  IN  avl_update(avl_update(
        SetParent([h EXCEPT ![m].left = n, ![n].right = s, ![m].parent = h[n].parent,
                            ![n].parent = m], s, n), m), n)

rot_left(h, n) ==
  LET m == h[n].right          \* new_root
      s == h[m].left           \* sbtree2
  IN  avl_update(avl_update(
        SetParent([h EXCEPT ![m].left = n, ![n].right = s, ![m].parent = h[n].parent,
                            ![n].parent = m], s, n), n), m)

rot_right(h, n) ==
  LET m == h[n].left
      s == h[m].right
  IN  avl_update(avl_update(
        SetParent([h EXCEPT ![m].right = n, ![n].left = s, ![m].parent = h[n].parent,
                            ![n].parent = m], s, n), n), m)

-----------------------------------------------------------------------------
(* avl_fix.                                                                *)

(* The depth of the left subtree less that of the right one, unsigned. *)
Lean(n) == Minus(avl_height(heap, heap[n].left), avl_height(heap, heap[n].right))

LeftHeavy(n) == Lean(n) > 1

(* -1 is converted to the greatest unsigned number. *)
RightHeavy(n) == ~ LeftHeavy(n) /\ Lean(n) < Word - 1

(* The forms `LR' and `RL', for a child of the node. NULL is deepest.      *)
IsLR(l) == avl_height(heap, heap[l].right) > avl_height(heap, heap[l].left)
IsRL(r) == avl_height(heap, heap[r].left) > avl_height(heap, heap[r].right)

(* The node that is lifted to the place of n.  It is NULL when n has no    *)
(* child on that side, or that child none on the inner side.               *)
LeftLifted(n) ==
  LET l == heap[n].left
  IN  IF l = NULL THEN NULL ELSE IF IsLR(l) THEN heap[l].right ELSE l

RightLifted(n) ==
  LET r == heap[n].right
  IN  IF r = NULL THEN NULL ELSE IF IsRL(r) THEN heap[r].left ELSE r

(* Each round of the loop begins with the node's own depth and size. *)
FixUpdate ==
  /\ pc = "fix"
  /\ heap' = avl_update(heap, at)
  /\ pc' = "balance"
  /\ UNCHANGED <<linked, at, frames, ret>>

Lifted(n) ==
  CASE LeftHeavy(n)  -> LeftLifted(n)
    [] RightHeavy(n) -> RightLifted(n)
    [] OTHER         -> n

(* avl_fix_left turns an `LR' form into an `LL' form before it rotates,    *)
(* avl_fix_right an `RL' form into an `RR' form.                           *)
avl_fix_left ==
  LET l == heap[at].left
  IN  IF IsLR(l) THEN [rot_left(heap, l) EXCEPT ![at].left = heap[l].right] ELSE heap

avl_fix_right ==
  LET r == heap[at].right
  IN  IF IsRL(r) THEN [rot_right(heap, r) EXCEPT ![at].right = heap[r].left] ELSE heap

FixSide ==
  /\ pc = "balance"
  /\ Lifted(at) # NULL
  /\ heap' = CASE LeftHeavy(at)  -> avl_fix_left
               [] RightHeavy(at) -> avl_fix_right
               [] OTHER          -> heap
  /\ pc' = CASE LeftHeavy(at)  -> "rot_right"
             [] RightHeavy(at) -> "rot_left"
             [] OTHER          -> "balanced"
  /\ UNCHANGED <<linked, at, frames, ret>>

(* What is lifted is dereferenced whether or not it is there. *)
FixLiftsNull ==
  /\ pc = "balance"
  /\ Lifted(at) = NULL
  /\ pc' = "segv"
  /\ UNCHANGED <<heap, linked, at, frames, ret>>

(* Mutant: the next round is about the node that was lifted. *)
StayAtTop(h, top) ==
  IF heap[at].parent # NULL
  THEN /\ heap' = Relink(h, heap[at].parent, at, top)
       /\ at' = top
       /\ pc' = "fix"
       /\ UNCHANGED ret
  ELSE /\ heap' = h
       /\ ret' = top
       /\ pc' = "return"
       /\ UNCHANGED at

(* The end of a round, with h the heap after the rotation and top the node *)
(* it has lifted: on to the parent, or back with the root.                 *)
NextRound(h, top) ==
  IF heap[at].parent # NULL
  THEN /\ heap' = Relink(h, heap[at].parent, at, top)
       /\ at' = h[top].parent
       /\ pc' = "fix"
       /\ UNCHANGED ret
  ELSE /\ heap' = h
       /\ ret' = top
       /\ pc' = "return"
       /\ UNCHANGED at

Rotate ==
  /\ pc \in {"rot_right", "rot_left", "balanced"}
  /\ CASE pc = "rot_right" -> NextRound(rot_right(heap, at), heap[at].left)
       [] pc = "rot_left"  -> NextRound(rot_left(heap, at), heap[at].right)
       [] OTHER            -> NextRound(heap, at)
  /\ UNCHANGED <<linked, frames>>

avl_fix == FixUpdate \/ FixSide \/ FixLiftsNull \/ Rotate

-----------------------------------------------------------------------------
(* avl_del.                                                                *)

(* A node with a right child waits while its victim, the least node to the *)
(* right of it, is sought.                                                 *)
SeekVictim ==
  /\ pc = "del"
  /\ heap[at].right # NULL
  /\ frames' = Append(frames, [node |-> at, victim |-> NULL])
  /\ at' = heap[at].right
  /\ pc' = "victim"
  /\ UNCHANGED <<heap, linked, ret>>

(* Mutant: the right child is the victim. *)
RightChildWillDo == pc = "victim"

AtVictim == pc = "victim" /\ heap[at].left = NULL

GoLeft ==
  /\ pc = "victim"
  /\ ~ AtVictim
  /\ at' = heap[at].left
  /\ UNCHANGED <<heap, linked, pc, frames, ret>>

(* The victim is detached by avl_del itself. *)
DetachVictim ==
  /\ AtVictim
  /\ frames' = [frames EXCEPT ![Len(frames)].victim = at]
  /\ pc' = "del"
  /\ UNCHANGED <<heap, linked, at, ret>>

(* Mutant: the left child keeps its old parent. *)
KeepsParent(n) == heap

(* The left child of n, if any, moves up to the parent of n. *)
ChildUp(n) == SetParent(heap, heap[n].left, heap[n].parent)

(* A node without a right child gives its place to its left child. *)
Splice ==
  /\ pc = "del"
  /\ heap[at].right = NULL
  /\ linked' = linked \ {at}
  /\ LET p == heap[at].parent
         l == heap[at].left
     IN  \/ /\ p # NULL
            /\ heap' = Relink(ChildUp(at), p, at, l)
            /\ at' = p
            /\ pc' = "fix"
            /\ UNCHANGED ret
         \/ /\ p = NULL
            /\ heap' = ChildUp(at)
            /\ ret' = l
            /\ pc' = "return"
            /\ UNCHANGED at
  /\ UNCHANGED frames

(* v as a copy of n, in the place of n. *)
Swapped(n, v) ==
  LET copy == [heap EXCEPT ![v] = heap[n]]
      adopted == SetParent(SetParent(copy, heap[n].left, v), heap[n].right, v)
  IN  IF heap[n].parent = NULL THEN adopted ELSE Relink(adopted, heap[n].parent, n, v)

(* Back from the removal of the victim, which takes the node's place. *)
SwapVictim ==
  /\ pc = "return"
  /\ frames # << >>
  /\ LET f == frames[Len(frames)]
     IN  /\ heap' = Swapped(f.node, f.victim)
         /\ linked' = (linked \ {f.node}) \cup {f.victim}
         /\ ret' = IF heap[f.node].parent = NULL THEN f.victim ELSE ret
  /\ frames' = SubSeq(frames, 1, Len(frames) - 1)
  /\ UNCHANGED <<pc, at>>

avl_del == SeekVictim \/ GoLeft \/ DetachVictim \/ Splice \/ SwapVictim
=============================================================================
