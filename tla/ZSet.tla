-------------------------------- MODULE ZSet --------------------------------
(***************************************************************************)
(* The sorted set of zset.cpp: nodes with a name and a score, in a hash    *)
(* table by name and in a tree by score, both at once.                     *)
(*                                                                         *)
(* The hash table is the set of nodes linked in it (HashMap has the        *)
(* chains).  A call runs alone, from "idle" to "idle" or to "segv".        *)
(***************************************************************************)
EXTENDS AVLTree, FiniteSets

CONSTANTS
  Names,    (* the names of members                                        *)
  Code,     (* the hash code of a name and its length, together            *)
  Before,   (* pairs of names: strcmp puts the first before the second     *)
            (* whatever bytes follow them in memory                        *)
  Scores,   (* the scores that callers of zset_add give to each name       *)
  List      (* the members, name and score, that a caller links by hand    *)

(* A ZNode is known by its name; a second one is for what the lookup lets  *)
(* in twice.                                                               *)
ASSUME ZNodeAssumption == Node = Names \X {1, 2}

ASSUME NameAssumption ==
  /\ Code \in [Names -> Nat]
  /\ Before \subseteq Names \X Names
  /\ \A p \in Before : <<p[2], p[1]>> \notin Before

ASSUME ScoreAssumption == \A x \in Names : Scores[x] \subseteq Int

(* The list is in ascending order. *)
ASSUME ListAssumption ==
  /\ List \in Seq(Names \X Int)
  /\ \A i, j \in 1 .. Len(List) :
       i < j => /\ List[i][1] # List[j][1]
                /\ \/ List[i][2] < List[j][2]
                   \/ /\ List[i][2] = List[j][2]
                      /\ <<List[j][1], List[i][1]>> \notin Before

VARIABLES
  tree,     (* ZSet::tree, the root                                        *)
  hmap,     (* the nodes in ZSet::hmap                                     *)
  score,    (* ZNode::score                                                *)
  op,       (* the call that is running                                    *)
  target,   (* the node it is about                                        *)
  arg       (* the score it was given                                      *)

vars == <<treeVars, tree, hmap, score, op, target, arg>>

zsetVars == <<tree, hmap, score, op, target, arg>>

Name(n) == n[1]

-----------------------------------------------------------------------------
(* What the two callbacks may answer.                                      *)

(* h_lookup passes the key first and the node second, hcmp takes them the  *)
(* other way round: of nodes with equal codes it compares the right        *)
(* lengths, but then memory behind the key with memory at the address that *)
(* the bits of the score make.  That may be equal, or not, or not mapped.  *)
Alike(x) == {n \in hmap : Code[Name(n)] = Code[x]}

(* The answers of zless: by score, then by strcmp on names that no zero    *)
(* byte ends.                                                              *)
zless(l, r) ==
  {less \in BOOLEAN :
     IF score[l] # score[r]
     THEN less <=> score[l] < score[r]
     ELSE /\ <<Name(l), Name(r)>> \in Before => less
          /\ <<Name(r), Name(l)>> \in Before => ~ less}

-----------------------------------------------------------------------------
(* What the score of a node that is not allocated is set to. *)
DefaultScore == 0

Init ==
  /\ heap = [n \in Node |-> avl_init]
  /\ linked = {}
  /\ pc = "idle"
  /\ at = NULL
  /\ frames = << >>
  /\ ret = NULL
  /\ tree = NULL
  /\ hmap = {}
  /\ score = [n \in Node |-> DefaultScore]
  /\ op = "none"
  /\ target = NULL
  /\ arg = DefaultScore

-----------------------------------------------------------------------------
(* The lookup at the head of zset_add, zset_lookup and zset_pop.           *)

HcmpFaults(x) ==
  /\ pc = "idle"
  /\ Alike(x) # {}
  /\ pc' = "segv"
  /\ UNCHANGED <<heap, linked, at, frames, ret, zsetVars>>

(* znode_new and hm_insert, by zset_add or by a caller that does without   *)
(* it.                                                                     *)
NewNode(x, s, who) ==
  /\ pc = "idle"
  /\ \E n \in {<<x, 1>>, <<x, 2>>} \ hmap :
       /\ n = <<x, 1>> \/ <<x, 1>> \in hmap
       /\ heap' = [heap EXCEPT ![n] = avl_init]
       /\ score' = [score EXCEPT ![n] = s]
       /\ hmap' = hmap \cup {n}
       /\ target' = n
  /\ arg' = s
  /\ op' = who
  /\ at' = IF who = "byhand" THEN NULL ELSE tree
  /\ pc' = IF who = "byhand" THEN "append" ELSE "descend"
  /\ UNCHANGED <<linked, frames, ret, tree>>

(* zset_add, when the lookup finds nothing, rightly or not. *)
zset_add(x, s) == NewNode(x, s, "add")

(* zset_update, also when zset_add calls it for a node that it found; with *)
(* the score unchanged it does nothing.                                    *)
zset_update(n, s) ==
  /\ pc = "idle"
  /\ score[n] # s
  /\ op' = "update"
  /\ target' = n
  /\ arg' = s
  /\ at' = n
  /\ pc' = "del"
  /\ UNCHANGED <<heap, linked, frames, ret, tree, hmap, score>>

(* Mutant: the node stays in the hash table. *)
KeepInHash(n) == hmap

hm_pop(n) == hmap \ {n}

zset_pop(x) ==
  /\ pc = "idle"
  /\ \E n \in Alike(x) :
       /\ hmap' = hm_pop(n)
       /\ target' = n
       /\ at' = n
  /\ op' = "pop"
  /\ pc' = "del"
  /\ UNCHANGED <<heap, linked, frames, ret, tree, score, arg>>

(* A caller that fills both indexes without zset_add, in ascending order,  *)
(* as far as it gets before the first of the calls above.                  *)
AppendByHand(i) ==
  /\ {Name(n) : n \in hmap} = {List[j][1] : j \in 1 .. i - 1}
  /\ NewNode(List[i][1], List[i][2], "byhand")

-----------------------------------------------------------------------------
(* tree_add.                                                               *)

Descend ==
  /\ pc = "descend"
  /\ at # NULL
  /\ \E less \in zless(target, at) :
       LET child == IF less THEN heap[at].left ELSE heap[at].right
       IN  \/ /\ child # NULL
              /\ at' = child
              /\ UNCHANGED <<heap, linked, pc>>
           \/ /\ child = NULL
              /\ heap' = [heap EXCEPT ![at] = IF less THEN [@ EXCEPT !.left = target]
                                                      ELSE [@ EXCEPT !.right = target],
                                      ![target].parent = at]
              /\ linked' = linked \cup {target}
              /\ at' = target
              /\ pc' = "fix"
  /\ UNCHANGED <<frames, ret, zsetVars>>

(* From an empty tree: zset->tree itself is the link. *)
LinkRoot ==
  /\ pc = "descend"
  /\ at = NULL
  /\ tree' = target
  /\ linked' = linked \cup {target}
  /\ at' = target
  /\ pc' = "fix"
  /\ UNCHANGED <<heap, frames, ret, hmap, score, op, target, arg>>

-----------------------------------------------------------------------------
(* Linking by hand: the new node takes the place of any node on the right  *)
(* edge, which becomes its left child, or of none below the last.  So a    *)
(* tree of any shape comes about.                                          *)

Edge == IF at = NULL THEN tree ELSE heap[at].right

GoRight ==
  /\ pc = "append"
  /\ Edge # NULL
  /\ at' = Edge
  /\ UNCHANGED <<heap, linked, pc, frames, ret, zsetVars>>

LinkByHand ==
  /\ pc = "append"
  /\ heap' = LET placed == [heap EXCEPT ![target].left = Edge, ![target].parent = at]
                 above == SetParent(placed, Edge, target)
             IN  IF at = NULL THEN above ELSE [above EXCEPT ![at].right = target]
  /\ linked' = linked \cup {target}
  /\ at' = target
  /\ pc' = "update"
  /\ UNCHANGED <<frames, ret, zsetVars>>

(* The caller then calls avl_update up to the root. *)
UpdateByHand ==
  /\ pc = "update"
  /\ heap' = avl_update(heap, at)
  /\ \/ /\ heap[at].parent # NULL
        /\ at' = heap[at].parent
        /\ UNCHANGED <<pc, ret>>
     \/ /\ heap[at].parent = NULL
        /\ ret' = at
        /\ pc' = "return"
        /\ UNCHANGED at
  /\ UNCHANGED <<linked, frames, zsetVars>>

-----------------------------------------------------------------------------
(* The assignment of the new root to zset->tree, and what follows it.      *)

Returning == pc = "return" /\ frames = << >>

tree_add_returns ==
  /\ Returning
  /\ op \in {"add", "byhand"}
  /\ tree' = ret
  /\ pc' = "idle"
  /\ at' = NULL
  /\ ret' = NULL
  /\ op' = "none"
  /\ target' = NULL
  /\ arg' = DefaultScore
  /\ UNCHANGED <<heap, linked, frames, hmap, score>>

(* zset_update goes on to tree_add. *)
Reinsert ==
  /\ Returning
  /\ op = "update"
  /\ tree' = ret
  /\ heap' = [heap EXCEPT ![target] = avl_init]
  /\ score' = [score EXCEPT ![target] = arg]
  /\ pc' = "descend"
  /\ at' = ret
  /\ ret' = NULL
  /\ op' = "add"
  /\ UNCHANGED <<linked, frames, hmap, target, arg>>

(* zset_pop returns the node; its caller frees it (znode_del), which is    *)
(* when its memory may become a new node.                                  *)
PopReturns ==
  /\ Returning
  /\ op = "pop"
  /\ tree' = ret
  /\ heap' = [heap EXCEPT ![target] = avl_init]
  /\ pc' = "idle"
  /\ at' = NULL
  /\ ret' = NULL
  /\ op' = "none"
  /\ score' = [score EXCEPT ![target] = DefaultScore]
  /\ target' = NULL
  /\ UNCHANGED <<linked, frames, hmap, arg>>

-----------------------------------------------------------------------------
Call ==
  \/ \E x \in Names : HcmpFaults(x) \/ zset_pop(x)
  \/ \E x \in Names : \E s \in Scores[x] : zset_add(x, s)
  \/ \E n \in hmap : \E s \in Scores[Name(n)] : zset_update(n, s)
  \/ \E i \in 1 .. Len(List) : AppendByHand(i)

Tree == (avl_fix \/ avl_del) /\ UNCHANGED zsetVars

Running ==
  \/ Tree
  \/ Descend \/ LinkRoot
  \/ GoRight \/ LinkByHand \/ UpdateByHand
  \/ tree_add_returns \/ Reinsert \/ PopReturns

Next == Call \/ Running

Spec == Init /\ [][Next]_vars

(* A call is straight-line code and loops that wait for nothing. *)
FairSpec == Spec /\ WF_vars(Running)
=============================================================================
