--------------------------- MODULE AVLTreeProofs ---------------------------
(***************************************************************************)
(* What rotations, splices and swaps do to a tree, whatever its size and   *)
(* shape.                                                                  *)
(*                                                                         *)
(* A tree is seen here as three functions, of the left, the right and the  *)
(* parent link, on the nodes it has; sizes come last, depths not at all.   *)
(***************************************************************************)
EXTENDS AVLTree, LibraryProofs

-----------------------------------------------------------------------------
(* The links between the nodes of N agree, and one node has no parent. *)
Wired(N, l, r, p) ==
  \A n \in N :
    /\ l[n] \in N \cup {NULL} /\ r[n] \in N \cup {NULL} /\ p[n] \in N \cup {NULL}
    /\ l[n] # NULL => p[l[n]] = n
    /\ r[n] # NULL => p[r[n]] = n
    /\ p[n] # NULL => l[p[n]] = n \/ r[p[n]] = n
    /\ l[n] = r[n] => l[n] = NULL
    /\ p[n] = NULL => \A m \in N : p[m] = NULL => m = n

(* k falls with every link to a child. *)
Sinks(N, l, r, k, top) ==
  \A n \in N :
    /\ k[n] <= top
    /\ l[n] # NULL => k[l[n]] < k[n]
    /\ r[n] # NULL => k[r[n]] < k[n]

IsTree(N, l, r, p) ==
  /\ N \subseteq Node
  /\ Wired(N, l, r, p)
  /\ \E top \in Nat : \E k \in [Node -> Nat] : Sinks(N, l, r, k, top)

(* Left and right are alike. *)
LEMMA Mirror ==
  ASSUME NEW N, NEW l, NEW r, NEW p, IsTree(N, l, r, p)
  PROVE  IsTree(N, r, l, p)
BY DEF IsTree, Wired, Sinks

(* A link to a parent and its link back. *)
LEMMA ParentLinks ==
  ASSUME NEW N, NEW l, NEW r, NEW p, IsTree(N, l, r, p), NEW n \in N
  PROVE  /\ n # NULL
         /\ l[n] # n /\ r[n] # n /\ p[n] # n
         /\ p[n] # NULL => (l[p[n]] = n <=> r[p[n]] # n)
         /\ l[n] # NULL => l[n] # p[n]
         /\ r[n] # NULL => r[n] # p[n]
<1>1. Wired(N, l, r, p) /\ n # NULL
  BY NodeAssumption DEF IsTree
<1>2. PICK k \in [Node -> Nat], top \in Nat : Sinks(N, l, r, k, top)
  BY DEF IsTree
<1>3. \A m \in N : k[m] \in Nat
  BY <1>2 DEF IsTree
<1>4. l[n] # n /\ r[n] # n
  BY <1>1, <1>2, <1>3 DEF Sinks
<1>5. l[n] # NULL => l[n] # p[n]
  BY <1>1, <1>2, <1>3 DEF Sinks, Wired
<1>6. r[n] # NULL => r[n] # p[n]
  BY <1>1, <1>2, <1>3 DEF Sinks, Wired
<1>7. p[n] # n
  BY <1>1, <1>4 DEF Wired
<1>8. p[n] # NULL => (l[p[n]] = n <=> r[p[n]] # n)
  BY <1>1 DEF Wired
<1> QED
  BY <1>1, <1>4, <1>5, <1>6, <1>7, <1>8

(* A rotation: m, the right child of n, takes the place of n, and n that   *)
(* of the left child s of m, which moves over to n.                        *)
LEMMA Turn ==
  ASSUME NEW N, NEW l, NEW r, NEW p, IsTree(N, l, r, p),
         NEW n \in N, NEW m, m = r[n], m # NULL, NEW s, s = l[m], NEW q, q = p[n],
         NEW l2, \A x \in N : l2[x] = IF x = m THEN n
                                      ELSE IF x = q /\ l[q] = n THEN m ELSE l[x],
         NEW r2, \A x \in N : r2[x] = IF x = n THEN s
                                      ELSE IF x = q /\ l[q] # n THEN m ELSE r[x],
         NEW p2, \A x \in N : p2[x] = IF x = n THEN m ELSE IF x = m THEN q
                                      ELSE IF x = s THEN n ELSE p[x]
  PROVE  IsTree(N, l2, r2, p2)
<1>1. Wired(N, l, r, p) /\ NULL \notin N /\ N \subseteq Node
  BY NodeAssumption DEF IsTree
<1>2. m \in N /\ s \in N \cup {NULL} /\ q \in N \cup {NULL} /\ p[m] = n
  BY <1>1 DEF Wired
<1>3. /\ m # n /\ m # q /\ n # q /\ s # m
      /\ s # NULL => s # n /\ p[s] = m
      /\ q # NULL => (l[q] = n <=> r[q] # n)
  BY <1>1, <1>2, ParentLinks DEF Wired
<1>4. s # NULL => s # q
  <2>1. PICK k \in [Node -> Nat], top \in Nat : Sinks(N, l, r, k, top)
    BY DEF IsTree
  <2>2. \A x \in N : k[x] \in Nat
    BY <1>1, <2>1
  <2>3. k[m] < k[n] /\ (s # NULL => k[s] < k[m]) /\ (q # NULL => k[n] < k[q])
    BY <1>1, <1>2, <2>1 DEF Sinks, Wired
  <2> QED
    BY <1>2, <2>2, <2>3
<1>5. Wired(N, l2, r2, p2)
  <2> SUFFICES ASSUME NEW x \in N
               PROVE  /\ l2[x] \in N \cup {NULL} /\ r2[x] \in N \cup {NULL}
                      /\ p2[x] \in N \cup {NULL}
                      /\ l2[x] # NULL => p2[l2[x]] = x
                      /\ r2[x] # NULL => p2[r2[x]] = x
                      /\ p2[x] # NULL => l2[p2[x]] = x \/ r2[p2[x]] = x
                      /\ l2[x] = r2[x] => l2[x] = NULL
                      /\ p2[x] = NULL => \A y \in N : p2[y] = NULL => y = x
    BY DEF Wired
  <2>1. l2[x] \in N \cup {NULL} /\ r2[x] \in N \cup {NULL} /\ p2[x] \in N \cup {NULL}
    BY <1>1, <1>2 DEF Wired
  <2>2. l2[x] # NULL => p2[l2[x]] = x
    BY <1>1, <1>2, <1>3, <1>4 DEF Wired
  <2>3. r2[x] # NULL => p2[r2[x]] = x
    BY <1>1, <1>2, <1>3, <1>4 DEF Wired
  <2>4. p2[x] # NULL => l2[p2[x]] = x \/ r2[p2[x]] = x
    BY <1>1, <1>2, <1>3, <1>4 DEF Wired
  <2>5. l2[x] = r2[x] => l2[x] = NULL
    BY <1>1, <1>2, <1>3, <1>4 DEF Wired
  <2>6. ASSUME p2[x] = NULL, NEW y \in N, p2[y] = NULL  PROVE y = x
    BY <1>1, <1>2, <1>3, <1>4, <2>6 DEF Wired
  <2> QED
    BY <2>1, <2>2, <2>3, <2>4, <2>5, <2>6
<1>6. PICK k \in [Node -> Nat], top \in Nat : Sinks(N, l, r, k, top)
  BY DEF IsTree
<1>7. PICK k2 \in [Node -> Nat] :
        \A x \in Node : k2[x] = IF x = m THEN 2 * k[n] + 1 ELSE 2 * k[x]
  <2>1. [x \in Node |-> IF x = m THEN 2 * k[n] + 1 ELSE 2 * k[x]] \in [Node -> Nat]
    BY <1>1, <1>6
  <2> QED
    BY <2>1
<1>8. Sinks(N, l2, r2, k2, 2 * top + 1) /\ 2 * top + 1 \in Nat
  <2>1. \A x \in N : k[x] \in Nat /\ k[x] <= top
    BY <1>1, <1>6 DEF Sinks
  <2>2. ASSUME NEW x \in N
        PROVE  /\ k2[x] <= 2 * top + 1
               /\ l2[x] # NULL => k2[l2[x]] < k2[x]
               /\ r2[x] # NULL => k2[r2[x]] < k2[x]
    <3>1. k2[x] <= 2 * top + 1
      BY <1>1, <1>7, <2>1
    <3>2. l2[x] # NULL => k2[l2[x]] < k2[x]
      BY <1>1, <1>2, <1>3, <1>6, <1>7, <2>1 DEF Sinks, Wired
    <3>3. r2[x] # NULL => k2[r2[x]] < k2[x]
      BY <1>1, <1>2, <1>3, <1>6, <1>7, <2>1 DEF Sinks, Wired
    <3> QED
      BY <3>1, <3>2, <3>3
  <2> QED
    BY <2>2 DEF Sinks
<1> QED
  BY <1>1, <1>5, <1>8 DEF IsTree

(* The mirror image: m is the left child of n. *)
LEMMA TurnBack ==
  ASSUME NEW N, NEW l, NEW r, NEW p, IsTree(N, l, r, p),
         NEW n \in N, NEW m, m = l[n], m # NULL, NEW s, s = r[m], NEW q, q = p[n],
         NEW l2, \A x \in N : l2[x] = IF x = n THEN s
                                      ELSE IF x = q /\ l[q] = n THEN m ELSE l[x],
         NEW r2, \A x \in N : r2[x] = IF x = m THEN n
                                      ELSE IF x = q /\ l[q] # n THEN m ELSE r[x],
         NEW p2, \A x \in N : p2[x] = IF x = n THEN m ELSE IF x = m THEN q
                                      ELSE IF x = s THEN n ELSE p[x]
  PROVE  IsTree(N, l2, r2, p2)
<1>1. IsTree(N, r, l, p)
  BY Mirror
<1>2. q # NULL => (l[q] = n <=> r[q] # n)
  BY ParentLinks
<1>3. NULL \notin N
  BY NodeAssumption DEF IsTree
<1>4. \A x \in N : l2[x] = IF x = n THEN s ELSE IF x = q /\ r[q] # n THEN m ELSE l[x]
  BY <1>2, <1>3
<1>5. \A x \in N : r2[x] = IF x = m THEN n ELSE IF x = q /\ r[q] = n THEN m ELSE r[x]
  BY <1>2, <1>3
<1>6. IsTree(N, r2, l2, p2)
  BY <1>1, <1>4, <1>5, Turn
<1> QED
  BY <1>6, Mirror

(* A new leaf t, below any node a that lacks the child. *)
LEMMA NewLeaf ==
  ASSUME NEW N, NEW l, NEW r, NEW p, IsTree(N, l, r, p),
         NEW a \in N, l[a] = NULL, NEW t \in Node, t \notin N,
         NEW l2, \A x \in N : l2[x] = IF x = a THEN t ELSE l[x], l2[t] = NULL,
         NEW r2, \A x \in N : r2[x] = r[x], r2[t] = NULL,
         NEW p2, \A x \in N : p2[x] = p[x], p2[t] = a
  PROVE  IsTree(N \cup {t}, l2, r2, p2)
<1>1. Wired(N, l, r, p) /\ NULL \notin N /\ t # NULL /\ N \subseteq Node
  BY NodeAssumption DEF IsTree
<1>2. Wired(N \cup {t}, l2, r2, p2)
  BY <1>1 DEF Wired
<1>3. PICK k \in [Node -> Nat], top \in Nat : Sinks(N, l, r, k, top)
  BY DEF IsTree
<1>4. PICK k2 \in [Node -> Nat] :
        \A x \in Node : k2[x] = IF x = t THEN 2 * k[a] + 1 ELSE 2 * k[x] + 2
  <2>1. [x \in Node |-> IF x = t THEN 2 * k[a] + 1 ELSE 2 * k[x] + 2] \in [Node -> Nat]
    BY <1>1, <1>3
  <2> QED
    BY <2>1
<1>5. Sinks(N \cup {t}, l2, r2, k2, 2 * top + 2) /\ 2 * top + 2 \in Nat
  <2>1. \A x \in N : k[x] \in Nat /\ k[x] <= top
    BY <1>1, <1>3 DEF Sinks
  <2>2. ASSUME NEW x \in N
        PROVE  /\ k2[x] <= 2 * top + 2
               /\ l2[x] # NULL => k2[l2[x]] < k2[x]
               /\ r2[x] # NULL => k2[r2[x]] < k2[x]
    <3>1. k2[x] <= 2 * top + 2 /\ k2[x] = 2 * k[x] + 2
      BY <1>1, <1>4, <2>1
    <3>2. l2[x] # NULL => k2[l2[x]] < k2[x]
      BY <1>1, <1>3, <1>4, <2>1 DEF Sinks, Wired
    <3>3. r2[x] # NULL => k2[r2[x]] < k2[x]
      BY <1>1, <1>3, <1>4, <2>1 DEF Sinks, Wired
    <3> QED
      BY <3>1, <3>2, <3>3
  <2>3. k2[t] <= 2 * top + 2
    BY <1>4, <2>1
  <2> QED
    BY <1>3, <2>2, <2>3 DEF Sinks
<1> QED
  BY <1>1, <1>2, <1>5 DEF IsTree

(* The only node of a tree. *)
LEMMA NewRoot ==
  ASSUME NEW t \in Node, NEW l, l[t] = NULL, NEW r, r[t] = NULL, NEW p, p[t] = NULL
  PROVE  IsTree({t}, l, r, p)
<1>1. Wired({t}, l, r, p)
  BY DEF Wired
<1>2. PICK k \in [Node -> Nat] : \A x \in Node : k[x] = 0
  <2>1. [x \in Node |-> 0] \in [Node -> Nat]
    OBVIOUS
  <2> QED
    BY <2>1
<1>3. Sinks({t}, l, r, k, 0) /\ 0 \in Nat
  BY <1>2 DEF Sinks
<1> QED
  BY <1>1, <1>3 DEF IsTree

(* The links after t has taken the place of e, the right child of a or   *)
(* the root.                                                               *)
PlacedLinks(N, l, r, p, a, t, e, l2, r2, p2) ==
  /\ a = NULL => (e \in N /\ p[e] = NULL) \/ (e = NULL /\ N = {})
  /\ a # NULL => e = r[a]
  /\ \A x \in N : /\ l2[x] = l[x]
                  /\ r2[x] = IF x = a THEN t ELSE r[x]
                  /\ p2[x] = IF x = e THEN t ELSE p[x]
  /\ l2[t] = e /\ r2[t] = NULL /\ p2[t] = a

(* The node e that t has taken the place of, if there is one, is its left  *)
(* child.                                                                  *)
LEMMA PlacedAbove ==
  ASSUME NEW N, NEW l, NEW r, NEW p, IsTree(N, l, r, p),
         NEW a \in N \cup {NULL}, NEW t \in Node, t \notin N,
         NEW e, NEW l2, NEW r2, NEW p2, PlacedLinks(N, l, r, p, a, t, e, l2, r2, p2)
  PROVE  IsTree(N \cup {t}, l2, r2, p2)
<1> USE DEF PlacedLinks
<1>1. Wired(N, l, r, p) /\ NULL \notin N /\ t # NULL /\ N \subseteq Node
  BY NodeAssumption DEF IsTree
<1>2. /\ e \in N \cup {NULL} /\ e # t
      /\ e # NULL => p[e] = a
      /\ a # NULL => e # a
  BY <1>1, ParentLinks DEF Wired
<1>3. Wired(N \cup {t}, l2, r2, p2)
  <2>1. ASSUME NEW x \in N
        PROVE  /\ l2[x] \in N \cup {t, NULL} /\ r2[x] \in N \cup {t, NULL}
               /\ p2[x] \in N \cup {t, NULL}
               /\ l2[x] # NULL => p2[l2[x]] = x
               /\ r2[x] # NULL => p2[r2[x]] = x
               /\ p2[x] # NULL => l2[p2[x]] = x \/ r2[p2[x]] = x
               /\ l2[x] = r2[x] => l2[x] = NULL
    BY <1>1, <1>2 DEF Wired
  <2>2. ASSUME NEW x \in N \cup {t}, p2[x] = NULL, NEW y \in N \cup {t}, p2[y] = NULL
        PROVE  y = x
    BY <1>1, <1>2, <2>2 DEF Wired
  <2>3. e \in N \cup {NULL} /\ (e # NULL => p2[e] = t)
    BY <1>2
  <2>4. a # NULL => r2[a] = t
    OBVIOUS
  <2> QED
    BY <1>1, <2>1, <2>2, <2>3, <2>4 DEF Wired
<1>4. PICK k \in [Node -> Nat], top \in Nat : Sinks(N, l, r, k, top)
  BY DEF IsTree
<1>5. PICK k2 \in [Node -> Nat] :
        \A x \in Node : k2[x] = IF x # t THEN 2 * k[x] + 2
                                ELSE IF a # NULL THEN 2 * k[a] + 1 ELSE 2 * top + 3
  <2>1. [x \in Node |-> IF x # t THEN 2 * k[x] + 2
                        ELSE IF a # NULL THEN 2 * k[a] + 1 ELSE 2 * top + 3] \in [Node -> Nat]
    BY <1>1, <1>4
  <2> QED
    BY <2>1
<1>6. Sinks(N \cup {t}, l2, r2, k2, 2 * top + 3) /\ 2 * top + 3 \in Nat
  <2>1. \A x \in N : k[x] \in Nat /\ k[x] <= top /\ k2[x] = 2 * k[x] + 2
    BY <1>1, <1>4, <1>5 DEF Sinks
  <2>2. ASSUME NEW x \in N
        PROVE  /\ k2[x] <= 2 * top + 3
               /\ l2[x] # NULL => k2[l2[x]] < k2[x]
               /\ r2[x] # NULL => k2[r2[x]] < k2[x]
    <3>1. k2[x] <= 2 * top + 3
      BY <2>1
    <3>2. l2[x] # NULL => k2[l2[x]] < k2[x]
      BY <1>1, <1>4, <2>1 DEF Sinks, Wired
    <3>3. r2[x] # NULL => k2[r2[x]] < k2[x]
      BY <1>1, <1>4, <1>5, <2>1 DEF Sinks, Wired
    <3> QED
      BY <3>1, <3>2, <3>3
  <2>3. k2[t] <= 2 * top + 3 /\ (e # NULL => k2[e] < k2[t])
    BY <1>1, <1>2, <1>4, <1>5, <2>1 DEF Sinks
  <2> QED
    BY <1>1, <2>2, <2>3 DEF Sinks
<1> QED
  BY <1>1, <1>3, <1>6 DEF IsTree

(* A node n without a right child gives its place to its left child c. *)
LEMMA SplicedOut ==
  ASSUME NEW N, NEW l, NEW r, NEW p, IsTree(N, l, r, p),
         NEW n \in N, r[n] = NULL, NEW c, c = l[n], NEW q, q = p[n],
         NEW M, M = N \ {n},
         NEW l2, \A x \in M : l2[x] = IF x = q /\ l[q] = n THEN c ELSE l[x],
         NEW r2, \A x \in M : r2[x] = IF x = q /\ l[q] # n THEN c ELSE r[x],
         NEW p2, \A x \in M : p2[x] = IF x = c THEN q ELSE p[x]
  PROVE  IsTree(M, l2, r2, p2)
<1>1. Wired(N, l, r, p) /\ NULL \notin N /\ N \subseteq Node
  BY NodeAssumption DEF IsTree
<1>2. /\ q \in N \cup {NULL} /\ c \in N \cup {NULL} /\ c # n /\ q # n
      /\ c # NULL => p[c] = n /\ c # q
      /\ q # NULL => (l[q] = n <=> r[q] # n)
  BY <1>1, ParentLinks DEF Wired
<1>3. Wired(M, l2, r2, p2)
  <2> SUFFICES ASSUME NEW x \in M
               PROVE  /\ l2[x] \in M \cup {NULL} /\ r2[x] \in M \cup {NULL}
                      /\ p2[x] \in M \cup {NULL}
                      /\ l2[x] # NULL => p2[l2[x]] = x
                      /\ r2[x] # NULL => p2[r2[x]] = x
                      /\ p2[x] # NULL => l2[p2[x]] = x \/ r2[p2[x]] = x
                      /\ l2[x] = r2[x] => l2[x] = NULL
                      /\ p2[x] = NULL => \A y \in M : p2[y] = NULL => y = x
    BY DEF Wired
  <2>1. l2[x] \in M \cup {NULL} /\ r2[x] \in M \cup {NULL} /\ p2[x] \in M \cup {NULL}
    BY <1>1, <1>2 DEF Wired
  <2>2. l2[x] # NULL => p2[l2[x]] = x
    BY <1>1, <1>2, <2>1 DEF Wired
  <2>3. r2[x] # NULL => p2[r2[x]] = x
    BY <1>1, <1>2, <2>1 DEF Wired
  <2>4. p2[x] # NULL => l2[p2[x]] = x \/ r2[p2[x]] = x
    BY <1>1, <1>2, <2>1 DEF Wired
  <2>5. l2[x] = r2[x] => l2[x] = NULL
    BY <1>1, <1>2 DEF Wired
  <2>6. ASSUME p2[x] = NULL, NEW y \in M, p2[y] = NULL  PROVE y = x
    BY <1>1, <1>2, <2>6 DEF Wired
  <2> QED
    BY <2>1, <2>2, <2>3, <2>4, <2>5, <2>6
<1>4. PICK k \in [Node -> Nat], top \in Nat : Sinks(N, l, r, k, top)
  BY DEF IsTree
<1>5. Sinks(M, l2, r2, k, top)
  <2>1. \A x \in N : k[x] \in Nat
    BY <1>1, <1>4
  <2>2. /\ c # NULL => k[c] < k[n]
        /\ q # NULL => k[n] < k[q]
    BY <1>1, <1>2, <1>4 DEF Sinks, Wired
  <2>3. c # NULL /\ q # NULL => k[c] < k[q]
    BY <1>2, <2>1, <2>2
  <2> QED
    BY <1>1, <1>2, <1>4, <2>3 DEF Sinks
<1> QED
  BY <1>1, <1>3, <1>5 DEF IsTree

(* A node v from outside takes the place of n, with all its links. *)
LEMMA SwappedIn ==
  ASSUME NEW N, NEW l, NEW r, NEW p, IsTree(N, l, r, p),
         NEW n \in N, NEW v \in Node, v \notin N, NEW q, q = p[n],
         NEW M, M = (N \ {n}) \cup {v},
         NEW l2, \A x \in M : l2[x] = IF x = v THEN l[n]
                                      ELSE IF x = q /\ l[q] = n THEN v ELSE l[x],
         NEW r2, \A x \in M : r2[x] = IF x = v THEN r[n]
                                      ELSE IF x = q /\ l[q] # n THEN v ELSE r[x],
         NEW p2, \A x \in M : p2[x] = IF x = v THEN q
                                      ELSE IF x = l[n] \/ x = r[n] THEN v ELSE p[x]
  PROVE  IsTree(M, l2, r2, p2)
<1>1. Wired(N, l, r, p) /\ NULL \notin N /\ N \subseteq Node /\ v # NULL /\ v # n
  BY NodeAssumption DEF IsTree
<1>2. /\ q \in N \cup {NULL} /\ q # n
      /\ l[n] \in N \cup {NULL} /\ l[n] # n /\ (l[n] # NULL => p[l[n]] = n /\ l[n] # q)
      /\ r[n] \in N \cup {NULL} /\ r[n] # n /\ (r[n] # NULL => p[r[n]] = n /\ r[n] # q)
      /\ q # NULL => (l[q] = n <=> r[q] # n)
  BY <1>1, ParentLinks DEF Wired
<1>3. Wired(M, l2, r2, p2)
  <2> SUFFICES ASSUME NEW x \in M
               PROVE  /\ l2[x] \in M \cup {NULL} /\ r2[x] \in M \cup {NULL}
                      /\ p2[x] \in M \cup {NULL}
                      /\ l2[x] # NULL => p2[l2[x]] = x
                      /\ r2[x] # NULL => p2[r2[x]] = x
                      /\ p2[x] # NULL => l2[p2[x]] = x \/ r2[p2[x]] = x
                      /\ l2[x] = r2[x] => l2[x] = NULL
                      /\ p2[x] = NULL => \A y \in M : p2[y] = NULL => y = x
    BY DEF Wired
  <2>1. l2[x] \in M \cup {NULL} /\ r2[x] \in M \cup {NULL} /\ p2[x] \in M \cup {NULL}
    BY <1>1, <1>2 DEF Wired
  <2>2. l2[x] # NULL => p2[l2[x]] = x
    BY <1>1, <1>2, <2>1 DEF Wired
  <2>3. r2[x] # NULL => p2[r2[x]] = x
    BY <1>1, <1>2, <2>1 DEF Wired
  <2>4. p2[x] # NULL => l2[p2[x]] = x \/ r2[p2[x]] = x
    BY <1>1, <1>2, <2>1 DEF Wired
  <2>5. l2[x] = r2[x] => l2[x] = NULL
    BY <1>1, <1>2 DEF Wired
  <2>6. ASSUME p2[x] = NULL, NEW y \in M, p2[y] = NULL  PROVE y = x
    BY <1>1, <1>2, <2>6 DEF Wired
  <2> QED
    BY <2>1, <2>2, <2>3, <2>4, <2>5, <2>6
<1>4. PICK k \in [Node -> Nat], top \in Nat : Sinks(N, l, r, k, top)
  BY DEF IsTree
<1>5. PICK k2 \in [Node -> Nat] : \A x \in Node : k2[x] = IF x = v THEN k[n] ELSE k[x]
  <2>1. [x \in Node |-> IF x = v THEN k[n] ELSE k[x]] \in [Node -> Nat]
    BY <1>1, <1>4
  <2> QED
    BY <2>1
<1>6. Sinks(M, l2, r2, k2, top)
  <2>1. \A x \in N : k[x] \in Nat /\ k2[x] = k[x]
    BY <1>1, <1>4, <1>5
  <2>2. k2[v] = k[n]
    BY <1>5
  <2> QED
    BY <1>1, <1>2, <1>4, <2>1, <2>2 DEF Sinks, Wired
<1> QED
  BY <1>1, <1>3, <1>6 DEF IsTree

(* A root without children is alone: from any other node one comes, going  *)
(* up, to a child of the root.                                             *)
LEMMA LonelyRoot ==
  ASSUME NEW N, NEW l, NEW r, NEW p, IsTree(N, l, r, p),
         NEW n \in N, p[n] = NULL, l[n] = NULL, r[n] = NULL
  PROVE  N = {n}
<1>1. Wired(N, l, r, p) /\ NULL \notin N /\ N \subseteq Node
  BY NodeAssumption DEF IsTree
<1>2. PICK k \in [Node -> Nat], top \in Nat : Sinks(N, l, r, k, top)
  BY DEF IsTree
<1>3. \A x \in N : k[x] \in Nat /\ k[x] <= top
  BY <1>1, <1>2 DEF Sinks
<1>4. SUFFICES ASSUME N # {n} PROVE FALSE
  OBVIOUS
<1>5. PICK o \in N : o # n
  BY <1>4
<1> DEFINE I == {top - k[x] : x \in N \ {n}}
<1>6. I \in SUBSET Nat /\ I # {}
  BY <1>3, <1>5
<1>7. Min(I) \in I /\ \A i \in I : Min(I) <= i
  BY <1>6, MinOfNaturals
<1>8. PICK x \in N \ {n} : Min(I) = top - k[x]
  BY <1>7
<1>9. \A y \in N \ {n} : k[y] <= k[x]
  <2> SUFFICES ASSUME NEW y \in N \ {n}  PROVE k[y] <= k[x]
    OBVIOUS
  <2>1. top - k[x] <= top - k[y]
    BY <1>7, <1>8
  <2> QED
    BY <1>3, <2>1
<1>10. p[x] # NULL
  BY <1>1 DEF Wired
<1>11. p[x] \in N /\ k[x] < k[p[x]]
  BY <1>1, <1>2, <1>10 DEF Wired, Sinks
<1>12. p[x] = n
  BY <1>3, <1>9, <1>11
<1> QED
  BY <1>1, <1>8, <1>10, <1>12 DEF Wired

(* Whatever links there are outside the tree do not matter. *)
LEMMA SameTree ==
  ASSUME NEW N, NEW l, NEW r, NEW p, IsTree(N, l, r, p),
         NEW l2, NEW r2, NEW p2, \A x \in N : l2[x] = l[x] /\ r2[x] = r[x] /\ p2[x] = p[x]
  PROVE  IsTree(N, l2, r2, p2)
<1>1. Wired(N, l, r, p) /\ N \subseteq Node
  BY DEF IsTree
<1>2. Wired(N, l2, r2, p2)
  BY <1>1 DEF Wired
<1>3. PICK k \in [Node -> Nat], top \in Nat : Sinks(N, l, r, k, top)
  BY DEF IsTree
<1>4. Sinks(N, l2, r2, k, top)
  BY <1>3 DEF Sinks
<1> QED
  BY <1>1, <1>2, <1>4 DEF IsTree

-----------------------------------------------------------------------------
(* What the functions of avl_tree.cpp do to the links of a heap.           *)

Heap == [Node -> AVLNode]

LeftOf(h) == [x \in Node |-> h[x].left]
RightOf(h) == [x \in Node |-> h[x].right]
ParentOf(h) == [x \in Node |-> h[x].parent]

LEMMA HeapLinks ==
  ASSUME NEW h \in Heap, NEW n \in Node
  PROVE  /\ h[n].left \in Link /\ h[n].right \in Link /\ h[n].parent \in Link
         /\ h[n].height \in Uint /\ h[n].cnt \in Uint
         /\ LeftOf(h)[n] = h[n].left /\ RightOf(h)[n] = h[n].right
         /\ ParentOf(h)[n] = h[n].parent
BY DEF Heap, AVLNode, LeftOf, RightOf, ParentOf

LEMMA PlusType ==
  ASSUME NEW x \in Nat, NEW y \in Nat
  PROVE  Plus(x, y) \in Uint
BY WordAssumption DEF Plus, Uint

(* A heap g that differs from h at node n only. *)
ChangedAt(g, h, n, rec) == g = [h EXCEPT ![n] = rec]

LEMMA OneNodeChanged ==
  ASSUME NEW h \in Heap, NEW n \in Node, NEW rec \in AVLNode, NEW g, ChangedAt(g, h, n, rec)
  PROVE  /\ g \in Heap
         /\ \A x \in Node :
              /\ LeftOf(g)[x] = IF x = n THEN rec.left ELSE LeftOf(h)[x]
              /\ RightOf(g)[x] = IF x = n THEN rec.right ELSE RightOf(h)[x]
              /\ ParentOf(g)[x] = IF x = n THEN rec.parent ELSE ParentOf(h)[x]
<1>1. g \in Heap
  BY DEF ChangedAt, Heap
<1>2. \A x \in Node : g[x] = IF x = n THEN rec ELSE h[x]
  BY DEF ChangedAt, Heap
<1> QED
  BY <1>1, <1>2, HeapLinks

SameLinks(g, h) ==
  \A x \in Node : /\ LeftOf(g)[x] = LeftOf(h)[x]
                  /\ RightOf(g)[x] = RightOf(h)[x]
                  /\ ParentOf(g)[x] = ParentOf(h)[x]

LEMMA UpdateLinks ==
  ASSUME NEW h \in Heap, NEW n \in Node, NEW g, g = avl_update(h, n)
  PROVE  g \in Heap /\ SameLinks(g, h)
<1>1. h[n].left \in Link /\ h[n].right \in Link /\ h[n] \in AVLNode
  BY HeapLinks DEF Heap
<1>2. \A m \in Link : avl_height(h, m) \in Nat /\ avl_cnt(h, m) \in Nat
  BY HeapLinks, WordAssumption DEF Link, avl_height, avl_cnt, Uint
<1>3. PICK height \in Uint, cnt \in Uint :
        /\ height = Plus(1, max(avl_height(h, h[n].left), avl_height(h, h[n].right)))
        /\ cnt = Plus(1, Plus(avl_cnt(h, h[n].left), avl_cnt(h, h[n].right)))
  <2>1. \A x, y \in Nat : max(x, y) \in Nat /\ Plus(x, y) \in Uint /\ Plus(x, y) \in Nat
    <3>1. \A x, y \in Nat : max(x, y) \in Nat
      BY DEF max
    <3>2. \A x, y \in Nat : Plus(x, y) \in Uint
      BY PlusType
    <3>3. Uint \subseteq Nat
      BY WordAssumption DEF Uint
    <3> QED
      BY <3>1, <3>2, <3>3
  <2>2. PICK x, y, u, v \in Nat :
          /\ x = avl_height(h, h[n].left) /\ y = avl_height(h, h[n].right)
          /\ u = avl_cnt(h, h[n].left) /\ v = avl_cnt(h, h[n].right)
    BY <1>1, <1>2
  <2>3. 1 \in Nat /\ max(x, y) \in Nat /\ Plus(u, v) \in Nat
    BY <2>1
  <2>4. Plus(1, max(x, y)) \in Uint /\ Plus(1, Plus(u, v)) \in Uint
    BY <2>1, <2>3
  <2> QED
    BY <2>2, <2>4
<1>4. g = [h EXCEPT ![n].height = height, ![n].cnt = cnt]
  BY <1>3 DEF avl_update
<1>5. PICK rec : rec = [h[n] EXCEPT !.height = height, !.cnt = cnt]
  OBVIOUS
<1>6. /\ rec \in AVLNode
      /\ rec.left = h[n].left /\ rec.right = h[n].right /\ rec.parent = h[n].parent
  BY <1>1, <1>5 DEF AVLNode
<1>7. ChangedAt(g, h, n, rec)
  BY <1>4, <1>5 DEF ChangedAt, Heap
<1> QED
  BY <1>6, <1>7, OneNodeChanged, HeapLinks DEF SameLinks

ParentSet(g, h, n, q) ==
  /\ g \in Heap
  /\ \A x \in Node : /\ LeftOf(g)[x] = LeftOf(h)[x]
                     /\ RightOf(g)[x] = RightOf(h)[x]
                     /\ ParentOf(g)[x] = IF x = n THEN q ELSE ParentOf(h)[x]

LEMMA SetParentLinks ==
  ASSUME NEW h \in Heap, NEW n \in Link, NEW q \in Link, NEW g, g = SetParent(h, n, q)
  PROVE  ParentSet(g, h, n, q)
<1>1. CASE n = NULL
  BY <1>1, NodeAssumption DEF SetParent, ParentSet
<1>2. CASE n \in Node
  <2>1. PICK rec : rec = [h[n] EXCEPT !.parent = q]
    OBVIOUS
  <2>2. h[n] \in AVLNode
    BY <1>2 DEF Heap
  <2>3. /\ rec \in AVLNode
        /\ rec.left = h[n].left /\ rec.right = h[n].right /\ rec.parent = q
    BY <2>1, <2>2 DEF AVLNode
  <2>4. ChangedAt(g, h, n, rec)
    BY <1>2, <2>1, NodeAssumption DEF ChangedAt, Heap, SetParent
  <2> QED
    BY <1>2, <2>3, <2>4, OneNodeChanged, HeapLinks DEF ParentSet
<1> QED
  BY <1>1, <1>2 DEF Link

Relinked(g, h, q, n, m) ==
  /\ g \in Heap
  /\ \A x \in Node :
       /\ LeftOf(g)[x] = IF x = q /\ h[q].left = n THEN m ELSE LeftOf(h)[x]
       /\ RightOf(g)[x] = IF x = q /\ h[q].left # n THEN m ELSE RightOf(h)[x]
       /\ ParentOf(g)[x] = ParentOf(h)[x]

LEMMA RelinkLinks ==
  ASSUME NEW h \in Heap, NEW q \in Node, NEW n \in Link, NEW m \in Link,
         NEW g, g = Relink(h, q, n, m)
  PROVE  Relinked(g, h, q, n, m)
<1>1. CASE h[q].left = n
  <2>1. PICK rec : rec = [h[q] EXCEPT !.left = m]
    OBVIOUS
  <2>2. h[q] \in AVLNode
    BY DEF Heap
  <2>3. /\ rec \in AVLNode
        /\ rec.left = m /\ rec.right = h[q].right /\ rec.parent = h[q].parent
    BY <2>1, <2>2 DEF AVLNode
  <2>4. ChangedAt(g, h, q, rec)
    BY <1>1, <2>1 DEF ChangedAt, Heap, Relink
  <2> QED
    BY <1>1, <2>3, <2>4, OneNodeChanged, HeapLinks DEF Relinked
<1>2. CASE h[q].left # n
  <2>1. PICK rec : rec = [h[q] EXCEPT !.right = m]
    OBVIOUS
  <2>2. h[q] \in AVLNode
    BY DEF Heap
  <2>3. /\ rec \in AVLNode
        /\ rec.right = m /\ rec.left = h[q].left /\ rec.parent = h[q].parent
    BY <2>1, <2>2 DEF AVLNode
  <2>4. ChangedAt(g, h, q, rec)
    BY <1>2, <2>1 DEF ChangedAt, Heap, Relink
  <2> QED
    BY <1>2, <2>3, <2>4, OneNodeChanged, HeapLinks DEF Relinked
<1> QED
  BY <1>1, <1>2

(* The functions that set links change no size. *)
SameCounts(g, h) == \A x \in Node : g[x].cnt = h[x].cnt

LEMMA SetParentCounts ==
  ASSUME NEW h \in Heap, NEW n \in Link, NEW q, NEW g, g = SetParent(h, n, q)
  PROVE  SameCounts(g, h)
<1>1. CASE n = NULL
  BY <1>1 DEF SetParent, SameCounts
<1>2. CASE n # NULL
  <2>1. n \in Node /\ g = [h EXCEPT ![n].parent = q]
    BY <1>2 DEF SetParent, Link
  <2> QED
    BY <2>1 DEF SameCounts, Heap, AVLNode
<1> QED
  BY <1>1, <1>2

LEMMA RelinkCounts ==
  ASSUME NEW h \in Heap, NEW q \in Node, NEW n, NEW m, NEW g, g = Relink(h, q, n, m)
  PROVE  SameCounts(g, h)
<1>1. g = [h EXCEPT ![q].left = m] \/ g = [h EXCEPT ![q].right = m]
  BY DEF Relink
<1> QED
  BY <1>1 DEF SameCounts, Heap, AVLNode

RotatedLeft(g, h, n, m, s) ==
  /\ g \in Heap
  /\ \A x \in Node :
       /\ LeftOf(g)[x] = IF x = m THEN n ELSE LeftOf(h)[x]
       /\ RightOf(g)[x] = IF x = n THEN s ELSE RightOf(h)[x]
       /\ ParentOf(g)[x] = IF x = n THEN m ELSE IF x = m THEN h[n].parent
                           ELSE IF x = s THEN n ELSE ParentOf(h)[x]

LEMMA RotLeftLinks ==
  ASSUME NEW h \in Heap, NEW n \in Node, NEW m \in Node, m = h[n].right, m # n,
         NEW s \in Link, s = h[m].left, s # m, s # n, NEW g, g = rot_left(h, n)
  PROVE  RotatedLeft(g, h, n, m, s)
<1>1. PICK q \in Link : q = h[n].parent
  BY HeapLinks
<1>2. n \in Link /\ m \in Link
  BY DEF Link
<1>3. PICK below : below = [h[m] EXCEPT !.left = n, !.parent = q]
  OBVIOUS
<1>4. PICK above : above = [h[n] EXCEPT !.right = s, !.parent = m]
  OBVIOUS
<1>5. h[m] \in AVLNode /\ h[n] \in AVLNode
  BY DEF Heap
<1>6. /\ below \in AVLNode
      /\ below.left = n /\ below.right = h[m].right /\ below.parent = q
  BY <1>2, <1>3, <1>5 DEF AVLNode
<1>7. /\ above \in AVLNode
      /\ above.left = h[n].left /\ above.right = s /\ above.parent = m
  BY <1>2, <1>4, <1>5 DEF AVLNode
<1>8. PICK a : a = [h EXCEPT ![m].left = n, ![n].right = s, ![m].parent = q, ![n].parent = m]
  OBVIOUS
<1>9. PICK half : ChangedAt(half, h, m, below)
  BY DEF ChangedAt
<1>10. ChangedAt(a, half, n, above)
  BY <1>3, <1>4, <1>8, <1>9 DEF ChangedAt, Heap
<1>11. /\ half \in Heap
      /\ \A x \in Node :
           /\ LeftOf(half)[x] = IF x = m THEN below.left ELSE LeftOf(h)[x]
           /\ RightOf(half)[x] = IF x = m THEN below.right ELSE RightOf(h)[x]
           /\ ParentOf(half)[x] = IF x = m THEN below.parent ELSE ParentOf(h)[x]
  BY <1>9, <1>6, OneNodeChanged
<1>12. /\ a \in Heap
      /\ \A x \in Node :
           /\ LeftOf(a)[x] = IF x = n THEN above.left ELSE LeftOf(half)[x]
           /\ RightOf(a)[x] = IF x = n THEN above.right ELSE RightOf(half)[x]
           /\ ParentOf(a)[x] = IF x = n THEN above.parent ELSE ParentOf(half)[x]
  <2>1. half \in Heap
    BY <1>11
  <2>2. above \in AVLNode
    BY <1>7
  <2> QED
    BY <1>10, <2>1, <2>2, OneNodeChanged
<1>13. PICK b : b = SetParent(a, s, n)
  OBVIOUS
<1>14. /\ b \in Heap
       /\ \A x \in Node : /\ LeftOf(b)[x] = LeftOf(a)[x]
                          /\ RightOf(b)[x] = RightOf(a)[x]
                          /\ ParentOf(b)[x] = IF x = s THEN n ELSE ParentOf(a)[x]
  <2>1. a \in Heap
    BY <1>12
  <2> QED
    <3>1. ParentSet(b, a, s, n)
      BY <1>2, <1>13, <2>1, SetParentLinks
    <3> QED
      BY <3>1 DEF ParentSet
<1>15. PICK c : c = avl_update(b, n)
  OBVIOUS
<1>16. c \in Heap /\ SameLinks(c, b)
  BY <1>14, <1>15, UpdateLinks
<1>17. g = avl_update(c, m)
  BY <1>1, <1>8, <1>13, <1>15 DEF rot_left
<1>18. g \in Heap /\ SameLinks(g, c)
  BY <1>16, <1>17, UpdateLinks
<1>19. \A x \in Node : /\ LeftOf(g)[x] = LeftOf(b)[x]
                      /\ RightOf(g)[x] = RightOf(b)[x]
                      /\ ParentOf(g)[x] = ParentOf(b)[x]
  BY <1>16, <1>18 DEF SameLinks
<1>20. /\ LeftOf(h)[n] = h[n].left /\ RightOf(h)[m] = h[m].right
  BY HeapLinks
<1>21. \A x \in Node :
         /\ LeftOf(a)[x] = IF x = m THEN n ELSE LeftOf(h)[x]
         /\ RightOf(a)[x] = IF x = n THEN s ELSE RightOf(h)[x]
         /\ ParentOf(a)[x] = IF x = n THEN m ELSE IF x = m THEN q ELSE ParentOf(h)[x]
  <2> SUFFICES ASSUME NEW x \in Node
               PROVE  /\ LeftOf(a)[x] = IF x = m THEN n ELSE LeftOf(h)[x]
                      /\ RightOf(a)[x] = IF x = n THEN s ELSE RightOf(h)[x]
                      /\ ParentOf(a)[x] = IF x = n THEN m ELSE IF x = m THEN q
                                          ELSE ParentOf(h)[x]
    OBVIOUS
  <2>1. LeftOf(a)[x] = IF x = m THEN n ELSE LeftOf(h)[x]
    <3>1. LeftOf(a)[x] = IF x = n THEN above.left ELSE LeftOf(half)[x]
      BY <1>12
    <3>2. LeftOf(half)[x] = IF x = m THEN below.left ELSE LeftOf(h)[x]
      BY <1>11
    <3>3. below.left = n /\ above.left = LeftOf(h)[n]
      BY <1>6, <1>7, <1>20
    <3> QED
      BY <3>1, <3>2, <3>3
  <2>2. RightOf(a)[x] = IF x = n THEN s ELSE RightOf(h)[x]
    <3>1. RightOf(a)[x] = IF x = n THEN above.right ELSE RightOf(half)[x]
      BY <1>12
    <3>2. RightOf(half)[x] = IF x = m THEN below.right ELSE RightOf(h)[x]
      BY <1>11
    <3>3. above.right = s /\ below.right = RightOf(h)[m]
      BY <1>6, <1>7, <1>20
    <3> QED
      BY <3>1, <3>2, <3>3
  <2>3. ParentOf(a)[x] = IF x = n THEN m ELSE IF x = m THEN q ELSE ParentOf(h)[x]
    <3>1. ParentOf(a)[x] = IF x = n THEN above.parent ELSE ParentOf(half)[x]
      BY <1>12
    <3>2. ParentOf(half)[x] = IF x = m THEN below.parent ELSE ParentOf(h)[x]
      BY <1>11
    <3>3. above.parent = m /\ below.parent = q
      BY <1>6, <1>7
    <3> QED
      BY <3>1, <3>2, <3>3
  <2> QED
    BY <2>1, <2>2, <2>3
<1> QED
  BY <1>1, <1>14, <1>18, <1>19, <1>21 DEF RotatedLeft

RotatedRight(g, h, n, m, s) ==
  /\ g \in Heap
  /\ \A x \in Node :
       /\ RightOf(g)[x] = IF x = m THEN n ELSE RightOf(h)[x]
       /\ LeftOf(g)[x] = IF x = n THEN s ELSE LeftOf(h)[x]
       /\ ParentOf(g)[x] = IF x = n THEN m ELSE IF x = m THEN h[n].parent
                           ELSE IF x = s THEN n ELSE ParentOf(h)[x]

LEMMA RotRightLinks ==
  ASSUME NEW h \in Heap, NEW n \in Node, NEW m \in Node, m = h[n].left, m # n,
         NEW s \in Link, s = h[m].right, s # m, s # n, NEW g, g = rot_right(h, n)
  PROVE  RotatedRight(g, h, n, m, s)
<1>1. PICK q \in Link : q = h[n].parent
  BY HeapLinks
<1>2. n \in Link /\ m \in Link
  BY DEF Link
<1>3. PICK below : below = [h[m] EXCEPT !.right = n, !.parent = q]
  OBVIOUS
<1>4. PICK above : above = [h[n] EXCEPT !.left = s, !.parent = m]
  OBVIOUS
<1>5. h[m] \in AVLNode /\ h[n] \in AVLNode
  BY DEF Heap
<1>6. /\ below \in AVLNode
      /\ below.right = n /\ below.left = h[m].left /\ below.parent = q
  BY <1>2, <1>3, <1>5 DEF AVLNode
<1>7. /\ above \in AVLNode
      /\ above.right = h[n].right /\ above.left = s /\ above.parent = m
  BY <1>2, <1>4, <1>5 DEF AVLNode
<1>8. PICK a : a = [h EXCEPT ![m].right = n, ![n].left = s, ![m].parent = q, ![n].parent = m]
  OBVIOUS
<1>9. PICK half : ChangedAt(half, h, m, below)
  BY DEF ChangedAt
<1>10. ChangedAt(a, half, n, above)
  BY <1>3, <1>4, <1>8, <1>9 DEF ChangedAt, Heap
<1>11. /\ half \in Heap
      /\ \A x \in Node :
           /\ LeftOf(half)[x] = IF x = m THEN below.left ELSE LeftOf(h)[x]
           /\ RightOf(half)[x] = IF x = m THEN below.right ELSE RightOf(h)[x]
           /\ ParentOf(half)[x] = IF x = m THEN below.parent ELSE ParentOf(h)[x]
  BY <1>9, <1>6, OneNodeChanged
<1>12. /\ a \in Heap
      /\ \A x \in Node :
           /\ LeftOf(a)[x] = IF x = n THEN above.left ELSE LeftOf(half)[x]
           /\ RightOf(a)[x] = IF x = n THEN above.right ELSE RightOf(half)[x]
           /\ ParentOf(a)[x] = IF x = n THEN above.parent ELSE ParentOf(half)[x]
  <2>1. half \in Heap
    BY <1>11
  <2>2. above \in AVLNode
    BY <1>7
  <2> QED
    BY <1>10, <2>1, <2>2, OneNodeChanged
<1>13. PICK b : b = SetParent(a, s, n)
  OBVIOUS
<1>14. /\ b \in Heap
       /\ \A x \in Node : /\ LeftOf(b)[x] = LeftOf(a)[x]
                          /\ RightOf(b)[x] = RightOf(a)[x]
                          /\ ParentOf(b)[x] = IF x = s THEN n ELSE ParentOf(a)[x]
  <2>1. a \in Heap
    BY <1>12
  <2> QED
    <3>1. ParentSet(b, a, s, n)
      BY <1>2, <1>13, <2>1, SetParentLinks
    <3> QED
      BY <3>1 DEF ParentSet
<1>15. PICK c : c = avl_update(b, n)
  OBVIOUS
<1>16. c \in Heap /\ SameLinks(c, b)
  BY <1>14, <1>15, UpdateLinks
<1>17. g = avl_update(c, m)
  BY <1>1, <1>8, <1>13, <1>15 DEF rot_right
<1>18. g \in Heap /\ SameLinks(g, c)
  BY <1>16, <1>17, UpdateLinks
<1>19. \A x \in Node : /\ LeftOf(g)[x] = LeftOf(b)[x]
                      /\ RightOf(g)[x] = RightOf(b)[x]
                      /\ ParentOf(g)[x] = ParentOf(b)[x]
  BY <1>16, <1>18 DEF SameLinks
<1>20. /\ RightOf(h)[n] = h[n].right /\ LeftOf(h)[m] = h[m].left
  BY HeapLinks
<1>21. \A x \in Node :
         /\ RightOf(a)[x] = IF x = m THEN n ELSE RightOf(h)[x]
         /\ LeftOf(a)[x] = IF x = n THEN s ELSE LeftOf(h)[x]
         /\ ParentOf(a)[x] = IF x = n THEN m ELSE IF x = m THEN q ELSE ParentOf(h)[x]
  <2> SUFFICES ASSUME NEW x \in Node
               PROVE  /\ RightOf(a)[x] = IF x = m THEN n ELSE RightOf(h)[x]
                      /\ LeftOf(a)[x] = IF x = n THEN s ELSE LeftOf(h)[x]
                      /\ ParentOf(a)[x] = IF x = n THEN m ELSE IF x = m THEN q
                                          ELSE ParentOf(h)[x]
    OBVIOUS
  <2>1. RightOf(a)[x] = IF x = m THEN n ELSE RightOf(h)[x]
    <3>1. RightOf(a)[x] = IF x = n THEN above.right ELSE RightOf(half)[x]
      BY <1>12
    <3>2. RightOf(half)[x] = IF x = m THEN below.right ELSE RightOf(h)[x]
      BY <1>11
    <3>3. below.right = n /\ above.right = RightOf(h)[n]
      BY <1>6, <1>7, <1>20
    <3> QED
      BY <3>1, <3>2, <3>3
  <2>2. LeftOf(a)[x] = IF x = n THEN s ELSE LeftOf(h)[x]
    <3>1. LeftOf(a)[x] = IF x = n THEN above.left ELSE LeftOf(half)[x]
      BY <1>12
    <3>2. LeftOf(half)[x] = IF x = m THEN below.left ELSE LeftOf(h)[x]
      BY <1>11
    <3>3. above.left = s /\ below.left = LeftOf(h)[m]
      BY <1>6, <1>7, <1>20
    <3> QED
      BY <3>1, <3>2, <3>3
  <2>3. ParentOf(a)[x] = IF x = n THEN m ELSE IF x = m THEN q ELSE ParentOf(h)[x]
    <3>1. ParentOf(a)[x] = IF x = n THEN above.parent ELSE ParentOf(half)[x]
      BY <1>12
    <3>2. ParentOf(half)[x] = IF x = m THEN below.parent ELSE ParentOf(h)[x]
      BY <1>11
    <3>3. above.parent = m /\ below.parent = q
      BY <1>6, <1>7
    <3> QED
      BY <3>1, <3>2, <3>3
  <2> QED
    BY <2>1, <2>2, <2>3
<1> QED
  BY <1>1, <1>14, <1>18, <1>19, <1>21 DEF RotatedRight

-----------------------------------------------------------------------------
(* The same for heaps: each function of avl_tree.cpp, on a heap in which   *)
(* the nodes of N make up a tree, leaves a tree.                           *)

HeapTree(h, N) == h \in Heap /\ IsTree(N, LeftOf(h), RightOf(h), ParentOf(h))

(* The links of a node of a tree. *)
LEMMA TreeLinks ==
  ASSUME NEW h, NEW N, HeapTree(h, N), NEW n \in N
  PROVE  /\ h \in Heap /\ N \subseteq Node /\ n \in Node /\ NULL \notin N
         /\ LeftOf(h)[n] = h[n].left /\ RightOf(h)[n] = h[n].right
         /\ ParentOf(h)[n] = h[n].parent
         /\ h[n].left \in N \cup {NULL} /\ h[n].right \in N \cup {NULL}
         /\ h[n].parent \in N \cup {NULL}
         /\ h[n].left # NULL => h[h[n].left].parent = n
         /\ h[n].right # NULL => h[h[n].right].parent = n
         /\ h[n].parent # NULL => (h[h[n].parent].left = n <=> h[h[n].parent].right # n)
         /\ h[n].left # n /\ h[n].right # n /\ h[n].parent # n
         /\ h[n].left # NULL => h[n].left # h[n].parent
         /\ h[n].right # NULL => h[n].right # h[n].parent
<1>1. h \in Heap /\ N \subseteq Node /\ NULL \notin N
  BY NodeAssumption DEF HeapTree, IsTree
<1>2. \A x \in N : /\ LeftOf(h)[x] = h[x].left /\ RightOf(h)[x] = h[x].right
                   /\ ParentOf(h)[x] = h[x].parent
  BY <1>1, HeapLinks
<1>3. PICK l, r, p : l = LeftOf(h) /\ r = RightOf(h) /\ p = ParentOf(h)
  OBVIOUS
<1>4. IsTree(N, l, r, p)
  BY <1>3 DEF HeapTree
<1>5. Wired(N, l, r, p)
  BY <1>4 DEF IsTree
<1>6. /\ l[n] # n /\ r[n] # n /\ p[n] # n
      /\ p[n] # NULL => (l[p[n]] = n <=> r[p[n]] # n)
      /\ l[n] # NULL => l[n] # p[n]
      /\ r[n] # NULL => r[n] # p[n]
  BY <1>4, ParentLinks
<1>7. \A x \in N : l[x] = h[x].left /\ r[x] = h[x].right /\ p[x] = h[x].parent
  BY <1>2, <1>3
<1>8. /\ l[n] \in N \cup {NULL} /\ r[n] \in N \cup {NULL} /\ p[n] \in N \cup {NULL}
      /\ l[n] # NULL => p[l[n]] = n
      /\ r[n] # NULL => p[r[n]] = n
  BY <1>5 DEF Wired
<1> QED
  BY <1>1, <1>2, <1>6, <1>7, <1>8

LEMMA TreeUpdate ==
  ASSUME NEW h, NEW N, HeapTree(h, N), NEW n \in Node, NEW g, g = avl_update(h, n)
  PROVE  HeapTree(g, N) /\ SameLinks(g, h)
<1>1. h \in Heap /\ N \subseteq Node
  BY DEF HeapTree, IsTree
<1>2. g \in Heap /\ SameLinks(g, h)
  BY <1>1, UpdateLinks
<1>3. \A x \in N : /\ LeftOf(g)[x] = LeftOf(h)[x] /\ RightOf(g)[x] = RightOf(h)[x]
                   /\ ParentOf(g)[x] = ParentOf(h)[x]
  BY <1>1, <1>2 DEF SameLinks
<1>4. IsTree(N, LeftOf(g), RightOf(g), ParentOf(g))
  BY <1>3, SameTree DEF HeapTree
<1> QED
  BY <1>2, <1>4 DEF HeapTree

(* A node outside the tree may be set to anything. *)
LEMMA TreeOutside ==
  ASSUME NEW h, NEW N, HeapTree(h, N), NEW n \in Node, n \notin N,
         NEW rec \in AVLNode, NEW g, ChangedAt(g, h, n, rec)
  PROVE  HeapTree(g, N) /\ \A x \in N : g[x] = h[x]
<1>1. h \in Heap /\ N \subseteq Node
  BY DEF HeapTree, IsTree
<1>2. g \in Heap /\ \A x \in N : /\ LeftOf(g)[x] = LeftOf(h)[x]
                                 /\ RightOf(g)[x] = RightOf(h)[x]
                                 /\ ParentOf(g)[x] = ParentOf(h)[x]
  BY <1>1, OneNodeChanged
<1>3. IsTree(N, LeftOf(g), RightOf(g), ParentOf(g))
  BY <1>2, SameTree DEF HeapTree
<1>4. \A x \in N : g[x] = h[x]
  BY <1>1 DEF ChangedAt, Heap
<1> QED
  BY <1>2, <1>3, <1>4 DEF HeapTree

LEMMA TreeOfOne ==
  ASSUME NEW h \in Heap, NEW t \in Node,
         h[t].left = NULL, h[t].right = NULL, h[t].parent = NULL
  PROVE  HeapTree(h, {t})
BY HeapLinks, NewRoot DEF HeapTree

(* A new leaf t of a. *)
LeafLinked(h, a, t, less) ==
  [h EXCEPT ![a] = IF less THEN [@ EXCEPT !.left = t] ELSE [@ EXCEPT !.right = t],
            ![t].parent = a]

NodeSet(g, h, n, a, b, c) ==
  /\ g \in Heap
  /\ \A x \in Node : /\ LeftOf(g)[x] = IF x = n THEN a ELSE LeftOf(h)[x]
                     /\ RightOf(g)[x] = IF x = n THEN b ELSE RightOf(h)[x]
                     /\ ParentOf(g)[x] = IF x = n THEN c ELSE ParentOf(h)[x]

LEMMA NodeIsSet ==
  ASSUME NEW h \in Heap, NEW n \in Node, NEW rec \in AVLNode, NEW g, ChangedAt(g, h, n, rec)
  PROVE  NodeSet(g, h, n, rec.left, rec.right, rec.parent)
BY OneNodeChanged DEF NodeSet

LEMMA LeafLinks ==
  ASSUME NEW h \in Heap, NEW a \in Node, NEW t \in Node, t # a,
         h[t].left = NULL, h[t].right = NULL, NEW less \in BOOLEAN,
         NEW g, g = LeafLinked(h, a, t, less)
  PROVE  \E half : /\ NodeSet(g, half, t, NULL, NULL, a)
                   /\ less => NodeSet(half, h, a, t, h[a].right, h[a].parent)
                   /\ ~ less => NodeSet(half, h, a, h[a].left, t, h[a].parent)
<1>1. t \in Link /\ a \in Link /\ h[a] \in AVLNode /\ h[t] \in AVLNode
  BY DEF Heap, Link
<1>2. PICK up : up = IF less THEN [h[a] EXCEPT !.left = t] ELSE [h[a] EXCEPT !.right = t]
  OBVIOUS
<1>3. PICK leaf : leaf = [h[t] EXCEPT !.parent = a]
  OBVIOUS
<1>4. /\ up \in AVLNode
      /\ up.left = IF less THEN t ELSE h[a].left
      /\ up.right = IF less THEN h[a].right ELSE t
      /\ up.parent = h[a].parent
  BY <1>1, <1>2 DEF AVLNode
<1>5. leaf \in AVLNode /\ leaf.left = NULL /\ leaf.right = NULL /\ leaf.parent = a
  BY <1>1, <1>3 DEF AVLNode
<1>6. PICK half : ChangedAt(half, h, a, up)
  BY DEF ChangedAt
<1>7. ChangedAt(g, half, t, leaf)
  BY <1>2, <1>3, <1>6 DEF ChangedAt, Heap, LeafLinked
<1>8. NodeSet(half, h, a, up.left, up.right, up.parent)
  <2>1. up \in AVLNode
    BY <1>4
  <2> QED
    BY <1>6, <2>1, NodeIsSet
<1>9. NodeSet(g, half, t, leaf.left, leaf.right, leaf.parent)
  <2>1. half \in Heap /\ leaf \in AVLNode
    BY <1>5, <1>8 DEF NodeSet
  <2> QED
    BY <1>7, <2>1, NodeIsSet
<1> QED
  BY <1>4, <1>5, <1>8, <1>9

LEMMA TreeLeaf ==
  ASSUME NEW h, NEW N, HeapTree(h, N), NEW a \in N, NEW t \in Node, t \notin N,
         h[t].left = NULL, h[t].right = NULL, NEW less \in BOOLEAN,
         less => h[a].left = NULL, ~ less => h[a].right = NULL,
         NEW g, g = LeafLinked(h, a, t, less)
  PROVE  HeapTree(g, N \cup {t}) /\ g[t].left = NULL /\ g[t].right = NULL
<1>1. h \in Heap /\ a \in Node /\ a # t /\ N \subseteq Node
  BY TreeLinks
<1>2. PICK half : /\ NodeSet(g, half, t, NULL, NULL, a)
                  /\ less => NodeSet(half, h, a, t, h[a].right, h[a].parent)
                  /\ ~ less => NodeSet(half, h, a, h[a].left, t, h[a].parent)
  BY <1>1, LeafLinks
<1>3. PICK l, r, p : l = LeftOf(h) /\ r = RightOf(h) /\ p = ParentOf(h)
  OBVIOUS
<1>4. PICK l2, r2, p2 : l2 = LeftOf(g) /\ r2 = RightOf(g) /\ p2 = ParentOf(g)
  OBVIOUS
<1>5. IsTree(N, l, r, p)
  BY <1>3 DEF HeapTree
<1>6. g \in Heap /\ l2[t] = NULL /\ r2[t] = NULL /\ p2[t] = a
  BY <1>2, <1>4 DEF NodeSet
<1>7. \A x \in N : /\ l2[x] = LeftOf(half)[x] /\ r2[x] = RightOf(half)[x]
                   /\ p2[x] = ParentOf(half)[x]
  BY <1>1, <1>2, <1>4 DEF NodeSet
<1>8. l[a] = h[a].left /\ r[a] = h[a].right /\ p[a] = h[a].parent
  BY <1>1, <1>3, HeapLinks
<1>9. g[t].left = NULL /\ g[t].right = NULL
  BY <1>4, <1>6, HeapLinks
<1>10. IsTree(N \cup {t}, l2, r2, p2)
  <2>1. CASE less
    <3>1. NodeSet(half, h, a, t, r[a], p[a]) /\ l[a] = NULL
      BY <1>2, <1>8, <2>1
    <3>2. /\ \A x \in N : l2[x] = IF x = a THEN t ELSE l[x]
          /\ \A x \in N : r2[x] = r[x]
          /\ \A x \in N : p2[x] = p[x]
      BY <1>1, <1>3, <1>7, <3>1 DEF NodeSet
    <3> QED
      BY <1>5, <1>6, <3>1, <3>2, NewLeaf
  <2>2. CASE ~ less
    <3>1. NodeSet(half, h, a, l[a], t, p[a]) /\ r[a] = NULL
      BY <1>2, <1>8, <2>2
    <3>2. /\ \A x \in N : r2[x] = IF x = a THEN t ELSE r[x]
          /\ \A x \in N : l2[x] = l[x]
          /\ \A x \in N : p2[x] = p[x]
      BY <1>1, <1>3, <1>7, <3>1 DEF NodeSet
    <3>3. IsTree(N, r, l, p)
      BY <1>5, Mirror
    <3>4. IsTree(N \cup {t}, r2, l2, p2)
      BY <1>6, <3>1, <3>2, <3>3, NewLeaf
    <3> QED
      BY <3>4, Mirror
  <2> QED
    BY <2>1, <2>2
<1> QED
  BY <1>4, <1>6, <1>9, <1>10 DEF HeapTree

(* A node t linked by hand above e. *)
HandLinked(h, a, t, e) ==
  LET placed == [h EXCEPT ![t].left = e, ![t].parent = a]
      above == SetParent(placed, e, t)
  IN  IF a = NULL THEN above ELSE [above EXCEPT ![a].right = t]

LEMMA HandLinks ==
  ASSUME NEW h \in Heap, NEW a \in Link, NEW t \in Node, t # a,
         h[t].right = NULL, NEW e \in Link, NEW g, g = HandLinked(h, a, t, e)
  PROVE  \E placed, above :
           /\ NodeSet(placed, h, t, e, NULL, a)
           /\ ParentSet(above, placed, e, t)
           /\ a = NULL => g = above
           /\ a # NULL => NodeSet(g, above, a, LeftOf(above)[a], t, ParentOf(above)[a])
<1>1. t \in Link /\ h[t] \in AVLNode
  BY DEF Heap, Link
<1>2. PICK placed : placed = [h EXCEPT ![t].left = e, ![t].parent = a]
  OBVIOUS
<1>3. PICK above : above = SetParent(placed, e, t)
  OBVIOUS
<1>4. PICK new : new = [h[t] EXCEPT !.left = e, !.parent = a]
  OBVIOUS
<1>5. new \in AVLNode /\ new.left = e /\ new.right = NULL /\ new.parent = a
  BY <1>1, <1>4 DEF AVLNode
<1>6. ChangedAt(placed, h, t, new)
  BY <1>2, <1>4 DEF ChangedAt, Heap
<1>7. NodeSet(placed, h, t, new.left, new.right, new.parent)
  <2>1. new \in AVLNode
    BY <1>5
  <2> QED
    BY <1>6, <2>1, NodeIsSet
<1>8. ParentSet(above, placed, e, t)
  <2>1. placed \in Heap
    BY <1>7 DEF NodeSet
  <2> QED
    BY <1>1, <1>3, <2>1, SetParentLinks
<1>9. a = NULL => g = above
  BY <1>2, <1>3 DEF HandLinked
<1>10. ASSUME a # NULL
       PROVE  NodeSet(g, above, a, LeftOf(above)[a], t, ParentOf(above)[a])
  <2>1. a \in Node /\ above \in Heap
    BY <1>8, <1>10 DEF ParentSet, Link
  <2>2. above[a] \in AVLNode
    BY <2>1 DEF Heap
  <2>3. PICK rec : rec = [above[a] EXCEPT !.right = t]
    OBVIOUS
  <2>4. /\ rec \in AVLNode
        /\ rec.left = above[a].left /\ rec.right = t /\ rec.parent = above[a].parent
    BY <1>1, <2>2, <2>3 DEF AVLNode
  <2>5. g = [above EXCEPT ![a].right = t]
    BY <1>2, <1>3, <1>10 DEF HandLinked
  <2>6. ChangedAt(g, above, a, rec)
    BY <2>1, <2>3, <2>5 DEF ChangedAt, Heap
  <2>7. NodeSet(g, above, a, rec.left, rec.right, rec.parent)
    <3>1. rec \in AVLNode
      BY <2>4
    <3> QED
      BY <2>1, <2>6, <3>1, NodeIsSet
  <2>8. LeftOf(above)[a] = above[a].left /\ ParentOf(above)[a] = above[a].parent
    BY <2>1, HeapLinks
  <2> QED
    BY <2>4, <2>7, <2>8
<1> QED
  BY <1>5, <1>7, <1>8, <1>9, <1>10

(* Linking by hand, at the root when a is NULL. *)
LEMMA TreePlaced ==
  ASSUME NEW h, NEW N, HeapTree(h, N), NEW a \in N \cup {NULL}, NEW t \in Node, t \notin N,
         h[t].right = NULL,
         NEW e, a = NULL => (e \in N /\ h[e].parent = NULL) \/ (e = NULL /\ N = {}),
         a # NULL => e = h[a].right,
         NEW g, g = HandLinked(h, a, t, e)
  PROVE  HeapTree(g, N \cup {t})
<1>1. h \in Heap /\ N \subseteq Node /\ NULL \notin Node /\ a \in Link /\ t \in Link
  BY NodeAssumption DEF HeapTree, IsTree, Link
<1>2. e \in N \cup {NULL} /\ e \in Link
  <2>1. CASE a = NULL
    BY <1>1, <2>1 DEF Link
  <2>2. CASE a # NULL
    BY <1>1, <2>2, TreeLinks DEF Link
  <2> QED
    BY <2>1, <2>2
<1>3. a # t /\ e # t /\ t # NULL
  BY <1>1, <1>2
<1>4. PICK placed, above :
        /\ NodeSet(placed, h, t, e, NULL, a)
        /\ ParentSet(above, placed, e, t)
        /\ a = NULL => g = above
        /\ a # NULL => NodeSet(g, above, a, LeftOf(above)[a], t, ParentOf(above)[a])
  BY <1>1, <1>2, <1>3, HandLinks
<1>5. PICK l, r, p : l = LeftOf(h) /\ r = RightOf(h) /\ p = ParentOf(h)
  OBVIOUS
<1>6. PICK l2, r2, p2 : l2 = LeftOf(g) /\ r2 = RightOf(g) /\ p2 = ParentOf(g)
  OBVIOUS
<1>7. PICK l1, r1, p1 : l1 = LeftOf(above) /\ r1 = RightOf(above) /\ p1 = ParentOf(above)
  OBVIOUS
<1>8. IsTree(N, l, r, p)
  BY <1>5 DEF HeapTree
<1>9. \A x \in Node : /\ l1[x] = IF x = t THEN e ELSE l[x]
                      /\ r1[x] = IF x = t THEN NULL ELSE r[x]
                      /\ p1[x] = IF x = e THEN t ELSE IF x = t THEN a ELSE p[x]
  BY <1>4, <1>5, <1>7 DEF NodeSet, ParentSet
<1>10. /\ g \in Heap
       /\ \A x \in Node : /\ l2[x] = l1[x]
                          /\ r2[x] = IF x = a THEN t ELSE r1[x]
                          /\ p2[x] = p1[x]
  <2>1. CASE a = NULL
    BY <1>1, <1>4, <1>6, <1>7, <2>1 DEF ParentSet
  <2>2. CASE a # NULL
    BY <1>4, <1>6, <1>7, <2>2 DEF NodeSet
  <2> QED
    BY <2>1, <2>2
<1>11. /\ \A x \in N : l2[x] = l[x]
       /\ \A x \in N : r2[x] = IF x = a THEN t ELSE r[x]
       /\ \A x \in N : p2[x] = IF x = e THEN t ELSE p[x]
       /\ l2[t] = e /\ r2[t] = NULL /\ p2[t] = a
  BY <1>1, <1>3, <1>9, <1>10
<1>12. /\ a = NULL => (e \in N /\ p[e] = NULL) \/ (e = NULL /\ N = {})
       /\ a # NULL => e = r[a]
  <2>1. \A x \in N : p[x] = h[x].parent /\ r[x] = h[x].right
    BY <1>1, <1>5, HeapLinks
  <2> QED
    BY <1>1, <2>1
<1>13. IsTree(N \cup {t}, l2, r2, p2)
  <2>1. PlacedLinks(N, l, r, p, a, t, e, l2, r2, p2)
    BY <1>11, <1>12 DEF PlacedLinks
  <2> QED
    BY <1>8, <2>1, PlacedAbove
<1> QED
  BY <1>6, <1>10, <1>13 DEF HeapTree

(* avl_del of a node without a right child, at the root when q is NULL. *)
LEMMA TreeSpliced ==
  ASSUME NEW h, NEW N, HeapTree(h, N), NEW n \in N, h[n].right = NULL,
         NEW c, c = h[n].left, NEW q, q = h[n].parent,
         NEW up, up = SetParent(h, c, q),
         NEW g, q = NULL => g = up, q # NULL => g = Relink(up, q, n, c)
  PROVE  /\ HeapTree(g, N \ {n})
         /\ q = NULL => (c = NULL /\ N \ {n} = {}) \/ (c \in N \ {n} /\ g[c].parent = NULL)
         /\ q # NULL => q \in N \ {n}
<1>1. /\ h \in Heap /\ N \subseteq Node /\ n \in Node /\ NULL \notin N
      /\ c \in N \cup {NULL} /\ q \in N \cup {NULL} /\ c # n /\ q # n
      /\ c # NULL => c # q
      /\ q # NULL => (h[q].left = n <=> h[q].right # n)
  BY TreeLinks
<1>2. c \in Link /\ q \in Link /\ n \in Link
  BY <1>1 DEF Link
<1>3. ParentSet(up, h, c, q)
  BY <1>1, <1>2, SetParentLinks
<1>4. up \in Heap
  BY <1>3 DEF ParentSet
<1>5. q # NULL => Relinked(g, up, q, n, c)
  <2>1. ASSUME q # NULL  PROVE q \in Node /\ g = Relink(up, q, n, c)
    BY <1>1, <2>1
  <2> QED
    BY <1>2, <1>4, <2>1, RelinkLinks
<1>6. PICK l, r, p : l = LeftOf(h) /\ r = RightOf(h) /\ p = ParentOf(h)
  OBVIOUS
<1>7. PICK l2, r2, p2 : l2 = LeftOf(g) /\ r2 = RightOf(g) /\ p2 = ParentOf(g)
  OBVIOUS
<1>8. IsTree(N, l, r, p)
  BY <1>6 DEF HeapTree
<1>9. \A x \in N : l[x] = h[x].left /\ r[x] = h[x].right /\ p[x] = h[x].parent
  BY <1>1, <1>6, HeapLinks
<1>10. q # NULL => up[q].left = l[q]
  <2>1. ASSUME q # NULL  PROVE up[q].left = LeftOf(up)[q] /\ LeftOf(up)[q] = l[q]
    BY <1>1, <1>3, <1>4, <1>6, <2>1, HeapLinks DEF ParentSet
  <2> QED
    BY <2>1
<1>11. /\ g \in Heap
       /\ \A x \in N : /\ l2[x] = IF x = q /\ l[q] = n THEN c ELSE l[x]
                       /\ r2[x] = IF x = q /\ l[q] # n THEN c ELSE r[x]
                       /\ p2[x] = IF x = c THEN q ELSE p[x]
  <2>1. CASE q = NULL
    BY <1>1, <1>3, <1>6, <1>7, <2>1 DEF ParentSet
  <2>2. CASE q # NULL
    BY <1>1, <1>3, <1>5, <1>6, <1>7, <1>10, <2>2 DEF ParentSet, Relinked
  <2> QED
    BY <2>1, <2>2
<1>12. PICK M : M = N \ {n}
  OBVIOUS
<1>13. IsTree(M, l2, r2, p2)
  <2>1. /\ \A x \in M : l2[x] = IF x = q /\ l[q] = n THEN c ELSE l[x]
        /\ \A x \in M : r2[x] = IF x = q /\ l[q] # n THEN c ELSE r[x]
        /\ \A x \in M : p2[x] = IF x = c THEN q ELSE p[x]
    BY <1>11, <1>12
  <2>2. r[n] = NULL /\ c = l[n] /\ q = p[n]
    BY <1>9
  <2> QED
    BY <1>8, <1>12, <2>1, <2>2, SplicedOut
<1>14. HeapTree(g, N \ {n})
  BY <1>7, <1>11, <1>12, <1>13 DEF HeapTree
<1>15. ASSUME q = NULL
       PROVE  (c = NULL /\ N \ {n} = {}) \/ (c \in N \ {n} /\ g[c].parent = NULL)
  <2>1. CASE c = NULL
    <3>1. p[n] = NULL /\ l[n] = NULL /\ r[n] = NULL
      BY <1>9, <1>15, <2>1
    <3>2. N = {n}
      BY <1>8, <3>1, LonelyRoot
    <3> QED
      BY <2>1, <3>2
  <2>2. CASE c # NULL
    <3>1. c \in N /\ c \in Node /\ c # n
      BY <1>1, <2>2
    <3>2. p2[c] = NULL /\ p2[c] = g[c].parent
      BY <1>7, <1>11, <1>15, <3>1, HeapLinks
    <3> QED
      BY <3>1, <3>2
  <2> QED
    BY <2>1, <2>2
<1> QED
  BY <1>1, <1>14, <1>15

(* The links and the sizes after a node v took the place of n. *)
SwappedTo(g, h, N, n, v) ==
  /\ g \in Heap
  /\ \A x \in (N \ {n}) \cup {v} :
       /\ LeftOf(g)[x] = IF x = v THEN h[n].left
                         ELSE IF x = h[n].parent /\ LeftOf(h)[x] = n THEN v
                         ELSE LeftOf(h)[x]
       /\ RightOf(g)[x] = IF x = v THEN h[n].right
                          ELSE IF x = h[n].parent /\ LeftOf(h)[x] # n THEN v
                          ELSE RightOf(h)[x]
       /\ ParentOf(g)[x] = IF x = v THEN h[n].parent
                           ELSE IF x = h[n].left \/ x = h[n].right THEN v
                           ELSE ParentOf(h)[x]
       /\ g[x].cnt = IF x = v THEN h[n].cnt ELSE h[x].cnt

LEMMA SwappedLinks ==
  ASSUME NEW N, HeapTree(heap, N), NEW n \in N, NEW v \in Node, v \notin N,
         NEW g, g = Swapped(n, v)
  PROVE  SwappedTo(g, heap, N, n, v)
<1>1. PICK h : h = heap
  OBVIOUS
<1>2. PICK q, a, b : q = h[n].parent /\ a = h[n].left /\ b = h[n].right
  OBVIOUS
<1>3. HeapTree(h, N)
  BY <1>1
<1>4. /\ h \in Heap /\ N \subseteq Node /\ n \in Node /\ NULL \notin N
      /\ a \in N \cup {NULL} /\ b \in N \cup {NULL} /\ q \in N \cup {NULL}
      /\ a # n /\ b # n /\ q # n
      /\ a # NULL => h[a].parent = n
      /\ b # NULL => h[b].parent = n
      /\ q # NULL => (h[q].left = n <=> h[q].right # n)
  BY <1>2, <1>3, TreeLinks
<1>5. a \in Link /\ b \in Link /\ q \in Link /\ n \in Link /\ v \in Link
  BY <1>4 DEF Link
<1>6. v # NULL /\ v # a /\ v # b /\ v # q /\ v # n
  BY <1>4, NodeAssumption
<1>7. PICK rec : rec = h[n]
  OBVIOUS
<1>8. rec \in AVLNode
  BY <1>4, <1>7 DEF Heap
<1>9. PICK copy : ChangedAt(copy, h, v, rec)
  BY DEF ChangedAt
<1>10. NodeSet(copy, h, v, a, b, q)
  <2>1. NodeSet(copy, h, v, rec.left, rec.right, rec.parent)
    BY <1>4, <1>8, <1>9, NodeIsSet
  <2> QED
    BY <1>2, <1>7, <2>1
<1>11. PICK half : half = SetParent(copy, a, v)
  OBVIOUS
<1>12. ParentSet(half, copy, a, v)
  <2>1. copy \in Heap
    BY <1>10 DEF NodeSet
  <2> QED
    BY <1>5, <1>11, <2>1, SetParentLinks
<1>13. PICK adopted : adopted = SetParent(half, b, v)
  OBVIOUS
<1>14. ParentSet(adopted, half, b, v)
  <2>1. half \in Heap
    BY <1>12 DEF ParentSet
  <2> QED
    BY <1>5, <1>13, <2>1, SetParentLinks
<1>15. g = IF q = NULL THEN adopted ELSE Relink(adopted, q, n, v)
  <2>1. copy = [h EXCEPT ![v] = h[n]]
    BY <1>7, <1>9 DEF ChangedAt
  <2> QED
    BY <1>1, <1>2, <1>11, <1>13, <2>1 DEF Swapped
<1>16. adopted \in Heap
  BY <1>14 DEF ParentSet
<1>17. q # NULL => Relinked(g, adopted, q, n, v)
  <2>1. ASSUME q # NULL  PROVE q \in Node /\ g = Relink(adopted, q, n, v)
    BY <1>4, <1>15, <2>1
  <2> QED
    BY <1>5, <1>16, <2>1, RelinkLinks
<1>18. PICK l, r, p : l = LeftOf(h) /\ r = RightOf(h) /\ p = ParentOf(h)
  OBVIOUS
<1>19. PICK l1, r1, p1 : l1 = LeftOf(adopted) /\ r1 = RightOf(adopted) /\ p1 = ParentOf(adopted)
  OBVIOUS
<1>20. PICK l2, r2, p2 : l2 = LeftOf(g) /\ r2 = RightOf(g) /\ p2 = ParentOf(g)
  OBVIOUS
<1>21. \A x \in Node : /\ l1[x] = IF x = v THEN a ELSE l[x]
                       /\ r1[x] = IF x = v THEN b ELSE r[x]
                       /\ p1[x] = IF x = b THEN v ELSE IF x = a THEN v
                                  ELSE IF x = v THEN q ELSE p[x]
  BY <1>10, <1>12, <1>14, <1>18, <1>19 DEF NodeSet, ParentSet
<1>22. q # NULL => adopted[q].left = l[q]
  <2>1. ASSUME q # NULL  PROVE adopted[q].left = l1[q] /\ l1[q] = l[q]
    BY <1>4, <1>6, <1>16, <1>19, <1>21, <2>1, HeapLinks
  <2> QED
    BY <2>1
<1>23. /\ g \in Heap
       /\ \A x \in Node : /\ l2[x] = IF x = q /\ l[q] = n THEN v ELSE l1[x]
                          /\ r2[x] = IF x = q /\ l[q] # n THEN v ELSE r1[x]
                          /\ p2[x] = p1[x]
  <2>1. CASE q = NULL
    BY <1>15, <1>16, <1>19, <1>20, <2>1, NodeAssumption
  <2>2. CASE q # NULL
    BY <1>17, <1>19, <1>20, <1>22, <2>2 DEF Relinked
  <2> QED
    BY <2>1, <2>2
<1>24. SameCounts(adopted, copy)
  <2>1. copy \in Heap /\ half \in Heap
    BY <1>10, <1>12 DEF NodeSet, ParentSet
  <2>2. SameCounts(half, copy) /\ SameCounts(adopted, half)
    BY <1>5, <1>11, <1>13, <2>1, SetParentCounts
  <2> QED
    BY <2>2 DEF SameCounts
<1>25. SameCounts(g, adopted)
  <2>1. CASE q = NULL
    BY <1>15, <2>1 DEF SameCounts
  <2>2. CASE q # NULL
    <3>1. q \in Node /\ g = Relink(adopted, q, n, v)
      BY <1>4, <1>15, <2>2
    <3> QED
      BY <1>16, <3>1, RelinkCounts
  <2> QED
    BY <2>1, <2>2
<1>26. \A x \in Node : g[x].cnt = IF x = v THEN h[n].cnt ELSE h[x].cnt
  <2>1. \A x \in Node : copy[x] = IF x = v THEN rec ELSE h[x]
    BY <1>4, <1>9 DEF ChangedAt, Heap
  <2> QED
    BY <1>7, <1>24, <1>25, <2>1 DEF SameCounts
<1>27. ASSUME NEW x \in (N \ {n}) \cup {v}
       PROVE  /\ l2[x] = IF x = v THEN a ELSE IF x = q /\ l[x] = n THEN v ELSE l[x]
              /\ r2[x] = IF x = v THEN b ELSE IF x = q /\ l[x] # n THEN v ELSE r[x]
              /\ p2[x] = IF x = v THEN q ELSE IF x = a \/ x = b THEN v ELSE p[x]
              /\ g[x].cnt = IF x = v THEN h[n].cnt ELSE h[x].cnt
  BY <1>4, <1>6, <1>21, <1>23, <1>26
<1> QED
  BY <1>1, <1>2, <1>18, <1>20, <1>23, <1>27 DEF SwappedTo

(* A node v takes the place of n: the copy in avl_del. *)
LEMMA TreeSwapped ==
  ASSUME NEW N, HeapTree(heap, N), NEW n \in N, NEW v \in Node, v \notin N,
         NEW g, g = Swapped(n, v)
  PROVE  /\ HeapTree(g, (N \ {n}) \cup {v})
         /\ g[v].parent = heap[n].parent
         /\ \A x \in N \ {n} : heap[x].parent = NULL => g[x].parent = NULL
<1>1. PICK h : h = heap
  OBVIOUS
<1>2. PICK q, a, b : q = h[n].parent /\ a = h[n].left /\ b = h[n].right
  OBVIOUS
<1>3. HeapTree(h, N)
  BY <1>1
<1>4. /\ h \in Heap /\ N \subseteq Node /\ n \in Node /\ NULL \notin N
      /\ a \in N \cup {NULL} /\ b \in N \cup {NULL}
      /\ a # NULL => h[a].parent = n
      /\ b # NULL => h[b].parent = n
  BY <1>2, <1>3, TreeLinks
<1>5. n # NULL /\ v # n
  BY <1>4, NodeAssumption
<1>6. SwappedTo(g, h, N, n, v)
  BY <1>1, SwappedLinks
<1>7. PICK l, r, p : l = LeftOf(h) /\ r = RightOf(h) /\ p = ParentOf(h)
  OBVIOUS
<1>8. PICK l2, r2, p2 : l2 = LeftOf(g) /\ r2 = RightOf(g) /\ p2 = ParentOf(g)
  OBVIOUS
<1>9. IsTree(N, l, r, p)
  BY <1>3, <1>7 DEF HeapTree
<1>10. l[n] = a /\ r[n] = b /\ p[n] = q
  BY <1>2, <1>4, <1>7, HeapLinks
<1>11. PICK M : M = (N \ {n}) \cup {v}
  OBVIOUS
<1>12. /\ \A x \in M : l2[x] = IF x = v THEN a ELSE IF x = q /\ l[q] = n THEN v ELSE l[x]
       /\ \A x \in M : r2[x] = IF x = v THEN b ELSE IF x = q /\ l[q] # n THEN v ELSE r[x]
       /\ \A x \in M : p2[x] = IF x = v THEN q ELSE IF x = a \/ x = b THEN v ELSE p[x]
  BY <1>2, <1>6, <1>7, <1>8, <1>11 DEF SwappedTo
<1>13. IsTree(M, l2, r2, p2)
  BY <1>9, <1>10, <1>11, <1>12, SwappedIn
<1>14. g \in Heap
  BY <1>6 DEF SwappedTo
<1>15. HeapTree(g, M)
  BY <1>8, <1>13, <1>14 DEF HeapTree
<1>16. g[v].parent = q
  <2>1. p2[v] = q
    BY <1>11, <1>12
  <2> QED
    BY <1>8, <1>14, <2>1, HeapLinks
<1>17. ASSUME NEW x \in N \ {n}, h[x].parent = NULL  PROVE g[x].parent = NULL
  <2>1. x \in M /\ x \in Node /\ x # v /\ x # a /\ x # b
    BY <1>4, <1>5, <1>11, <1>17
  <2>2. p[x] = NULL
    BY <1>4, <1>7, <1>17, <2>1, HeapLinks
  <2>3. p2[x] = NULL
    BY <1>12, <2>1, <2>2
  <2> QED
    BY <1>8, <1>14, <2>1, <2>3, HeapLinks
<1> QED
  BY <1>1, <1>2, <1>11, <1>15, <1>16, <1>17

(* A left rotation at n, once the link that led to n leads to its right    *)
(* child m.                                                                *)
LEMMA TreeTurned ==
  ASSUME NEW h, NEW N, HeapTree(h, N), NEW n \in N, NEW m, m = h[n].right, m # NULL,
         NEW q, q = h[n].parent, NEW half, half = rot_left(h, n),
         NEW g, q = NULL => g = half, q # NULL => g = Relink(half, q, n, m)
  PROVE  /\ HeapTree(g, N) /\ m \in N
         /\ half[m].parent = q /\ g[m].parent = q
         /\ q # NULL => q \in N /\ half \in Heap /\ half[q].left = h[q].left
         /\ q # NULL /\ h[q].left = n => g[q].left = m
         /\ q # NULL /\ h[q].left # n => g[q].right = m
<1>1. /\ h \in Heap /\ N \subseteq Node /\ n \in Node /\ NULL \notin N
      /\ m \in N /\ m \in Node /\ q \in N \cup {NULL} /\ m # n /\ q # n /\ m # q
      /\ h[m].parent = n
  BY TreeLinks
<1>2. PICK s : s = h[m].left
  OBVIOUS
<1>3. s \in N \cup {NULL} /\ s # m /\ s # n
  BY <1>1, <1>2, TreeLinks
<1>4. s \in Link /\ q \in Link /\ n \in Link /\ m \in Link
  BY <1>1, <1>3 DEF Link
<1>5. RotatedLeft(half, h, n, m, s)
  BY <1>1, <1>2, <1>3, <1>4, RotLeftLinks
<1>6. half \in Heap
  BY <1>5 DEF RotatedLeft
<1>7. q # NULL => Relinked(g, half, q, n, m)
  <2>1. ASSUME q # NULL  PROVE q \in Node /\ g = Relink(half, q, n, m)
    BY <1>1, <2>1
  <2> QED
    BY <1>4, <1>6, <2>1, RelinkLinks
<1>8. PICK l, r, p : l = LeftOf(h) /\ r = RightOf(h) /\ p = ParentOf(h)
  OBVIOUS
<1>9. PICK l1, r1, p1 : l1 = LeftOf(half) /\ r1 = RightOf(half) /\ p1 = ParentOf(half)
  OBVIOUS
<1>10. PICK l2, r2, p2 : l2 = LeftOf(g) /\ r2 = RightOf(g) /\ p2 = ParentOf(g)
  OBVIOUS
<1>11. IsTree(N, l, r, p)
  BY <1>8 DEF HeapTree
<1>12. m = r[n] /\ s = l[m] /\ q = p[n]
  BY <1>1, <1>2, <1>8, HeapLinks
<1>13. \A x \in Node : /\ l1[x] = IF x = m THEN n ELSE l[x]
                       /\ r1[x] = IF x = n THEN s ELSE r[x]
                       /\ p1[x] = IF x = n THEN m ELSE IF x = m THEN q
                                  ELSE IF x = s THEN n ELSE p[x]
  BY <1>5, <1>8, <1>9 DEF RotatedLeft
<1>14. q # NULL => half[q].left = l[q] /\ l[q] = h[q].left
  <2>1. ASSUME q # NULL
        PROVE  half[q].left = l1[q] /\ l1[q] = l[q] /\ l[q] = h[q].left
    <3>1. q \in Node /\ q # m /\ q # n
      BY <1>1, <2>1
    <3>2. half[q].left = l1[q] /\ l[q] = h[q].left
      BY <1>1, <1>6, <1>8, <1>9, <3>1, HeapLinks
    <3> QED
      BY <1>13, <3>1, <3>2
  <2> QED
    BY <2>1
<1>15. /\ g \in Heap
       /\ \A x \in Node : /\ l2[x] = IF x = q /\ l[q] = n THEN m ELSE l1[x]
                          /\ r2[x] = IF x = q /\ l[q] # n THEN m ELSE r1[x]
                          /\ p2[x] = p1[x]
  <2>1. CASE q = NULL
    BY <1>6, <1>9, <1>10, <2>1, NodeAssumption
  <2>2. CASE q # NULL
    BY <1>7, <1>9, <1>10, <1>14, <2>2 DEF Relinked
  <2> QED
    BY <2>1, <2>2
<1>16. \A x \in N : x \in Node
  BY <1>1
<1>17. /\ \A x \in N : l2[x] = IF x = m THEN n ELSE IF x = q /\ l[q] = n THEN m ELSE l[x]
       /\ \A x \in N : r2[x] = IF x = n THEN s ELSE IF x = q /\ l[q] # n THEN m ELSE r[x]
       /\ \A x \in N : p2[x] = IF x = n THEN m ELSE IF x = m THEN q
                               ELSE IF x = s THEN n ELSE p[x]
  BY <1>1, <1>13, <1>15, <1>16
<1>18. IsTree(N, l2, r2, p2)
  BY <1>1, <1>11, <1>12, <1>17, Turn
<1>19. HeapTree(g, N)
  BY <1>10, <1>15, <1>18 DEF HeapTree
<1>20. half[m].parent = q /\ g[m].parent = q
  <2>1. p1[m] = q /\ p2[m] = q
    BY <1>1, <1>13, <1>15
  <2> QED
    BY <1>1, <1>6, <1>9, <1>10, <1>15, <2>1, HeapLinks
<1>21. ASSUME q # NULL
       PROVE  (l[q] = n => g[q].left = m) /\ (l[q] # n => g[q].right = m)
  <2>1. q \in Node
    BY <1>1, <1>21
  <2>2. (l[q] = n => l2[q] = m) /\ (l[q] # n => r2[q] = m)
    BY <1>15, <2>1
  <2>3. l2[q] = g[q].left /\ r2[q] = g[q].right
    BY <1>10, <1>15, <2>1, HeapLinks
  <2> QED
    BY <2>2, <2>3
<1> QED
  BY <1>1, <1>6, <1>14, <1>19, <1>20, <1>21

(* The mirror image, with m the left child.                                *)
LEMMA TreeTurnedBack ==
  ASSUME NEW h, NEW N, HeapTree(h, N), NEW n \in N, NEW m, m = h[n].left, m # NULL,
         NEW q, q = h[n].parent, NEW half, half = rot_right(h, n),
         NEW g, q = NULL => g = half, q # NULL => g = Relink(half, q, n, m)
  PROVE  /\ HeapTree(g, N) /\ m \in N
         /\ half[m].parent = q /\ g[m].parent = q
         /\ q # NULL => q \in N /\ half \in Heap /\ half[q].left = h[q].left
         /\ q # NULL /\ h[q].left = n => g[q].left = m
         /\ q # NULL /\ h[q].left # n => g[q].right = m
<1>1. /\ h \in Heap /\ N \subseteq Node /\ n \in Node /\ NULL \notin N
      /\ m \in N /\ m \in Node /\ q \in N \cup {NULL} /\ m # n /\ q # n /\ m # q
      /\ h[m].parent = n
  BY TreeLinks
<1>2. PICK s : s = h[m].right
  OBVIOUS
<1>3. s \in N \cup {NULL} /\ s # m /\ s # n
  BY <1>1, <1>2, TreeLinks
<1>4. s \in Link /\ q \in Link /\ n \in Link /\ m \in Link
  BY <1>1, <1>3 DEF Link
<1>5. RotatedRight(half, h, n, m, s)
  BY <1>1, <1>2, <1>3, <1>4, RotRightLinks
<1>6. half \in Heap
  BY <1>5 DEF RotatedRight
<1>7. q # NULL => Relinked(g, half, q, n, m)
  <2>1. ASSUME q # NULL  PROVE q \in Node /\ g = Relink(half, q, n, m)
    BY <1>1, <2>1
  <2> QED
    BY <1>4, <1>6, <2>1, RelinkLinks
<1>8. PICK l, r, p : l = LeftOf(h) /\ r = RightOf(h) /\ p = ParentOf(h)
  OBVIOUS
<1>9. PICK l1, r1, p1 : l1 = LeftOf(half) /\ r1 = RightOf(half) /\ p1 = ParentOf(half)
  OBVIOUS
<1>10. PICK l2, r2, p2 : l2 = LeftOf(g) /\ r2 = RightOf(g) /\ p2 = ParentOf(g)
  OBVIOUS
<1>11. IsTree(N, l, r, p)
  BY <1>8 DEF HeapTree
<1>12. m = l[n] /\ s = r[m] /\ q = p[n]
  BY <1>1, <1>2, <1>8, HeapLinks
<1>13. \A x \in Node : /\ l1[x] = IF x = n THEN s ELSE l[x]
                       /\ r1[x] = IF x = m THEN n ELSE r[x]
                       /\ p1[x] = IF x = n THEN m ELSE IF x = m THEN q
                                  ELSE IF x = s THEN n ELSE p[x]
  BY <1>5, <1>8, <1>9 DEF RotatedRight
<1>14. q # NULL => half[q].left = l[q] /\ l[q] = h[q].left
  <2>1. ASSUME q # NULL
        PROVE  half[q].left = l1[q] /\ l1[q] = l[q] /\ l[q] = h[q].left
    <3>1. q \in Node /\ q # m /\ q # n
      BY <1>1, <2>1
    <3>2. half[q].left = l1[q] /\ l[q] = h[q].left
      BY <1>1, <1>6, <1>8, <1>9, <3>1, HeapLinks
    <3> QED
      BY <1>13, <3>1, <3>2
  <2> QED
    BY <2>1
<1>15. /\ g \in Heap
       /\ \A x \in Node : /\ l2[x] = IF x = q /\ l[q] = n THEN m ELSE l1[x]
                          /\ r2[x] = IF x = q /\ l[q] # n THEN m ELSE r1[x]
                          /\ p2[x] = p1[x]
  <2>1. CASE q = NULL
    BY <1>6, <1>9, <1>10, <2>1, NodeAssumption
  <2>2. CASE q # NULL
    BY <1>7, <1>9, <1>10, <1>14, <2>2 DEF Relinked
  <2> QED
    BY <2>1, <2>2
<1>16. \A x \in N : x \in Node
  BY <1>1
<1>17. /\ \A x \in N : l2[x] = IF x = n THEN s ELSE IF x = q /\ l[q] = n THEN m ELSE l[x]
       /\ \A x \in N : r2[x] = IF x = m THEN n ELSE IF x = q /\ l[q] # n THEN m ELSE r[x]
       /\ \A x \in N : p2[x] = IF x = n THEN m ELSE IF x = m THEN q
                               ELSE IF x = s THEN n ELSE p[x]
  BY <1>1, <1>13, <1>15, <1>16
<1>18. IsTree(N, l2, r2, p2)
  BY <1>1, <1>11, <1>12, <1>17, TurnBack
<1>19. HeapTree(g, N)
  BY <1>10, <1>15, <1>18 DEF HeapTree
<1>20. half[m].parent = q /\ g[m].parent = q
  <2>1. p1[m] = q /\ p2[m] = q
    BY <1>1, <1>13, <1>15
  <2> QED
    BY <1>1, <1>6, <1>9, <1>10, <1>15, <2>1, HeapLinks
<1>21. ASSUME q # NULL
       PROVE  (l[q] = n => g[q].left = m) /\ (l[q] # n => g[q].right = m)
  <2>1. q \in Node
    BY <1>1, <1>21
  <2>2. (l[q] = n => l2[q] = m) /\ (l[q] # n => r2[q] = m)
    BY <1>15, <2>1
  <2>3. l2[q] = g[q].left /\ r2[q] = g[q].right
    BY <1>10, <1>15, <2>1, HeapLinks
  <2> QED
    BY <2>2, <2>3
<1> QED
  BY <1>1, <1>6, <1>14, <1>19, <1>20, <1>21

(* Relinking a node to where it is. *)
LEMMA TreeRelinked ==
  ASSUME NEW h, NEW N, HeapTree(h, N), NEW n \in N,
         NEW q, q = h[n].parent, q # NULL, NEW g, g = Relink(h, q, n, n)
  PROVE  HeapTree(g, N)
<1>1. /\ h \in Heap /\ N \subseteq Node /\ q \in N /\ q \in Node /\ n \in Link
      /\ h[q].left = n <=> h[q].right # n
  BY TreeLinks DEF Link
<1>2. Relinked(g, h, q, n, n)
  BY <1>1, RelinkLinks
<1>3. PICK l, r, p : l = LeftOf(h) /\ r = RightOf(h) /\ p = ParentOf(h)
  OBVIOUS
<1>4. PICK l2, r2, p2 : l2 = LeftOf(g) /\ r2 = RightOf(g) /\ p2 = ParentOf(g)
  OBVIOUS
<1>5. l[q] = h[q].left /\ r[q] = h[q].right
  BY <1>1, <1>3, HeapLinks
<1>6. \A x \in N : l2[x] = l[x] /\ r2[x] = r[x] /\ p2[x] = p[x]
  BY <1>1, <1>2, <1>3, <1>4, <1>5 DEF Relinked
<1>7. IsTree(N, l2, r2, p2)
  BY <1>3, <1>6, SameTree DEF HeapTree
<1> QED
  BY <1>2, <1>4, <1>7 DEF HeapTree, Relinked

-----------------------------------------------------------------------------
(* The nodes at and below one.                                             *)

(* With every node S has its children. *)
WithChildren(h, S) ==
  \A x \in S : /\ h[x].left # NULL => h[x].left \in S
               /\ h[x].right # NULL => h[x].right \in S

(* What every such set has if it has m. *)
Reached(h, N, m) ==
  {x \in N : \A S \in SUBSET N : m \in S /\ WithChildren(h, S) => x \in S}

ReachedFrom(h, N, m) == IF m = NULL THEN {} ELSE Reached(h, N, m)

LEMMA ReachedStep ==
  ASSUME NEW h, NEW N, HeapTree(h, N), NEW m \in N
  PROVE  ReachedFrom(h, N, m) =
           {m} \cup ReachedFrom(h, N, h[m].left) \cup ReachedFrom(h, N, h[m].right)
<1>1. NULL \notin N
  BY TreeLinks
<1>2. PICK a, b : a = h[m].left /\ b = h[m].right
  OBVIOUS
<1>3. a \in N \cup {NULL} /\ b \in N \cup {NULL}
  BY <1>2, TreeLinks
<1>4. PICK A, B : A = ReachedFrom(h, N, a) /\ B = ReachedFrom(h, N, b)
  OBVIOUS
<1>5. A \subseteq N /\ B \subseteq N
  BY <1>4 DEF ReachedFrom, Reached
<1>6. /\ a # NULL => a \in A /\ WithChildren(h, A)
      /\ b # NULL => b \in B /\ WithChildren(h, B)
      /\ a = NULL => A = {}
      /\ b = NULL => B = {}
  <2>1. ASSUME NEW c \in N  PROVE c \in Reached(h, N, c)
    BY DEF Reached
  <2>2. ASSUME NEW c \in N  PROVE WithChildren(h, Reached(h, N, c))
    <3> SUFFICES ASSUME NEW x \in Reached(h, N, c), NEW y \in {h[x].left, h[x].right},
                        y # NULL
                 PROVE  y \in Reached(h, N, c)
      BY DEF WithChildren
    <3>1. x \in N
      BY DEF Reached
    <3>2. y \in N
      BY <3>1, TreeLinks
    <3>3. ASSUME NEW S \in SUBSET N, c \in S, WithChildren(h, S)  PROVE y \in S
      <4>1. x \in S
        BY <3>3 DEF Reached
      <4> QED
        BY <3>3, <4>1 DEF WithChildren
    <3> QED
      BY <3>2, <3>3 DEF Reached
  <2> QED
    BY <1>3, <1>4, <2>1, <2>2 DEF ReachedFrom
<1>7. PICK T : T = {m} \cup A \cup B
  OBVIOUS
<1>8. T \in SUBSET N /\ m \in T /\ WithChildren(h, T)
  <2>1. T \in SUBSET N /\ m \in T
    BY <1>5, <1>7
  <2>2. ASSUME NEW x \in T  PROVE /\ h[x].left # NULL => h[x].left \in T
                                  /\ h[x].right # NULL => h[x].right \in T
    <3>1. CASE x = m
      BY <1>2, <1>6, <1>7, <3>1
    <3>2. CASE x \in A
      BY <1>6, <1>7, <3>2 DEF WithChildren
    <3>3. CASE x \in B
      BY <1>6, <1>7, <3>3 DEF WithChildren
    <3> QED
      BY <1>7, <3>1, <3>2, <3>3
  <2> QED
    BY <2>1, <2>2 DEF WithChildren
<1>9. Reached(h, N, m) \subseteq T
  BY <1>8 DEF Reached
<1>10. ASSUME NEW x \in T  PROVE x \in Reached(h, N, m)
  <2> SUFFICES ASSUME NEW S \in SUBSET N, m \in S, WithChildren(h, S)  PROVE x \in S
    BY <1>8 DEF Reached
  <2>1. (a # NULL => a \in S) /\ (b # NULL => b \in S)
    BY <1>2 DEF WithChildren
  <2>2. CASE x = m
    BY <2>2
  <2>3. CASE x \in A
    <3>1. a # NULL /\ x \in Reached(h, N, a)
      BY <1>4, <1>6, <2>3 DEF ReachedFrom
    <3> QED
      BY <2>1, <3>1 DEF Reached
  <2>4. CASE x \in B
    <3>1. b # NULL /\ x \in Reached(h, N, b)
      BY <1>4, <1>6, <2>4 DEF ReachedFrom
    <3> QED
      BY <2>1, <3>1 DEF Reached
  <2> QED
    BY <1>7, <2>2, <2>3, <2>4
<1>11. Reached(h, N, m) = T
  BY <1>9, <1>10
<1> QED
  BY <1>1, <1>2, <1>4, <1>7, <1>11 DEF ReachedFrom

(* All nodes of a tree are reached from its root: of those that are not,   *)
(* consider one with the greatest k, which has a parent that is reached.   *)
LEMMA ReachedFromRoot ==
  ASSUME NEW h, NEW N, HeapTree(h, N), NEW n \in N, h[n].parent = NULL
  PROVE  ReachedFrom(h, N, n) = N
<1>1. n # NULL
  BY TreeLinks
<1>2. SUFFICES ASSUME NEW S \in SUBSET N, n \in S, WithChildren(h, S)  PROVE N \subseteq S
  BY <1>1 DEF ReachedFrom, Reached
<1>3. PICK l, r, p : l = LeftOf(h) /\ r = RightOf(h) /\ p = ParentOf(h)
  OBVIOUS
<1>4. IsTree(N, l, r, p)
  BY <1>3 DEF HeapTree
<1>5. Wired(N, l, r, p) /\ N \subseteq Node
  BY <1>4 DEF IsTree
<1>6. PICK k \in [Node -> Nat], top \in Nat : Sinks(N, l, r, k, top)
  BY <1>4 DEF IsTree
<1>7. \A x \in N : k[x] \in Nat /\ k[x] <= top
  BY <1>5, <1>6 DEF Sinks
<1>8. \A x \in N : l[x] = h[x].left /\ r[x] = h[x].right /\ p[x] = h[x].parent
  BY <1>3, TreeLinks
<1>9. SUFFICES ASSUME N \ S # {}  PROVE FALSE
  BY <1>2
<1> DEFINE I == {top - k[x] : x \in N \ S}
<1>10. I \in SUBSET Nat /\ I # {}
  BY <1>7, <1>9
<1>11. Min(I) \in I /\ \A i \in I : Min(I) <= i
  BY <1>10, MinOfNaturals
<1>12. PICK x \in N \ S : Min(I) = top - k[x]
  BY <1>11
<1>13. ASSUME NEW y \in N \ S  PROVE k[y] <= k[x]
  <2>1. top - k[x] <= top - k[y]
    BY <1>11, <1>12
  <2> QED
    BY <1>7, <2>1
<1>14. p[x] # NULL
  <2>1. p[n] = NULL /\ x # n
    BY <1>2, <1>8
  <2> QED
    BY <1>5, <2>1 DEF Wired
<1>15. PICK q : q = p[x]
  OBVIOUS
<1>16. q \in N /\ (l[q] = x \/ r[q] = x) /\ x # NULL
  BY <1>5, <1>14, <1>15, NodeAssumption DEF Wired
<1>17. k[x] < k[q]
  BY <1>6, <1>16 DEF Sinks
<1>18. q \in S
  BY <1>7, <1>13, <1>16, <1>17
<1>19. x \in S
  BY <1>2, <1>8, <1>16, <1>18 DEF WithChildren
<1> QED
  BY <1>19

(* There is only one such function: of the nodes where two differ, one     *)
(* with the least k has no children where they do.                         *)
LEMMA ReachedIsUnique ==
  ASSUME NEW h, NEW N, HeapTree(h, N), NEW f, f[NULL] = {},
         \A m \in N : f[m] = {m} \cup f[h[m].left] \cup f[h[m].right]
  PROVE  \A m \in N \cup {NULL} : f[m] = ReachedFrom(h, N, m)
<1>1. PICK l, r, p : l = LeftOf(h) /\ r = RightOf(h) /\ p = ParentOf(h)
  OBVIOUS
<1>2. IsTree(N, l, r, p)
  BY <1>1 DEF HeapTree
<1>3. N \subseteq Node
  BY <1>2 DEF IsTree
<1>4. PICK k \in [Node -> Nat], top \in Nat : Sinks(N, l, r, k, top)
  BY <1>2 DEF IsTree
<1>5. \A x \in N : k[x] \in Nat
  BY <1>3, <1>4
<1>6. \A x \in N : l[x] = h[x].left /\ r[x] = h[x].right
  BY <1>1, TreeLinks
<1> DEFINE Bad == {x \in N : f[x] # ReachedFrom(h, N, x)}
<1> DEFINE I == {k[x] : x \in Bad}
<1>7. SUFFICES ASSUME Bad # {}  PROVE FALSE
  BY DEF ReachedFrom
<1>8. I \in SUBSET Nat /\ I # {}
  BY <1>5, <1>7
<1>9. Min(I) \in I /\ \A i \in I : Min(I) <= i
  BY <1>8, MinOfNaturals
<1>10. PICK m \in Bad : Min(I) = k[m]
  BY <1>9
<1>11. m \in N /\ f[m] # ReachedFrom(h, N, m)
  OBVIOUS
<1>12. ASSUME NEW c \in N \cup {NULL}, c = h[m].left \/ c = h[m].right
       PROVE  f[c] = ReachedFrom(h, N, c)
  <2>1. CASE c = NULL
    BY <2>1 DEF ReachedFrom
  <2>2. CASE c # NULL
    <3>1. c \in N /\ k[c] < k[m]
      BY <1>4, <1>6, <1>11, <1>12, <2>2 DEF Sinks
    <3>2. k[c] \in Nat /\ k[m] \in Nat
      BY <1>5, <1>11, <3>1
    <3>3. k[c] \notin I
      <4>1. ASSUME k[c] \in I  PROVE k[m] <= k[c]
        BY <1>9, <1>10, <4>1
      <4> QED
        BY <3>1, <3>2, <4>1
    <3> QED
      BY <3>1, <3>3
  <2> QED
    BY <2>1, <2>2
<1>13. h[m].left \in N \cup {NULL} /\ h[m].right \in N \cup {NULL}
  BY <1>11, TreeLinks
<1>14. /\ f[h[m].left] = ReachedFrom(h, N, h[m].left)
       /\ f[h[m].right] = ReachedFrom(h, N, h[m].right)
  BY <1>12, <1>13
<1>15. f[m] = ReachedFrom(h, N, m)
  <2>1. ReachedFrom(h, N, m) =
          {m} \cup ReachedFrom(h, N, h[m].left) \cup ReachedFrom(h, N, h[m].right)
    BY <1>11, ReachedStep
  <2>2. f[m] = {m} \cup f[h[m].left] \cup f[h[m].right]
    BY <1>11
  <2> QED
    BY <1>14, <2>1, <2>2
<1> QED
  BY <1>11, <1>15

-----------------------------------------------------------------------------
(* What is reached from a node.                                            *)

LEMMA ReachedCloses ==
  ASSUME NEW h, NEW N, HeapTree(h, N), NEW c \in N
  PROVE  /\ c \in ReachedFrom(h, N, c) /\ ReachedFrom(h, N, c) \in SUBSET N
         /\ WithChildren(h, ReachedFrom(h, N, c))
         /\ \A S \in SUBSET N : c \in S /\ WithChildren(h, S) => ReachedFrom(h, N, c) \subseteq S
<1>1. c # NULL /\ ReachedFrom(h, N, c) = Reached(h, N, c)
  BY TreeLinks DEF ReachedFrom
<1>2. c \in Reached(h, N, c) /\ Reached(h, N, c) \in SUBSET N
  BY DEF Reached
<1>3. WithChildren(h, Reached(h, N, c))
  <2> SUFFICES ASSUME NEW x \in Reached(h, N, c), NEW y \in {h[x].left, h[x].right}, y # NULL
               PROVE  y \in Reached(h, N, c)
    BY DEF WithChildren
  <2>1. x \in N
    BY DEF Reached
  <2>2. y \in N
    BY <2>1, TreeLinks
  <2>3. ASSUME NEW S \in SUBSET N, c \in S, WithChildren(h, S)  PROVE y \in S
    <3>1. x \in S
      BY <2>3 DEF Reached
    <3> QED
      BY <2>3, <3>1 DEF WithChildren
  <2> QED
    BY <2>2, <2>3 DEF Reached
<1>4. \A S \in SUBSET N : c \in S /\ WithChildren(h, S) => Reached(h, N, c) \subseteq S
  BY DEF Reached
<1> QED
  BY <1>1, <1>2, <1>3, <1>4

(* The subtrees of the two children have no node in common: of those that  *)
(* both have, one with the greatest k is a child, or its parent is another.*)
LEMMA SubtreesApart ==
  ASSUME NEW h, NEW N, HeapTree(h, N), NEW m \in N,
         NEW a, a = h[m].left, NEW b, b = h[m].right
  PROVE  /\ m \notin ReachedFrom(h, N, a) /\ m \notin ReachedFrom(h, N, b)
         /\ ReachedFrom(h, N, a) \cap ReachedFrom(h, N, b) = {}
<1>1. PICK l, r, p : l = LeftOf(h) /\ r = RightOf(h) /\ p = ParentOf(h)
  OBVIOUS
<1>2. IsTree(N, l, r, p)
  BY <1>1 DEF HeapTree
<1>3. PICK k \in [Node -> Nat], top \in Nat : Sinks(N, l, r, k, top)
  BY <1>2 DEF IsTree
<1>4. \A x \in N : l[x] = h[x].left /\ r[x] = h[x].right /\ p[x] = h[x].parent
  BY <1>1, TreeLinks
<1>5. N \subseteq Node /\ NULL \notin N /\ \A x \in N : k[x] \in Nat /\ k[x] <= top
  BY <1>2, <1>3, NodeAssumption DEF IsTree, Sinks
<1>6. a \in N \cup {NULL} /\ b \in N \cup {NULL}
  BY TreeLinks
<1>7. ASSUME NEW c \in N, NEW x \in ReachedFrom(h, N, c)  PROVE k[x] <= k[c]
  <2>1. PICK S : S = {y \in N : k[y] <= k[c]}
    OBVIOUS
  <2>2. S \in SUBSET N /\ c \in S
    BY <1>5, <2>1
  <2>3. ASSUME NEW y \in S, NEW z \in {h[y].left, h[y].right}, z # NULL  PROVE z \in S
    <3>1. y \in N /\ z \in N
      BY <2>1, <2>3, TreeLinks
    <3>2. k[z] < k[y]
      BY <1>3, <1>4, <2>3, <3>1 DEF Sinks
    <3>3. k[z] \in Nat /\ k[y] \in Nat /\ k[c] \in Nat /\ k[y] <= k[c]
      BY <1>5, <2>1, <3>1
    <3> QED
      BY <2>1, <3>1, <3>2, <3>3
  <2>4. WithChildren(h, S)
    BY <2>3 DEF WithChildren
  <2>5. ReachedFrom(h, N, c) \subseteq S
    BY <2>2, <2>4, ReachedCloses
  <2> QED
    BY <2>1, <2>5
<1>8. ASSUME NEW c \in N, NEW x \in ReachedFrom(h, N, c), x # c
      PROVE  h[x].parent \in ReachedFrom(h, N, c)
  <2>1. PICK R : R = ReachedFrom(h, N, c)
    OBVIOUS
  <2>2. R \in SUBSET N /\ c \in R /\ WithChildren(h, R)
    BY <2>1, ReachedCloses
  <2>3. PICK S : S = {y \in R : y = c \/ h[y].parent \in R}
    OBVIOUS
  <2>4. S \in SUBSET N /\ c \in S
    BY <2>2, <2>3
  <2>5. ASSUME NEW y \in S, NEW z \in {h[y].left, h[y].right}, z # NULL  PROVE z \in S
    <3>1. y \in R /\ y \in N
      BY <2>2, <2>3
    <3>2. z \in R /\ h[z].parent = y
      BY <2>2, <2>5, <3>1, TreeLinks DEF WithChildren
    <3> QED
      BY <2>3, <3>1, <3>2
  <2>6. WithChildren(h, S)
    BY <2>5 DEF WithChildren
  <2>7. R \subseteq S
    BY <2>1, <2>4, <2>6, ReachedCloses
  <2> QED
    BY <1>8, <2>1, <2>3, <2>7
<1>9. ASSUME NEW c \in N, c = a \/ c = b  PROVE k[c] < k[m] /\ h[c].parent = m
  BY <1>3, <1>4, <1>5, <1>9, TreeLinks DEF Sinks
<1>10. ASSUME NEW c \in N, c = a \/ c = b  PROVE m \notin ReachedFrom(h, N, c)
  <2>1. ASSUME m \in ReachedFrom(h, N, c)  PROVE k[m] <= k[c]
    BY <1>7, <2>1
  <2>2. k[c] \in Nat /\ k[m] \in Nat /\ k[c] < k[m]
    BY <1>5, <1>9, <1>10
  <2> QED
    BY <2>1, <2>2
<1>11. ReachedFrom(h, N, NULL) = {}
  BY DEF ReachedFrom
<1>12. PICK A, B : A = ReachedFrom(h, N, a) /\ B = ReachedFrom(h, N, b)
  OBVIOUS
<1>13. m \notin A /\ m \notin B
  BY <1>6, <1>10, <1>11, <1>12
<1>14. SUFFICES ASSUME A \cap B # {}  PROVE FALSE
  BY <1>12, <1>13
<1>15. a \in N /\ b \in N /\ a # b
  <2>1. a # NULL /\ b # NULL
    BY <1>11, <1>12, <1>14
  <2>2. a \in N /\ b \in N
    BY <1>6, <2>1
  <2>3. l[m] = a /\ r[m] = b
    BY <1>4
  <2>4. l[m] = r[m] => l[m] = NULL
    BY <1>2 DEF IsTree, Wired
  <2> QED
    BY <2>1, <2>2, <2>3, <2>4
<1>16. A \in SUBSET N /\ B \in SUBSET N
  BY <1>12, <1>15, ReachedCloses
<1> DEFINE I == {top - k[x] : x \in A \cap B}
<1>17. I \in SUBSET Nat /\ I # {}
  BY <1>5, <1>14, <1>16
<1>18. Min(I) \in I /\ \A i \in I : Min(I) <= i
  BY <1>17, MinOfNaturals
<1>19. PICK x \in A \cap B : Min(I) = top - k[x]
  BY <1>18
<1>20. ASSUME NEW y \in A \cap B  PROVE k[y] <= k[x]
  <2>1. top - k[x] <= top - k[y]
    BY <1>18, <1>19
  <2>2. x \in N /\ y \in N
    BY <1>16
  <2> QED
    BY <1>5, <2>1, <2>2
<1>21. x # a
  <2>1. ASSUME x = a  PROVE m \in B
    <3>1. a \in B /\ a # b
      BY <1>15, <1>19, <2>1
    <3>2. h[a].parent \in B
      BY <1>8, <1>12, <1>15, <3>1
    <3> QED
      BY <1>9, <1>15, <3>2
  <2> QED
    BY <1>13, <2>1
<1>22. x # b
  <2>1. ASSUME x = b  PROVE m \in A
    <3>1. b \in A /\ a # b
      BY <1>15, <1>19, <2>1
    <3>2. h[b].parent \in A
      BY <1>8, <1>12, <1>15, <3>1
    <3> QED
      BY <1>9, <1>15, <3>2
  <2> QED
    BY <1>13, <2>1
<1>23. PICK y : y = h[x].parent
  OBVIOUS
<1>24. y \in A /\ y \in B /\ y \in N /\ x \in N
  <2>1. y \in A
    BY <1>8, <1>12, <1>15, <1>19, <1>21, <1>23
  <2>2. y \in B
    BY <1>8, <1>12, <1>15, <1>19, <1>22, <1>23
  <2> QED
    BY <1>16, <1>19, <2>1, <2>2
<1>25. k[x] < k[y]
  <2>1. y # NULL /\ (h[y].left = x \/ h[y].right = x) /\ x # NULL
    BY <1>5, <1>23, <1>24, TreeLinks
  <2> QED
    BY <1>3, <1>4, <1>24, <2>1 DEF Sinks
<1>26. k[y] <= k[x] /\ k[y] \in Nat /\ k[x] \in Nat
  BY <1>5, <1>20, <1>24
<1> QED
  BY <1>25, <1>26

-----------------------------------------------------------------------------
(* The sizes of subtrees.                                                  *)

(* The size kept at n is one more than those kept at its children. *)
SumsUp(h, n) == h[n].cnt = Plus(1, Plus(avl_cnt(h, h[n].left), avl_cnt(h, h[n].right)))

(* When that is so everywhere, the size of a subtree is the number of its  *)
(* nodes, as far as the word can hold it.                                  *)
LEMMA SumsAreSizes ==
  ASSUME NEW h, NEW N, HeapTree(h, N), IsFiniteSet(N), Cardinality(N) < Word,
         \A n \in N : SumsUp(h, n)
  PROVE  \A n \in N : h[n].cnt = Cardinality(ReachedFrom(h, N, n))
<1>1. PICK l, r, p : l = LeftOf(h) /\ r = RightOf(h) /\ p = ParentOf(h)
  OBVIOUS
<1>2. IsTree(N, l, r, p)
  BY <1>1 DEF HeapTree
<1>3. N \subseteq Node
  BY <1>2 DEF IsTree
<1>4. PICK k \in [Node -> Nat], top \in Nat : Sinks(N, l, r, k, top)
  BY <1>2 DEF IsTree
<1>5. \A x \in N : k[x] \in Nat
  BY <1>3, <1>4
<1>6. \A x \in N : l[x] = h[x].left /\ r[x] = h[x].right
  BY <1>1, TreeLinks
<1> DEFINE Bad == {x \in N : h[x].cnt # Cardinality(ReachedFrom(h, N, x))}
           I == {k[x] : x \in Bad}
<1>7. SUFFICES ASSUME Bad # {}  PROVE FALSE
  OBVIOUS
<1>8. I \in SUBSET Nat /\ I # {}
  BY <1>5, <1>7
<1>9. Min(I) \in I /\ \A i \in I : Min(I) <= i
  BY <1>8, MinOfNaturals
<1>10. PICK m \in Bad : Min(I) = k[m]
  BY <1>9
<1>11. m \in N /\ h[m].cnt # Cardinality(ReachedFrom(h, N, m))
  OBVIOUS
<1>12. ASSUME NEW c \in N \cup {NULL}, c = h[m].left \/ c = h[m].right
       PROVE  avl_cnt(h, c) = Cardinality(ReachedFrom(h, N, c))
  <2>1. CASE c = NULL
    BY <2>1, FS_EmptySet DEF avl_cnt, ReachedFrom
  <2>2. CASE c # NULL
    <3>1. c \in N /\ k[c] < k[m]
      BY <1>4, <1>6, <1>11, <1>12, <2>2 DEF Sinks
    <3>2. k[c] \in Nat /\ k[m] \in Nat
      BY <1>5, <1>11, <3>1
    <3>3. k[c] \notin I
      <4>1. ASSUME k[c] \in I  PROVE k[m] <= k[c]
        BY <1>9, <1>10, <4>1
      <4> QED
        BY <3>1, <3>2, <4>1
    <3> QED
      BY <2>2, <3>1, <3>3 DEF avl_cnt
  <2> QED
    BY <2>1, <2>2
<1>13. PICK a, b : a = h[m].left /\ b = h[m].right
  OBVIOUS
<1>14. a \in N \cup {NULL} /\ b \in N \cup {NULL}
  BY <1>11, <1>13, TreeLinks
<1>15. PICK A, B, M : /\ A = ReachedFrom(h, N, a) /\ B = ReachedFrom(h, N, b)
                      /\ M = ReachedFrom(h, N, m)
  OBVIOUS
<1>16. avl_cnt(h, a) = Cardinality(A) /\ avl_cnt(h, b) = Cardinality(B)
  BY <1>12, <1>13, <1>14, <1>15
<1>17. M = {m} \cup A \cup B
  BY <1>11, <1>13, <1>15, ReachedStep
<1>18. m \notin A /\ m \notin B /\ A \cap B = {}
  BY <1>11, <1>13, <1>15, SubtreesApart
<1>19. M \in SUBSET N
  BY <1>11, <1>15, ReachedCloses
<1>20. /\ IsFiniteSet(A) /\ IsFiniteSet(B) /\ IsFiniteSet(A \cup B)
       /\ Cardinality(A) \in Nat /\ Cardinality(B) \in Nat /\ Cardinality(M) \in Nat
       /\ Cardinality(M) <= Cardinality(N) /\ Cardinality(N) \in Nat
  <2>1. A \in SUBSET N /\ B \in SUBSET N /\ A \cup B \in SUBSET N
    BY <1>17, <1>19
  <2>2. IsFiniteSet(A) /\ IsFiniteSet(B) /\ IsFiniteSet(A \cup B) /\ IsFiniteSet(M)
    BY <1>19, <2>1, FS_Subset
  <2>3. Cardinality(M) <= Cardinality(N)
    BY <1>19, FS_Subset
  <2> QED
    BY <2>2, <2>3, FS_CardinalityType
<1>21. Cardinality(A \cup B) = Cardinality(A) + Cardinality(B)
  <2>1. Cardinality(A \cup B) = Cardinality(A) + Cardinality(B) - Cardinality(A \cap B)
    BY <1>20, FS_Union
  <2>2. Cardinality(A \cap B) = 0
    BY <1>18, FS_EmptySet
  <2> QED
    BY <1>20, <2>1, <2>2
<1>22. Cardinality(M) = Cardinality(A) + Cardinality(B) + 1
  <2>1. M = (A \cup B) \cup {m} /\ m \notin A \cup B
    BY <1>17, <1>18
  <2>2. Cardinality(M) = Cardinality(A \cup B) + 1
    BY <1>20, <2>1, FS_AddElement
  <2> QED
    BY <1>21, <2>2
<1>23. h[m].cnt = Plus(1, Plus(Cardinality(A), Cardinality(B)))
  BY <1>11, <1>13, <1>16 DEF SumsUp
<1>24. PICK x, y \in Nat : x = Cardinality(A) /\ y = Cardinality(B)
  BY <1>20
<1>25. x + y + 1 < Word /\ Word \in Nat
  BY <1>20, <1>22, <1>24, WordAssumption
<1>26. Plus(1, Plus(x, y)) = x + y + 1
  <2>1. \A z \in Nat : z < Word => z % Word = z
    BY WordAssumption
  <2>2. x + y \in Nat /\ x + y < Word /\ 1 + (x + y) \in Nat /\ 1 + (x + y) < Word
    BY <1>25
  <2>3. (x + y) % Word = x + y /\ (1 + (x + y)) % Word = 1 + (x + y)
    BY <2>1, <2>2
  <2> QED
    BY <2>3 DEF Plus
<1> QED
  BY <1>11, <1>15, <1>22, <1>23, <1>24, <1>26

-----------------------------------------------------------------------------
(* What the functions of avl_tree.cpp do to the sizes: avl_update makes    *)
(* that of one node agree with its children's and changes no other, the    *)
(* functions that set links change none.                                   *)

LEMMA SumKept ==
  ASSUME NEW h, NEW g, NEW x, SumsUp(h, x),
         g[x].cnt = h[x].cnt, g[x].left = h[x].left, g[x].right = h[x].right,
         h[x].left # NULL => g[h[x].left].cnt = h[h[x].left].cnt,
         h[x].right # NULL => g[h[x].right].cnt = h[h[x].right].cnt
  PROVE  SumsUp(g, x)
BY DEF SumsUp, avl_cnt

Updated(g, h, n) ==
  /\ g \in Heap /\ SameLinks(g, h) /\ SumsUp(g, n)
  /\ \A x \in Node : x # n => g[x].cnt = h[x].cnt

LEMMA UpdateCounts ==
  ASSUME NEW h \in Heap, NEW n \in Node, h[n].left # n, h[n].right # n,
         NEW g, g = avl_update(h, n)
  PROVE  Updated(g, h, n)
<1>1. g \in Heap /\ SameLinks(g, h)
  BY UpdateLinks
<1>2. PICK height, cnt : /\ g = [h EXCEPT ![n].height = height, ![n].cnt = cnt]
                         /\ cnt = Plus(1, Plus(avl_cnt(h, h[n].left), avl_cnt(h, h[n].right)))
  BY DEF avl_update
<1>3. h[n] \in AVLNode
  BY DEF Heap
<1>4. PICK rec : rec = [h[n] EXCEPT !.height = height, !.cnt = cnt]
  OBVIOUS
<1>5. rec.cnt = cnt
  BY <1>3, <1>4 DEF AVLNode
<1>6. g = [h EXCEPT ![n] = rec]
  BY <1>2, <1>4 DEF Heap
<1>7. g[n].cnt = cnt /\ \A x \in Node : x # n => g[x] = h[x]
  BY <1>5, <1>6 DEF Heap
<1>8. g[n].left = h[n].left /\ g[n].right = h[n].right
  BY <1>1, HeapLinks DEF SameLinks
<1>9. h[n].left \in Link /\ h[n].right \in Link
  BY HeapLinks
<1>10. ASSUME NEW c \in Link, c # n  PROVE avl_cnt(g, c) = avl_cnt(h, c)
  BY <1>7, <1>10 DEF avl_cnt, Link
<1>11. SumsUp(g, n)
  BY <1>2, <1>7, <1>8, <1>9, <1>10 DEF SumsUp
<1> QED
  BY <1>1, <1>7, <1>11 DEF Updated

(* Only the sum at the parent is broken. *)
LEMMA TreeUpdateCounts ==
  ASSUME NEW h, NEW N, HeapTree(h, N), NEW n \in N, NEW g, g = avl_update(h, n)
  PROVE  /\ SumsUp(g, n)
         /\ \A x \in N : x # n /\ x # h[n].parent /\ SumsUp(h, x) => SumsUp(g, x)
<1>1. h \in Heap /\ N \subseteq Node /\ n \in Node /\ h[n].left # n /\ h[n].right # n
  BY TreeLinks
<1>2. Updated(g, h, n)
  BY <1>1, UpdateCounts
<1>3. ASSUME NEW x \in N, x # n, x # h[n].parent, SumsUp(h, x)  PROVE SumsUp(g, x)
  <2>1. /\ x \in Node /\ h[x].left \in N \cup {NULL} /\ h[x].right \in N \cup {NULL}
        /\ h[x].left # NULL => h[h[x].left].parent = x
        /\ h[x].right # NULL => h[h[x].right].parent = x
    BY TreeLinks
  <2>2. n # NULL /\ h[x].left # n /\ h[x].right # n
    BY <1>1, <1>3, <2>1, NodeAssumption
  <2>3. g[x].left = h[x].left /\ g[x].right = h[x].right
    BY <1>1, <1>2, <2>1, HeapLinks DEF Updated, SameLinks
  <2>4. /\ g[x].cnt = h[x].cnt
        /\ h[x].left # NULL => g[h[x].left].cnt = h[h[x].left].cnt
        /\ h[x].right # NULL => g[h[x].right].cnt = h[h[x].right].cnt
    BY <1>1, <1>2, <1>3, <2>1, <2>2 DEF Updated
  <2> QED
    BY <1>3, <2>3, <2>4, SumKept
<1> QED
  BY <1>2, <1>3 DEF Updated

(* A rotation at n that lifts m recomputes both, the lower one first. *)
Recounted(g, h, n, m) ==
  /\ SumsUp(g, n) /\ SumsUp(g, m)
  /\ \A x \in Node : x # n /\ x # m => g[x].cnt = h[x].cnt

LEMMA RecountTwo ==
  ASSUME NEW h \in Heap, NEW b \in Heap, SameCounts(b, h), NEW n \in Node, NEW m \in Node,
         n # m, b[n].left # n, b[n].right # n, b[m].left # m, b[m].right # m,
         b[n].left # m, b[n].right # m,
         NEW c, c = avl_update(b, n), NEW g, g = avl_update(c, m)
  PROVE  Recounted(g, h, n, m) /\ g \in Heap /\ SameLinks(g, b)
<1>1. Updated(c, b, n)
  BY UpdateCounts
<1>2. c \in Heap /\ \A x \in Node : c[x].left = b[x].left /\ c[x].right = b[x].right
  BY <1>1, HeapLinks DEF Updated, SameLinks
<1>3. c[m].left # m /\ c[m].right # m
  BY <1>2
<1>4. Updated(g, c, m)
  BY <1>2, <1>3, UpdateCounts
<1>5. g \in Heap /\ \A x \in Node : g[x].left = c[x].left /\ g[x].right = c[x].right
  BY <1>2, <1>4, HeapLinks DEF Updated, SameLinks
<1>6. SumsUp(g, n)
  <2>1. c[n].left \in Link /\ c[n].right \in Link /\ c[n].left # m /\ c[n].right # m
    BY <1>2, HeapLinks
  <2>2. /\ g[n].cnt = c[n].cnt
        /\ c[n].left # NULL => g[c[n].left].cnt = c[c[n].left].cnt
        /\ c[n].right # NULL => g[c[n].right].cnt = c[c[n].right].cnt
    BY <1>4, <2>1 DEF Updated, Link
  <2>3. SumsUp(c, n)
    BY <1>1 DEF Updated
  <2> QED
    BY <1>5, <2>2, <2>3, SumKept
<1>7. ASSUME NEW x \in Node, x # n, x # m  PROVE g[x].cnt = h[x].cnt
  BY <1>1, <1>4, <1>7 DEF Updated, SameCounts
<1>8. SameLinks(g, b)
  BY <1>1, <1>4 DEF Updated, SameLinks
<1> QED
  BY <1>4, <1>5, <1>6, <1>7, <1>8 DEF Recounted, Updated

LEMMA RotLeftCounts ==
  ASSUME NEW h \in Heap, NEW n \in Node, NEW m \in Node, m = h[n].right, m # n,
         NEW s \in Link, s = h[m].left, s # m, s # n,
         h[n].left # n, h[n].left # m, h[m].right # m,
         NEW g, g = rot_left(h, n)
  PROVE  Recounted(g, h, n, m)
<1>1. PICK q \in Link : q = h[n].parent
  BY HeapLinks
<1>2. n \in Link /\ m \in Link /\ h[m] \in AVLNode /\ h[n] \in AVLNode
  BY DEF Link, Heap
<1>3. PICK below : below = [h[m] EXCEPT !.left = n, !.parent = q]
  OBVIOUS
<1>4. PICK above : above = [h[n] EXCEPT !.right = s, !.parent = m]
  OBVIOUS
<1>5. /\ below \in AVLNode /\ below.cnt = h[m].cnt
      /\ below.left = n /\ below.right = h[m].right
  BY <1>2, <1>3 DEF AVLNode
<1>6. /\ above \in AVLNode /\ above.cnt = h[n].cnt
      /\ above.left = h[n].left /\ above.right = s
  BY <1>2, <1>4 DEF AVLNode
<1>7. PICK a : a = [h EXCEPT ![m].left = n, ![n].right = s, ![m].parent = q, ![n].parent = m]
  OBVIOUS
<1>8. PICK half : half = [h EXCEPT ![m] = below]
  OBVIOUS
<1>9. a = [half EXCEPT ![n] = above]
  BY <1>3, <1>4, <1>7, <1>8 DEF Heap
<1>10. half \in Heap /\ \A x \in Node : half[x] = IF x = m THEN below ELSE h[x]
  BY <1>5, <1>8 DEF Heap
<1>11. a \in Heap /\ \A x \in Node : a[x] = IF x = n THEN above ELSE half[x]
  BY <1>6, <1>9, <1>10 DEF Heap
<1>12. /\ SameCounts(a, h)
       /\ a[n].left = h[n].left /\ a[n].right = s /\ a[m].left = n /\ a[m].right = h[m].right
  BY <1>5, <1>6, <1>10, <1>11 DEF SameCounts
<1>13. PICK b : b = SetParent(a, s, n)
  OBVIOUS
<1>14. ParentSet(b, a, s, n) /\ SameCounts(b, a)
  BY <1>2, <1>11, <1>13, SetParentLinks, SetParentCounts
<1>15. b \in Heap /\ \A x \in Node : b[x].left = a[x].left /\ b[x].right = a[x].right
  BY <1>11, <1>14, HeapLinks DEF ParentSet
<1>16. SameCounts(b, h)
  BY <1>12, <1>14 DEF SameCounts
<1>17. /\ b[n].left # n /\ b[n].right # n /\ b[m].left # m /\ b[m].right # m
       /\ b[n].left # m /\ b[n].right # m
  BY <1>12, <1>15
<1>18. PICK c : c = avl_update(b, n)
  OBVIOUS
<1>19. g = avl_update(c, m)
  BY <1>1, <1>7, <1>13, <1>18 DEF rot_left
<1> QED
  BY <1>15, <1>16, <1>17, <1>18, <1>19, RecountTwo

LEMMA RotRightCounts ==
  ASSUME NEW h \in Heap, NEW n \in Node, NEW m \in Node, m = h[n].left, m # n,
         NEW s \in Link, s = h[m].right, s # m, s # n,
         h[n].right # n, h[n].right # m, h[m].left # m,
         NEW g, g = rot_right(h, n)
  PROVE  Recounted(g, h, n, m)
<1>1. PICK q \in Link : q = h[n].parent
  BY HeapLinks
<1>2. n \in Link /\ m \in Link /\ h[m] \in AVLNode /\ h[n] \in AVLNode
  BY DEF Link, Heap
<1>3. PICK below : below = [h[m] EXCEPT !.right = n, !.parent = q]
  OBVIOUS
<1>4. PICK above : above = [h[n] EXCEPT !.left = s, !.parent = m]
  OBVIOUS
<1>5. /\ below \in AVLNode /\ below.cnt = h[m].cnt
      /\ below.right = n /\ below.left = h[m].left
  BY <1>2, <1>3 DEF AVLNode
<1>6. /\ above \in AVLNode /\ above.cnt = h[n].cnt
      /\ above.right = h[n].right /\ above.left = s
  BY <1>2, <1>4 DEF AVLNode
<1>7. PICK a : a = [h EXCEPT ![m].right = n, ![n].left = s, ![m].parent = q, ![n].parent = m]
  OBVIOUS
<1>8. PICK half : half = [h EXCEPT ![m] = below]
  OBVIOUS
<1>9. a = [half EXCEPT ![n] = above]
  BY <1>3, <1>4, <1>7, <1>8 DEF Heap
<1>10. half \in Heap /\ \A x \in Node : half[x] = IF x = m THEN below ELSE h[x]
  BY <1>5, <1>8 DEF Heap
<1>11. a \in Heap /\ \A x \in Node : a[x] = IF x = n THEN above ELSE half[x]
  BY <1>6, <1>9, <1>10 DEF Heap
<1>12. /\ SameCounts(a, h)
       /\ a[n].right = h[n].right /\ a[n].left = s /\ a[m].right = n /\ a[m].left = h[m].left
  BY <1>5, <1>6, <1>10, <1>11 DEF SameCounts
<1>13. PICK b : b = SetParent(a, s, n)
  OBVIOUS
<1>14. ParentSet(b, a, s, n) /\ SameCounts(b, a)
  BY <1>2, <1>11, <1>13, SetParentLinks, SetParentCounts
<1>15. b \in Heap /\ \A x \in Node : b[x].right = a[x].right /\ b[x].left = a[x].left
  BY <1>11, <1>14, HeapLinks DEF ParentSet
<1>16. SameCounts(b, h)
  BY <1>12, <1>14 DEF SameCounts
<1>17. /\ b[n].right # n /\ b[n].left # n /\ b[m].right # m /\ b[m].left # m
       /\ b[n].right # m /\ b[n].left # m
  BY <1>12, <1>15
<1>18. PICK c : c = avl_update(b, n)
  OBVIOUS
<1>19. g = avl_update(c, m)
  BY <1>1, <1>7, <1>13, <1>18 DEF rot_right
<1> QED
  BY <1>15, <1>16, <1>17, <1>18, <1>19, RecountTwo

(* The same in a tree: every node keeps its sum but those an operation is  *)
(* about, and their parent.                                                *)
LEMMA TurnedCounts ==
  ASSUME NEW h, NEW N, HeapTree(h, N), NEW n \in N, NEW m, m = h[n].right, m # NULL,
         NEW q, q = h[n].parent, NEW half, half = rot_left(h, n),
         NEW g, q = NULL => g = half, q # NULL => g = Relink(half, q, n, m)
  PROVE  /\ SumsUp(g, n) /\ SumsUp(g, m)
         /\ \A x \in N : x # n /\ x # m /\ x # q /\ SumsUp(h, x) => SumsUp(g, x)
<1>1. /\ h \in Heap /\ N \subseteq Node /\ n \in Node /\ NULL \notin N
      /\ m \in N /\ m \in Node /\ q \in N \cup {NULL} /\ m # n /\ q # n /\ m # q
      /\ h[m].parent = n /\ h[n].left # n
  BY TreeLinks
<1>2. PICK s : s = h[m].left
  OBVIOUS
<1>3. s \in N \cup {NULL} /\ s # m /\ s # n /\ h[m].right # m /\ h[m].right # n
  <2>1. m = h[n].right /\ h[n].right # NULL
    OBVIOUS
  <2>2. /\ h[m].left \in N \cup {NULL} /\ h[m].left # m /\ h[m].right # m
        /\ h[m].left # NULL => h[m].left # h[m].parent
        /\ h[m].right # NULL => h[m].right # h[m].parent
    BY <1>1, TreeLinks
  <2> QED
    BY <1>1, <1>2, <2>2
<1>4. h[n].left # m
  <2>1. h[m].parent # NULL => (h[h[m].parent].left = m <=> h[h[m].parent].right # m)
    BY <1>1, TreeLinks
  <2> QED
    BY <1>1, <2>1
<1>5. s \in Link /\ n \in Link /\ m \in Link
  BY <1>1, <1>3 DEF Link
<1>6. Recounted(half, h, n, m)
  BY <1>1, <1>2, <1>3, <1>4, <1>5, RotLeftCounts
<1>7. RotatedLeft(half, h, n, m, s)
  BY <1>1, <1>2, <1>3, <1>5, RotLeftLinks
<1>8. half \in Heap
  BY <1>7 DEF RotatedLeft
<1>9. /\ SameCounts(g, half) /\ g \in Heap
      /\ \A x \in Node : x # q => g[x].left = half[x].left /\ g[x].right = half[x].right
  <2>1. CASE q = NULL
    BY <1>8, <2>1 DEF SameCounts
  <2>2. CASE q # NULL
    <3>1. q \in Node /\ g = Relink(half, q, n, m)
      BY <1>1, <2>2
    <3>2. Relinked(g, half, q, n, m) /\ SameCounts(g, half)
      BY <1>5, <1>8, <3>1, RelinkLinks, RelinkCounts
    <3> QED
      BY <1>8, <3>2, HeapLinks DEF Relinked
  <2> QED
    BY <2>1, <2>2
<1>10. ASSUME NEW x \in Node, x # q, SumsUp(half, x)  PROVE SumsUp(g, x)
  <2>1. half[x].left \in Link /\ half[x].right \in Link
    BY <1>8, HeapLinks
  <2>2. /\ g[x].cnt = half[x].cnt
        /\ half[x].left # NULL => g[half[x].left].cnt = half[half[x].left].cnt
        /\ half[x].right # NULL => g[half[x].right].cnt = half[half[x].right].cnt
    BY <1>9, <2>1 DEF SameCounts, Link
  <2> QED
    BY <1>9, <1>10, <2>2, SumKept
<1>11. SumsUp(g, n) /\ SumsUp(g, m)
  BY <1>1, <1>6, <1>10 DEF Recounted
<1>12. ASSUME NEW x \in N, x # n, x # m, x # q, SumsUp(h, x)  PROVE SumsUp(g, x)
  <2>1. x \in Node /\ half[x].left = h[x].left /\ half[x].right = h[x].right
    BY <1>1, <1>7, <1>8, <1>12, HeapLinks DEF RotatedLeft
  <2>2. /\ h[x].left \in N \cup {NULL} /\ h[x].right \in N \cup {NULL}
        /\ h[x].left # NULL => h[h[x].left].parent = x
        /\ h[x].right # NULL => h[h[x].right].parent = x
    BY TreeLinks
  <2>3. h[x].left # n /\ h[x].right # n /\ h[x].left # m /\ h[x].right # m
    BY <1>1, <1>12, <2>2
  <2>4. /\ half[x].cnt = h[x].cnt
        /\ h[x].left # NULL => half[h[x].left].cnt = h[h[x].left].cnt
        /\ h[x].right # NULL => half[h[x].right].cnt = h[h[x].right].cnt
    BY <1>1, <1>6, <1>12, <2>1, <2>2, <2>3 DEF Recounted
  <2>5. SumsUp(half, x)
    BY <1>12, <2>1, <2>4, SumKept
  <2> QED
    BY <1>10, <1>12, <2>1, <2>5
<1> QED
  BY <1>11, <1>12

LEMMA TurnedBackCounts ==
  ASSUME NEW h, NEW N, HeapTree(h, N), NEW n \in N, NEW m, m = h[n].left, m # NULL,
         NEW q, q = h[n].parent, NEW half, half = rot_right(h, n),
         NEW g, q = NULL => g = half, q # NULL => g = Relink(half, q, n, m)
  PROVE  /\ SumsUp(g, n) /\ SumsUp(g, m)
         /\ \A x \in N : x # n /\ x # m /\ x # q /\ SumsUp(h, x) => SumsUp(g, x)
<1>1. /\ h \in Heap /\ N \subseteq Node /\ n \in Node /\ NULL \notin N
      /\ m \in N /\ m \in Node /\ q \in N \cup {NULL} /\ m # n /\ q # n /\ m # q
      /\ h[m].parent = n /\ h[n].right # n
  BY TreeLinks
<1>2. PICK s : s = h[m].right
  OBVIOUS
<1>3. s \in N \cup {NULL} /\ s # m /\ s # n /\ h[m].left # m /\ h[m].left # n
  <2>1. m = h[n].left /\ h[n].left # NULL
    OBVIOUS
  <2>2. /\ h[m].right \in N \cup {NULL} /\ h[m].right # m /\ h[m].left # m
        /\ h[m].right # NULL => h[m].right # h[m].parent
        /\ h[m].left # NULL => h[m].left # h[m].parent
    BY <1>1, TreeLinks
  <2> QED
    BY <1>1, <1>2, <2>2
<1>4. h[n].right # m
  <2>1. h[m].parent # NULL => (h[h[m].parent].right = m <=> h[h[m].parent].left # m)
    BY <1>1, TreeLinks
  <2> QED
    BY <1>1, <2>1
<1>5. s \in Link /\ n \in Link /\ m \in Link
  BY <1>1, <1>3 DEF Link
<1>6. Recounted(half, h, n, m)
  BY <1>1, <1>2, <1>3, <1>4, <1>5, RotRightCounts
<1>7. RotatedRight(half, h, n, m, s)
  BY <1>1, <1>2, <1>3, <1>5, RotRightLinks
<1>8. half \in Heap
  BY <1>7 DEF RotatedRight
<1>9. /\ SameCounts(g, half) /\ g \in Heap
      /\ \A x \in Node : x # q => g[x].right = half[x].right /\ g[x].left = half[x].left
  <2>1. CASE q = NULL
    BY <1>8, <2>1 DEF SameCounts
  <2>2. CASE q # NULL
    <3>1. q \in Node /\ g = Relink(half, q, n, m)
      BY <1>1, <2>2
    <3>2. Relinked(g, half, q, n, m) /\ SameCounts(g, half)
      BY <1>5, <1>8, <3>1, RelinkLinks, RelinkCounts
    <3> QED
      BY <1>8, <3>2, HeapLinks DEF Relinked
  <2> QED
    BY <2>1, <2>2
<1>10. ASSUME NEW x \in Node, x # q, SumsUp(half, x)  PROVE SumsUp(g, x)
  <2>1. half[x].right \in Link /\ half[x].left \in Link
    BY <1>8, HeapLinks
  <2>2. /\ g[x].cnt = half[x].cnt
        /\ half[x].right # NULL => g[half[x].right].cnt = half[half[x].right].cnt
        /\ half[x].left # NULL => g[half[x].left].cnt = half[half[x].left].cnt
    BY <1>9, <2>1 DEF SameCounts, Link
  <2> QED
    BY <1>9, <1>10, <2>2, SumKept
<1>11. SumsUp(g, n) /\ SumsUp(g, m)
  BY <1>1, <1>6, <1>10 DEF Recounted
<1>12. ASSUME NEW x \in N, x # n, x # m, x # q, SumsUp(h, x)  PROVE SumsUp(g, x)
  <2>1. x \in Node /\ half[x].right = h[x].right /\ half[x].left = h[x].left
    BY <1>1, <1>7, <1>8, <1>12, HeapLinks DEF RotatedRight
  <2>2. /\ h[x].right \in N \cup {NULL} /\ h[x].left \in N \cup {NULL}
        /\ h[x].right # NULL => h[h[x].right].parent = x
        /\ h[x].left # NULL => h[h[x].left].parent = x
    BY TreeLinks
  <2>3. h[x].right # n /\ h[x].left # n /\ h[x].right # m /\ h[x].left # m
    BY <1>1, <1>12, <2>2
  <2>4. /\ half[x].cnt = h[x].cnt
        /\ h[x].right # NULL => half[h[x].right].cnt = h[h[x].right].cnt
        /\ h[x].left # NULL => half[h[x].left].cnt = h[h[x].left].cnt
    BY <1>1, <1>6, <1>12, <2>1, <2>2, <2>3 DEF Recounted
  <2>5. SumsUp(half, x)
    BY <1>12, <2>1, <2>4, SumKept
  <2> QED
    BY <1>10, <1>12, <2>1, <2>5
<1> QED
  BY <1>11, <1>12

(* What a splice leaves broken is the sum at the parent. *)
LEMMA SplicedCounts ==
  ASSUME NEW h, NEW N, HeapTree(h, N), NEW n \in N,
         NEW c, c = h[n].left, NEW q, q = h[n].parent,
         NEW up, up = SetParent(h, c, q),
         NEW g, q = NULL => g = up, q # NULL => g = Relink(up, q, n, c)
  PROVE  \A x \in N : x # q /\ SumsUp(h, x) => SumsUp(g, x)
<1>1. /\ h \in Heap /\ N \subseteq Node /\ NULL \notin N
      /\ c \in N \cup {NULL} /\ q \in N \cup {NULL}
  BY TreeLinks
<1>2. c \in Link /\ q \in Link /\ n \in Link
  BY <1>1 DEF Link
<1>3. ParentSet(up, h, c, q) /\ SameCounts(up, h)
  BY <1>1, <1>2, SetParentLinks, SetParentCounts
<1>4. up \in Heap
  BY <1>3 DEF ParentSet
<1>5. /\ SameCounts(g, up) /\ g \in Heap
      /\ \A x \in Node : x # q => g[x].left = up[x].left /\ g[x].right = up[x].right
  <2>1. CASE q = NULL
    BY <1>4, <2>1 DEF SameCounts
  <2>2. CASE q # NULL
    <3>1. q \in Node /\ g = Relink(up, q, n, c)
      BY <1>1, <2>2
    <3>2. Relinked(g, up, q, n, c) /\ SameCounts(g, up)
      BY <1>2, <1>4, <3>1, RelinkLinks, RelinkCounts
    <3> QED
      BY <1>4, <3>2, HeapLinks DEF Relinked
  <2> QED
    BY <2>1, <2>2
<1>6. ASSUME NEW x \in N, x # q, SumsUp(h, x)  PROVE SumsUp(g, x)
  <2>1. x \in Node /\ h[x].left \in Link /\ h[x].right \in Link
    BY <1>1, HeapLinks
  <2>2. g[x].left = h[x].left /\ g[x].right = h[x].right
    BY <1>1, <1>3, <1>4, <1>5, <1>6, <2>1, HeapLinks DEF ParentSet
  <2>3. /\ g[x].cnt = h[x].cnt
        /\ h[x].left # NULL => g[h[x].left].cnt = h[h[x].left].cnt
        /\ h[x].right # NULL => g[h[x].right].cnt = h[h[x].right].cnt
    BY <1>3, <1>5, <2>1 DEF SameCounts, Link
  <2> QED
    BY <1>6, <2>2, <2>3, SumKept
<1> QED
  BY <1>6

(* A new leaf breaks the sum of its parent. *)
LEMMA LeafCounts ==
  ASSUME NEW h, NEW N, HeapTree(h, N), NEW a \in N, NEW t \in Node, t \notin N,
         h[t].left = NULL, h[t].right = NULL, NEW less \in BOOLEAN,
         NEW g, g = LeafLinked(h, a, t, less)
  PROVE  \A x \in N : x # a /\ SumsUp(h, x) => SumsUp(g, x)
<1>1. h \in Heap /\ N \subseteq Node /\ a \in Node /\ t # a /\ NULL \notin N
  BY TreeLinks
<1>2. PICK up : up = IF less THEN [h[a] EXCEPT !.left = t] ELSE [h[a] EXCEPT !.right = t]
  OBVIOUS
<1>3. h[a] \in AVLNode /\ h[t] \in AVLNode
  BY <1>1 DEF Heap
<1>4. up.cnt = h[a].cnt
  BY <1>2, <1>3 DEF AVLNode
<1>5. g = [h EXCEPT ![a] = up, ![t].parent = a]
  BY <1>2 DEF LeafLinked
<1>6. \A x \in Node : x # a /\ x # t => g[x] = h[x]
  BY <1>1, <1>5 DEF Heap
<1>7. g[a].cnt = h[a].cnt
  BY <1>1, <1>4, <1>5 DEF Heap
<1>8. ASSUME NEW x \in N, x # a, SumsUp(h, x)  PROVE SumsUp(g, x)
  <2>1. /\ x \in Node /\ x # t
        /\ h[x].left \in N \cup {NULL} /\ h[x].right \in N \cup {NULL}
    BY <1>1, TreeLinks
  <2>2. g[x] = h[x]
    BY <1>6, <1>8, <2>1
  <2>3. \A y \in N : g[y].cnt = h[y].cnt
    BY <1>1, <1>6, <1>7
  <2> QED
    BY <1>8, <2>1, <2>2, <2>3, SumKept
<1> QED
  BY <1>8

(* A node placed by hand breaks the sum of its parent. *)
LEMMA PlacedCounts ==
  ASSUME NEW h, NEW N, HeapTree(h, N), NEW a \in N \cup {NULL}, NEW t \in Node, t \notin N,
         h[t].right = NULL, NEW e \in N \cup {NULL}, NEW g, g = HandLinked(h, a, t, e)
  PROVE  \A x \in N : x # a /\ SumsUp(h, x) => SumsUp(g, x)
<1>1. h \in Heap /\ N \subseteq Node /\ NULL \notin N
  BY NodeAssumption DEF HeapTree, IsTree
<1>2. a \in Link /\ e \in Link /\ t \in Link /\ t # a
  BY <1>1, NodeAssumption DEF Link
<1>3. PICK placed : placed = [h EXCEPT ![t].left = e, ![t].parent = a]
  OBVIOUS
<1>4. PICK above : above = SetParent(placed, e, t)
  OBVIOUS
<1>5. PICK new : new = [h[t] EXCEPT !.left = e, !.parent = a]
  OBVIOUS
<1>6. h[t] \in AVLNode /\ new \in AVLNode
  BY <1>1, <1>2, <1>5 DEF AVLNode, Heap
<1>7. placed = [h EXCEPT ![t] = new]
  BY <1>3, <1>5 DEF Heap
<1>8. placed \in Heap /\ \A x \in N : placed[x] = h[x]
  BY <1>1, <1>6, <1>7 DEF Heap
<1>9. ParentSet(above, placed, e, t) /\ SameCounts(above, placed)
  BY <1>2, <1>4, <1>8, SetParentLinks, SetParentCounts
<1>10. above \in Heap
  BY <1>9 DEF ParentSet
<1>11. g = IF a = NULL THEN above ELSE [above EXCEPT ![a].right = t]
  BY <1>3, <1>4 DEF HandLinked
<1>12. /\ \A x \in Node : x # a => g[x] = above[x]
       /\ \A x \in Node : g[x].cnt = above[x].cnt
  <2>1. CASE a = NULL
    BY <1>11, <2>1
  <2>2. CASE a # NULL
    <3>1. a \in Node /\ g = [above EXCEPT ![a].right = t]
      BY <1>2, <1>11, <2>2 DEF Link
    <3>2. above[a] \in AVLNode
      BY <1>10, <3>1 DEF Heap
    <3> QED
      BY <1>10, <3>1, <3>2 DEF Heap, AVLNode
  <2> QED
    BY <2>1, <2>2
<1>13. ASSUME NEW x \in N, x # a, SumsUp(h, x)  PROVE SumsUp(g, x)
  <2>1. x \in Node /\ h[x].left \in N \cup {NULL} /\ h[x].right \in N \cup {NULL}
    BY <1>1, TreeLinks
  <2>2. above[x].left = placed[x].left /\ above[x].right = placed[x].right
    BY <1>8, <1>9, <1>10, <2>1, HeapLinks DEF ParentSet
  <2>3. g[x].left = h[x].left /\ g[x].right = h[x].right
    BY <1>8, <1>12, <1>13, <2>1, <2>2
  <2>4. \A y \in N : g[y].cnt = h[y].cnt
    BY <1>1, <1>8, <1>9, <1>12 DEF SameCounts
  <2> QED
    BY <1>13, <2>1, <2>3, <2>4, SumKept
<1> QED
  BY <1>13

(* Nodes whose links and sizes, and whose children's sizes, do not change. *)
LEMMA SameSums ==
  ASSUME NEW h, NEW N, HeapTree(h, N), NEW g, \A x \in N : g[x] = h[x],
         NEW x \in N, SumsUp(h, x)
  PROVE  SumsUp(g, x)
<1>1. h[x].left \in N \cup {NULL} /\ h[x].right \in N \cup {NULL}
  BY TreeLinks
<1> QED
  BY <1>1, SumKept

(* The copy over a victim keeps every sum: the victim has the size of the  *)
(* node it replaces.                                                       *)
LEMMA SwappedCounts ==
  ASSUME NEW N, HeapTree(heap, N), NEW n \in N, NEW v \in Node, v \notin N,
         NEW g, g = Swapped(n, v), \A x \in N : SumsUp(heap, x)
  PROVE  \A x \in (N \ {n}) \cup {v} : SumsUp(g, x)
<1>1. PICK h : h = heap
  OBVIOUS
<1>2. PICK q, a, b : q = h[n].parent /\ a = h[n].left /\ b = h[n].right
  OBVIOUS
<1>3. HeapTree(h, N)
  BY <1>1
<1>4. /\ h \in Heap /\ N \subseteq Node /\ n \in Node /\ NULL \notin N
      /\ a \in N \cup {NULL} /\ b \in N \cup {NULL} /\ a # n /\ b # n
      /\ q # NULL => (h[q].left = n <=> h[q].right # n)
  BY <1>2, <1>3, TreeLinks
<1>5. SwappedTo(g, h, N, n, v)
  BY <1>1, SwappedLinks
<1>6. g \in Heap
  BY <1>5 DEF SwappedTo
<1>7. /\ g[v].left = a /\ g[v].right = b /\ g[v].cnt = h[n].cnt
      /\ \A x \in N \ {n} : g[x].cnt = h[x].cnt
  <2>1. v \in (N \ {n}) \cup {v} /\ \A x \in N \ {n} : x \in (N \ {n}) \cup {v} /\ x # v
    OBVIOUS
  <2>2. LeftOf(g)[v] = g[v].left /\ RightOf(g)[v] = g[v].right
    BY <1>6, HeapLinks
  <2> QED
    BY <1>2, <1>5, <2>1, <2>2 DEF SwappedTo
<1>8. SumsUp(g, v)
  <2>1. SumsUp(h, n)
    BY <1>1
  <2>2. avl_cnt(g, a) = avl_cnt(h, a) /\ avl_cnt(g, b) = avl_cnt(h, b)
    BY <1>4, <1>7 DEF avl_cnt
  <2> QED
    BY <1>2, <1>7, <2>1, <2>2 DEF SumsUp
<1>9. ASSUME NEW x \in N \ {n}  PROVE SumsUp(g, x)
  <2>1. /\ h[x].left \in N \cup {NULL} /\ h[x].right \in N \cup {NULL}
        /\ h[x].left # NULL => h[h[x].left].parent = x
        /\ h[x].right # NULL => h[h[x].right].parent = x
        /\ x \in Node /\ LeftOf(h)[x] = h[x].left /\ RightOf(h)[x] = h[x].right
    BY <1>3, TreeLinks
  <2>2. /\ g[x].left = IF x = q /\ h[x].left = n THEN v ELSE h[x].left
        /\ g[x].right = IF x = q /\ h[x].left # n THEN v ELSE h[x].right
    <3>1. LeftOf(g)[x] = g[x].left /\ RightOf(g)[x] = g[x].right /\ x # v
      BY <1>6, <2>1, HeapLinks
    <3> QED
      BY <1>2, <1>5, <2>1, <3>1 DEF SwappedTo
  <2>3. n # NULL /\ v # NULL
    BY <1>4, NodeAssumption
  <2>4. CASE x = q
    <3>1. (h[x].left = n /\ h[x].right # n) \/ (h[x].left # n /\ h[x].right = n)
      BY <1>4, <2>4, NodeAssumption
    <3>2. /\ avl_cnt(g, g[x].left) = avl_cnt(h, h[x].left)
          /\ avl_cnt(g, g[x].right) = avl_cnt(h, h[x].right)
      BY <1>4, <1>7, <2>1, <2>2, <2>3, <2>4, <3>1 DEF avl_cnt
    <3>3. SumsUp(h, x) /\ g[x].cnt = h[x].cnt
      BY <1>1, <1>7
    <3> QED
      BY <3>2, <3>3 DEF SumsUp
  <2>5. CASE x # q
    <3>1. h[x].left # n /\ h[x].right # n
      BY <1>2, <2>1, <2>3, <2>5
    <3>2. /\ avl_cnt(g, g[x].left) = avl_cnt(h, h[x].left)
          /\ avl_cnt(g, g[x].right) = avl_cnt(h, h[x].right)
      BY <1>4, <1>7, <2>1, <2>2, <2>5, <3>1 DEF avl_cnt
    <3>3. SumsUp(h, x) /\ g[x].cnt = h[x].cnt
      BY <1>1, <1>7
    <3> QED
      BY <3>2, <3>3 DEF SumsUp
  <2> QED
    BY <2>4, <2>5
<1> QED
  BY <1>8, <1>9

-----------------------------------------------------------------------------
(* The parents of the nodes whose counts a step leaves behind.             *)

(* Three links up from a node do not lead back to it. *)
LEMMA NoCycleOfThree ==
  ASSUME NEW h, NEW N, HeapTree(h, N), NEW s \in N, NEW m \in N, NEW n \in N,
         h[s].parent = m, h[m].parent = n
  PROVE  h[n].parent # s
<1>1. PICK l, r, p : l = LeftOf(h) /\ r = RightOf(h) /\ p = ParentOf(h)
  OBVIOUS
<1>2. IsTree(N, l, r, p)
  BY <1>1 DEF HeapTree
<1>3. Wired(N, l, r, p) /\ N \subseteq Node /\ NULL \notin N
  BY <1>2, NodeAssumption DEF IsTree
<1>4. PICK k \in [Node -> Nat], top \in Nat : Sinks(N, l, r, k, top)
  BY <1>2 DEF IsTree
<1>5. ASSUME NEW x \in N, NEW y \in N, p[x] = y  PROVE k[x] < k[y]
  BY <1>3, <1>4, <1>5 DEF Wired, Sinks
<1>6. p[s] = m /\ p[m] = n /\ p[n] = h[n].parent
  BY <1>1, TreeLinks
<1>7. SUFFICES ASSUME p[n] = s PROVE FALSE
  BY <1>6
<1>8. k[s] < k[m] /\ k[m] < k[n] /\ k[n] < k[s]
  BY <1>5, <1>6, <1>7
<1>9. k[s] \in Nat /\ k[m] \in Nat /\ k[n] \in Nat
  BY <1>3
<1> QED
  BY <1>8, <1>9

(* A rotation leaves the parent of the node above it alone. *)
LEMMA TurnedParent ==
  ASSUME NEW h, NEW N, HeapTree(h, N), NEW n \in N, NEW m, m = h[n].right, m # NULL,
         NEW q, q = h[n].parent, q # NULL, NEW half, half = rot_left(h, n),
         NEW g, g = Relink(half, q, n, m)
  PROVE  g[q].parent = h[q].parent
<1>1. /\ h \in Heap /\ N \subseteq Node /\ n \in Node /\ NULL \notin N
      /\ m \in N /\ m \in Node /\ q \in N /\ q \in Node /\ m # n /\ q # n /\ m # q
      /\ h[m].parent = n
  BY TreeLinks
<1>2. PICK s : s = h[m].left
  OBVIOUS
<1>3. s \in N \cup {NULL} /\ s # m /\ s # n /\ (s # NULL => h[s].parent = m)
  BY <1>1, <1>2, TreeLinks
<1>4. s # q
  BY <1>1, <1>3, NoCycleOfThree
<1>5. s \in Link /\ n \in Link /\ m \in Link
  BY <1>1, <1>3 DEF Link
<1>6. RotatedLeft(half, h, n, m, s)
  BY <1>1, <1>2, <1>3, <1>5, RotLeftLinks
<1>7. half \in Heap /\ ParentOf(half)[q] = ParentOf(h)[q]
  BY <1>1, <1>4, <1>6 DEF RotatedLeft
<1>8. Relinked(g, half, q, n, m)
  BY <1>1, <1>5, <1>7, RelinkLinks
<1>9. g \in Heap /\ ParentOf(g)[q] = ParentOf(half)[q]
  BY <1>1, <1>8 DEF Relinked
<1> QED
  BY <1>1, <1>7, <1>9, HeapLinks

LEMMA TurnedBackParent ==
  ASSUME NEW h, NEW N, HeapTree(h, N), NEW n \in N, NEW m, m = h[n].left, m # NULL,
         NEW q, q = h[n].parent, q # NULL, NEW half, half = rot_right(h, n),
         NEW g, g = Relink(half, q, n, m)
  PROVE  g[q].parent = h[q].parent
<1>1. /\ h \in Heap /\ N \subseteq Node /\ n \in Node /\ NULL \notin N
      /\ m \in N /\ m \in Node /\ q \in N /\ q \in Node /\ m # n /\ q # n /\ m # q
      /\ h[m].parent = n
  BY TreeLinks
<1>2. PICK s : s = h[m].right
  OBVIOUS
<1>3. s \in N \cup {NULL} /\ s # m /\ s # n /\ (s # NULL => h[s].parent = m)
  BY <1>1, <1>2, TreeLinks
<1>4. s # q
  BY <1>1, <1>3, NoCycleOfThree
<1>5. s \in Link /\ n \in Link /\ m \in Link
  BY <1>1, <1>3 DEF Link
<1>6. RotatedRight(half, h, n, m, s)
  BY <1>1, <1>2, <1>3, <1>5, RotRightLinks
<1>7. half \in Heap /\ ParentOf(half)[q] = ParentOf(h)[q]
  BY <1>1, <1>4, <1>6 DEF RotatedRight
<1>8. Relinked(g, half, q, n, m)
  BY <1>1, <1>5, <1>7, RelinkLinks
<1>9. g \in Heap /\ ParentOf(g)[q] = ParentOf(half)[q]
  BY <1>1, <1>8 DEF Relinked
<1> QED
  BY <1>1, <1>7, <1>9, HeapLinks

(* A new node's parent is the one it was linked below. *)
LEMMA LeafParent ==
  ASSUME NEW h \in Heap, NEW a \in Node, NEW t \in Node, t # a,
         h[t].left = NULL, h[t].right = NULL, NEW less \in BOOLEAN,
         NEW g, g = LeafLinked(h, a, t, less)
  PROVE  g[t].parent = a
<1>1. PICK half : NodeSet(g, half, t, NULL, NULL, a)
  BY LeafLinks
<1>2. g \in Heap /\ ParentOf(g)[t] = a
  BY <1>1 DEF NodeSet
<1> QED
  BY <1>2, HeapLinks

LEMMA PlacedParent ==
  ASSUME NEW h \in Heap, NEW a \in Link, NEW t \in Node, t # a,
         h[t].right = NULL, NEW e \in Link, e # t, NEW g, g = HandLinked(h, a, t, e)
  PROVE  g[t].parent = a
<1>1. PICK placed, above :
        /\ NodeSet(placed, h, t, e, NULL, a)
        /\ ParentSet(above, placed, e, t)
        /\ a = NULL => g = above
        /\ a # NULL => NodeSet(g, above, a, LeftOf(above)[a], t, ParentOf(above)[a])
  BY HandLinks
<1>2. ParentOf(placed)[t] = a
  BY <1>1 DEF NodeSet
<1>3. above \in Heap /\ ParentOf(above)[t] = a
  BY <1>1, <1>2 DEF ParentSet
<1>4. g \in Heap /\ ParentOf(g)[t] = a
  <2>1. CASE a = NULL
    BY <1>1, <1>3, <2>1
  <2>2. CASE a # NULL
    BY <1>1, <1>3, <2>2 DEF NodeSet
  <2> QED
    BY <2>1, <2>2
<1> QED
  BY <1>4, HeapLinks

-----------------------------------------------------------------------------
(* The order of a tree.                                                    *)

(* i puts the nodes in order: each lies between what is below it on its    *)
(* left and on its right, and all that between the bounds lo and hi.       *)
Spread(h, N, lo, i, hi, top) ==
  \A n \in N :
    /\ lo[n] <= i[n] /\ i[n] <= hi[n] /\ hi[n] <= top
    /\ h[n].left # NULL => lo[n] <= lo[h[n].left] /\ hi[h[n].left] < i[n]
    /\ h[n].right # NULL => i[n] < lo[h[n].right] /\ hi[h[n].right] <= hi[n]

Spans(h, N, i) == \E lo, hi \in [Node -> Int], top \in Int : Spread(h, N, lo, i, hi, top)

LEMMA KeptSpans ==
  ASSUME NEW h, NEW N, NEW i, Spans(h, N, i), NEW g,
         \A x \in N : g[x].left = h[x].left /\ g[x].right = h[x].right
  PROVE  Spans(g, N, i)
<1>1. PICK lo \in [Node -> Int], hi \in [Node -> Int], top \in Int : Spread(h, N, lo, i, hi, top)
  BY DEF Spans
<1>2. Spread(g, N, lo, i, hi, top)
  BY <1>1 DEF Spread
<1> QED
  BY <1>2 DEF Spans

(* The links to children after m took the place of n. *)
Turned(g, h, N, n, m, s, q) ==
  \A x \in N :
    /\ g[x].left = IF x = m THEN n ELSE IF x = q /\ h[q].left = n THEN m ELSE h[x].left
    /\ g[x].right = IF x = n THEN s ELSE IF x = q /\ h[q].left # n THEN m ELSE h[x].right

LEMMA TurnedTo ==
  ASSUME NEW h, NEW N, HeapTree(h, N), NEW n \in N, NEW m, m = h[n].right, m # NULL,
         NEW q, q = h[n].parent, NEW half, half = rot_left(h, n),
         NEW g, q = NULL => g = half, q # NULL => g = Relink(half, q, n, m)
  PROVE  Turned(g, h, N, n, m, h[m].left, q)
<1>1. /\ h \in Heap /\ N \subseteq Node /\ n \in Node /\ NULL \notin N
      /\ m \in N /\ m \in Node /\ q \in N \cup {NULL} /\ m # n /\ q # n /\ m # q
      /\ h[m].parent = n
  BY TreeLinks
<1>2. PICK s : s = h[m].left
  OBVIOUS
<1>3. s \in N \cup {NULL} /\ s # m /\ s # n
  BY <1>1, <1>2, TreeLinks
<1>4. s \in Link /\ q \in Link /\ n \in Link /\ m \in Link
  BY <1>1, <1>3 DEF Link
<1>5. RotatedLeft(half, h, n, m, s)
  BY <1>1, <1>2, <1>3, <1>4, RotLeftLinks
<1>6. half \in Heap
  BY <1>5 DEF RotatedLeft
<1>7. ASSUME NEW x \in N
      PROVE  /\ half[x].left = IF x = m THEN n ELSE h[x].left
             /\ half[x].right = IF x = n THEN s ELSE h[x].right
  BY <1>1, <1>5, <1>6, HeapLinks DEF RotatedLeft
<1>8. CASE q = NULL
  BY <1>1, <1>2, <1>7, <1>8 DEF Turned
<1>9. CASE q # NULL
  <2>1. q \in Node /\ g = Relink(half, q, n, m)
    BY <1>1, <1>9
  <2>2. Relinked(g, half, q, n, m)
    BY <1>4, <1>6, <2>1, RelinkLinks
  <2>3. g \in Heap /\ half[q].left = h[q].left
    BY <1>1, <1>7, <1>9, <2>2 DEF Relinked
  <2>4. ASSUME NEW x \in N
        PROVE  /\ g[x].left = IF x = q /\ h[q].left = n THEN m ELSE half[x].left
               /\ g[x].right = IF x = q /\ h[q].left # n THEN m ELSE half[x].right
    <3>1. x \in Node
      BY <1>1
    <3> QED
      BY <1>6, <2>2, <2>3, <3>1, HeapLinks DEF Relinked
  <2> QED
    BY <1>1, <1>2, <1>7, <2>4 DEF Turned
<1> QED
  BY <1>8, <1>9

LEMMA TurnedSpans ==
  ASSUME NEW h, NEW N, HeapTree(h, N), NEW n \in N, NEW m, m = h[n].right, m # NULL,
         NEW q, q = h[n].parent, NEW half, half = rot_left(h, n),
         NEW g, q = NULL => g = half, q # NULL => g = Relink(half, q, n, m),
         NEW i \in [Node -> Int], Spans(h, N, i)
  PROVE  Spans(g, N, i)
<1>1. /\ N \subseteq Node /\ n \in Node /\ NULL \notin N
      /\ m \in N /\ m \in Node /\ q \in N \cup {NULL} /\ m # n /\ q # n /\ m # q
      /\ h[m].parent = n
  BY TreeLinks
<1>2. PICK s : s = h[m].left
  OBVIOUS
<1>3. Turned(g, h, N, n, m, s, q)
  BY <1>2, TurnedTo
<1>4. PICK lo \in [Node -> Int], hi \in [Node -> Int], top \in Int : Spread(h, N, lo, i, hi, top)
  BY DEF Spans
<1>5. PICK lo2 \in [Node -> Int] : \A x \in Node : lo2[x] = IF x = m THEN lo[n] ELSE lo[x]
  <2>1. [x \in Node |-> IF x = m THEN lo[n] ELSE lo[x]] \in [Node -> Int]
    BY <1>1
  <2> QED
    BY <2>1
<1>6. PICK hi2 \in [Node -> Int] :
        \A x \in Node : hi2[x] = IF x = m THEN hi[n] ELSE IF x = n THEN i[m] - 1 ELSE hi[x]
  <2>1. [x \in Node |-> IF x = m THEN hi[n] ELSE IF x = n THEN i[m] - 1 ELSE hi[x]]
          \in [Node -> Int]
    BY <1>1
  <2> QED
    BY <2>1
<1>7. \A x \in N : lo[x] \in Int /\ i[x] \in Int /\ hi[x] \in Int
  BY <1>1
<1>8. ASSUME NEW x \in N
      PROVE  /\ x \in Node /\ h[x].left \in N \cup {NULL} /\ h[x].right \in N \cup {NULL}
             /\ h[x].left # NULL => h[h[x].left].parent = x
             /\ h[x].right # NULL => h[h[x].right].parent = x
             /\ lo[x] <= i[x] /\ i[x] <= hi[x] /\ hi[x] <= top
             /\ h[x].left # NULL => lo[x] <= lo[h[x].left] /\ hi[h[x].left] < i[x]
             /\ h[x].right # NULL => i[x] < lo[h[x].right] /\ hi[h[x].right] <= hi[x]
  BY <1>4, TreeLinks DEF Spread
<1>9. h[n].left # m /\ s # n /\ s # m /\ h[m].right # n /\ h[m].right # m
  <2>1. h[m].parent # NULL => (h[h[m].parent].left = m <=> h[h[m].parent].right # m)
    BY <1>1, TreeLinks
  <2>2. /\ h[m].left # m /\ h[m].right # m
        /\ h[m].left # NULL => h[m].left # h[m].parent
        /\ h[m].right # NULL => h[m].right # h[m].parent
    BY <1>1, TreeLinks
  <2> QED
    BY <1>1, <1>2, <2>1, <2>2
<1>10. /\ i[n] < lo[m] /\ hi[m] <= hi[n] /\ lo[n] <= i[n] /\ lo[m] <= i[m] /\ i[m] <= hi[m]
       /\ hi[n] <= top
       /\ s # NULL => lo[m] <= lo[s] /\ hi[s] < i[m]
  BY <1>1, <1>2, <1>8
<1>11. ASSUME NEW x \in N
       PROVE  /\ lo2[x] <= i[x] /\ i[x] <= hi2[x] /\ hi2[x] <= top
              /\ g[x].left # NULL => lo2[x] <= lo2[g[x].left] /\ hi2[g[x].left] < i[x]
              /\ g[x].right # NULL => i[x] < lo2[g[x].right] /\ hi2[g[x].right] <= hi2[x]
  <2>1. lo2[x] <= i[x] /\ i[x] <= hi2[x] /\ hi2[x] <= top
    BY <1>1, <1>5, <1>6, <1>7, <1>8, <1>10
  <2>2. CASE x = m
    <3>1. g[x].left = n /\ g[x].right = h[m].right
      BY <1>1, <1>3, <2>2 DEF Turned
    <3>2. lo2[x] <= lo2[n] /\ hi2[n] < i[x]
      BY <1>1, <1>5, <1>6, <1>7, <1>10, <2>2
    <3>3. h[m].right # NULL => i[x] < lo2[h[m].right] /\ hi2[h[m].right] <= hi2[x]
      BY <1>1, <1>5, <1>6, <1>7, <1>8, <1>9, <1>10, <2>2
    <3> QED
      BY <2>1, <3>1, <3>2, <3>3
  <2>3. CASE x = n
    <3>1. g[x].left = h[n].left /\ g[x].right = s
      BY <1>1, <1>3, <2>3 DEF Turned
    <3>2. h[n].left # n
      BY TreeLinks
    <3>3. h[n].left # NULL => lo2[x] <= lo2[h[n].left] /\ hi2[h[n].left] < i[x]
      BY <1>1, <1>5, <1>6, <1>7, <1>8, <1>9, <2>3, <3>2
    <3>4. s # NULL => i[x] < lo2[s] /\ hi2[s] <= hi2[x]
      <4>1. s # NULL => s \in N /\ s \in Node
        BY <1>1, <1>2, <1>8
      <4> QED
        BY <1>1, <1>5, <1>6, <1>7, <1>9, <1>10, <2>3, <4>1
    <3> QED
      BY <2>1, <3>1, <3>3, <3>4
  <2>4. CASE x # m /\ x # n
    <3>1. h[x].left # m /\ h[x].right # m
      BY <1>1, <1>8, <2>4
    <3>2. /\ g[x].left = IF h[x].left = n THEN m ELSE h[x].left
          /\ g[x].right = IF h[x].right = n THEN m ELSE h[x].right
      <4>1. (h[x].left = n \/ h[x].right = n) => x = q
        BY <1>1, <1>8
      <4>2. x = q => (h[q].left = n <=> h[q].right # n)
        BY TreeLinks
      <4> QED
        BY <1>1, <1>3, <2>4, <4>1, <4>2 DEF Turned
    <3>3. g[x].left # NULL => lo2[x] <= lo2[g[x].left] /\ hi2[g[x].left] < i[x]
      BY <1>1, <1>5, <1>6, <1>7, <1>8, <2>4, <3>1, <3>2
    <3>4. g[x].right # NULL => i[x] < lo2[g[x].right] /\ hi2[g[x].right] <= hi2[x]
      BY <1>1, <1>5, <1>6, <1>7, <1>8, <2>4, <3>1, <3>2
    <3> QED
      BY <2>1, <3>3, <3>4
  <2> QED
    BY <2>2, <2>3, <2>4
<1>12. Spread(g, N, lo2, i, hi2, top)
  BY <1>11 DEF Spread
<1> QED
  BY <1>12 DEF Spans

(* The mirror image. *)
TurnedBack(g, h, N, n, m, s, q) ==
  \A x \in N :
    /\ g[x].left = IF x = n THEN s ELSE IF x = q /\ h[q].left = n THEN m ELSE h[x].left
    /\ g[x].right = IF x = m THEN n ELSE IF x = q /\ h[q].left # n THEN m ELSE h[x].right

LEMMA TurnedBackTo ==
  ASSUME NEW h, NEW N, HeapTree(h, N), NEW n \in N, NEW m, m = h[n].left, m # NULL,
         NEW q, q = h[n].parent, NEW half, half = rot_right(h, n),
         NEW g, q = NULL => g = half, q # NULL => g = Relink(half, q, n, m)
  PROVE  TurnedBack(g, h, N, n, m, h[m].right, q)
<1>1. /\ h \in Heap /\ N \subseteq Node /\ n \in Node /\ NULL \notin N
      /\ m \in N /\ m \in Node /\ q \in N \cup {NULL} /\ m # n /\ q # n /\ m # q
      /\ h[m].parent = n
  BY TreeLinks
<1>2. PICK s : s = h[m].right
  OBVIOUS
<1>3. s \in N \cup {NULL} /\ s # m /\ s # n
  BY <1>1, <1>2, TreeLinks
<1>4. s \in Link /\ q \in Link /\ n \in Link /\ m \in Link
  BY <1>1, <1>3 DEF Link
<1>5. RotatedRight(half, h, n, m, s)
  BY <1>1, <1>2, <1>3, <1>4, RotRightLinks
<1>6. half \in Heap
  BY <1>5 DEF RotatedRight
<1>7. ASSUME NEW x \in N
      PROVE  /\ half[x].right = IF x = m THEN n ELSE h[x].right
             /\ half[x].left = IF x = n THEN s ELSE h[x].left
  BY <1>1, <1>5, <1>6, HeapLinks DEF RotatedRight
<1>8. CASE q = NULL
  BY <1>1, <1>2, <1>7, <1>8 DEF TurnedBack
<1>9. CASE q # NULL
  <2>1. q \in Node /\ g = Relink(half, q, n, m)
    BY <1>1, <1>9
  <2>2. Relinked(g, half, q, n, m)
    BY <1>4, <1>6, <2>1, RelinkLinks
  <2>3. g \in Heap /\ half[q].left = h[q].left
    BY <1>1, <1>7, <1>9, <2>2 DEF Relinked
  <2>4. ASSUME NEW x \in N
        PROVE  /\ g[x].left = IF x = q /\ h[q].left = n THEN m ELSE half[x].left
               /\ g[x].right = IF x = q /\ h[q].left # n THEN m ELSE half[x].right
    <3>1. x \in Node
      BY <1>1
    <3> QED
      BY <1>6, <2>2, <2>3, <3>1, HeapLinks DEF Relinked
  <2> QED
    BY <1>1, <1>2, <1>7, <2>4 DEF TurnedBack
<1> QED
  BY <1>8, <1>9

LEMMA TurnedBackSpans ==
  ASSUME NEW h, NEW N, HeapTree(h, N), NEW n \in N, NEW m, m = h[n].left, m # NULL,
         NEW q, q = h[n].parent, NEW half, half = rot_right(h, n),
         NEW g, q = NULL => g = half, q # NULL => g = Relink(half, q, n, m),
         NEW i \in [Node -> Int], Spans(h, N, i)
  PROVE  Spans(g, N, i)
<1>1. /\ N \subseteq Node /\ n \in Node /\ NULL \notin N
      /\ m \in N /\ m \in Node /\ q \in N \cup {NULL} /\ m # n /\ q # n /\ m # q
      /\ h[m].parent = n
  BY TreeLinks
<1>2. PICK s : s = h[m].right
  OBVIOUS
<1>3. TurnedBack(g, h, N, n, m, s, q)
  BY <1>2, TurnedBackTo
<1>4. PICK lo \in [Node -> Int], hi \in [Node -> Int], top \in Int : Spread(h, N, lo, i, hi, top)
  BY DEF Spans
<1>5. PICK lo2 \in [Node -> Int] :
        \A x \in Node : lo2[x] = IF x = m THEN lo[n] ELSE IF x = n THEN i[m] + 1 ELSE lo[x]
  <2>1. [x \in Node |-> IF x = m THEN lo[n] ELSE IF x = n THEN i[m] + 1 ELSE lo[x]]
          \in [Node -> Int]
    BY <1>1
  <2> QED
    BY <2>1
<1>6. PICK hi2 \in [Node -> Int] : \A x \in Node : hi2[x] = IF x = m THEN hi[n] ELSE hi[x]
  <2>1. [x \in Node |-> IF x = m THEN hi[n] ELSE hi[x]] \in [Node -> Int]
    BY <1>1
  <2> QED
    BY <2>1
<1>7. \A x \in N : lo[x] \in Int /\ i[x] \in Int /\ hi[x] \in Int
  BY <1>1
<1>8. ASSUME NEW x \in N
      PROVE  /\ x \in Node /\ h[x].left \in N \cup {NULL} /\ h[x].right \in N \cup {NULL}
             /\ h[x].left # NULL => h[h[x].left].parent = x
             /\ h[x].right # NULL => h[h[x].right].parent = x
             /\ lo[x] <= i[x] /\ i[x] <= hi[x] /\ hi[x] <= top
             /\ h[x].left # NULL => lo[x] <= lo[h[x].left] /\ hi[h[x].left] < i[x]
             /\ h[x].right # NULL => i[x] < lo[h[x].right] /\ hi[h[x].right] <= hi[x]
  BY <1>4, TreeLinks DEF Spread
<1>9. h[n].right # m /\ s # n /\ s # m /\ h[m].left # n /\ h[m].left # m
  <2>1. h[m].parent # NULL => (h[h[m].parent].left = m <=> h[h[m].parent].right # m)
    BY <1>1, TreeLinks
  <2>2. /\ h[m].left # m /\ h[m].right # m
        /\ h[m].left # NULL => h[m].left # h[m].parent
        /\ h[m].right # NULL => h[m].right # h[m].parent
    BY <1>1, TreeLinks
  <2> QED
    BY <1>1, <1>2, <2>1, <2>2
<1>10. /\ hi[m] < i[n] /\ lo[n] <= lo[m] /\ i[n] <= hi[n] /\ lo[m] <= i[m] /\ i[m] <= hi[m]
       /\ hi[n] <= top
       /\ s # NULL => i[m] < lo[s] /\ hi[s] <= hi[m]
  BY <1>1, <1>2, <1>8
<1>11. ASSUME NEW x \in N
       PROVE  /\ lo2[x] <= i[x] /\ i[x] <= hi2[x] /\ hi2[x] <= top
              /\ g[x].left # NULL => lo2[x] <= lo2[g[x].left] /\ hi2[g[x].left] < i[x]
              /\ g[x].right # NULL => i[x] < lo2[g[x].right] /\ hi2[g[x].right] <= hi2[x]
  <2>1. lo2[x] <= i[x] /\ i[x] <= hi2[x] /\ hi2[x] <= top
    BY <1>1, <1>5, <1>6, <1>7, <1>8, <1>10
  <2>2. CASE x = m
    <3>1. g[x].left = h[m].left /\ g[x].right = n
      BY <1>1, <1>3, <2>2 DEF TurnedBack
    <3>2. i[x] < lo2[n] /\ hi2[n] <= hi2[x]
      BY <1>1, <1>5, <1>6, <1>7, <1>10, <2>2
    <3>3. h[m].left # NULL => lo2[x] <= lo2[h[m].left] /\ hi2[h[m].left] < i[x]
      BY <1>1, <1>5, <1>6, <1>7, <1>8, <1>9, <1>10, <2>2
    <3> QED
      BY <2>1, <3>1, <3>2, <3>3
  <2>3. CASE x = n
    <3>1. g[x].left = s /\ g[x].right = h[n].right
      BY <1>1, <1>3, <2>3 DEF TurnedBack
    <3>2. h[n].right # n
      BY TreeLinks
    <3>3. h[n].right # NULL => i[x] < lo2[h[n].right] /\ hi2[h[n].right] <= hi2[x]
      BY <1>1, <1>5, <1>6, <1>7, <1>8, <1>9, <2>3, <3>2
    <3>4. s # NULL => lo2[x] <= lo2[s] /\ hi2[s] < i[x]
      <4>1. s # NULL => s \in N /\ s \in Node
        BY <1>1, <1>2, <1>8
      <4> QED
        BY <1>1, <1>5, <1>6, <1>7, <1>9, <1>10, <2>3, <4>1
    <3> QED
      BY <2>1, <3>1, <3>3, <3>4
  <2>4. CASE x # m /\ x # n
    <3>1. h[x].left # m /\ h[x].right # m
      BY <1>1, <1>8, <2>4
    <3>2. /\ g[x].left = IF h[x].left = n THEN m ELSE h[x].left
          /\ g[x].right = IF h[x].right = n THEN m ELSE h[x].right
      <4>1. (h[x].left = n \/ h[x].right = n) => x = q
        BY <1>1, <1>8
      <4>2. x = q => (h[q].left = n <=> h[q].right # n)
        BY TreeLinks
      <4> QED
        BY <1>1, <1>3, <2>4, <4>1, <4>2 DEF TurnedBack
    <3>3. g[x].left # NULL => lo2[x] <= lo2[g[x].left] /\ hi2[g[x].left] < i[x]
      BY <1>1, <1>5, <1>6, <1>7, <1>8, <2>4, <3>1, <3>2
    <3>4. g[x].right # NULL => i[x] < lo2[g[x].right] /\ hi2[g[x].right] <= hi2[x]
      BY <1>1, <1>5, <1>6, <1>7, <1>8, <2>4, <3>1, <3>2
    <3> QED
      BY <2>1, <3>3, <3>4
  <2> QED
    BY <2>2, <2>3, <2>4
<1>12. Spread(g, N, lo2, i, hi2, top)
  BY <1>11 DEF Spread
<1> QED
  BY <1>12 DEF Spans

(* A splice brings the child closer to the parent, whose bounds it is      *)
(* within.                                                                 *)
LEMMA SplicedSpans ==
  ASSUME NEW h, NEW N, HeapTree(h, N), NEW n \in N, h[n].right = NULL,
         NEW c, c = h[n].left, NEW q, q = h[n].parent,
         NEW up, up = SetParent(h, c, q),
         NEW g, q = NULL => g = up, q # NULL => g = Relink(up, q, n, c),
         NEW i \in [Node -> Int], Spans(h, N, i)
  PROVE  Spans(g, N \ {n}, i)
<1>1. /\ h \in Heap /\ N \subseteq Node /\ n \in Node /\ NULL \notin N
      /\ c \in N \cup {NULL} /\ q \in N \cup {NULL} /\ c # n /\ q # n
      /\ q # NULL => (h[q].left = n <=> h[q].right # n)
  BY TreeLinks
<1>2. c \in Link /\ q \in Link /\ n \in Link
  BY <1>1 DEF Link
<1>3. ParentSet(up, h, c, q)
  BY <1>1, <1>2, SetParentLinks
<1>4. up \in Heap
  BY <1>3 DEF ParentSet
<1>5. ASSUME NEW x \in N  PROVE up[x].left = h[x].left /\ up[x].right = h[x].right
  <2>1. x \in Node
    BY <1>1
  <2> QED
    BY <1>1, <1>3, <1>4, <2>1, HeapLinks DEF ParentSet
<1>6. ASSUME NEW x \in N
      PROVE  /\ g[x].left = IF x = q /\ h[q].left = n THEN c ELSE h[x].left
             /\ g[x].right = IF x = q /\ h[q].left # n THEN c ELSE h[x].right
  <2>1. CASE q = NULL
    BY <1>1, <1>5, <2>1
  <2>2. CASE q # NULL
    <3>1. q \in Node /\ x \in Node /\ q \in N /\ g = Relink(up, q, n, c)
      BY <1>1, <2>2
    <3>2. Relinked(g, up, q, n, c)
      BY <1>2, <1>4, <3>1, RelinkLinks
    <3>3. g \in Heap /\ up[q].left = h[q].left
      BY <1>5, <3>1, <3>2 DEF Relinked
    <3> QED
      BY <1>4, <1>5, <3>1, <3>2, <3>3, HeapLinks DEF Relinked
  <2> QED
    BY <2>1, <2>2
<1>7. PICK lo \in [Node -> Int], hi \in [Node -> Int], top \in Int : Spread(h, N, lo, i, hi, top)
  BY DEF Spans
<1>8. \A x \in N : lo[x] \in Int /\ i[x] \in Int /\ hi[x] \in Int
  BY <1>1
<1>9. ASSUME NEW x \in N
      PROVE  /\ h[x].left \in N \cup {NULL} /\ h[x].right \in N \cup {NULL}
             /\ h[x].left # NULL => h[h[x].left].parent = x
             /\ h[x].right # NULL => h[h[x].right].parent = x
             /\ lo[x] <= i[x] /\ i[x] <= hi[x] /\ hi[x] <= top
             /\ h[x].left # NULL => lo[x] <= lo[h[x].left] /\ hi[h[x].left] < i[x]
             /\ h[x].right # NULL => i[x] < lo[h[x].right] /\ hi[h[x].right] <= hi[x]
  BY <1>7, TreeLinks DEF Spread
<1>10. c # NULL => lo[n] <= lo[c] /\ hi[c] < i[n] /\ i[n] <= hi[n] /\ c \in N
  BY <1>1, <1>9
<1>11. ASSUME NEW x \in N \ {n}
       PROVE  /\ g[x].left # NULL => lo[x] <= lo[g[x].left] /\ hi[g[x].left] < i[x]
              /\ g[x].right # NULL => i[x] < lo[g[x].right] /\ hi[g[x].right] <= hi[x]
  <2>1. CASE x = q /\ h[q].left = n
    <3>1. g[x].left = c /\ g[x].right = h[x].right
      BY <1>6, <2>1
    <3>2. lo[x] <= lo[n] /\ hi[n] < i[x]
      BY <1>1, <1>9, <2>1
    <3>3. c # NULL => lo[x] <= lo[c] /\ hi[c] < i[x]
      BY <1>8, <1>10, <3>2
    <3> QED
      BY <1>9, <3>1, <3>3
  <2>2. CASE x = q /\ h[q].left # n
    <3>1. g[x].right = c /\ g[x].left = h[x].left /\ h[x].right = n
      BY <1>1, <1>6, <2>2
    <3>2. i[x] < lo[n] /\ hi[n] <= hi[x]
      BY <1>1, <1>9, <2>2, <3>1
    <3>3. c # NULL => i[x] < lo[c] /\ hi[c] <= hi[x]
      BY <1>8, <1>10, <3>2
    <3> QED
      BY <1>9, <3>1, <3>3
  <2>3. CASE x # q
    BY <1>6, <1>9, <2>3
  <2> QED
    BY <2>1, <2>2, <2>3
<1>12. Spread(g, N \ {n}, lo, i, hi, top)
  BY <1>9, <1>11 DEF Spread
<1> QED
  BY <1>12 DEF Spans

(* A swap gives the victim the bounds of the node it replaces. *)
LEMMA SwappedSpans ==
  ASSUME NEW N, HeapTree(heap, N), NEW n \in N, NEW v \in Node, v \notin N,
         NEW g, g = Swapped(n, v),
         NEW i \in [Node -> Int], Spans(heap, N, i),
         NEW i2 \in [Node -> Int], \A x \in Node : i2[x] = IF x = v THEN i[n] ELSE i[x]
  PROVE  Spans(g, (N \ {n}) \cup {v}, i2)
<1>1. PICK h : h = heap
  OBVIOUS
<1>2. PICK M : M = (N \ {n}) \cup {v}
  OBVIOUS
<1>3. HeapTree(h, N) /\ Spans(h, N, i)
  BY <1>1
<1>4. SwappedTo(g, h, N, n, v)
  BY <1>1, SwappedLinks
<1>5. /\ h \in Heap /\ N \subseteq Node /\ n \in Node /\ NULL \notin N /\ M \subseteq Node
      /\ g \in Heap
  BY <1>2, <1>3, <1>4, TreeLinks DEF SwappedTo
<1>6. PICK lo \in [Node -> Int], hi \in [Node -> Int], top \in Int : Spread(h, N, lo, i, hi, top)
  BY <1>3 DEF Spans
<1>7. PICK lo2 \in [Node -> Int] : \A x \in Node : lo2[x] = IF x = v THEN lo[n] ELSE lo[x]
  <2>1. [x \in Node |-> IF x = v THEN lo[n] ELSE lo[x]] \in [Node -> Int]
    BY <1>5
  <2> QED
    BY <2>1
<1>8. PICK hi2 \in [Node -> Int] : \A x \in Node : hi2[x] = IF x = v THEN hi[n] ELSE hi[x]
  <2>1. [x \in Node |-> IF x = v THEN hi[n] ELSE hi[x]] \in [Node -> Int]
    BY <1>5
  <2> QED
    BY <2>1
<1>9. ASSUME NEW x \in N
      PROVE  /\ x \in Node /\ x # v
             /\ h[x].left \in N \cup {NULL} /\ h[x].right \in N \cup {NULL}
             /\ h[x].left # n \/ h[x].right # n
             /\ h[x].left = n \/ h[x].right = n => x = h[n].parent
             /\ lo[x] <= i[x] /\ i[x] <= hi[x] /\ hi[x] <= top
             /\ h[x].left # NULL => lo[x] <= lo[h[x].left] /\ hi[h[x].left] < i[x]
             /\ h[x].right # NULL => i[x] < lo[h[x].right] /\ hi[h[x].right] <= hi[x]
  <2>1. /\ x \in Node /\ x # v
        /\ h[x].left \in N \cup {NULL} /\ h[x].right \in N \cup {NULL}
        /\ h[x].left # NULL => h[h[x].left].parent = x
        /\ h[x].right # NULL => h[h[x].right].parent = x
    BY <1>3, TreeLinks
  <2>2. /\ h[n].parent # NULL => (h[h[n].parent].left = n <=> h[h[n].parent].right # n)
        /\ n # NULL
    BY <1>3, TreeLinks
  <2>3. h[x].left = n \/ h[x].right = n => x = h[n].parent
    BY <2>1, <2>2
  <2>4. h[x].left # n \/ h[x].right # n
    BY <1>5, <2>2, <2>3
  <2> QED
    BY <1>6, <2>1, <2>3, <2>4 DEF Spread
<1>10. ASSUME NEW x \in M
       PROVE  \E y \in N :
                /\ lo2[x] = lo[y] /\ i2[x] = i[y] /\ hi2[x] = hi[y]
                /\ g[x].left = IF h[y].left = n THEN v ELSE h[y].left
                /\ g[x].right = IF h[y].right = n THEN v ELSE h[y].right
  <2>1. /\ x \in Node /\ LeftOf(g)[x] = g[x].left /\ RightOf(g)[x] = g[x].right
        /\ LeftOf(h)[x] = h[x].left /\ RightOf(h)[x] = h[x].right
    BY <1>5, HeapLinks
  <2>2. CASE x = v
    <3>1. g[x].left = h[n].left /\ g[x].right = h[n].right
      BY <1>2, <1>4, <2>1, <2>2 DEF SwappedTo
    <3>2. h[n].left # n /\ h[n].right # n
      BY <1>3, TreeLinks
    <3>3. lo2[x] = lo[n] /\ i2[x] = i[n] /\ hi2[x] = hi[n]
      BY <1>7, <1>8, <2>1, <2>2
    <3> QED
      BY <3>1, <3>2, <3>3
  <2>3. CASE x # v
    <3>1. x \in N
      BY <1>2, <2>3
    <3>2. /\ g[x].left = IF x = h[n].parent /\ h[x].left = n THEN v ELSE h[x].left
          /\ g[x].right = IF x = h[n].parent /\ h[x].left # n THEN v ELSE h[x].right
      BY <1>2, <1>4, <2>1, <2>3 DEF SwappedTo
    <3>3. x = h[n].parent => (h[x].left = n <=> h[x].right # n)
      BY <1>3, <1>5, <3>1, TreeLinks
    <3>4. /\ g[x].left = IF h[x].left = n THEN v ELSE h[x].left
          /\ g[x].right = IF h[x].right = n THEN v ELSE h[x].right
      BY <1>9, <3>1, <3>2, <3>3
    <3>5. lo2[x] = lo[x] /\ i2[x] = i[x] /\ hi2[x] = hi[x]
      BY <1>7, <1>8, <2>1, <2>3
    <3> QED
      BY <3>1, <3>4, <3>5
  <2> QED
    BY <2>2, <2>3
<1>11. ASSUME NEW y \in N \cup {NULL}, NEW z, z = IF y = n THEN v ELSE y
       PROVE  /\ z = NULL <=> y = NULL
              /\ y # NULL => lo2[z] = lo[y] /\ hi2[z] = hi[y]
  <2>1. v # NULL /\ n # NULL /\ v \in Node
    BY <1>5, NodeAssumption
  <2>2. y # NULL => y \in N /\ y \in Node /\ y # v
    BY <1>5
  <2> QED
    BY <1>7, <1>8, <1>11, <2>1, <2>2
<1>12. ASSUME NEW x \in M
       PROVE  /\ lo2[x] <= i2[x] /\ i2[x] <= hi2[x] /\ hi2[x] <= top
              /\ g[x].left # NULL => lo2[x] <= lo2[g[x].left] /\ hi2[g[x].left] < i2[x]
              /\ g[x].right # NULL => i2[x] < lo2[g[x].right] /\ hi2[g[x].right] <= hi2[x]
  <2>1. PICK y \in N :
          /\ lo2[x] = lo[y] /\ i2[x] = i[y] /\ hi2[x] = hi[y]
          /\ g[x].left = IF h[y].left = n THEN v ELSE h[y].left
          /\ g[x].right = IF h[y].right = n THEN v ELSE h[y].right
    BY <1>10
  <2>2. h[y].left \in N \cup {NULL} /\ h[y].right \in N \cup {NULL}
    BY <1>9
  <2>3. /\ g[x].left = NULL <=> h[y].left = NULL
        /\ h[y].left # NULL => lo2[g[x].left] = lo[h[y].left] /\ hi2[g[x].left] = hi[h[y].left]
    BY <1>11, <2>1, <2>2
  <2>4. /\ g[x].right = NULL <=> h[y].right = NULL
        /\ h[y].right # NULL =>
             lo2[g[x].right] = lo[h[y].right] /\ hi2[g[x].right] = hi[h[y].right]
    BY <1>11, <2>1, <2>2
  <2> QED
    BY <1>9, <2>1, <2>3, <2>4
<1>13. Spread(g, M, lo2, i2, hi2, top)
  BY <1>12 DEF Spread
<1> QED
  BY <1>2, <1>13 DEF Spans

(* The links to children after t became a leaf below a. *)
LeafGrown(g, h, N, a, t, less) ==
  /\ g[t].left = NULL /\ g[t].right = NULL
  /\ \A x \in N :
       /\ g[x].left = IF x = a /\ less THEN t ELSE h[x].left
       /\ g[x].right = IF x = a /\ ~ less THEN t ELSE h[x].right

LEMMA LeafGrows ==
  ASSUME NEW h, NEW N, HeapTree(h, N), NEW a \in N, NEW t \in Node, t \notin N,
         h[t].left = NULL, h[t].right = NULL, NEW less \in BOOLEAN,
         NEW g, g = LeafLinked(h, a, t, less)
  PROVE  LeafGrown(g, h, N, a, t, less)
<1>1. h \in Heap /\ N \subseteq Node /\ a \in Node /\ t # a /\ NULL \notin N
  BY TreeLinks
<1>2. PICK half :
        /\ NodeSet(g, half, t, NULL, NULL, a)
        /\ less => NodeSet(half, h, a, t, h[a].right, h[a].parent)
        /\ ~ less => NodeSet(half, h, a, h[a].left, t, h[a].parent)
  BY <1>1, LeafLinks
<1>3. half \in Heap /\ g \in Heap
  BY <1>2 DEF NodeSet
<1>4. ASSUME NEW x \in N
      PROVE  /\ half[x].left = IF x = a /\ less THEN t ELSE h[x].left
             /\ half[x].right = IF x = a /\ ~ less THEN t ELSE h[x].right
  <2>1. x \in Node
    BY <1>1
  <2> QED
    BY <1>1, <1>2, <1>3, <2>1, HeapLinks DEF NodeSet
<1>5. ASSUME NEW x \in N  PROVE g[x].left = half[x].left /\ g[x].right = half[x].right
  <2>1. x \in Node /\ x # t
    BY <1>1
  <2> QED
    BY <1>2, <1>3, <2>1, HeapLinks DEF NodeSet
<1>6. g[t].left = NULL /\ g[t].right = NULL
  BY <1>2, <1>3, HeapLinks DEF NodeSet
<1> QED
  BY <1>4, <1>5, <1>6 DEF LeafGrown

(* A leaf finds room beside its parent once the others have moved apart. *)
LEMMA LeafSpans ==
  ASSUME NEW h, NEW N, HeapTree(h, N), NEW a \in N, NEW t \in Node, t \notin N,
         h[t].left = NULL, h[t].right = NULL, NEW less \in BOOLEAN,
         less => h[a].left = NULL, ~ less => h[a].right = NULL,
         NEW g, g = LeafLinked(h, a, t, less),
         NEW i \in [Node -> Int], Spans(h, N, i)
  PROVE  \E i2 \in [Node -> Int] : /\ Spans(g, N \cup {t}, i2)
                                   /\ \A x \in N : i2[x] = 2 * i[x]
<1>1. N \subseteq Node /\ a \in Node /\ t # a /\ NULL \notin N /\ t # NULL
  BY TreeLinks, NodeAssumption
<1>2. LeafGrown(g, h, N, a, t, less)
  BY LeafGrows
<1>3. PICK lo \in [Node -> Int], hi \in [Node -> Int], top \in Int : Spread(h, N, lo, i, hi, top)
  BY DEF Spans
<1>4. lo[a] \in Int /\ i[a] \in Int /\ hi[a] \in Int
  BY <1>1
<1>5. PICK j \in Int : j = IF less THEN 2 * lo[a] - 1 ELSE 2 * hi[a] + 1
  BY <1>4
<1>6. PICK lo2 \in [Node -> Int] :
        \A x \in Node : lo2[x] = IF x = t THEN j ELSE 2 * lo[x] - 1
  <2>1. [x \in Node |-> IF x = t THEN j ELSE 2 * lo[x] - 1] \in [Node -> Int]
    OBVIOUS
  <2> QED
    BY <2>1
<1>7. PICK i2 \in [Node -> Int] : \A x \in Node : i2[x] = IF x = t THEN j ELSE 2 * i[x]
  <2>1. [x \in Node |-> IF x = t THEN j ELSE 2 * i[x]] \in [Node -> Int]
    OBVIOUS
  <2> QED
    BY <2>1
<1>8. PICK hi2 \in [Node -> Int] :
        \A x \in Node : hi2[x] = IF x = t THEN j ELSE 2 * hi[x] + 1
  <2>1. [x \in Node |-> IF x = t THEN j ELSE 2 * hi[x] + 1] \in [Node -> Int]
    OBVIOUS
  <2> QED
    BY <2>1
<1>9. ASSUME NEW x \in N
      PROVE  /\ x \in Node /\ x # t
             /\ lo[x] \in Int /\ i[x] \in Int /\ hi[x] \in Int
             /\ lo2[x] = 2 * lo[x] - 1 /\ i2[x] = 2 * i[x] /\ hi2[x] = 2 * hi[x] + 1
             /\ h[x].left \in N \cup {NULL} /\ h[x].right \in N \cup {NULL}
             /\ lo[x] <= i[x] /\ i[x] <= hi[x] /\ hi[x] <= top
             /\ h[x].left # NULL => lo[x] <= lo[h[x].left] /\ hi[h[x].left] < i[x]
             /\ h[x].right # NULL => i[x] < lo[h[x].right] /\ hi[h[x].right] <= hi[x]
  <2>1. x \in Node /\ x # t
    BY <1>1
  <2>2. lo2[x] = 2 * lo[x] - 1 /\ i2[x] = 2 * i[x] /\ hi2[x] = 2 * hi[x] + 1
    BY <1>6, <1>7, <1>8, <2>1
  <2>3. h[x].left \in N \cup {NULL} /\ h[x].right \in N \cup {NULL}
    BY TreeLinks
  <2> QED
    BY <1>3, <2>1, <2>2, <2>3 DEF Spread
<1>10. lo2[t] = j /\ i2[t] = j /\ hi2[t] = j
  BY <1>6, <1>7, <1>8
<1>11. ASSUME NEW x \in N
       PROVE  /\ lo2[x] <= i2[x] /\ i2[x] <= hi2[x] /\ hi2[x] <= 2 * top + 1
              /\ g[x].left # NULL => lo2[x] <= lo2[g[x].left] /\ hi2[g[x].left] < i2[x]
              /\ g[x].right # NULL => i2[x] < lo2[g[x].right] /\ hi2[g[x].right] <= hi2[x]
  <2>1. lo2[x] <= i2[x] /\ i2[x] <= hi2[x] /\ hi2[x] <= 2 * top + 1
    BY <1>9
  <2>2. h[x].left # NULL => lo2[x] <= lo2[h[x].left] /\ hi2[h[x].left] < i2[x]
    <3>1. h[x].left # NULL => h[x].left \in N
      BY <1>9
    <3> QED
      BY <1>9, <3>1
  <2>3. h[x].right # NULL => i2[x] < lo2[h[x].right] /\ hi2[h[x].right] <= hi2[x]
    <3>1. h[x].right # NULL => h[x].right \in N
      BY <1>9
    <3> QED
      BY <1>9, <3>1
  <2>4. CASE x = a /\ less
    <3>1. g[x].left = t /\ g[x].right = h[x].right
      BY <1>2, <2>4 DEF LeafGrown
    <3>2. lo2[x] <= j /\ j < i2[x]
      BY <1>5, <1>9, <2>4
    <3> QED
      BY <1>10, <2>1, <2>3, <3>1, <3>2
  <2>5. CASE x = a /\ ~ less
    <3>1. g[x].right = t /\ g[x].left = h[x].left
      BY <1>2, <2>5 DEF LeafGrown
    <3>2. i2[x] < j /\ j <= hi2[x]
      BY <1>5, <1>9, <2>5
    <3> QED
      BY <1>10, <2>1, <2>2, <3>1, <3>2
  <2>6. CASE x # a
    <3>1. g[x].left = h[x].left /\ g[x].right = h[x].right
      BY <1>2, <2>6 DEF LeafGrown
    <3> QED
      BY <2>1, <2>2, <2>3, <3>1
  <2> QED
    BY <2>4, <2>5, <2>6
<1>12. j <= 2 * top + 1
  BY <1>5, <1>9
<1>13. g[t].left = NULL /\ g[t].right = NULL /\ 2 * top + 1 \in Int
  BY <1>2 DEF LeafGrown
<1>14. Spread(g, N \cup {t}, lo2, i2, hi2, 2 * top + 1)
  BY <1>10, <1>11, <1>12, <1>13 DEF Spread
<1>15. Spans(g, N \cup {t}, i2)
  BY <1>13, <1>14 DEF Spans
<1> QED
  BY <1>9, <1>15

LEMMA RootSpans ==
  ASSUME NEW h, NEW t \in Node, h[t].left = NULL, h[t].right = NULL, NEW i \in [Node -> Int]
  PROVE  Spans(h, {t}, i)
<1>1. i[t] \in Int
  OBVIOUS
<1>2. Spread(h, {t}, i, i, i, i[t])
  BY <1>1 DEF Spread
<1> QED
  BY <1>1, <1>2 DEF Spans

(* The nodes of A are a right edge that ends at a, or there is no a. *)
EdgeTo(h, A, a) ==
  /\ \A x \in A : h[x].parent # NULL => h[x].parent \in A /\ h[h[x].parent].right = x
  /\ IF a = NULL THEN A = {} ELSE a \in A /\ h[a].right \notin A

(* The links to children after t was placed below a, and above e. *)
Placed(g, h, N, a, t, e) ==
  /\ g[t].left = e /\ g[t].right = NULL
  /\ \A x \in N : g[x].left = h[x].left /\ g[x].right = IF x = a THEN t ELSE h[x].right

LEMMA IsPlaced ==
  ASSUME NEW h, NEW N, HeapTree(h, N), NEW a \in N \cup {NULL}, NEW t \in Node, t \notin N,
         h[t].right = NULL, NEW e \in N \cup {NULL}, NEW g, g = HandLinked(h, a, t, e)
  PROVE  Placed(g, h, N, a, t, e)
<1>1. h \in Heap /\ N \subseteq Node /\ NULL \notin N
  BY NodeAssumption DEF HeapTree, IsTree
<1>2. a \in Link /\ e \in Link /\ t # a
  BY <1>1, NodeAssumption DEF Link
<1>3. PICK placed, above :
        /\ NodeSet(placed, h, t, e, NULL, a)
        /\ ParentSet(above, placed, e, t)
        /\ a = NULL => g = above
        /\ a # NULL => NodeSet(g, above, a, LeftOf(above)[a], t, ParentOf(above)[a])
  BY <1>1, <1>2, HandLinks
<1>4. placed \in Heap /\ above \in Heap
  BY <1>3 DEF NodeSet, ParentSet
<1>5. ASSUME NEW x \in Node
      PROVE  /\ above[x].left = IF x = t THEN e ELSE h[x].left
             /\ above[x].right = IF x = t THEN NULL ELSE h[x].right
  BY <1>1, <1>3, <1>4, HeapLinks DEF NodeSet, ParentSet
<1>6. ASSUME NEW x \in Node
      PROVE  g[x].left = above[x].left /\ g[x].right = IF x = a THEN t ELSE above[x].right
  <2>1. CASE a = NULL
    BY <1>3, <2>1, NodeAssumption
  <2>2. CASE a # NULL
    <3>1. g \in Heap /\ NodeSet(g, above, a, LeftOf(above)[a], t, ParentOf(above)[a])
      BY <1>3, <2>2 DEF NodeSet
    <3> QED
      BY <1>4, <3>1, HeapLinks DEF NodeSet
  <2> QED
    BY <2>1, <2>2
<1> QED
  BY <1>1, <1>2, <1>5, <1>6 DEF Placed

(* What is placed on the right edge comes after all the others. *)
LEMMA PlacedSpans ==
  ASSUME NEW h, NEW N, HeapTree(h, N), NEW a \in N \cup {NULL}, NEW t \in Node, t \notin N,
         h[t].right = NULL, NEW e \in N \cup {NULL}, a # NULL => e = h[a].right,
         NEW A \in SUBSET N, EdgeTo(h, A, a),
         NEW g, g = HandLinked(h, a, t, e),
         NEW i \in [Node -> Int], Spans(h, N, i)
  PROVE  \E i2 \in [Node -> Int] : /\ Spans(g, N \cup {t}, i2)
                                   /\ \A x \in N : i2[x] = i[x] /\ i2[x] < i2[t]
<1>1. N \subseteq Node /\ NULL \notin N /\ t # NULL
  BY NodeAssumption DEF HeapTree, IsTree
<1>2. Placed(g, h, N, a, t, e)
  BY IsPlaced
<1>3. PICK lo \in [Node -> Int], hi \in [Node -> Int], top \in Int : Spread(h, N, lo, i, hi, top)
  BY DEF Spans
<1>4. PICK last \in Int : last = top + 1
  OBVIOUS
<1>5. PICK least \in Int : least = IF e = NULL THEN last ELSE lo[e]
  BY <1>1
<1>6. PICK lo2 \in [Node -> Int] : \A x \in Node : lo2[x] = IF x = t THEN least ELSE lo[x]
  <2>1. [x \in Node |-> IF x = t THEN least ELSE lo[x]] \in [Node -> Int]
    OBVIOUS
  <2> QED
    BY <2>1
<1>7. PICK i2 \in [Node -> Int] : \A x \in Node : i2[x] = IF x = t THEN last ELSE i[x]
  <2>1. [x \in Node |-> IF x = t THEN last ELSE i[x]] \in [Node -> Int]
    OBVIOUS
  <2> QED
    BY <2>1
<1>8. PICK hi2 \in [Node -> Int] :
        \A x \in Node : hi2[x] = IF x = t \/ x \in A THEN last ELSE hi[x]
  <2>1. [x \in Node |-> IF x = t \/ x \in A THEN last ELSE hi[x]] \in [Node -> Int]
    OBVIOUS
  <2> QED
    BY <2>1
<1>9. ASSUME NEW x \in N
      PROVE  /\ x \in Node /\ x # t
             /\ lo[x] \in Int /\ i[x] \in Int /\ hi[x] \in Int
             /\ lo2[x] = lo[x] /\ i2[x] = i[x]
             /\ hi2[x] = IF x \in A THEN last ELSE hi[x]
             /\ lo[x] <= i[x] /\ i[x] <= hi[x] /\ hi[x] < last
             /\ h[x].left # NULL => lo[x] <= lo[h[x].left] /\ hi[h[x].left] < i[x]
             /\ h[x].right # NULL => i[x] < lo[h[x].right] /\ hi[h[x].right] <= hi[x]
  <2>1. x \in Node /\ x # t
    BY <1>1
  <2>2. lo[x] \in Int /\ i[x] \in Int /\ hi[x] \in Int
    BY <2>1
  <2>3. hi[x] < last
    BY <1>3, <1>4, <2>2 DEF Spread
  <2> QED
    BY <1>3, <1>6, <1>7, <1>8, <2>1, <2>2, <2>3 DEF Spread
<1>10. lo2[t] = least /\ i2[t] = last /\ hi2[t] = last
  BY <1>6, <1>7, <1>8
<1>11. ASSUME NEW x \in N
       PROVE  /\ h[x].left \in N \cup {NULL} /\ h[x].right \in N \cup {NULL}
              /\ h[x].left # NULL => h[x].left \notin A
              /\ h[x].right # NULL /\ h[x].right \in A => x \in A
  <2>1. /\ h[x].left \in N \cup {NULL} /\ h[x].right \in N \cup {NULL}
        /\ h[x].left # NULL => h[h[x].left].parent = x
        /\ h[x].right # NULL => h[h[x].right].parent = x
    BY TreeLinks
  <2>2. h[x].left # NULL => h[x].left # h[x].right
    <3>1. LeftOf(h)[x] = h[x].left /\ RightOf(h)[x] = h[x].right
      BY TreeLinks
    <3> QED
      BY <3>1 DEF HeapTree, IsTree, Wired
  <2> QED
    BY <1>1, <2>1, <2>2 DEF EdgeTo
<1>12. e # NULL => e \in N /\ e \notin A
  <2>1. a = NULL => A = {}
    BY DEF EdgeTo
  <2>2. a # NULL => h[a].right \notin A
    BY DEF EdgeTo
  <2> QED
    BY <2>1, <2>2
<1>13. ASSUME NEW x \in N
       PROVE  /\ lo2[x] <= i2[x] /\ i2[x] <= hi2[x] /\ hi2[x] <= last
              /\ g[x].left # NULL => lo2[x] <= lo2[g[x].left] /\ hi2[g[x].left] < i2[x]
              /\ g[x].right # NULL => i2[x] < lo2[g[x].right] /\ hi2[g[x].right] <= hi2[x]
  <2>1. lo2[x] <= i2[x] /\ i2[x] <= hi2[x] /\ hi2[x] <= last
    BY <1>9
  <2>2. g[x].left # NULL => lo2[x] <= lo2[g[x].left] /\ hi2[g[x].left] < i2[x]
    <3>1. g[x].left = h[x].left
      BY <1>2 DEF Placed
    <3>2. ASSUME h[x].left # NULL
          PROVE  lo2[x] <= lo2[h[x].left] /\ hi2[h[x].left] < i2[x]
      <4>1. PICK c \in N : c = h[x].left /\ c \notin A
        BY <1>11, <3>2
      <4>2. lo[x] <= lo[c] /\ hi[c] < i[x]
        BY <1>9, <3>2, <4>1
      <4> QED
        BY <1>9, <4>1, <4>2
    <3> QED
      BY <3>1, <3>2
  <2>3. CASE x = a
    <3>1. g[x].right = t /\ x \in A
      BY <1>1, <1>2, <2>3 DEF Placed, EdgeTo
    <3>2. i2[x] < least
      <4>1. CASE e = NULL
        BY <1>5, <1>9, <4>1
      <4>2. CASE e # NULL
        BY <1>1, <1>5, <1>9, <2>3, <4>2
      <4> QED
        BY <4>1, <4>2
    <3>3. hi2[x] = last
      BY <1>9, <3>1
    <3> QED
      BY <1>10, <2>1, <2>2, <3>1, <3>2, <3>3
  <2>4. CASE x # a
    <3>1. g[x].right = h[x].right
      BY <1>2, <2>4 DEF Placed
    <3>2. ASSUME h[x].right # NULL
          PROVE  i2[x] < lo2[h[x].right] /\ hi2[h[x].right] <= hi2[x]
      <4>1. PICK c \in N : c = h[x].right /\ (c \in A => x \in A)
        BY <1>11, <3>2
      <4>2. i[x] < lo[c] /\ hi[c] <= hi[x]
        BY <1>9, <3>2, <4>1
      <4>3. i2[x] < lo2[c]
        BY <1>9, <4>2
      <4>4. hi2[c] <= hi2[x]
        BY <1>9, <4>1, <4>2
      <4> QED
        BY <4>1, <4>3, <4>4
    <3> QED
      BY <2>1, <2>2, <3>1, <3>2
  <2> QED
    BY <2>3, <2>4
<1>14. /\ g[t].left = e /\ g[t].right = NULL
       /\ least <= last
       /\ e # NULL => least <= lo2[e] /\ hi2[e] < last
  <2>1. g[t].left = e /\ g[t].right = NULL
    BY <1>2 DEF Placed
  <2>2. e # NULL => lo2[e] = least /\ hi2[e] < last /\ least <= last
    BY <1>5, <1>9, <1>12
  <2> QED
    BY <1>5, <2>1, <2>2
<1>15. Spread(g, N \cup {t}, lo2, i2, hi2, last)
  BY <1>10, <1>13, <1>14 DEF Spread
<1>16. Spans(g, N \cup {t}, i2)
  BY <1>15 DEF Spans
<1>17. \A x \in N : i2[x] = i[x] /\ i2[x] < i2[t]
  BY <1>9, <1>10
<1> QED
  BY <1>16, <1>17

(* What is below a node is within its bounds. *)
LEMMA WithinBounds ==
  ASSUME NEW h, NEW N, HeapTree(h, N), NEW lo \in [Node -> Int], NEW hi \in [Node -> Int],
         NEW i \in [Node -> Int], NEW top \in Int, Spread(h, N, lo, i, hi, top),
         NEW c \in N, NEW x \in ReachedFrom(h, N, c)
  PROVE  x \in N /\ lo[c] <= i[x] /\ i[x] <= hi[c]
<1>1. N \subseteq Node /\ \A y \in N : lo[y] \in Int /\ i[y] \in Int /\ hi[y] \in Int
  BY TreeLinks
<1>2. PICK S : S = {y \in N : lo[c] <= lo[y] /\ hi[y] <= hi[c]}
  OBVIOUS
<1>3. S \in SUBSET N /\ c \in S
  BY <1>1, <1>2
<1>4. ASSUME NEW y \in S, h[y].left # NULL  PROVE h[y].left \in S
  <2>1. PICK z \in N : z = h[y].left
    BY <1>3, <1>4, TreeLinks
  <2>2. y \in N /\ lo[y] <= lo[z] /\ hi[z] < i[y] /\ i[y] <= hi[y]
    BY <1>3, <1>4, <2>1 DEF Spread
  <2>3. lo[c] <= lo[y] /\ hi[y] <= hi[c]
    BY <1>2
  <2>4. lo[c] <= lo[z] /\ hi[z] <= hi[c]
    BY <1>1, <2>2, <2>3
  <2> QED
    BY <1>2, <2>1, <2>4
<1>5. ASSUME NEW y \in S, h[y].right # NULL  PROVE h[y].right \in S
  <2>1. PICK z \in N : z = h[y].right
    BY <1>3, <1>5, TreeLinks
  <2>2. y \in N /\ lo[y] <= i[y] /\ i[y] < lo[z] /\ hi[z] <= hi[y]
    BY <1>3, <1>5, <2>1 DEF Spread
  <2>3. lo[c] <= lo[y] /\ hi[y] <= hi[c]
    BY <1>2
  <2>4. lo[c] <= lo[z] /\ hi[z] <= hi[c]
    BY <1>1, <2>2, <2>3
  <2> QED
    BY <1>2, <2>1, <2>4
<1>6. WithChildren(h, S)
  BY <1>4, <1>5 DEF WithChildren
<1>7. x \in S
  BY <1>3, <1>6, ReachedCloses
<1>8. x \in N /\ lo[c] <= lo[x] /\ hi[x] <= hi[c] /\ lo[x] <= i[x] /\ i[x] <= hi[x]
  BY <1>2, <1>7 DEF Spread
<1> QED
  BY <1>1, <1>8

LEMMA SpansOrder ==
  ASSUME NEW h, NEW N, HeapTree(h, N), NEW i \in [Node -> Int], Spans(h, N, i), NEW n \in N
  PROVE  /\ \A x \in ReachedFrom(h, N, h[n].left) : x \in N /\ i[x] < i[n]
         /\ \A x \in ReachedFrom(h, N, h[n].right) : x \in N /\ i[n] < i[x]
<1>1. PICK lo \in [Node -> Int], hi \in [Node -> Int], top \in Int : Spread(h, N, lo, i, hi, top)
  BY DEF Spans
<1>2. N \subseteq Node /\ \A y \in N : lo[y] \in Int /\ i[y] \in Int /\ hi[y] \in Int
  BY TreeLinks
<1>3. ReachedFrom(h, N, NULL) = {}
  BY DEF ReachedFrom
<1>4. ASSUME NEW x \in ReachedFrom(h, N, h[n].left)  PROVE x \in N /\ i[x] < i[n]
  <2>1. PICK c \in N : c = h[n].left /\ c # NULL
    BY <1>3, TreeLinks
  <2>2. x \in N /\ i[x] <= hi[c]
    BY <1>1, <2>1, WithinBounds
  <2>3. hi[c] < i[n]
    BY <1>1, <2>1 DEF Spread
  <2> QED
    BY <1>2, <2>2, <2>3
<1>5. ASSUME NEW x \in ReachedFrom(h, N, h[n].right)  PROVE x \in N /\ i[n] < i[x]
  <2>1. PICK c \in N : c = h[n].right /\ c # NULL
    BY <1>3, TreeLinks
  <2>2. x \in N /\ lo[c] <= i[x]
    BY <1>1, <2>1, WithinBounds
  <2>3. i[n] < lo[c]
    BY <1>1, <2>1 DEF Spread
  <2> QED
    BY <1>2, <2>2, <2>3
<1> QED
  BY <1>4, <1>5

(* A tree with a node has a root: of the nodes with the greatest k, none   *)
(* has a parent.                                                           *)
LEMMA RootExists ==
  ASSUME NEW h, NEW N, HeapTree(h, N), N # {}
  PROVE  \E n \in N : h[n].parent = NULL
<1>1. PICK l, r, p : l = LeftOf(h) /\ r = RightOf(h) /\ p = ParentOf(h)
  OBVIOUS
<1>2. IsTree(N, l, r, p)
  BY <1>1 DEF HeapTree
<1>3. PICK k \in [Node -> Nat], top \in Nat : Sinks(N, l, r, k, top)
  BY <1>2 DEF IsTree
<1>4. N \subseteq Node /\ \A x \in N : k[x] \in Nat /\ k[x] <= top
  BY <1>2, <1>3 DEF IsTree, Sinks
<1> DEFINE I == {top - k[x] : x \in N}
<1>5. I \in SUBSET Nat /\ I # {}
  BY <1>4
<1>6. Min(I) \in I /\ \A j \in I : Min(I) <= j
  BY <1>5, MinOfNaturals
<1>7. PICK n \in N : Min(I) = top - k[n]
  BY <1>6
<1>8. SUFFICES ASSUME h[n].parent # NULL  PROVE FALSE
  OBVIOUS
<1>9. PICK q \in N : q = p[n]
  BY <1>1, <1>8, TreeLinks
<1>10. k[n] < k[q]
  <2>1. NULL \notin N
    BY TreeLinks
  <2> QED
    BY <1>2, <1>3, <1>9, <2>1 DEF IsTree, Wired, Sinks
<1>11. top - k[n] <= top - k[q]
  BY <1>6, <1>7
<1>12. k[n] \in Nat /\ k[q] \in Nat
  BY <1>4
<1> QED
  BY <1>10, <1>11, <1>12

(* What is not below a node is outside its bounds. *)
Outside(h, N, lo, i, hi, y) ==
  \A x \in N : x \notin ReachedFrom(h, N, y) => i[x] < lo[y] \/ hi[y] < i[x]

LEMMA OutsideBounds ==
  ASSUME NEW h, NEW N, HeapTree(h, N), NEW lo \in [Node -> Int], NEW hi \in [Node -> Int],
         NEW i \in [Node -> Int], NEW top \in Int, Spread(h, N, lo, i, hi, top),
         NEW c \in N
  PROVE  Outside(h, N, lo, i, hi, c)
<1>1. N \subseteq Node /\ \A y \in N : lo[y] \in Int /\ i[y] \in Int /\ hi[y] \in Int
  BY TreeLinks
<1>2. PICK S : S = {y \in N : Outside(h, N, lo, i, hi, y)}
  OBVIOUS
<1>3. PICK root \in N : h[root].parent = NULL
  BY RootExists
<1>4. ReachedFrom(h, N, root) = N
  BY <1>3, ReachedFromRoot
<1>5. S \in SUBSET N /\ root \in S
  BY <1>2, <1>4 DEF Outside
<1>6. ASSUME NEW y \in S, NEW z \in N, z = h[y].left  PROVE z \in S
  <2>1. y \in N /\ Outside(h, N, lo, i, hi, y)
    BY <1>2
  <2>2. ASSUME NEW x \in N, x \notin ReachedFrom(h, N, z)  PROVE i[x] < lo[z] \/ hi[z] < i[x]
    <3>1. /\ lo[y] <= i[y] /\ i[y] <= hi[y] /\ lo[y] <= lo[z] /\ hi[z] < i[y]
      <4>1. z # NULL
        BY TreeLinks
      <4> QED
        BY <1>6, <2>1, <4>1 DEF Spread
    <3>2. ReachedFrom(h, N, y) =
            {y} \cup ReachedFrom(h, N, h[y].left) \cup ReachedFrom(h, N, h[y].right)
      BY <2>1, ReachedStep
    <3>3. CASE x \notin ReachedFrom(h, N, y)
      <4>1. i[x] < lo[y] \/ hi[y] < i[x]
        BY <2>1, <3>3 DEF Outside
      <4> QED
        BY <1>1, <2>1, <3>1, <4>1
    <3>4. CASE x \in ReachedFrom(h, N, y)
      <4>1. x = y \/ x \in ReachedFrom(h, N, h[y].right)
        BY <1>6, <2>2, <3>2, <3>4
      <4>2. i[y] <= i[x]
        <5>1. CASE x = y
          BY <1>1, <2>1, <5>1
        <5>2. CASE x \in ReachedFrom(h, N, h[y].right)
          <6>1. Spans(h, N, i)
            BY DEF Spans
          <6>2. i[y] < i[x]
            BY <2>1, <5>2, <6>1, SpansOrder
          <6> QED
            BY <1>1, <2>1, <6>2
        <5> QED
          BY <4>1, <5>1, <5>2
      <4> QED
        BY <1>1, <2>1, <3>1, <4>2
    <3> QED
      BY <3>3, <3>4
  <2> QED
    BY <1>2, <2>2 DEF Outside
<1>7. ASSUME NEW y \in S, NEW z \in N, z = h[y].right  PROVE z \in S
  <2>1. y \in N /\ Outside(h, N, lo, i, hi, y)
    BY <1>2
  <2>2. ASSUME NEW x \in N, x \notin ReachedFrom(h, N, z)  PROVE i[x] < lo[z] \/ hi[z] < i[x]
    <3>1. /\ lo[y] <= i[y] /\ i[y] <= hi[y] /\ i[y] < lo[z] /\ hi[z] <= hi[y]
      <4>1. z # NULL
        BY TreeLinks
      <4> QED
        BY <1>7, <2>1, <4>1 DEF Spread
    <3>2. ReachedFrom(h, N, y) =
            {y} \cup ReachedFrom(h, N, h[y].left) \cup ReachedFrom(h, N, h[y].right)
      BY <2>1, ReachedStep
    <3>3. CASE x \notin ReachedFrom(h, N, y)
      <4>1. i[x] < lo[y] \/ hi[y] < i[x]
        BY <2>1, <3>3 DEF Outside
      <4> QED
        BY <1>1, <2>1, <3>1, <4>1
    <3>4. CASE x \in ReachedFrom(h, N, y)
      <4>1. x = y \/ x \in ReachedFrom(h, N, h[y].left)
        BY <1>7, <2>2, <3>2, <3>4
      <4>2. i[x] <= i[y]
        <5>1. CASE x = y
          BY <1>1, <2>1, <5>1
        <5>2. CASE x \in ReachedFrom(h, N, h[y].left)
          <6>1. Spans(h, N, i)
            BY DEF Spans
          <6>2. i[x] < i[y]
            BY <2>1, <5>2, <6>1, SpansOrder
          <6> QED
            BY <1>1, <2>1, <6>2
        <5> QED
          BY <4>1, <5>1, <5>2
      <4> QED
        BY <1>1, <2>1, <3>1, <4>2
    <3> QED
      BY <3>3, <3>4
  <2> QED
    BY <1>2, <2>2 DEF Outside
<1>8. WithChildren(h, S)
  <2>1. \A y \in S : h[y].left \in N \cup {NULL} /\ h[y].right \in N \cup {NULL}
    BY <1>5, TreeLinks
  <2> QED
    BY <1>6, <1>7, <2>1 DEF WithChildren
<1>9. c \in S
  BY <1>4, <1>5, <1>8, ReachedCloses
<1> QED
  BY <1>2, <1>9

(* Between a node and its right child comes what is on the left of the     *)
(* child, and nothing else.                                                *)
LEMMA BetweenRight ==
  ASSUME NEW h, NEW N, HeapTree(h, N), NEW i \in [Node -> Int], Spans(h, N, i),
         NEW n \in N, NEW c \in N, c = h[n].right, NEW x \in N, i[n] < i[x], i[x] < i[c]
  PROVE  x \in ReachedFrom(h, N, h[c].left)
<1>1. PICK lo \in [Node -> Int], hi \in [Node -> Int], top \in Int : Spread(h, N, lo, i, hi, top)
  BY DEF Spans
<1>2. N \subseteq Node /\ c # NULL /\ \A y \in N : lo[y] \in Int /\ i[y] \in Int /\ hi[y] \in Int
  BY TreeLinks
<1>3. lo[n] <= i[n] /\ i[c] <= hi[c] /\ hi[c] <= hi[n]
  BY <1>1, <1>2 DEF Spread
<1>4. x \in ReachedFrom(h, N, n)
  <2>1. Outside(h, N, lo, i, hi, n)
    BY <1>1, OutsideBounds
  <2>2. ~ (i[x] < lo[n] \/ hi[n] < i[x])
    BY <1>2, <1>3
  <2> QED
    BY <2>1, <2>2 DEF Outside
<1>5. x # n /\ x # c
  BY <1>2
<1>6. x \notin ReachedFrom(h, N, h[n].left)
  <2>1. x \in ReachedFrom(h, N, h[n].left) => i[x] < i[n]
    BY SpansOrder
  <2> QED
    BY <1>2, <2>1
<1>7. x \notin ReachedFrom(h, N, h[c].right)
  <2>1. x \in ReachedFrom(h, N, h[c].right) => i[c] < i[x]
    BY SpansOrder
  <2> QED
    BY <1>2, <2>1
<1>8. x \in ReachedFrom(h, N, c)
  BY <1>4, <1>5, <1>6, ReachedStep
<1> QED
  BY <1>5, <1>7, <1>8, ReachedStep

(* A set that has the parents of its nodes has every node above them.      *)
LEMMA UpToTop ==
  ASSUME NEW h, NEW N, HeapTree(h, N), NEW A \in SUBSET N,
         \A x \in A : h[x].parent # NULL => h[x].parent \in A,
         NEW c \in N, NEW x \in ReachedFrom(h, N, c), x \in A
  PROVE  c \in A
<1>1. PICK S : S = {y \in N : y \in A => c \in A}
  OBVIOUS
<1>2. S \in SUBSET N /\ c \in S
  BY <1>1
<1>3. ASSUME NEW y \in S, NEW z \in {h[y].left, h[y].right}, z # NULL  PROVE z \in S
  <2>1. y \in N /\ z \in N /\ h[z].parent = y /\ y # NULL
    BY <1>1, <1>3, TreeLinks
  <2> QED
    BY <1>1, <2>1
<1>4. WithChildren(h, S)
  BY <1>3 DEF WithChildren
<1>5. x \in S
  BY <1>2, <1>4, ReachedCloses
<1> QED
  BY <1>1, <1>5

(* The links to parents after t became a leaf below a. *)
LEMMA LeafParents ==
  ASSUME NEW h, NEW N, HeapTree(h, N), NEW a \in N, NEW t \in Node, t \notin N,
         h[t].left = NULL, h[t].right = NULL, NEW less \in BOOLEAN,
         NEW g, g = LeafLinked(h, a, t, less)
  PROVE  g[t].parent = a /\ \A x \in N : g[x].parent = h[x].parent
<1>1. h \in Heap /\ N \subseteq Node /\ a \in Node /\ t # a /\ NULL \notin N
  BY TreeLinks
<1>2. PICK half :
        /\ NodeSet(g, half, t, NULL, NULL, a)
        /\ less => NodeSet(half, h, a, t, h[a].right, h[a].parent)
        /\ ~ less => NodeSet(half, h, a, h[a].left, t, h[a].parent)
  BY <1>1, LeafLinks
<1>3. half \in Heap /\ g \in Heap
  BY <1>2 DEF NodeSet
<1>4. ASSUME NEW x \in N  PROVE g[x].parent = h[x].parent
  <2>1. x \in Node /\ x # t
    BY <1>1
  <2>2. half[x].parent = h[x].parent
    BY <1>1, <1>2, <1>3, <2>1, HeapLinks DEF NodeSet
  <2> QED
    BY <1>2, <1>3, <2>1, <2>2, HeapLinks DEF NodeSet
<1> QED
  BY <1>1, <1>4, LeafParent
=============================================================================
