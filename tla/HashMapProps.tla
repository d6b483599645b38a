---------------------------- MODULE HashMapProps ----------------------------
(***************************************************************************)
(* What makes the hash table of module HashMap correct, and the mapping    *)
(* under which it implements KVStore.                                      *)
(***************************************************************************)
EXTENDS HashMap

-----------------------------------------------------------------------------
(* The abstraction: what is stored, whatever table and chain it is in.     *)

Chains(t) == {t.tab[b] : b \in DOMAIN t.tab}
NodesOf(t) == UNION {{c[i] : i \in 1 .. Len(c)} : c \in Chains(t)}
Nodes == NodesOf(tb1) \cup NodesOf(tb2)

Contents ==
  [k \in {n.key : n \in Nodes} |-> (CHOOSE n \in Nodes : n.key = k).val]

(* A set that inserts has taken effect when hm_insert links its node; the  *)
(* help with the resize and the reply come later.                          *)
AfterInsert == pc \in {"help", "segv"} /\ caller = "insert"

AbstractStatus ==
  CASE pc = "idle" -> "ready"
    [] pc \in {"reply", "badfree"} \/ AfterInsert -> "applied"
    [] OTHER -> "invoked"

AbstractOut == IF AfterInsert THEN NilReply ELSE out

KV == INSTANCE KVStore
        WITH store <- Contents, status <- AbstractStatus, out <- AbstractOut

(* The hash table implements the key-value store: whatever the resizing    *)
(* state, a command reads and changes exactly the entry it names, and      *)
(* `keys' lists every key once (do_request and everything below it).       *)
ImplementsKVStore == KV!Spec

-----------------------------------------------------------------------------
(* The type of every variable, with HTab either unallocated or an array of *)
(* mask + 1 chains.                                                        *)
IsArray(t) == t \in [tab : [0 .. t.mask -> Seq(Node)], mask : Nat, size : Nat]

IsTable(t) == t = NoTab \/ IsArray(t)

TypeOK ==
  /\ IsTable(tb1)
  /\ IsTable(tb2)
  /\ resizing_pos \in Nat
  /\ n_work \in Nat
  /\ moved \in Nat
  /\ pc \in {"idle", "dispatch", "help", "search", "reply", "segv", "badfree"}
  /\ caller \in {"lookup", "insert"}
  /\ cmd \in RequestCommands

-----------------------------------------------------------------------------
(* Every linked node is in the chain a lookup of its key searches, in each *)
(* table, also in the middle of a resize: h_insert rehashes with the mask  *)
(* of the table it inserts into, and a resize gives that table another     *)
(* mask.                                                                   *)
InOwnBucket(t) ==
  \A b \in DOMAIN t.tab : \A i \in 1 .. Len(t.tab[b]) :
    b = Bucket(t, t.tab[b][i].key)

NodesInOwnBucket == InOwnBucket(tb1) /\ InOwnBucket(tb2)

(* No key is linked twice, neither in one table nor in one of each: a      *)
(* second node of a key would survive a `del' of it and answer a later     *)
(* `get'.                                                                  *)
UniqueIn(t) ==
  \A b, c \in DOMAIN t.tab :
    \A i \in 1 .. Len(t.tab[b]), j \in 1 .. Len(t.tab[c]) :
      t.tab[b][i].key = t.tab[c][j].key => b = c /\ i = j

DisjointTables ==
  \A b \in DOMAIN tb1.tab, c \in DOMAIN tb2.tab :
    \A i \in 1 .. Len(tb1.tab[b]), j \in 1 .. Len(tb2.tab[c]) :
      tb1.tab[b][i].key # tb2.tab[c][j].key

KeysUnique == UniqueIn(tb1) /\ UniqueIn(tb2) /\ DisjointTables

(* HTab::size is the number of linked nodes: it decides when a resize      *)
(* starts, when it ends and whether h_scan looks at a table at all.        *)
Cells(t) == UNION {{b} \X (1 .. Len(t.tab[b])) : b \in DOMAIN t.tab}

SizeExact(t) == IsFiniteSet(Cells(t)) /\ t.size = Cardinality(Cells(t))

SizesExact == SizeExact(tb1) /\ SizeExact(tb2)

(* While nodes are left in tb2, every bucket before resizing_pos is empty  *)
(* and neither resizing_pos nor the bucket after it that the loop body may *)
(* step to is past the end of the array: hm_help_resizing never checks     *)
(* resizing_pos against the mask, it relies on size > 0.                   *)
CursorOK ==
  tb2.size > 0 =>
    /\ resizing_pos \in DOMAIN tb2.tab
    /\ NextPos \in DOMAIN tb2.tab
    /\ \A b \in DOMAIN tb2.tab : b < resizing_pos => tb2.tab[b] = << >>

(* Between commands the chains are short on average: the table grows       *)
(* before its load passes k_max_load_factor, whatever the order of inserts *)
(* and deletes, and no resize is left half done.                           *)
LoadBounded ==
  pc = "idle" =>
    /\ Allocated(tb1) => tb1.size < (k_max_load_factor + 1) * (tb1.mask + 1)
    /\ ~ Allocated(tb2)

-----------------------------------------------------------------------------
(* The inductive invariant behind the properties above.  Its cursor part   *)
(* says less than CursorOK: that the bucket after resizing_pos exists when *)
(* it is needed follows from the count of nodes.                           *)

(* k is linked in table t. *)
Has(t, k) ==
  \E b \in DOMAIN t.tab : \E i \in 1 .. Len(t.tab[b]) : t.tab[b][i].key = k

GoodTable(t) == IsTable(t) /\ InOwnBucket(t) /\ UniqueIn(t) /\ SizeExact(t)

CursorBehindNodes ==
  tb2.size > 0 =>
    /\ resizing_pos \in DOMAIN tb2.tab
    /\ \A b \in DOMAIN tb2.tab : b < resizing_pos => tb2.tab[b] = << >>

IInv ==
  /\ TypeOK
  /\ GoodTable(tb1)
  /\ GoodTable(tb2)
  /\ \A k \in Keys : ~ (Has(tb1, k) /\ Has(tb2, k))
  /\ Allocated(tb2) => Allocated(tb1)
  /\ CursorBehindNodes

(* What LoadBounded rests on besides: no call of hm_help_resizing stops    *)
(* early, so that only a resize under way has two tables, and both         *)
(* together fill the newer one no more than it may be.                     *)
LoadInv ==
  /\ n_work = 0
  /\ pc \notin {"help", "segv"} => tb2 = NoTab
  /\ Allocated(tb1) => tb1.size + tb2.size < (k_max_load_factor + 1) * (tb1.mask + 1)

-----------------------------------------------------------------------------
(* Every command that do_request takes up ends: it returns to              *)
(* try_one_request or the process dies of one of the two faults.  The loop *)
(* of hm_help_resizing, which n_work never stops, is the only thing that   *)
(* could run forever.                                                      *)
CommandEnds == pc = "dispatch" ~> pc \in {"idle", "segv", "badfree"}

-----------------------------------------------------------------------------
(* hashtable.h calls hm_help_resizing a helper for progressive resizing    *)
(* and bounds its work: one call moves at most k_resizing_work nodes.      *)
ResizeIsProgressive == moved <= k_resizing_work

(* hashtable.h says h_detach returns the detached node: it is never given  *)
(* an empty bucket, so the resize loop never dereferences NULL.            *)
ResizeDetachesANode == pc # "segv"
=============================================================================
