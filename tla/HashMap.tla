------------------------------ MODULE HashMap ------------------------------
(***************************************************************************)
(* The key space as the code builds it: the chained hash table with two    *)
(* tables of hashtable.cpp, driven by the command handlers of              *)
(* server_utils.cpp (do_request and do_get, do_set, do_del, do_keys).      *)
(*                                                                         *)
(* One command is processed at a time.  A handler is split at the loop of  *)
(* hm_help_resizing, one step for each node moved, so that the table in    *)
(* the middle of a resize is a state of the model.                         *)
(*                                                                         *)
(* An intrusive HNode inside its Entry is a record of the entry's key and  *)
(* value; a bucket is the sequence of nodes reached through `next'.        *)
(***************************************************************************)
EXTENDS Commands, SequencesExt

CONSTANTS
  Hash,              (* str_hash, on Keys                               *)
  InitSize,          (* buckets of the first table: 4 in hm_insert      *)
  k_max_load_factor, (* 8 in hashtable.h                                *)
  k_resizing_work    (* 128 in hashtable.h                              *)

ASSUME HashAssumption == Hash \in [Keys -> Nat]

(* h_init asserts a power of two, which makes `hcode & mask' a remainder. *)
ASSUME InitSizeAssumption ==
  /\ InitSize \in Nat \ {0}
  /\ \E e \in 0 .. InitSize : InitSize = 2 ^ e

ASSUME LimitsAssumption ==
  /\ k_max_load_factor \in Nat
  /\ k_resizing_work \in Nat \ {0}

VARIABLES
  tb1, tb2,      (* HMap::tb1 and HMap::tb2 of g_data.db                  *)
  resizing_pos,  (* HMap::resizing_pos                                    *)
  n_work,        (* the local n_work of hm_help_resizing                  *)
  moved,         (* history: nodes moved by this call of hm_help_resizing *)
  pc,            (* where the running handler is                          *)
  caller,        (* who called hm_help_resizing: "lookup" or "insert"     *)
  cmd,           (* the command do_request was called with                *)
  out            (* the reply it builds                                   *)

tables == <<tb1, tb2, resizing_pos>>
vars == <<tb1, tb2, resizing_pos, n_work, moved, pc, caller, cmd, out>>

-----------------------------------------------------------------------------
(* The single table: HTab and the h_ functions.                            *)

Node == [key : Keys, val : Values]

(* HTab{}: no bucket array.  A global HMap starts zeroed. *)
NoTab == [tab |-> << >>, mask |-> 0, size |-> 0]
Allocated(t) == t.tab # << >>

(* Mutant: the mask is the number of buckets. *)
MaskOffByOne(n) ==
  [tab |-> [b \in 0 .. n - 1 |-> << >>], mask |-> n, size |-> 0]

h_init(n) == [tab |-> [b \in 0 .. n - 1 |-> << >>], mask |-> n - 1, size |-> 0]

Bucket(t, k) == Hash[k] % (t.mask + 1)

(* Mutant: the node is placed by a modulus one too small. *)
InsertModMask(t, node) ==
  [t EXCEPT !.tab[Hash[node.key] % (IF t.mask = 0 THEN 1 ELSE t.mask)] =
              <<node>> \o @,
            !.size = @ + 1]

h_insert(t, node) ==
  [t EXCEPT !.tab[Bucket(t, node.key)] = <<node>> \o @, !.size = @ + 1]

(* Mutant: the search does not follow `next'. *)
LookupHeadOnly(t, k) ==
  IF Allocated(t) /\ t.tab[Bucket(t, k)] # << >>
                  /\ Head(t.tab[Bucket(t, k)]).key = k
  THEN 1 ELSE 0

(* The place of the first node of k in its chain; 0 stands for NULL. *)
h_lookup(t, k) ==
  IF Allocated(t)
  THEN SelectInSeq(t.tab[Bucket(t, k)], LAMBDA node : node.key = k)
  ELSE 0

(* Mutants: the head of the chain goes, whatever node was looked up; the   *)
(* counter is left as it was.                                              *)
DetachHead(t, b, i) ==
  [t EXCEPT !.tab[b] = Tail(@), !.size = @ - 1]

DetachUncounted(t, b, i) ==
  [t EXCEPT !.tab[b] = RemoveAt(@, i)]

h_detach(t, b, i) ==
  [t EXCEPT !.tab[b] = RemoveAt(@, i), !.size = @ - 1]

(* The nodes in the order h_scan visits them. *)
h_scan(t) ==
  IF t.size = 0 THEN << >>
  ELSE FlattenSeq([i \in 1 .. t.mask + 1 |-> t.tab[i - 1]])

-----------------------------------------------------------------------------
(* The pair of tables: the parts of hm_ functions that read it.            *)

hm_size == Len(h_scan(tb1)) + Len(h_scan(tb2))

InTb1(k) == h_lookup(tb1, k) # 0
InTb2(k) == ~ InTb1(k) /\ h_lookup(tb2, k) # 0

(* The node hm_lookup returns for k, when it returns one. *)
Found(k) ==
  IF InTb1(k) THEN tb1.tab[Bucket(tb1, k)][h_lookup(tb1, k)]
              ELSE tb2.tab[Bucket(tb2, k)][h_lookup(tb2, k)]

ScanKeys ==
  LET nodes == h_scan(tb1) \o h_scan(tb2)
  IN  [i \in 1 .. Len(nodes) |-> nodes[i].key]

(* Mutant: the limit is tested one node per bucket too late. *)
OverloadedLate(t) == t.size \div (t.mask + 1) > k_max_load_factor + 1

Overloaded(t) == t.size \div (t.mask + 1) > k_max_load_factor

-----------------------------------------------------------------------------
Init ==
  /\ tb1 = NoTab
  /\ tb2 = NoTab
  /\ resizing_pos = 0
  /\ n_work = 0
  /\ moved = 0
  /\ pc = "idle"
  /\ caller = "lookup"
  /\ cmd = UnknownCommand
  /\ out = NoReply

(* try_one_request calls do_request with a parsed command. *)
do_request(c) ==
  /\ pc = "idle"
  /\ cmd' = c
  /\ out' = NoReply
  /\ pc' = "dispatch"
  /\ UNCHANGED <<tables, n_work, moved, caller>>

Dispatch(op) == pc = "dispatch" /\ cmd.op = op

EnterHelpResizing(who) ==
  /\ caller' = who
  /\ n_work' = 0
  /\ moved' = 0
  /\ pc' = "help"

(* do_get and do_set begin with hm_lookup, which helps the resize first. *)
hm_lookup ==
  /\ Dispatch("get") \/ Dispatch("set")
  /\ EnterHelpResizing("lookup")
  /\ UNCHANGED <<tables, cmd, out>>

-----------------------------------------------------------------------------
(* hm_help_resizing.                                                       *)

MoreWork == n_work < k_resizing_work /\ tb2.size > 0

(* Mutant: the loop is left only when its work is used up. *)
WorkUsedUp == n_work >= k_resizing_work

LoopDone == ~ MoreWork

(* Mutant: the cursor advances past every bucket, empty or not. *)
AlwaysAdvance ==
  IF resizing_pos < tb2.mask THEN resizing_pos + 1 ELSE resizing_pos

(* The bucket the loop body detaches from: it steps over one empty bucket, *)
(* and looks no further.                                                   *)
NextPos ==
  IF tb2.tab[resizing_pos] = << >> THEN resizing_pos + 1 ELSE resizing_pos

MoveOneNode ==
  /\ pc = "help"
  /\ MoreWork
  /\ tb2.tab[NextPos] # << >>
  /\ resizing_pos' = NextPos
  /\ tb2' = h_detach(tb2, NextPos, 1)
  /\ tb1' = h_insert(tb1, tb2.tab[NextPos][1])
  /\ moved' = moved + 1
  /\ UNCHANGED <<n_work, pc, caller, cmd, out>>

(* The bucket it steps to is empty too, which takes one empty bucket after *)
(* one that has just been drained: h_detach dereferences the NULL it finds *)
(* there and the process dies.                                             *)
DetachNull ==
  /\ pc = "help"
  /\ MoreWork
  /\ tb2.tab[NextPos] = << >>
  /\ resizing_pos' = NextPos
  /\ pc' = "segv"
  /\ UNCHANGED <<tb1, tb2, n_work, moved, caller, cmd, out>>

LeaveHelpResizing ==
  /\ pc = "help"
  /\ LoopDone
  /\ tb2' = IF tb2.size = 0 THEN NoTab ELSE tb2
  /\ \/ /\ caller = "lookup"
        /\ pc' = "search"
        /\ UNCHANGED out
     \/ /\ caller = "insert"        \* back in do_set, which answers nil
        /\ pc' = "reply"
        /\ out' = NilReply
  /\ UNCHANGED <<tb1, resizing_pos, n_work, moved, caller, cmd>>

-----------------------------------------------------------------------------
(* The rest of the command handlers.                                       *)

do_get ==
  /\ pc = "search"
  /\ cmd.op = "get"
  /\ out' = IF InTb1(cmd.key) \/ InTb2(cmd.key)
            THEN StrReply(Found(cmd.key).val)
            ELSE NilReply
  /\ pc' = "reply"
  /\ UNCHANGED <<tables, n_work, moved, caller, cmd>>

SetValue(t, k, v) ==
  [t EXCEPT !.tab[Bucket(t, k)][h_lookup(t, k)].val = v]

do_set_update ==
  /\ pc = "search"
  /\ cmd.op = "set"
  /\ InTb1(cmd.key) \/ InTb2(cmd.key)
  /\ tb1' = IF InTb1(cmd.key) THEN SetValue(tb1, cmd.key, cmd.val) ELSE tb1
  /\ tb2' = IF InTb2(cmd.key) THEN SetValue(tb2, cmd.key, cmd.val) ELSE tb2
  /\ out' = NilReply
  /\ pc' = "reply"
  /\ UNCHANGED <<resizing_pos, n_work, moved, caller, cmd>>

(* tb1 once hm_insert has linked the new node into it. *)
Inserted ==
  h_insert(IF Allocated(tb1) THEN tb1 ELSE h_init(InitSize),
           [key |-> cmd.key, val |-> cmd.val])

hm_insert ==
  /\ pc = "search"
  /\ cmd.op = "set"
  /\ ~ InTb1(cmd.key) /\ ~ InTb2(cmd.key)
  /\ \/ /\ ~ Allocated(tb2) /\ Overloaded(Inserted)   \* hm_start_resizing
        /\ tb2' = Inserted
        /\ tb1' = h_init(2 * (Inserted.mask + 1))
        /\ resizing_pos' = 0
     \/ /\ Allocated(tb2) \/ ~ Overloaded(Inserted)
        /\ tb1' = Inserted
        /\ UNCHANGED <<tb2, resizing_pos>>
  /\ EnterHelpResizing("insert")
  /\ UNCHANGED <<cmd, out>>

(* hm_pop, on the table the key is found in. *)
Unlink(t, k) == h_detach(t, Bucket(t, k), h_lookup(t, k))

do_del ==
  /\ Dispatch("del")
  /\ tb1' = IF InTb1(cmd.key) THEN Unlink(tb1, cmd.key) ELSE tb1
  /\ tb2' = IF InTb2(cmd.key) THEN Unlink(tb2, cmd.key) ELSE tb2
  /\ out' = IntReply(IF InTb1(cmd.key) \/ InTb2(cmd.key) THEN 1 ELSE 0)
  /\ pc' = "reply"
  /\ UNCHANGED <<resizing_pos, n_work, moved, caller, cmd>>

do_keys ==
  /\ Dispatch("keys")
  /\ out' = ArrReply(hm_size, ScanKeys)
  /\ pc' = "reply"
  /\ UNCHANGED <<tables, n_work, moved, caller, cmd>>

UnknownCmd ==
  /\ Dispatch("unknown")
  /\ out' = ErrReply("ERR_UNKNOWN")
  /\ pc' = "reply"
  /\ UNCHANGED <<tables, n_work, moved, caller, cmd>>

(* do_set swaps the key and the value into an Entry that malloc returned   *)
(* and no constructor ran on.  What the swap leaves in the local strings   *)
(* decides, when they are destroyed, between nothing happening and free()  *)
(* aborting on a wild pointer.                                             *)
DestroySwapped ==
  /\ pc = "reply"
  /\ cmd.op = "set" /\ caller = "insert"
  /\ pc' = "badfree"
  /\ UNCHANGED <<tables, n_work, moved, caller, cmd, out>>

(* do_request returns to try_one_request. *)
Return ==
  /\ pc = "reply"
  /\ pc' = "idle"
  /\ UNCHANGED <<tables, n_work, moved, caller, cmd, out>>

Handler ==
  \/ hm_lookup \/ MoveOneNode \/ DetachNull \/ LeaveHelpResizing
  \/ do_get \/ do_set_update \/ hm_insert
  \/ do_del \/ do_keys \/ UnknownCmd
  \/ DestroySwapped \/ Return

Next == (\E c \in RequestCommands : do_request(c)) \/ Handler

Spec == Init /\ [][Next]_vars

(* The handler runs on the server's only thread and never blocks. *)
FairSpec == Spec /\ WF_vars(Handler)
=============================================================================
