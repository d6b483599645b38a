------------------------------ MODULE KVStore ------------------------------
(***************************************************************************)
(* What the key space of the server promises to a caller of do_request:    *)
(* one command at a time is taken, has its whole effect at one instant     *)
(* between the call and the return, and answers from the key space as it   *)
(* is at that instant.  HashMap is shown to implement this specification.  *)
(*                                                                         *)
(* The key space is a partial function: its DOMAIN is the set of keys      *)
(* that exist.                                                             *)
(***************************************************************************)
EXTENDS Commands

VARIABLES
  store,   (* the key space                                           *)
  status,  (* "ready", "invoked" or "applied": progress of do_request *)
  cmd,     (* the command being processed                             *)
  out      (* the reply being built                                   *)

vars == <<store, status, cmd, out>>

-----------------------------------------------------------------------------
(* A sequence that lists every element of S exactly once, in any order. *)
Enumerates(s, S) ==
  /\ Len(s) = Cardinality(S)
  /\ {s[i] : i \in 1 .. Len(s)} = S

Init ==
  /\ store = << >>
  /\ status = "ready"
  /\ cmd = UnknownCommand
  /\ out = NoReply

Invoke(c) ==
  /\ status = "ready"
  /\ cmd' = c
  /\ out' = NoReply
  /\ status' = "invoked"
  /\ UNCHANGED store

Apply(op) ==
  /\ status = "invoked"
  /\ cmd.op = op
  /\ status' = "applied"
  /\ UNCHANGED cmd

Get ==
  /\ Apply("get")
  /\ \/ cmd.key \in DOMAIN store /\ out' = StrReply(store[cmd.key])
     \/ cmd.key \notin DOMAIN store /\ out' = NilReply
  /\ UNCHANGED store

Set ==
  /\ Apply("set")
  /\ store' = [k \in DOMAIN store \cup {cmd.key} |->
                 IF k = cmd.key THEN cmd.val ELSE store[k]]
  /\ out' = NilReply

Del ==
  /\ Apply("del")
  /\ store' = [k \in DOMAIN store \ {cmd.key} |-> store[k]]
  /\ out' = IntReply(IF cmd.key \in DOMAIN store THEN 1 ELSE 0)

KeysList ==
  /\ Apply("keys")
  /\ out'.tag = "arr"
  /\ Enumerates(out'.items, DOMAIN store)
  /\ out' = ArrReply(Cardinality(DOMAIN store), out'.items)
  /\ UNCHANGED store

Unknown ==
  /\ Apply("unknown")
  /\ out' = ErrReply("ERR_UNKNOWN")
  /\ UNCHANGED store

Return ==
  /\ status = "applied"
  /\ status' = "ready"
  /\ UNCHANGED <<store, cmd, out>>

Next ==
  \/ \E c \in RequestCommands : Invoke(c)
  \/ Get \/ Set \/ Del \/ KeysList \/ Unknown
  \/ Return

Spec == Init /\ [][Next]_vars
=============================================================================
