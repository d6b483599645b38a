------------------------------ MODULE Commands ------------------------------
(***************************************************************************)
(* The vocabulary do_request and its callers share: the commands it tells  *)
(* apart and the replies the out_ functions tag.  The spelling of a        *)
(* command and the bytes of a reply are left out.                          *)
(***************************************************************************)
EXTENDS Integers, Sequences, FiniteSets

CONSTANTS
  Keys,    (* the names a client may use as keys *)
  Values   (* the strings a client may store     *)

KeysCommand    == [op |-> "keys"]
UnknownCommand == [op |-> "unknown"]   \* whatever do_request has no branch for

RequestCommands ==
  [op : {"get", "del"}, key : Keys] \cup
  [op : {"set"}, key : Keys, val : Values] \cup
  {KeysCommand, UnknownCommand}

NilReply          == [tag |-> "nil"]
StrReply(v)       == [tag |-> "str", str |-> v]
IntReply(n)       == [tag |-> "int", int |-> n]
ErrReply(code)    == [tag |-> "err", code |-> code]
ArrReply(n, keys) == [tag |-> "arr", len |-> n, items |-> keys]
NoReply           == [tag |-> "none"]  \* the empty `out' do_request is given
=============================================================================
