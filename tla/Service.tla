------------------------------ MODULE Service ------------------------------
(***************************************************************************)
(* What the server and its client program promise together: a call takes   *)
(* effect once, at one instant between its start and its return, and what  *)
(* the client prints is the answer of that instant.                        *)
(*                                                                         *)
(* The key space is a partial function, as in KVStore; here several calls  *)
(* are under way at a time.                                                *)
(***************************************************************************)
EXTENDS Commands, SequencesExt

CONSTANTS
  Clients   (* the client programs *)

VARIABLES
  store,    (* the key space                                           *)
  status,   (* "idle", "called" or "taken": progress of a client's call *)
  call,     (* its command                                             *)
  reply,    (* the answer, once the call has taken effect              *)
  result    (* what the client printed for its last call               *)

vars == <<store, status, call, reply, result>>

Init ==
  /\ store = << >>
  /\ status = [c \in Clients |-> "idle"]
  /\ call = [c \in Clients |-> UnknownCommand]
  /\ reply = [c \in Clients |-> NoReply]
  /\ result = [c \in Clients |-> NoReply]

Call(c, cmd) ==
  /\ status[c] = "idle"
  /\ status' = [status EXCEPT ![c] = "called"]
  /\ call' = [call EXCEPT ![c] = cmd]
  /\ reply' = [reply EXCEPT ![c] = NoReply]
  /\ result' = [result EXCEPT ![c] = NoReply]
  /\ UNCHANGED store

(* A command that is too long is not sent. *)
Refuse(c, cmd) ==
  /\ status[c] = "idle"
  /\ call' = [call EXCEPT ![c] = cmd]
  /\ reply' = [reply EXCEPT ![c] = NoReply]
  /\ result' = [result EXCEPT ![c] = NoReply]
  /\ UNCHANGED <<store, status>>

Stored(key) == key \in DOMAIN store
Without(key) == [k \in DOMAIN store \ {key} |-> store[k]]
With(key, val) == [k \in DOMAIN store \cup {key} |-> IF k = key THEN val ELSE store[k]]
Listing(order) == ArrReply(Len(order), [i \in 1 .. Len(order) |-> StrReply(order[i])])

(* The answers a command may get from the key space as it is. *)
Answers(cmd) ==
  CASE cmd.op = "get"     -> {IF Stored(cmd.key) THEN StrReply(store[cmd.key]) ELSE NilReply}
    [] cmd.op = "set"     -> {NilReply}
    [] cmd.op = "del"     -> {IntReply(IF Stored(cmd.key) THEN 1 ELSE 0)}
    [] cmd.op = "keys"    -> {Listing(order) : order \in SetToSeqs(DOMAIN store)}
                               \cup {ErrReply("ERR_2BIG")}
    [] cmd.op = "unknown" -> {ErrReply("ERR_UNKNOWN")}

Effect(cmd) ==
  CASE cmd.op = "set" -> With(cmd.key, cmd.val)
    [] cmd.op = "del" -> Without(cmd.key)
    [] OTHER          -> store

Take(c) ==
  /\ status[c] = "called"
  /\ status' = [status EXCEPT ![c] = "taken"]
  /\ store' = Effect(call[c])
  /\ \E answer \in Answers(call[c]) : reply' = [reply EXCEPT ![c] = answer]
  /\ UNCHANGED <<call, result>>

Return(c) ==
  /\ status[c] = "taken"
  /\ status' = [status EXCEPT ![c] = "idle"]
  /\ result' = [result EXCEPT ![c] = reply[c]]
  /\ UNCHANGED <<store, call, reply>>

Next ==
  \E c \in Clients :
    \/ \E cmd \in RequestCommands : Call(c, cmd) \/ Refuse(c, cmd)
    \/ Take(c)
    \/ Return(c)

Spec == Init /\ [][Next]_vars
=============================================================================
