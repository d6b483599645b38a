----------------------------- MODULE WireFormat -----------------------------
(***************************************************************************)
(* The bytes on a connection: what client.cpp sends and parse_req reads,   *)
(* what the out_ functions write and on_response reads.                    *)
(*                                                                         *)
(* A string is a sequence of bytes, an offset counts from 0 as in the      *)
(* source, and a length field has WordSize bytes, least significant first. *)
(***************************************************************************)
EXTENDS Commands, SequencesExt

CONSTANTS
  WordSize,    (* bytes of a uint32_t                                     *)
  k_max_msg,   (* 4096, in server_utils.h and again in client.cpp         *)
  Spellings,   (* the words that are each command, whatever their case    *)
  ErrTexts     (* the message that goes with each error code              *)

ASSUME WordAssumption == WordSize \in Nat \ {0}
ASSUME MaxMsgAssumption == k_max_msg \in Nat

Byte == 0 .. 255

-----------------------------------------------------------------------------
(* Integers.                                                               *)

(* Shifted(n, width)[i] is n >> 8 * i. *)
Shifted(n, width) ==
  LET rest[i \in 0 .. width] == IF i = 0 THEN n ELSE rest[i - 1] \div 256
  IN  rest

(* The lowest byte comes first. *)
Bytes(n, width) == [i \in 1 .. width |-> Shifted(n, width)[i - 1] % 256]

Word(n)  == Bytes(n, WordSize)
Int64(n) == Bytes(n, 2 * WordSize)

(* The number in the word at an offset. *)
Number(data, at) ==
  FoldRight(LAMBDA b, n : b + 256 * n, SubSeq(data, at + 1, at + WordSize), 0)

(* A word holds every length up to the limit. *)
ASSUME LengthAssumption == Shifted(k_max_msg, WordSize)[WordSize] = 0

Sized(str) == Word(Len(str)) \o str

-----------------------------------------------------------------------------
(* Requests.                                                               *)

Body(cmd) == Word(Len(cmd)) \o FlattenSeq([i \in 1 .. Len(cmd) |-> Sized(cmd[i])])

(* Mutant: trailing garbage is not noticed. *)
AnywhereWillDo(data, at) == TRUE

AtEnd(data, at) == at = Len(data)

(* Mutant: a string may not end where the payload ends. *)
ReachesEnd(data, off) == off >= Len(data)

PastEnd(data, off) == off > Len(data)

(* The command a payload encodes, as a set: it is empty if parse_req       *)
(* rejects the payload.  Strings[n][at] is what n strings from an offset   *)
(* to the end are.                                                         *)
parse_req(data) ==
  LET Strings[n \in Nat] ==
        [at \in 0 .. Len(data) |->
           LET str == at + WordSize
               end == str + Number(data, at)
           IN  IF n = 0 THEN {s \in {<< >>} : AtEnd(data, at)}
               ELSE IF PastEnd(data, str) \/ PastEnd(data, end) THEN {}
               ELSE {<<SubSeq(data, str + 1, end)>> \o rest : rest \in Strings[n - 1][end]}]
  IN  IF Len(data) < WordSize \/ Number(data, 0) > k_max_msg THEN {}
      ELSE Strings[Number(data, 0)][WordSize]

(* No word is two commands. *)
ASSUME SpellingAssumption ==
  /\ DOMAIN Spellings = {"get", "set", "del", "keys"}
  /\ \A name, other \in DOMAIN Spellings :
       name # other => Spellings[name] \cap Spellings[other] = {}

cmd_is(word, name) == word \in Spellings[name]

-----------------------------------------------------------------------------
(* Replies.                                                                *)

SER_NIL == 0
SER_ERR == 1
SER_STR == 2
SER_INT == 3
SER_ARR == 4

ErrCode == [ERR_2BIG |-> 0, ERR_UNKNOWN |-> 1]

(* The messages are as long as on_response takes them to be, and fit in a  *)
(* reply.                                                                  *)
ASSUME TextAssumption ==
  \A code \in DOMAIN ErrCode :
    /\ ErrTexts[code] \in Seq(Byte)
    /\ Len(ErrTexts[code]) >= 1 + WordSize
    /\ 1 + 3 * WordSize + Len(ErrTexts[code]) <= k_max_msg

out_nil == <<SER_NIL>>

(* Mutant: the length field counts the bytes written so far too. *)
StrSizedSoFar(val) == <<SER_STR>> \o Word(1 + Len(val)) \o val

out_str(val) == <<SER_STR>> \o Sized(val)
out_int(val) == <<SER_INT>> \o Int64(val)
out_arr(n)   == <<SER_ARR>> \o Word(n)

(* The length field is out.size(): the bytes before it, not the message's. *)
out_err(code) ==
  LET out == <<SER_ERR>> \o Word(ErrCode[code])
  IN  out \o Word(Len(out)) \o ErrTexts[code]

(* What the handlers append to `out' for each reply. *)
Encoded(reply) ==
  CASE reply.tag = "nil" -> out_nil
    [] reply.tag = "str" -> out_str(reply.str)
    [] reply.tag = "int" -> out_int(reply.int)
    [] reply.tag = "err" -> out_err(reply.code)
    [] reply.tag = "arr" ->
         out_arr(reply.len) \o
         FlattenSeq([i \in 1 .. Len(reply.items) |-> out_str(reply.items[i].str)])

-----------------------------------------------------------------------------
(* on_response: the bytes it takes, the reply it prints and, for an error  *)
(* reply, the message printed with it.  Again a set, empty for an error.   *)

Shown(n, reply) == [used |-> n, shown |-> reply, text |-> << >>]

NilAt(data, at) == {Shown(1, NilReply)}

ErrAt(data, at) ==
  LET head    == at + 1 + 2 * WordSize
      msg_len == Number(data, at + 1 + WordSize)
      code    == CHOOSE e \in DOMAIN ErrCode : ErrCode[e] = Number(data, at + 1)
  IN  IF Len(data) < head \/ Len(data) - head < msg_len THEN {}
      ELSE {[used |-> 1 + 2 * WordSize + msg_len, shown |-> ErrReply(code),
             text |-> SubSeq(data, head + 1, head + msg_len)]}

IntAt(data, at) ==
  IF Len(data) < at + 1 + WordSize THEN {}
  ELSE {Shown(1 + WordSize, IntReply(Number(data, at + 1)))}

StrAt(data, at) ==
  LET head    == at + 1 + WordSize
      msg_len == Number(data, at + 1)
  IN  IF Len(data) < head \/ Len(data) - head < msg_len THEN {}
      ELSE {Shown(1 + WordSize + msg_len,
                  StrReply(SubSeq(data, head + 1, head + msg_len)))}

WithEntry(got, entry) ==
  Shown(got.used + entry.used,
        ArrReply(got.shown.len + 1, Append(got.shown.items, entry.shown)))

(* Entry[off] is on_response at an offset; First[n] is what n entries are. *)
ArrAt(data, at, Entry) ==
  LET First[n \in Nat] ==
        IF n = 0 THEN {Shown(1 + WordSize, ArrReply(0, << >>))}
        ELSE UNION {{WithEntry(got, entry) : entry \in Entry[at + got.used]} :
                     got \in First[n - 1]}
  IN  IF Len(data) < at + 1 + WordSize THEN {} ELSE First[Number(data, at + 1)]

on_response(data) ==
  LET Response[at \in 0 .. Len(data)] ==
        LET tag == data[at + 1]
        IN  CASE at = Len(data) -> {}
              [] at < Len(data) /\ tag = SER_NIL -> NilAt(data, at)
              [] at < Len(data) /\ tag = SER_ERR -> ErrAt(data, at)
              [] at < Len(data) /\ tag = SER_INT -> IntAt(data, at)
              [] at < Len(data) /\ tag = SER_STR -> StrAt(data, at)
              [] at < Len(data) /\ tag = SER_ARR -> ArrAt(data, at, Response)
              [] OTHER -> {}
  IN  Response[0]
=============================================================================
