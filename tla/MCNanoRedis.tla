---------------------------- MODULE MCNanoRedis -----------------------------
(***************************************************************************)
(* NanoRedis for TLC: words of one byte and a limit of eight bytes, so     *)
(* that two keys fill the longest reply and three do not fit.              *)
(***************************************************************************)
EXTENDS NanoRedisProps

CONSTANTS c1, c2, p1

Interchangeable == Permutations({c1, c2})

(* A single byte stands for a command's name; upper case is another.       *)
MCSpellings == [get |-> {<<103>>, <<71>>}, set |-> {<<115>>}, del |-> {<<100>>}, keys |-> {<<107>>}]
MCErrTexts == [ERR_2BIG |-> <<98, 105, 103>>, ERR_UNKNOWN |-> <<119, 104, 97, 116>>]

MCKeys == {<<1>>, <<2, 2>>, <<3, 3>>}
MCValues == {<< >>, <<9>>, <<9, 9>>}

get(k) == <<<<103>>, k>>
GET(k) == <<<<71>>, k>>
set(k, v) == <<<<115>>, k, v>>
del(k) == <<<<100>>, k>>
keys == <<<<107>>>>

(* The last command is too long, the one before it unknown. *)
MCArgvs ==
  {GET(<<1>>), get(<<2, 2>>), set(<<1>>, <<9, 9>>), set(<<1>>, << >>), set(<<2, 2>>, <<9>>),
   set(<<3, 3>>, << >>), del(<<1>>), del(<<2, 2>>), keys, << >>, set(<<2, 2>>, <<9, 9>>)}

DelOnly == {del(<<1>>)}

(* The frames of a peer: up to five bytes behind their length, and one     *)
(* that is too long.                                                       *)
MCFrames == {<<Len(s)>> \o s : s \in BoundedSeq(0 .. 3, 5)} \cup {<<9, 1>>}
NoFrames == {}
=============================================================================
