------------------------------- MODULE MCZSet -------------------------------
(***************************************************************************)
(* A sorted set of up to eight members in any shape: "b" is a prefix of    *)
(* "bb"; "d" and "e" have one hash code and length.                        *)
(***************************************************************************)
EXTENDS ZSetProps, TLC

Rank ==
  ("a" :> 1) @@ ("b" :> 2) @@ ("bb" :> 3) @@ ("d" :> 4) @@ ("e" :> 5) @@ ("f" :> 6)
  @@ ("g" :> 7) @@ ("h" :> 8)

MCNames == DOMAIN Rank
MCNode == MCNames \X {1, 2}
MCCode == [Rank EXCEPT !["e"] = Rank["d"]]
MCBefore ==
  {p \in MCNames \X MCNames : Rank[p[1]] < Rank[p[2]]} \ {<<"b", "bb">>}

(* The scores in the list do not change the order of the names; those that *)
(* zset_add and zset_update give do, or they leave it to the names.        *)
MCList ==
  <<<<"a", 1>>, <<"b", 1>>, <<"bb", 1>>, <<"d", 1>>, <<"e", 1>>, <<"f", 1>>, <<"g", 2>>,
    <<"h", 2>>>>
MCScores == [x \in MCNames |-> IF x \in {"a", "e", "h"} THEN {2} ELSE {1}]
=============================================================================
