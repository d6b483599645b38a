----------------------------- MODULE MCHashMap -----------------------------
(***************************************************************************)
(* Five keys in a table that starts with two buckets and doubles as soon   *)
(* as there is one node per bucket: the second resize moves four nodes out *)
(* of four buckets, by every insertion order and after every deletion.     *)
(***************************************************************************)
EXTENDS HashMapProps

CONSTANTS a, b, c, d, e

MCKeys == {a, b, c, d, e}

(* In four buckets b and c share one; a, b, c and e leave the third bucket *)
(* empty before a node of the fourth, which the resize does not survive.   *)
MCHash == (a :> 0) @@ (b :> 1) @@ (c :> 5) @@ (d :> 2) @@ (e :> 3)
=============================================================================
