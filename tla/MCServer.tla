------------------------------ MODULE MCServer ------------------------------
(***************************************************************************)
(* Frames of a few bytes, with a body of at most five: two "small" ones    *)
(* fit the read buffer together.  The reply to "big" is too big; "max"     *)
(* fills the read buffer; "bad" does not parse and "long" has a length     *)
(* field over the limit.  "ping" and "junk" are the shortest frames, one   *)
(* good, one bad.                                                          *)
(***************************************************************************)
EXTENDS ServerProps, TLC

CONSTANTS c1, c2, c3

MCRequests   == {"ping", "junk", "small", "big", "max", "bad", "long"}
MCWellFormed == {"ping", "small", "big", "max"}

MCBodyLen ==
  ("ping" :> 0) @@ ("junk" :> 0) @@ ("small" :> 1) @@ ("big" :> 2) @@ ("max" :> 5)
  @@ ("bad" :> 1) @@ ("long" :> 6)

MCOutLen == [r \in MCRequests |-> IF r = "big" THEN 6 ELSE 1]

(* Every client sends one of the scripts in S. *)
Each(S) == [Clients -> S]

(* One client sends one of them and the others stay away. *)
OneOf(S) ==
  {[c \in Clients |-> IF c = d THEN s ELSE << >>] : d \in Clients, s \in S}

GoodScripts  == Each({<<"small", "small">>, <<"bad">>})
FullScripts  == Each({<<"max">>})

(* A long conversation of one client, in which frames are cut and joined   *)
(* and replies are cut, or short ones of all of them, good and bad, more   *)
(* than there are descriptors.                                             *)
MixedScripts ==
  OneOf({<<"small", "big", "small">>, <<"big", "bad">>, <<"small", "small", "long">>,
         <<"small", "max">>})
  \cup {f \in Each({<<"ping">>, <<"junk">>}) : \E c, d \in Clients : f[c] # f[d]}

Symmetry == Permutations({c1, c2, c3})
=============================================================================
