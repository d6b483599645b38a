--------------------------- MODULE NanoRedisProps ---------------------------
(***************************************************************************)
(* Properties of the client program and the server together.               *)
(***************************************************************************)
EXTENDS NanoRedis

-----------------------------------------------------------------------------
(* Every variable has its type.  Nothing outgrows its buffer: rbuf and     *)
(* wbuf of a Conn have WordSize + k_max_msg bytes, the buffer of read_res  *)
(* one more.                                                               *)
TypeOK ==
  /\ DOMAIN store \subseteq Keys
  /\ \A k \in DOMAIN store : store[k] \in Values
  /\ \A c \in Programs :
       /\ conn[c] \in {"none", "open", "closed"}
       /\ pc[c] \in {"end", "write", "header", "body"}
       /\ argv[c] \in Argvs \cup {<< >>}
       /\ \A s \in {up[c], down[c], wbuf[c], rbuf[c]} : s \in Seq(Byte)
       /\ Len(down[c]) <= WordSize + k_max_msg
       /\ Len(rbuf[c]) <= WordSize + k_max_msg
       /\ c \in Clients => Len(up[c]) <= WordSize + k_max_msg

-----------------------------------------------------------------------------
(* The requests of parse_req, defined without parsing: the offsets at      *)
(* which strings begin and end cut the payload into as many pieces as it   *)
(* says, each as long as its length field says.                            *)
IsRequest(data) ==
  /\ Len(data) >= WordSize
  /\ \E cuts \in SUBSET (WordSize .. Len(data)) :
       /\ {WordSize, Len(data)} \subseteq cuts
       /\ Number(data, 0) = Cardinality(cuts) - 1
       /\ \A a \in cuts \ {Len(data)} :
            LET b == CHOOSE b \in cuts : b > a /\ \A d \in cuts : d > a => b <= d
            IN  b - a >= WordSize /\ b - a = WordSize + Number(data, a)

(* parse_req accepts a payload just when it is an encoded command, and     *)
(* reads the command that is encoded: encoding it gives the payload back.  *)
ParseExact ==
  \A c \in Programs : HasFrame(c) =>
    /\ Request(c) # {} <=> IsRequest(Payload(c))
    /\ \A cmd \in Request(c) : Body(cmd) = Payload(c)

(* The server closes a connection only for a frame that is too long or is  *)
(* no request (try_one_request).                                           *)
DroppedOnlyIfMalformed ==
  [][\A c \in Programs : conn[c] = "open" /\ conn'[c] = "closed" =>
       TooLong(c) \/ (HasFrame(c) /\ ~IsRequest(Payload(c)))]_vars

(* A command line stands for a command of the key space. *)
Meaning(cmd) ==
  CASE Is(cmd, "get", 2)  -> [op |-> "get", key |-> cmd[2]]
    [] Is(cmd, "set", 3)  -> [op |-> "set", key |-> cmd[2], val |-> cmd[3]]
    [] Is(cmd, "del", 2)  -> [op |-> "del", key |-> cmd[2]]
    [] Is(cmd, "keys", 1) -> KeysCommand
    [] OTHER              -> UnknownCommand

(* Keys and Values are the strings of the commands. *)
ASSUME CommandAssumption == \A cmd \in Argvs : Meaning(cmd) \in RequestCommands

(* Through encoding, pieces of any size, parsing, handlers and decoding,   *)
(* every run of the client prints the answer its command had at one        *)
(* instant of the run, and the command takes effect then and only once.    *)
S == INSTANCE Service WITH
  status <- [c \in Clients |->
               IF pc[c] = "end" THEN "idle"
               ELSE IF meant[c] = NoReply THEN "called" ELSE "taken"],
  call   <- [c \in Clients |-> Meaning(argv[c])],
  reply  <- [c \in Clients |-> meant[c]],
  result <- [c \in Clients |-> printed[c].reply]

ImplementsService == S!Spec

(* A run of a program that sends a whole frame ends: with a reply it could *)
(* read or with an error (try_one_request, write_all, read_full).          *)
CallsReturn == \A c \in Programs : pc[c] # "end" ~> pc[c] = "end"

(* The reply a handler makes is as long as its decoder takes it to be      *)
(* (the comments on SER_INT and SER_ERR), so that read_res accepts it.     *)
RepliesAccepted ==
  \A c \in Clients : printed[c].reply # NoReply => printed[c].rv > 0
=============================================================================
