----------------------------- MODULE NanoRedis ------------------------------
(***************************************************************************)
(* The client program of client.cpp and the request handlers of            *)
(* server_utils.cpp over one key space, joined by the bytes they exchange. *)
(*                                                                         *)
(* A client connects, sends one command and prints the reply; it may be    *)
(* run again.  It is cut at its calls of read and write.  The server takes *)
(* a request in one step once the whole frame has arrived: how connections *)
(* are polled is in Server, how the key space is stored in HashMap.        *)
(*                                                                         *)
(* Peers are programs other than client.cpp, that send frames of their own.*)
(***************************************************************************)
EXTENDS WireFormat

CONSTANTS
  Clients,   (* runs of client.cpp                                        *)
  Peers,     (* other programs that talk to the server                    *)
  Argvs,     (* the commands a client may be started with                 *)
  Frames     (* what a peer may send                                      *)

ASSUME ArgvAssumption == Argvs \subseteq Seq(Seq(Byte))
ASSUME FrameAssumption == Frames \subseteq Seq(Byte)

VARIABLES
  store,     (* g_data.db                                                 *)
  conn,      (* the server's end of each connection: "none", "open" or    *)
             (* "closed" when the server has dropped it                   *)
  up, down,  (* the bytes under way to the server, and from it            *)
  pc,        (* where each client is                                      *)
  argv,      (* its command                                               *)
  wbuf,      (* the bytes of its request that are not written yet         *)
  rbuf,      (* the bytes of the reply it has read                        *)
  printed,   (* what on_response printed and read_res returned            *)
  meant      (* history: the reply the handler chose                      *)

clientVars == <<pc, argv, wbuf, rbuf, printed>>
vars == <<store, conn, up, down, clientVars, meant>>

Programs == Clients \cup Peers

Take(s, n) == SubSeq(s, 1, n)
Drop(s, n) == SubSeq(s, n + 1, Len(s))
Smaller(m, n) == IF m <= n THEN m ELSE n

Nothing == [rv |-> 0, reply |-> NoReply, text |-> << >>]

Init ==
  /\ store = << >>
  /\ conn = [c \in Programs |-> "none"]
  /\ up = [c \in Programs |-> << >>]
  /\ down = [c \in Programs |-> << >>]
  /\ pc = [c \in Programs |-> "end"]
  /\ argv = [c \in Programs |-> << >>]
  /\ wbuf = [c \in Programs |-> << >>]
  /\ rbuf = [c \in Programs |-> << >>]
  /\ printed = [c \in Programs |-> Nothing]
  /\ meant = [c \in Programs |-> NoReply]

-----------------------------------------------------------------------------
(* The client program.                                                     *)

Finish(c, rv) ==
  /\ pc' = [pc EXCEPT ![c] = "end"]
  /\ conn' = [conn EXCEPT ![c] = "none"]
  /\ printed' = [printed EXCEPT ![c].rv = rv]

Begin(c, cmd) ==
  /\ pc[c] = "end"
  /\ argv' = [argv EXCEPT ![c] = cmd]
  /\ rbuf' = [rbuf EXCEPT ![c] = << >>]
  /\ printed' = [printed EXCEPT ![c] = Nothing]
  /\ meant' = [meant EXCEPT ![c] = NoReply]
  /\ up' = [up EXCEPT ![c] = << >>]
  /\ down' = [down EXCEPT ![c] = << >>]
  /\ UNCHANGED store

Open(c, bytes) ==
  /\ conn' = [conn EXCEPT ![c] = "open"]
  /\ wbuf' = [wbuf EXCEPT ![c] = bytes]
  /\ pc' = [pc EXCEPT ![c] = "write"]

send_req(c, cmd) ==
  /\ Begin(c, cmd)
  /\ Len(Body(cmd)) <= k_max_msg
  /\ Open(c, Sized(Body(cmd)))

SendTooLong(c, cmd) ==
  /\ Begin(c, cmd)
  /\ Len(Body(cmd)) > k_max_msg
  /\ UNCHANGED <<conn, wbuf, pc>>

(* A peer sends what it likes; from here on it is modelled like a client.  *)
SendFrame(c, frame) ==
  /\ Begin(c, << >>)
  /\ Open(c, frame)

(* One turn of the loop of write_all. *)
write_all(c, n) ==
  /\ pc[c] = "write"
  /\ conn[c] = "open"
  /\ n \in 1 .. Len(wbuf[c])
  /\ up' = [up EXCEPT ![c] = @ \o Take(wbuf[c], n)]
  /\ wbuf' = [wbuf EXCEPT ![c] = Drop(@, n)]
  /\ pc' = [pc EXCEPT ![c] = IF n = Len(wbuf[c]) THEN "header" ELSE "write"]
  /\ UNCHANGED <<store, conn, down, argv, rbuf, printed, meant>>

(* The server has dropped the connection: a write fails, sooner or later, *)
(* and the program ends.                                                   *)
WriteFails(c) ==
  /\ pc[c] = "write"
  /\ conn[c] = "closed"
  /\ Finish(c, -1)
  /\ wbuf' = [wbuf EXCEPT ![c] = << >>]
  /\ UNCHANGED <<store, up, down, argv, rbuf, meant>>

ReadSome(c, n) ==
  /\ rbuf' = [rbuf EXCEPT ![c] = @ \o Take(down[c], n)]
  /\ down' = [down EXCEPT ![c] = Drop(@, n)]
  /\ UNCHANGED <<store, up, argv, wbuf, meant>>

(* read_res up to the length field. *)
ReadHeader(c, n) ==
  LET grown == rbuf[c] \o Take(down[c], n)
      whole == Len(grown) = WordSize
      long  == whole /\ Number(grown, 0) > k_max_msg
  IN  /\ pc[c] = "header"
      /\ n \in 1 .. Smaller(WordSize - Len(rbuf[c]), Len(down[c]))
      /\ ReadSome(c, n)
      /\ \/ long /\ Finish(c, -1)
         \/ /\ ~long
            /\ pc' = [pc EXCEPT ![c] = IF whole THEN "body" ELSE "header"]
            /\ UNCHANGED <<conn, printed>>

(* What read_res returns and what was printed. *)
Outcome(len, found) ==
  [rv |-> IF found.used = len THEN len ELSE -1, reply |-> found.shown, text |-> found.text]

Outcomes(len, response) ==
  IF response = {} THEN {[Nothing EXCEPT !.rv = -1]}
  ELSE {Outcome(len, found) : found \in response}

(* The rest of read_res. *)
ReadBody(c, n) ==
  LET len      == Number(rbuf[c], 0)
      need     == WordSize + len - Len(rbuf[c])
      response == on_response(Drop(rbuf[c], WordSize) \o Take(down[c], n))
  IN  /\ pc[c] = "body"
      /\ n \in 1 .. Smaller(need, Len(down[c]))
      /\ ReadSome(c, n)
      /\ \/ n < need /\ UNCHANGED <<conn, pc, printed>>
         \/ /\ n = need
            /\ pc' = [pc EXCEPT ![c] = "end"]
            /\ conn' = [conn EXCEPT ![c] = "none"]
            /\ \E outcome \in Outcomes(len, response) :
                 printed' = [printed EXCEPT ![c] = outcome]

EndOfFile(c) ==
  /\ pc[c] \in {"header", "body"}
  /\ conn[c] = "closed"
  /\ down[c] = << >>
  /\ Finish(c, -1)
  /\ UNCHANGED <<store, up, down, argv, wbuf, rbuf, meant>>

-----------------------------------------------------------------------------
(* The server.                                                             *)

HasHeader(c) == conn[c] = "open" /\ Len(up[c]) >= WordSize
BodyLen(c)   == Number(up[c], 0)
TooLong(c)   == HasHeader(c) /\ BodyLen(c) > k_max_msg

(* Mutant: the last byte is waited for in vain. *)
HasLongerFrame(c) == HasHeader(c) /\ ~TooLong(c) /\ Len(up[c]) - WordSize > BodyLen(c)

HasFrame(c) == HasHeader(c) /\ ~TooLong(c) /\ Len(up[c]) - WordSize >= BodyLen(c)
Payload(c)  == SubSeq(up[c], WordSize + 1, WordSize + BodyLen(c))

(* The request at the front of the read buffer, as a set. *)
Request(c) == IF HasFrame(c) THEN parse_req(Payload(c)) ELSE {}

(* Mutant: the length of the reply is not limited. *)
PackAny(reply) == reply

(* The reply sent when a handler has chosen one. *)
Packed(reply) ==
  IF WordSize + Len(Encoded(reply)) > k_max_msg THEN ErrReply("ERR_2BIG") ELSE reply

Answer(c, reply) ==
  /\ meant' = [meant EXCEPT ![c] = Packed(reply)]
  /\ down' = [down EXCEPT ![c] = @ \o Sized(Encoded(Packed(reply)))]
  /\ up' = [up EXCEPT ![c] = Drop(@, WordSize + BodyLen(c))]
  /\ UNCHANGED <<conn, clientVars>>

Is(cmd, name, size) == Len(cmd) = size /\ cmd_is(cmd[1], name)

Requested(c, name, size) == {cmd \in Request(c) : Is(cmd, name, size)}

do_get(c) ==
  /\ \E cmd \in Requested(c, "get", 2) :
       \/ cmd[2] \notin DOMAIN store /\ Answer(c, NilReply)
       \/ cmd[2] \in DOMAIN store /\ Answer(c, StrReply(store[cmd[2]]))
  /\ UNCHANGED store

do_set(c) ==
  \E cmd \in Requested(c, "set", 3) :
    /\ store' = [k \in DOMAIN store \cup {cmd[2]} |-> IF k = cmd[2] THEN cmd[3] ELSE store[k]]
    /\ Answer(c, NilReply)

do_del(c) ==
  \E cmd \in Requested(c, "del", 2) :
    /\ store' = [k \in DOMAIN store \ {cmd[2]} |-> store[k]]
    /\ Answer(c, IntReply(IF cmd[2] \in DOMAIN store THEN 1 ELSE 0))

(* The order of a listing is that of the buckets. *)
do_keys(c) ==
  /\ Requested(c, "keys", 1) # {}
  /\ \E order \in SetToSeqs(DOMAIN store) :
       Answer(c, ArrReply(Len(order), [i \in 1 .. Len(order) |-> StrReply(order[i])]))
  /\ UNCHANGED store

Recognised(cmd) ==
  Is(cmd, "keys", 1) \/ Is(cmd, "get", 2) \/ Is(cmd, "set", 3) \/ Is(cmd, "del", 2)

UnknownCmd(c) ==
  /\ \E cmd \in Request(c) : ~Recognised(cmd)
  /\ Answer(c, ErrReply("ERR_UNKNOWN"))
  /\ UNCHANGED store

DropConnection(c) ==
  /\ TooLong(c) \/ (HasFrame(c) /\ Request(c) = {})
  /\ conn' = [conn EXCEPT ![c] = "closed"]
  /\ UNCHANGED <<store, up, down, clientVars, meant>>

-----------------------------------------------------------------------------
try_one_request(c) ==
  \/ do_get(c) \/ do_set(c) \/ do_del(c) \/ do_keys(c)
  \/ UnknownCmd(c)
  \/ DropConnection(c)

Progress(c) ==
  \/ \E n \in 1 .. Len(wbuf[c]) : write_all(c, n)
  \/ WriteFails(c)
  \/ \E n \in 1 .. Len(down[c]) : ReadHeader(c, n) \/ ReadBody(c, n)
  \/ EndOfFile(c)

Start(c) ==
  \/ c \in Clients /\ \E cmd \in Argvs : send_req(c, cmd) \/ SendTooLong(c, cmd)
  \/ c \in Peers /\ \E frame \in Frames : SendFrame(c, frame)

Next == \E c \in Programs : Start(c) \/ Progress(c) \/ try_one_request(c)

Spec == Init /\ [][Next]_vars

(* A running program runs on, and the server takes the requests it has. *)
Fairness ==
  \A c \in Programs : WF_vars(Progress(c)) /\ WF_vars(try_one_request(c))

FairSpec == Spec /\ Fairness
=============================================================================
