------------------------------- MODULE Server -------------------------------
(***************************************************************************)
(* The event loop of server.cpp and the connection state machine of        *)
(* server_utils.cpp, with the kernel and the clients they talk to.         *)
(*                                                                         *)
(* The server is one thread.  It is cut at its system calls: between two   *)
(* of its steps any client may write, read or hang up, and the kernel may  *)
(* deliver a reset.  What a command does to the key space is left out      *)
(* (HashMap models it); here a request is its bytes, whether it parses and *)
(* the size of its reply.                                                  *)
(*                                                                         *)
(* A byte is a pair: byte k of frame i of a client's script is <<i, k>> on *)
(* the way in, and byte k of the reply to it is <<i, k>> on the way out.   *)
(* Each client connects once, so it also names its Conn object.            *)
(***************************************************************************)
EXTENDS Integers, Sequences, FiniteSets, SequencesExt

CONSTANTS
  Clients,      (* the processes that connect                             *)
  NULL,         (* the null pointer, and an unused descriptor             *)
  ListenFd,     (* the listening descriptor                               *)
  Fds,          (* the descriptors accept may return, limited by the host *)
  MaxEvents,    (* MAX_EVENT_LEN of server.cpp                            *)
  SendBuffer,   (* bytes the kernel holds for a peer that does not read   *)
  HeaderSize,   (* bytes of a length field: 4                             *)
  k_max_msg,    (* 4096 in server_utils.h                                 *)
  Requests,     (* the requests clients send                              *)
  BodyLen,      (* what the length field of a request says                *)
  WellFormed,   (* the requests parse_req accepts                         *)
  OutLen,       (* bytes of the reply do_request builds for it            *)
  ErrLen,       (* bytes of the "response is too big" reply               *)
  Scripts,      (* what the clients may want to send, all of them         *)
  Pipelining    (* whether it sends on without waiting for replies        *)

ASSUME DescriptorAssumption ==
  /\ Fds \subseteq Nat /\ IsFiniteSet(Fds)
  /\ ListenFd \in Nat \ Fds
  /\ NULL \notin Clients
  /\ NULL \notin Nat

ASSUME LimitAssumption ==
  /\ MaxEvents \in Nat \ {0}
  /\ SendBuffer \in Nat \ {0}
  /\ HeaderSize \in Nat \ {0}
  /\ k_max_msg \in Nat
  /\ Pipelining \in BOOLEAN

ASSUME RequestAssumption ==
  /\ BodyLen \in [Requests -> Nat]
  /\ WellFormed \subseteq Requests
  /\ OutLen \in [Requests -> Nat]
  /\ ErrLen \in Nat
  /\ HeaderSize + ErrLen <= k_max_msg
  /\ Scripts \subseteq [Clients -> Seq(Requests)]

VARIABLES
  (* the clients and the kernel *)
  script,     (* what each client wants to send; none at all: it stays    *)
              (* away                                                     *)
  todo,       (* the bytes it has not written yet                         *)
  got,        (* the bytes it has read                                    *)
  sock,       (* the connection, as the server's end of it sees it        *)
  recvq,      (* bytes the server can read                                *)
  sendq,      (* bytes the server has written and the client not read     *)
  backlog,    (* connections waiting for accept                           *)
  file,       (* the connection behind each descriptor                    *)
  interest,   (* what epoll monitors each descriptor for                  *)
  (* the server *)
  pc,         (* where the thread is                                      *)
  batch,      (* events_buf from index i on, with the connection each     *)
              (* event was raised for (the kernel only passes the fd)     *)
  cur,        (* the conn being processed                                 *)
  from,       (* who called state_res: the "event" loop or try_one_request*)
  fd2conn,    (* the map from descriptor to Conn                          *)
  fd, state, rbuf, wbuf, wbuf_sent,  (* the fields of each Conn           *)
  served      (* history: requests executed for each client               *)

clientVars == <<script, todo, got>>
netVars    == <<sock, recvq, sendq, backlog>>
kernVars   == <<file, interest>>
connVars   == <<fd, state, rbuf, wbuf, wbuf_sent, served>>
loopVars   == <<pc, batch, cur, from, fd2conn>>
vars == <<clientVars, netVars, kernVars, connVars, loopVars>>

-----------------------------------------------------------------------------
(* Frames and buffers.                                                     *)

Min2(m, n) == IF m <= n THEN m ELSE n

Drop(s, n) == SubSeq(s, n + 1, Len(s))
Take(s, n) == SubSeq(s, 1, n)

FrameLen(req) == HeaderSize + BodyLen[req]
Frame(reqs, i) == [k \in 1 .. FrameLen(reqs[i]) |-> <<i, k>>]
Stream(reqs) == FlattenSeq([i \in 1 .. Len(reqs) |-> Frame(reqs, i)])

(* Mutant: a reply that is too big is sent all the same. *)
UnboundedReplyLen(req) == HeaderSize + OutLen[req]

(* try_one_request replaces a reply that is too big by an error, then puts *)
(* the length in front of it.                                              *)
ReplyLen(req) ==
  HeaderSize + (IF HeaderSize + OutLen[req] > k_max_msg THEN ErrLen ELSE OutLen[req])
Reply(reqs, i) == [k \in 1 .. ReplyLen(reqs[i]) |-> <<i, k>>]

BufSize == HeaderSize + k_max_msg    \* sizeof(rbuf) and sizeof(wbuf)

(* The request whose length field is at the front of the read buffer. *)
HeadRequest(c) == script[c][rbuf[c][1][1]]

HasHeader(c) == Len(rbuf[c]) >= HeaderSize
HasFrame(c)  == HasHeader(c) /\ Len(rbuf[c]) - HeaderSize >= BodyLen[HeadRequest(c)]

(* Mutant: the longest legal frame is rejected too. *)
LimitOffByOne(c) == HasHeader(c) /\ BodyLen[HeadRequest(c)] >= k_max_msg

TooLong(c) == HasHeader(c) /\ BodyLen[HeadRequest(c)] > k_max_msg

(* Mutant: the length field of the request stays in the buffer. *)
HeaderLeft(c) == Drop(rbuf[c], BodyLen[HeadRequest(c)])

(* The read buffer without the request at its front. *)
Remaining(c) == Drop(rbuf[c], FrameLen(HeadRequest(c)))

(* Mutant: every write starts at the beginning of the buffer. *)
FromTheStart(c) == Take(wbuf[c], Len(wbuf[c]) - wbuf_sent[c])

Unsent(c) == Drop(wbuf[c], wbuf_sent[c])

-----------------------------------------------------------------------------
Init ==
  /\ script \in Scripts
  /\ todo = [c \in Clients |-> Stream(script[c])]
  /\ got = [c \in Clients |-> << >>]
  /\ sock = [c \in Clients |-> "none"]
  /\ recvq = [c \in Clients |-> << >>]
  /\ sendq = [c \in Clients |-> << >>]
  /\ backlog = << >>
  /\ file = [f \in Fds |-> NULL]
  /\ interest = [f \in Fds |-> "none"]
  /\ pc = "socket"
  /\ batch = << >>
  /\ cur = NULL
  /\ from = "event"
  /\ fd2conn = [f \in Fds |-> NULL]
  /\ fd = [c \in Clients |-> NULL]
  /\ state = [c \in Clients |-> "STATE_REQ"]
  /\ rbuf = [c \in Clients |-> << >>]
  /\ wbuf = [c \in Clients |-> << >>]
  /\ wbuf_sent = [c \in Clients |-> 0]
  /\ served = [c \in Clients |-> 0]

-----------------------------------------------------------------------------
(* Start-up: a system call for each step.                                  *)

NextStep ==
  [socket |-> "bind", bind |-> "listen", listen |-> "set_nb", set_nb |-> "epoll_create1",
   epoll_create1 |-> "wait"]

(* The last step also puts the listening descriptor into the epoll set. *)
StartUp ==
  /\ pc \in DOMAIN NextStep
  /\ pc' = NextStep[pc]
  /\ UNCHANGED <<clientVars, netVars, kernVars, connVars, batch, cur, from, fd2conn>>

(* Any of them fails: die(), which aborts. *)
StartUpFails ==
  /\ pc \in DOMAIN NextStep
  /\ pc' = "died"
  /\ UNCHANGED <<clientVars, netVars, kernVars, connVars, batch, cur, from, fd2conn>>

-----------------------------------------------------------------------------
(* The clients.  The server's death leaves them nothing but to read.       *)

Alive == pc \notin {"died", "abort", "killed"}

Listening == Alive /\ pc \notin {"socket", "bind", "listen"}

(* From listen on, before the server monitors the socket or accepts. *)
Connect(c) ==
  /\ Listening
  /\ sock[c] = "none"
  /\ script[c] # << >>
  /\ sock' = [sock EXCEPT ![c] = "open"]
  /\ backlog' = Append(backlog, c)
  /\ UNCHANGED <<clientVars, recvq, sendq, kernVars, connVars, loopVars>>

(* Without pipelining the bytes of a frame wait for the reply before it. *)
RepliesBefore(c, i) ==
  \A j \in 1 .. i - 1 : <<j, ReplyLen(script[c][j])>> \in ToSet(got[c])

MayWrite(c, n) ==
  Pipelining \/ RepliesBefore(c, todo[c][n][1])

Write(c, n) ==
  /\ Alive
  /\ sock[c] = "open"
  /\ n \in 1 .. Len(todo[c])
  /\ MayWrite(c, n)
  /\ recvq' = [recvq EXCEPT ![c] = @ \o Take(todo[c], n)]
  /\ todo' = [todo EXCEPT ![c] = Drop(@, n)]
  /\ UNCHANGED <<script, got, sock, sendq, backlog, kernVars, connVars, loopVars>>

Read(c) ==
  /\ sendq[c] # << >>
  /\ got' = [got EXCEPT ![c] = Append(@, Head(sendq[c]))]
  /\ sendq' = [sendq EXCEPT ![c] = Tail(@)]
  /\ UNCHANGED <<script, todo, sock, recvq, backlog, kernVars, connVars, loopVars>>

(* A client closes its end.  The peer learns of it as an end of file, or,  *)
(* when replies are left unread, as a reset: a plain one, or one that      *)
(* follows the end of file.                                                *)
HangUp(c) ==
  /\ Alive
  /\ sock[c] = "open"
  /\ \/ sendq[c] = << >> /\ sock' = [sock EXCEPT ![c] = "fin"]
     \/ sendq[c] # << >> /\ \E s \in {"reset", "broken"} : sock' = [sock EXCEPT ![c] = s]
  /\ sendq' = [sendq EXCEPT ![c] = << >>]
  /\ UNCHANGED <<clientVars, recvq, backlog, kernVars, connVars, loopVars>>

(* What the server wrote after the end of file is answered by a reset. *)
ResetArrives(c) ==
  /\ Alive
  /\ sock[c] = "finsent"
  /\ sock' = [sock EXCEPT ![c] = "broken"]
  /\ UNCHANGED <<clientVars, recvq, sendq, backlog, kernVars, connVars, loopVars>>

-----------------------------------------------------------------------------
(* The event loop of main.                                                 *)

PeerGone(c) == sock[c] \in {"fin", "finsent", "reset", "broken"}
Writable(c) == Len(sendq[c]) < SendBuffer \/ PeerGone(c)

(* Level-triggered readiness; a reset is reported whatever the interest. *)
FdReady(f) ==
  /\ file[f] # NULL
  /\ \/ interest[f] = "EPOLLIN" /\ (recvq[file[f]] # << >> \/ PeerGone(file[f]))
     \/ interest[f] = "EPOLLOUT" /\ Writable(file[f])

ReadyFds == {f \in Fds : FdReady(f)} \cup (IF backlog # << >> THEN {ListenFd} ELSE {})

Event(f) == [fd |-> f, owner |-> IF f = ListenFd THEN NULL ELSE file[f]]

epoll_wait ==
  /\ pc = "wait"
  /\ ReadyFds # {}
  /\ \E F \in SUBSET ReadyFds :
       /\ Cardinality(F) = Min2(Cardinality(ReadyFds), MaxEvents)
       /\ \E order \in SetToSeqs(F) :
            batch' = [i \in 1 .. Len(order) |-> Event(order[i])]
  /\ pc' = "dispatch"
  /\ UNCHANGED <<clientVars, netVars, kernVars, connVars, cur, from, fd2conn>>

(* EINTR, after a signal that stopped and continued the process, or an     *)
(* error of another kind.                                                  *)
EpollWaitFails ==
  /\ pc = "wait"
  /\ pc' = "died"
  /\ UNCHANGED <<clientVars, netVars, kernVars, connVars, batch, cur, from, fd2conn>>

BatchDone ==
  /\ pc = "dispatch"
  /\ batch = << >>
  /\ pc' = "wait"
  /\ UNCHANGED <<clientVars, netVars, kernVars, connVars, batch, cur, from, fd2conn>>

ListenEvent ==
  /\ pc = "dispatch"
  /\ batch # << >>
  /\ Head(batch).fd = ListenFd
  /\ batch' = Tail(batch)

FreeFds == {f \in Fds : file[f] = NULL}

accept_new_conn ==
  /\ ListenEvent
  /\ FreeFds # {}
  /\ LET c == Head(backlog)
         f == Min(FreeFds)            \* the lowest descriptor not in use
     IN  /\ file' = [file EXCEPT ![f] = c]
         /\ interest' = [interest EXCEPT ![f] = "EPOLLIN"]
         /\ fd2conn' = [fd2conn EXCEPT ![f] = c]
         /\ fd' = [fd EXCEPT ![c] = f]
         /\ state' = [state EXCEPT ![c] = "STATE_REQ"]
         /\ rbuf' = [rbuf EXCEPT ![c] = << >>]
         /\ wbuf' = [wbuf EXCEPT ![c] = << >>]
         /\ wbuf_sent' = [wbuf_sent EXCEPT ![c] = 0]
  /\ backlog' = Tail(backlog)
  /\ UNCHANGED <<clientVars, sock, recvq, sendq, served, pc, cur, from>>

(* accept fails for want of a descriptor; the connection stays queued. *)
AcceptError ==
  /\ ListenEvent
  /\ FreeFds = {}
  /\ UNCHANGED <<clientVars, netVars, kernVars, connVars, pc, cur, from, fd2conn>>

Closed(c, how) == [sock EXCEPT ![c] = IF @ = "open" THEN how ELSE "gone"]

(* malloc fails: the accepted descriptor is closed at once. *)
ConnMallocFails ==
  /\ ListenEvent
  /\ FreeFds # {}
  /\ sock' = Closed(Head(backlog), "refused")
  /\ backlog' = Tail(backlog)
  /\ UNCHANGED <<clientVars, recvq, sendq, kernVars, connVars, pc, cur, from, fd2conn>>

(* fd_set_nb or epoll_ctl fails for the accepted descriptor. *)
AcceptDies ==
  /\ ListenEvent
  /\ FreeFds # {}
  /\ backlog' = Tail(backlog)
  /\ pc' = "died"
  /\ UNCHANGED <<clientVars, sock, recvq, sendq, kernVars, connVars, cur, from, fd2conn>>

connection_io ==
  /\ pc = "dispatch"
  /\ batch # << >>
  /\ Head(batch).fd # ListenFd
  /\ LET conn == fd2conn[Head(batch).fd]
     IN  /\ conn # NULL
         /\ cur' = conn
         /\ \/ state[conn] = "STATE_REQ" /\ pc' = "fill"
            \/ state[conn] = "STATE_RES" /\ pc' = "flush"
  /\ from' = "event"
  /\ batch' = Tail(batch)
  /\ UNCHANGED <<clientVars, netVars, kernVars, connVars, fd2conn>>

(* Back in main after connection_io. *)
KeepConn ==
  /\ pc = "after"
  /\ state[cur] # "STATE_END"
  /\ pc' = "dispatch"
  /\ cur' = NULL
  /\ UNCHANGED <<clientVars, netVars, kernVars, connVars, batch, from, fd2conn>>

(* Closing with bytes left unread resets the connection, which may discard *)
(* what the client has not been sent yet.                                  *)
Discard(c) ==
  \E n \in 0 .. Len(sendq[c]) :
    /\ recvq[c] = << >> => n = Len(sendq[c])
    /\ sendq' = [sendq EXCEPT ![c] = Take(@, n)]

(* Mutants: the descriptor is never closed; the map keeps its entry. *)
LeakDescriptor(c) ==
  /\ fd2conn' = [fd2conn EXCEPT ![fd[c]] = NULL]
  /\ fd' = [fd EXCEPT ![c] = NULL]
  /\ UNCHANGED <<sock, kernVars>>

KeepEntry(c) ==
  /\ file' = [file EXCEPT ![fd[c]] = NULL]
  /\ interest' = [interest EXCEPT ![fd[c]] = "none"]
  /\ sock' = Closed(c, "dropped")
  /\ fd' = [fd EXCEPT ![c] = NULL]
  /\ UNCHANGED fd2conn

(* The entry of fd2conn, the descriptor (which close also takes out of the *)
(* epoll set) and the Conn go. *)
Release(c) ==
  /\ fd2conn' = [fd2conn EXCEPT ![fd[c]] = NULL]
  /\ file' = [file EXCEPT ![fd[c]] = NULL]
  /\ interest' = [interest EXCEPT ![fd[c]] = "none"]
  /\ sock' = Closed(c, "dropped")
  /\ fd' = [fd EXCEPT ![c] = NULL]

DestroyConn ==
  /\ pc = "after"
  /\ state[cur] = "STATE_END"
  /\ Discard(cur)
  /\ Release(cur)
  /\ pc' = "dispatch"
  /\ cur' = NULL
  /\ UNCHANGED <<clientVars, recvq, backlog, state, rbuf, wbuf, wbuf_sent, served,
                 batch, from>>

-----------------------------------------------------------------------------
(* state_req: try_fill_buffer in a loop.                                   *)

(* Mutant: the state is left as it is. *)
StopOnly == pc' = "after" /\ UNCHANGED state

EndConn ==
  /\ state' = [state EXCEPT ![cur] = "STATE_END"]
  /\ pc' = "after"

(* The buffer is read full: the assertion behind the read aborts. *)
FillBuffer ==
  /\ pc = "fill"
  /\ recvq[cur] # << >>
  /\ LET n == Min2(BufSize - Len(rbuf[cur]), Len(recvq[cur]))
     IN  /\ rbuf' = [rbuf EXCEPT ![cur] = @ \o Take(recvq[cur], n)]
         /\ recvq' = [recvq EXCEPT ![cur] = Drop(@, n)]
         /\ pc' = IF Len(rbuf[cur]) + n < BufSize THEN "parse" ELSE "abort"
  /\ UNCHANGED <<clientVars, sock, sendq, backlog, kernVars, fd, state, wbuf,
                 wbuf_sent, served, batch, cur, from, fd2conn>>

(* EAGAIN: nothing more to read now. *)
ReadAgain ==
  /\ pc = "fill"
  /\ recvq[cur] = << >>
  /\ sock[cur] = "open"
  /\ pc' = "after"
  /\ UNCHANGED <<clientVars, netVars, kernVars, connVars, batch, cur, from, fd2conn>>

(* End of file, or a read error. *)
ReadEnds ==
  /\ pc = "fill"
  /\ recvq[cur] = << >>
  /\ PeerGone(cur)
  /\ EndConn
  /\ UNCHANGED <<clientVars, netVars, kernVars, fd, rbuf, wbuf, wbuf_sent, served,
                 batch, cur, from, fd2conn>>

-----------------------------------------------------------------------------
(* try_one_request, in a loop after each read.                             *)

FrameIncomplete ==
  /\ pc = "parse"
  /\ ~ TooLong(cur)
  /\ ~ HasFrame(cur)
  /\ pc' = "fill"
  /\ UNCHANGED <<clientVars, netVars, kernVars, connVars, batch, cur, from, fd2conn>>

(* The length field is over k_max_msg, or parse_req rejects the payload. *)
BadFrame ==
  /\ pc = "parse"
  /\ \/ TooLong(cur)
     \/ HasFrame(cur) /\ HeadRequest(cur) \notin WellFormed
  /\ EndConn
  /\ UNCHANGED <<clientVars, netVars, kernVars, fd, rbuf, wbuf, wbuf_sent, served,
                 batch, cur, from, fd2conn>>

(* Mutant: epoll is not told to wait for room to write. *)
KeepInterest(c) == UNCHANGED interest

AwaitFlush(c) == interest' = [interest EXCEPT ![fd[c]] = "EPOLLOUT"]

try_one_request ==
  /\ pc = "parse"
  /\ ~ TooLong(cur)
  /\ HasFrame(cur)
  /\ HeadRequest(cur) \in WellFormed
  /\ wbuf' = [wbuf EXCEPT ![cur] = Reply(script[cur], rbuf[cur][1][1])]
  /\ rbuf' = [rbuf EXCEPT ![cur] = Remaining(cur)]
  /\ served' = [served EXCEPT ![cur] = @ + 1]
  /\ state' = [state EXCEPT ![cur] = "STATE_RES"]
  /\ AwaitFlush(cur)
  /\ from' = "request"
  /\ pc' = "flush"
  /\ UNCHANGED <<clientVars, netVars, file, fd, wbuf_sent, batch, cur, fd2conn>>

-----------------------------------------------------------------------------
(* state_res: try_flush_buffer in a loop.                                  *)

(* A write takes what fits; after the peer is gone it takes everything. *)
Space(c) == IF sock[c] = "open" THEN SendBuffer - Len(sendq[c]) ELSE Len(wbuf[c])

CanWrite ==
  /\ pc = "flush"
  /\ sock[cur] \in {"open", "fin", "finsent"}
  /\ Space(cur) > 0

(* The bytes n that one write hands to the kernel. *)
Transmit(n) ==
  /\ sendq' = [sendq EXCEPT ![cur] = IF sock[cur] = "open" THEN @ \o Take(Unsent(cur), n) ELSE @]
  /\ sock' = [sock EXCEPT ![cur] = IF @ = "fin" THEN "finsent" ELSE @]

WritePart ==
  /\ CanWrite
  /\ Space(cur) < Len(Unsent(cur))
  /\ Transmit(Space(cur))
  /\ wbuf_sent' = [wbuf_sent EXCEPT ![cur] = @ + Space(cur)]
  /\ UNCHANGED <<clientVars, recvq, backlog, kernVars, fd, state, rbuf, wbuf, served,
                 loopVars>>

(* Mutant: epoll is left waiting for room to write. *)
StillAwaitFlush(c) ==
  /\ state' = [state EXCEPT ![c] = "STATE_REQ"]
  /\ wbuf' = [wbuf EXCEPT ![c] = << >>]
  /\ wbuf_sent' = [wbuf_sent EXCEPT ![c] = 0]
  /\ UNCHANGED interest

AwaitRequest(c) ==
  /\ state' = [state EXCEPT ![c] = "STATE_REQ"]
  /\ wbuf' = [wbuf EXCEPT ![c] = << >>]
  /\ wbuf_sent' = [wbuf_sent EXCEPT ![c] = 0]
  /\ interest' = [interest EXCEPT ![fd[c]] = "EPOLLIN"]

(* The response is fully sent; the try_one_request loop goes on, if this   *)
(* is where the call came from.                                            *)
WriteAll ==
  /\ CanWrite
  /\ Space(cur) >= Len(Unsent(cur))
  /\ Transmit(Len(Unsent(cur)))
  /\ AwaitRequest(cur)
  /\ pc' = IF from = "request" THEN "parse" ELSE "after"
  /\ UNCHANGED <<clientVars, recvq, backlog, file, fd, rbuf, served, batch, cur, from,
                 fd2conn>>

(* EAGAIN: the send buffer is full; the rest waits for EPOLLOUT. *)
WriteAgain ==
  /\ pc = "flush"
  /\ sock[cur] = "open"
  /\ Space(cur) = 0
  /\ pc' = "after"
  /\ UNCHANGED <<clientVars, netVars, kernVars, connVars, batch, cur, from, fd2conn>>

WriteError ==
  /\ pc = "flush"
  /\ sock[cur] = "reset"
  /\ EndConn
  /\ UNCHANGED <<clientVars, netVars, kernVars, fd, rbuf, wbuf, wbuf_sent, served,
                 batch, cur, from, fd2conn>>

(* EPIPE: nothing masks SIGPIPE, so write does not return. *)
WriteBrokenPipe ==
  /\ pc = "flush"
  /\ sock[cur] = "broken"
  /\ pc' = "killed"
  /\ UNCHANGED <<clientVars, netVars, kernVars, connVars, batch, cur, from, fd2conn>>

-----------------------------------------------------------------------------
Loop ==
  \/ epoll_wait \/ BatchDone
  \/ accept_new_conn \/ AcceptError \/ ConnMallocFails
  \/ connection_io \/ KeepConn \/ DestroyConn

Connection ==
  \/ FillBuffer \/ ReadAgain \/ ReadEnds
  \/ FrameIncomplete \/ BadFrame \/ try_one_request
  \/ WritePart \/ WriteAll \/ WriteAgain \/ WriteError \/ WriteBrokenPipe

Thread == StartUp \/ Loop \/ Connection

(* What the server may meet but need not. *)
Fault == StartUpFails \/ EpollWaitFails \/ AcceptDies

Peer(c) ==
  \/ Connect(c) \/ HangUp(c) \/ ResetArrives(c) \/ Read(c)
  \/ \E n \in 1 .. Len(todo[c]) : Write(c, n)

Next == Thread \/ Fault \/ \E c \in Clients : Peer(c)

Spec == Init /\ [][Next]_vars

(* The thread runs whenever it can, and clients read their replies. *)
Fairness == WF_vars(Thread) /\ \A c \in Clients : WF_vars(Read(c))

FairSpec == Spec /\ Fairness
=============================================================================
