---------------------------- MODULE ServerProps ----------------------------
(***************************************************************************)
(* What the event loop and the connection state machine promise: the byte  *)
(* streams stay aligned, the three descriptor tables agree, an event finds *)
(* the connection it was raised for, and requests are answered.            *)
(***************************************************************************)
EXTENDS Server

(* The process has died. *)
Crashed == ~ Alive

Accepted(c) == fd[c] # NULL

(* The frames c has sent up to the i-th one hold one the server rejects. *)
Rejects(req) == req \notin WellFormed \/ BodyLen[req] > k_max_msg
BadUpTo(c, i) == \E j \in 1 .. Min2(i, Len(script[c])) : Rejects(script[c][j])

-----------------------------------------------------------------------------
(* The type of every variable.  Neither buffer of a Conn ever holds more   *)
(* than it has room for, whatever a client sends and however long a reply  *)
(* do_request builds.                                                      *)
TypeOK ==
  /\ script \in Scripts
  /\ sock \in [Clients -> {"none", "open", "fin", "finsent", "reset", "broken",
                           "refused", "dropped", "gone"}]
  /\ ToSet(backlog) \subseteq Clients
  /\ file \in [Fds -> Clients \cup {NULL}]
  /\ interest \in [Fds -> {"none", "EPOLLIN", "EPOLLOUT"}]
  /\ pc \in {"socket", "bind", "listen", "set_nb", "epoll_create1", "wait", "dispatch",
             "fill", "parse", "flush", "after", "abort", "killed", "died"}
  /\ \A i \in DOMAIN batch : batch[i] \in [fd : Fds \cup {ListenFd}, owner : Clients \cup {NULL}]
  /\ cur \in Clients \cup {NULL}
  /\ from \in {"event", "request"}
  /\ fd2conn \in [Fds -> Clients \cup {NULL}]
  /\ fd \in [Clients -> Fds \cup {NULL}]
  /\ state \in [Clients -> {"STATE_REQ", "STATE_RES", "STATE_END"}]
  /\ \A c \in Clients : Len(rbuf[c]) <= BufSize /\ Len(wbuf[c]) <= BufSize
  /\ \A c \in Clients : wbuf_sent[c] \in 0 .. Len(wbuf[c])

-----------------------------------------------------------------------------
(* The descriptor tables.                                                  *)

(* The kernel's descriptors, the map fd2conn and the fd each Conn records  *)
(* agree, and epoll monitors exactly the open ones: accept_new_conn and    *)
(* the loop of main keep four tables in step over any reuse of a           *)
(* descriptor.                                                             *)
TablesAgree ==
  /\ fd2conn = file
  /\ \A f \in Fds, c \in Clients : file[f] = c <=> fd[c] = f
  /\ \A f \in Fds : interest[f] = "none" <=> file[f] = NULL

(* An event still to be handled in this batch finds, through fd2conn, the  *)
(* live Conn it was raised for, although connections are closed and        *)
(* descriptors reused by the events before it: main neither dereferences   *)
(* NULL nor hands one client's event to another.                           *)
EventsFindTheirConn ==
  \A i \in DOMAIN batch :
    batch[i].fd # ListenFd =>
      /\ fd2conn[batch[i].fd] = batch[i].owner
      /\ batch[i].owner # NULL
      /\ state[batch[i].owner] # "STATE_END"

(* Between events a connection waits for what its state needs: one with    *)
(* a reply to finish for EPOLLOUT, any other for EPOLLIN, with nothing     *)
(* left in the write buffer.                                               *)
InterestMatchesState ==
  pc \in {"wait", "dispatch"} =>
    \A c \in Clients : Accepted(c) =>
      \/ /\ state[c] = "STATE_RES"
         /\ interest[fd[c]] = "EPOLLOUT"
         /\ Unsent(c) # << >>
      \/ /\ state[c] = "STATE_REQ"
         /\ interest[fd[c]] = "EPOLLIN"
         /\ wbuf[c] = << >>

-----------------------------------------------------------------------------
(* The inductive invariant behind the properties of the tables.  It leaves *)
(* the contents of the streams alone: all it needs of a buffer is that it  *)
(* is a sequence.                                                          *)

IsSeq(s) == Len(s) \in Nat /\ s = [i \in 1 .. Len(s) |-> s[i]]

Shape ==
  /\ DOMAIN sock = Clients
  /\ sendq = [c \in Clients |-> sendq[c]] /\ \A c \in Clients : IsSeq(sendq[c])
  /\ backlog \in Seq(Clients)
  /\ file \in [Fds -> Clients \cup {NULL}]
  /\ interest \in [Fds -> {"none", "EPOLLIN", "EPOLLOUT"}]
  /\ batch \in Seq([fd : Fds \cup {ListenFd}, owner : Clients \cup {NULL}])
  /\ cur \in Clients \cup {NULL}
  /\ fd \in [Clients -> Fds \cup {NULL}]
  /\ state \in [Clients -> {"STATE_REQ", "STATE_RES", "STATE_END"}]
  /\ wbuf = [c \in Clients |-> wbuf[c]] /\ \A c \in Clients : IsSeq(wbuf[c])
  /\ wbuf_sent \in [Clients -> Nat]

(* A client waits for accept once, before its connection has a descriptor. *)
QueueOnce ==
  /\ \A i, j \in 1 .. Len(backlog) : backlog[i] = backlog[j] => i = j
  /\ \A i \in 1 .. Len(backlog) : fd[backlog[i]] = NULL /\ sock[backlog[i]] # "none"
  /\ \A c \in Clients : sock[c] = "none" => fd[c] = NULL

(* No two events of a batch are for one descriptor, none is left for the   *)
(* connection being processed, the only one that may be closed, and while  *)
(* the one for the listening descriptor is left, so is what it is about.   *)
BatchOnce ==
  /\ \A i, j \in 1 .. Len(batch) : batch[i].fd = batch[j].fd => i = j
  /\ \A i \in 1 .. Len(batch) : batch[i].fd = ListenFd => backlog # << >>
  /\ \A i \in 1 .. Len(batch) : batch[i].fd # ListenFd =>
       /\ batch[i].owner # NULL
       /\ file[batch[i].fd] = batch[i].owner
       /\ batch[i].owner # cur

Processing == {"fill", "parse", "flush", "after"}

CurAccepted ==
  /\ pc \in Processing => cur # NULL /\ Accepted(cur)
  /\ pc \notin Processing /\ Alive => cur = NULL

AwaitsRequest(c) ==
  /\ state[c] = "STATE_REQ"
  /\ interest[fd[c]] = "EPOLLIN"
  /\ wbuf[c] = << >> /\ wbuf_sent[c] = 0

AwaitsFlush(c) ==
  /\ state[c] = "STATE_RES"
  /\ interest[fd[c]] = "EPOLLOUT"
  /\ wbuf_sent[c] < Len(wbuf[c])

Matches(c) == AwaitsRequest(c) \/ AwaitsFlush(c)

InterestFollows ==
  /\ \A c \in Clients : Accepted(c) /\ c # cur => Matches(c)
  /\ pc \in {"fill", "parse"} => AwaitsRequest(cur)
  /\ pc = "flush" => AwaitsFlush(cur)
  /\ pc = "after" => state[cur] = "STATE_END" \/ Matches(cur)

TablesInv ==
  /\ Shape
  /\ TablesAgree
  /\ QueueOnce
  /\ BatchOnce
  /\ CurAccepted
  /\ InterestFollows

-----------------------------------------------------------------------------
(* The byte streams.                                                       *)

Replies(c) == FlattenSeq([i \in 1 .. served[c] |-> Reply(script[c], i)])
Executed(c) == FlattenSeq([i \in 1 .. served[c] |-> Frame(script[c], i)])

(* What the client has read, what is on its way and what is left in the    *)
(* write buffer are together the replies to the requests executed so far,  *)
(* each once and in order, over partial writes, EAGAIN and requests that   *)
(* arrive meanwhile.  Once a connection has ended, what was delivered is a *)
(* prefix of that.                                                         *)
ReplyStream ==
  \A c \in Clients :
    /\ IsPrefix(got[c] \o sendq[c], Replies(c))
    /\ sock[c] = "open" => got[c] \o sendq[c] \o Unsent(c) = Replies(c)

(* The requests executed, the read buffer, the bytes in the kernel and     *)
(* those not written yet are together what the client set out to send:     *)
(* the buffer always begins at the start of a frame, however the bytes     *)
(* were cut into reads, and no request is executed twice or skipped.       *)
RequestStream ==
  \A c \in Clients :
    Executed(c) \o rbuf[c] \o recvq[c] \o todo[c] = Stream(script[c])

(* The server hangs up on a connected client only if the frame after those *)
(* it executed is too long or malformed (the STATE_END of try_one_request):*)
(* never on a short read, a full socket or another client's mistake.       *)
DroppedOnlyIfBad ==
  \A c \in Clients :
    sock[c] = "dropped" =>
      served[c] < Len(script[c]) /\ Rejects(script[c][served[c] + 1])

-----------------------------------------------------------------------------
(* The inductive invariant behind the properties of the streams, for each  *)
(* client on its own.                                                      *)

Sockets == {"none", "open", "fin", "finsent", "reset", "broken", "refused", "dropped",
            "gone"}

Connected(c) == sock[c] \in {"open", "fin", "finsent", "reset", "broken"}

Waiting(c) == \E i \in 1 .. Len(backlog) : backlog[i] = c

Streams == [Clients -> Seq(Nat \X Nat)]

StreamShape ==
  /\ script \in Scripts
  /\ todo \in Streams /\ got \in Streams /\ recvq \in Streams /\ sendq \in Streams
  /\ rbuf \in Streams /\ wbuf \in Streams
  /\ sock \in [Clients -> Sockets]
  /\ served \in [Clients -> Nat]
  /\ from \in {"event", "request"}
  /\ pc \in {"socket", "bind", "listen", "set_nb", "epoll_create1", "wait", "dispatch",
             "fill", "parse", "flush", "after", "abort", "killed", "died"}

(* The bytes of requests that the server has not executed are all of the   *)
(* frames from the next one on.                                            *)
Aligned(c) ==
  /\ served[c] <= Len(script[c])
  /\ Executed(c) \o rbuf[c] \o recvq[c] \o todo[c] = Stream(script[c])

Delivers(c) ==
  /\ IsPrefix(got[c] \o sendq[c], Replies(c))
  /\ sock[c] = "open" => got[c] \o sendq[c] \o Unsent(c) = Replies(c)

(* A client that has not been accepted: nothing of it is in a buffer. *)
Untouched(c) ==
  /\ rbuf[c] = << >> /\ wbuf[c] = << >> /\ wbuf_sent[c] = 0
  /\ got[c] = << >> /\ sendq[c] = << >> /\ served[c] = 0

HeadRejected(c) == served[c] < Len(script[c]) /\ Rejects(script[c][served[c] + 1])

(* A connection the server gives up while its client is still there has a  *)
(* bad frame next, and one it has closed stays closed.                     *)
Ends(c) ==
  /\ sock[c] = "none" \/ Waiting(c) => Untouched(c)
  /\ Accepted(c) \/ Waiting(c) => Connected(c)
  /\ Accepted(c) /\ state[c] = "STATE_END" /\ sock[c] = "open" => HeadRejected(c)
  /\ sock[c] = "dropped" => HeadRejected(c)

Fits(c) ==
  /\ Len(rbuf[c]) <= BufSize
  /\ Len(wbuf[c]) <= BufSize
  /\ wbuf_sent[c] <= Len(wbuf[c])

Strand(c) == Aligned(c) /\ Delivers(c) /\ Ends(c) /\ Fits(c)

StreamsInv == StreamShape /\ \A c \in Clients : Strand(c)

-----------------------------------------------------------------------------
(* Liveness.                                                               *)

Written(c, i)  == i <= Len(script[c]) /\ \A k \in DOMAIN todo[c] : todo[c][k][1] > i
Answered(c, i) ==
  i <= Len(script[c]) /\ <<i, ReplyLen(script[c][i])>> \in ToSet(got[c])

Longest == Max({Len(s[c]) : s \in Scripts, c \in Clients})

(* A request that a client has written completely is answered completely,  *)
(* unless the client hangs up, is refused for lack of memory or has sent a *)
(* bad frame, or the process dies: no EAGAIN, partial read or missed       *)
(* change of the epoll interest leaves a request unanswered.               *)
RequestsAnswered ==
  \A c \in Clients, i \in 1 .. Longest :
    Written(c, i) ~>
      \/ Answered(c, i)
      \/ PeerGone(c) \/ sock[c] \in {"refused", "gone"}
      \/ BadUpTo(c, i)
      \/ Crashed

(* The server lets go of the descriptor of a client that has hung up, in   *)
(* whatever state the connection was (the end of file and the errors that  *)
(* lead to STATE_END).                                                     *)
DescriptorsReleased ==
  \A c \in Clients :
    Accepted(c) /\ PeerGone(c) ~> ~ Accepted(c) \/ Crashed

-----------------------------------------------------------------------------
(* try_fill_buffer asserts that a read never fills the buffer. *)
AssertNeverFails == pc # "abort"

(* try_flush_buffer treats any error of write as the end of that one       *)
(* connection.                                                             *)
WriteErrorEndsOnlyConnection == pc # "killed"
=============================================================================
