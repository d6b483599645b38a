---------------------------- MODULE ServerProofs ----------------------------
(***************************************************************************)
(* Proofs about the event loop: the descriptor tables, the events and the  *)
(* epoll interest, for any clients, descriptors, requests and limits.      *)
(***************************************************************************)
EXTENDS ServerProps, LibraryProofs

(* The variables that TablesInv is about. *)
netTables == <<sock, sendq, backlog, kernVars>>
connTables == <<fd, state, wbuf, wbuf_sent, fd2conn>>
ioTables == <<netTables, connTables>>

-----------------------------------------------------------------------------
(* Sequences of anything.                                                  *)

LEMMA IsSeqIn ==
  ASSUME NEW s, IsSeq(s)
  PROVE  s \in Seq({s[i] : i \in 1 .. Len(s)})
<1> DEFINE S == {s[i] : i \in 1 .. Len(s)}
<1>1. Len(s) \in Nat /\ s \in [1 .. Len(s) -> S]
  BY DEF IsSeq
<1> QED
  BY <1>1, SeqDef

LEMMA SeqIs ==
  ASSUME NEW S, NEW s \in Seq(S)
  PROVE  IsSeq(s)
  BY LenProperties DEF IsSeq

LEMMA DropIsSeq ==
  ASSUME NEW s, IsSeq(s), NEW n \in 0 .. Len(s)
  PROVE  IsSeq(Drop(s, n)) /\ Len(Drop(s, n)) = Len(s) - n
<1> DEFINE S == {s[i] : i \in 1 .. Len(s)}
<1>1. s \in Seq(S) /\ Len(s) \in Nat
  BY IsSeqIn DEF IsSeq
<1> HIDE DEF S
<1>2. Drop(s, n) \in Seq(S) /\ Len(Drop(s, n)) = Len(s) - n
  BY <1>1, SubSeqProperties DEF Drop
<1> QED
  BY <1>2, SeqIs

LEMMA TakeIsSeq ==
  ASSUME NEW s, IsSeq(s), NEW n \in 0 .. Len(s)
  PROVE  IsSeq(Take(s, n)) /\ Len(Take(s, n)) = n
<1> DEFINE S == {s[i] : i \in 1 .. Len(s)}
<1>1. s \in Seq(S) /\ Len(s) \in Nat
  BY IsSeqIn DEF IsSeq
<1> HIDE DEF S
<1>2. Take(s, n) \in Seq(S) /\ Len(Take(s, n)) = n
  BY <1>1, SubSeqProperties DEF Take
<1> QED
  BY <1>2, SeqIs

LEMMA TailIsSeq ==
  ASSUME NEW s, IsSeq(s), s # << >>
  PROVE  IsSeq(Tail(s))
<1>1. s \in Seq({s[i] : i \in 1 .. Len(s)})
  BY IsSeqIn
<1>2. Tail(s) \in Seq({s[i] : i \in 1 .. Len(s)})
  BY <1>1, HeadTailProperties
<1> QED
  BY <1>2, SeqIs

LEMMA ConcatIsSeq ==
  ASSUME NEW s, IsSeq(s), NEW t, IsSeq(t)
  PROVE  IsSeq(s \o t)
<1> DEFINE S == {s[i] : i \in 1 .. Len(s)}
           T == {t[i] : i \in 1 .. Len(t)}
<1>1. s \in Seq(S) /\ t \in Seq(T)
  BY IsSeqIn
<1> HIDE DEF S, T
<1>2. s \in Seq(S \cup T) /\ t \in Seq(S \cup T)
  BY <1>1
<1>3. s \o t \in Seq(S \cup T)
  BY <1>2, ConcatProperties
<1> QED
  BY <1>3, SeqIs

LEMMA EmptyIsSeq == IsSeq(<< >>) /\ Len(<< >>) = 0
<1>1. << >> \in Seq({}) /\ Len(<< >>) = 0
  BY EmptySeq
<1> QED
  BY <1>1, SeqIs

-----------------------------------------------------------------------------
(* Steps that move the thread of control only.                             *)

LEMMA InitTables == Init => TablesInv
<1> SUFFICES ASSUME Init PROVE TablesInv
  OBVIOUS
<1> USE DEF Init
<1>1. Shape
  BY EmptyIsSeq, EmptySeq DEF Shape
<1>2. TablesAgree
  BY DescriptorAssumption DEF TablesAgree
<1>3. QueueOnce /\ BatchOnce
  BY EmptySeq DEF QueueOnce, BatchOnce
<1>4. CurAccepted /\ InterestFollows
  BY DEF CurAccepted, InterestFollows, Processing, Accepted
<1> QED
  BY <1>1, <1>2, <1>3, <1>4 DEF TablesInv

LEMMA PcStep ==
  ASSUME TablesInv, UNCHANGED <<ioTables, batch, cur>>,
         CurAccepted', InterestFollows'
  PROVE  TablesInv'
<1> USE DEF TablesInv, ioTables, netTables, kernVars, connTables
<1>1. Shape'
  BY DEF Shape
<1>2. TablesAgree'
  BY DEF TablesAgree
<1>3. QueueOnce' /\ BatchOnce'
  BY DEF QueueOnce, BatchOnce
<1> QED
  BY <1>1, <1>2, <1>3

LEMMA IdlePcStep ==
  ASSUME TablesInv, UNCHANGED <<ioTables, batch, cur>>,
         pc \notin Processing, Alive, pc' \notin Processing
  PROVE  TablesInv'
<1> USE DEF TablesInv, ioTables, netTables, kernVars, connTables
<1>1. cur = NULL /\ cur' = NULL
  BY DEF CurAccepted
<1>2. CurAccepted'
  BY <1>1 DEF CurAccepted
<1>3. InterestFollows'
  BY DEF InterestFollows, Processing, Accepted, Matches, AwaitsRequest, AwaitsFlush
<1> QED
  BY <1>2, <1>3, PcStep

(* Between two system calls for the connection being processed. *)
LEMMA BusyPcStep ==
  ASSUME TablesInv, UNCHANGED <<ioTables, batch, cur>>, pc \in Processing,
         \/ pc' \in {"fill", "parse"} /\ AwaitsRequest(cur)
         \/ pc' = "after" /\ Matches(cur)
         \/ pc' \in {"abort", "killed"}
  PROVE  TablesInv'
<1> USE DEF TablesInv, ioTables, netTables, kernVars, connTables
<1>1. CurAccepted'
  BY DEF CurAccepted, Processing, Accepted, Alive
<1>2. InterestFollows'
  BY DEF InterestFollows, Processing, Accepted, Matches, AwaitsRequest, AwaitsFlush
<1> QED
  BY <1>1, <1>2, PcStep

-----------------------------------------------------------------------------
(* The steps of clients and the kernel.                                    *)

(* What the network does to sockets and to the bytes on their way leaves   *)
(* the tables alone, if no socket goes back to its first state.            *)
LEMMA NetStep ==
  ASSUME TablesInv, UNCHANGED <<backlog, kernVars, connTables, pc, batch, cur>>,
         DOMAIN sock' = Clients,
         \A c \in Clients : sock'[c] = "none" <=> sock[c] = "none",
         sendq' = [c \in Clients |-> sendq'[c]],
         \A c \in Clients : IsSeq(sendq'[c])
  PROVE  TablesInv'
<1> USE DEF TablesInv, kernVars, connTables
<1>1. Shape'
  BY DEF Shape
<1>2. TablesAgree'
  BY DEF TablesAgree
<1>3. QueueOnce'
  <2>1. \A i \in 1 .. Len(backlog) : backlog[i] \in Clients
    BY ElementOfSeq DEF Shape
  <2> QED
    BY <2>1 DEF QueueOnce
<1>4. BatchOnce' /\ CurAccepted'
  BY DEF BatchOnce, CurAccepted, Accepted, Alive
<1>5. InterestFollows'
  BY DEF InterestFollows, Processing, Accepted, Matches, AwaitsRequest, AwaitsFlush
<1> QED
  BY <1>1, <1>2, <1>3, <1>4, <1>5

LEMMA ConnectStep ==
  ASSUME TablesInv, NEW c \in Clients, Connect(c)
  PROVE  TablesInv'
<1> USE DEF TablesInv, kernVars, connVars, loopVars, Connect
<1>1. /\ backlog' \in Seq(Clients)
      /\ Len(backlog') = Len(backlog) + 1 /\ Len(backlog) \in Nat
      /\ \A i \in 1 .. Len(backlog) : backlog'[i] = backlog[i] /\ backlog[i] \in Clients
      /\ backlog'[Len(backlog) + 1] = c
  BY DEF Shape
<1>2. Shape'
  BY <1>1 DEF Shape
<1>3. TablesAgree'
  BY DEF TablesAgree
<1>4. QueueOnce'
  <2>1. fd[c] = NULL /\ \A i \in 1 .. Len(backlog) : backlog[i] # c
    BY DEF QueueOnce
  <2>2. \A i \in 1 .. Len(backlog') : i \in 1 .. Len(backlog) \/ i = Len(backlog) + 1
    BY <1>1
  <2>3. \A d \in Clients : sock'[d] = IF d = c THEN "open" ELSE sock[d]
    BY DEF Shape
  <2>4. ASSUME NEW i \in 1 .. Len(backlog'), NEW j \in 1 .. Len(backlog'),
               backlog'[i] = backlog'[j]
        PROVE  i = j
    BY <1>1, <2>1, <2>2, <2>4 DEF QueueOnce
  <2>5. ASSUME NEW i \in 1 .. Len(backlog')
        PROVE  fd'[backlog'[i]] = NULL /\ sock'[backlog'[i]] # "none"
    BY <1>1, <2>1, <2>2, <2>3 DEF QueueOnce
  <2>6. \A d \in Clients : sock'[d] = "none" => fd'[d] = NULL
    BY <2>3 DEF QueueOnce
  <2> QED
    BY <2>4, <2>5, <2>6 DEF QueueOnce
<1>5. backlog' # << >>
  BY <1>1, EmptySeq
<1>6. BatchOnce' /\ CurAccepted'
  BY <1>5 DEF BatchOnce, CurAccepted, Accepted, Alive
<1>7. InterestFollows'
  BY DEF InterestFollows, Processing, Accepted, Matches, AwaitsRequest, AwaitsFlush
<1> QED
  BY <1>2, <1>3, <1>4, <1>6, <1>7

LEMMA PeerStep ==
  ASSUME TablesInv, NEW c \in Clients, Peer(c)
  PROVE  TablesInv'
<1> USE DEF kernVars, connVars, loopVars, connTables
<1>0. Shape
  BY DEF TablesInv
<1>1. ASSUME NEW n \in 1 .. Len(todo[c]), Write(c, n)  PROVE TablesInv'
  BY <1>0, <1>1, NetStep DEF Write, Shape
<1>2. CASE Read(c)
  <2>1. /\ UNCHANGED <<sock, backlog, kernVars, connVars, loopVars>>
        /\ sendq[c] # << >> /\ sendq' = [sendq EXCEPT ![c] = Tail(@)]
    BY <1>2 DEF Read
  <2>2. IsSeq(Tail(sendq[c]))
    BY <1>0, <2>1, TailIsSeq DEF Shape
  <2>3. /\ sendq' = [d \in Clients |-> sendq'[d]]
        /\ \A d \in Clients : IsSeq(sendq'[d])
    BY <1>0, <2>1, <2>2 DEF Shape
  <2> QED
    BY <1>0, <2>1, <2>3, NetStep DEF Shape
<1>3. CASE HangUp(c)
  <2>1. /\ UNCHANGED <<backlog, kernVars, connVars, loopVars>>
        /\ sock[c] = "open"
        /\ \E s \in {"fin", "reset", "broken"} : sock' = [sock EXCEPT ![c] = s]
        /\ sendq' = [sendq EXCEPT ![c] = << >>]
    BY <1>3 DEF HangUp
  <2>2. /\ sendq' = [d \in Clients |-> sendq'[d]]
        /\ \A d \in Clients : IsSeq(sendq'[d])
    BY <1>0, <2>1, EmptyIsSeq DEF Shape
  <2>3. /\ DOMAIN sock' = Clients
        /\ \A d \in Clients : sock'[d] = "none" <=> sock[d] = "none"
    BY <1>0, <2>1 DEF Shape
  <2> QED
    BY <2>1, <2>2, <2>3, NetStep
<1>4. CASE ResetArrives(c)
  <2>1. /\ UNCHANGED <<sendq, backlog, kernVars, connVars, loopVars>>
        /\ sock[c] = "finsent" /\ sock' = [sock EXCEPT ![c] = "broken"]
    BY <1>4 DEF ResetArrives
  <2>2. /\ DOMAIN sock' = Clients
        /\ \A d \in Clients : sock'[d] = "none" <=> sock[d] = "none"
    BY <1>0, <2>1 DEF Shape
  <2> QED
    BY <1>0, <2>1, <2>2, NetStep DEF Shape
<1> QED
  BY <1>1, <1>2, <1>3, <1>4, ConnectStep DEF Peer

-----------------------------------------------------------------------------
(* The event loop.                                                         *)

(* A new batch has each descriptor once and names its connection. *)
LEMMA EpollWaitStep ==
  ASSUME TablesInv, epoll_wait
  PROVE  TablesInv'
<1> USE DEF TablesInv, netVars, kernVars, connVars
<1>0. /\ UNCHANGED <<sock, sendq, backlog, file, interest, connVars, cur, fd2conn>>
      /\ pc = "wait" /\ pc' = "dispatch"
  BY DEF epoll_wait
<1>1. PICK F \in SUBSET ReadyFds :
        /\ Cardinality(F) = Min2(Cardinality(ReadyFds), MaxEvents)
        /\ \E order \in SetToSeqs(F) :
             batch' = [i \in 1 .. Len(order) |-> Event(order[i])]
  BY DEF epoll_wait
<1>2. IsFiniteSet(F) /\ F \subseteq ReadyFds /\ Cardinality(F) \in Nat
  <2>1. IsFiniteSet(Fds \cup {ListenFd})
    BY DescriptorAssumption, FS_AddElement
  <2>2. F \subseteq Fds \cup {ListenFd}
    BY DEF ReadyFds
  <2> QED
    BY <2>1, <2>2, FS_Subset, FS_CardinalityType
<1>3. PICK order \in SetToSeqs(F) :
        batch' = [i \in 1 .. Len(order) |-> Event(order[i])]
  BY <1>1
<1>4. /\ order \in Seq(F) /\ Len(order) \in Nat
      /\ \A i, j \in 1 .. Len(order) : i # j => order[i] # order[j]
  <2>1. /\ order \in [1 .. Cardinality(F) -> F]
        /\ \A i, j \in 1 .. Cardinality(F) : i # j => order[i] # order[j]
    BY <1>3 DEF SetToSeqs
  <2>2. order \in Seq(F)
    BY <1>2, <2>1, SeqDef
  <2>3. Len(order) = Cardinality(F)
    BY <1>2, <2>1, <2>2, LenProperties
  <2> QED
    BY <1>2, <2>1, <2>2, <2>3
<1>5. \A f \in F : f \in ReadyFds
  BY <1>2
<1>6. ASSUME NEW f \in F
      PROVE  /\ Event(f) \in [fd : Fds \cup {ListenFd}, owner : Clients \cup {NULL}]
             /\ Event(f).fd = f
             /\ f # ListenFd => f \in Fds /\ Event(f).owner = file[f] /\ file[f] # NULL
             /\ f = ListenFd => backlog # << >>
  <2>0. f \in ReadyFds
    BY <1>5
  <2>1. \/ f = ListenFd /\ backlog # << >>
        \/ f # ListenFd /\ f \in Fds /\ file[f] # NULL
    <3>1. CASE backlog = << >>
      BY <2>0, <3>1, DescriptorAssumption DEF ReadyFds, FdReady
    <3>2. CASE backlog # << >>
      <4>1. ReadyFds = {g \in Fds : FdReady(g)} \cup {ListenFd}
        BY <3>2 DEF ReadyFds
      <4>2. f = ListenFd \/ f \in {g \in Fds : FdReady(g)}
        BY <2>0, <4>1
      <4> QED
        BY <3>2, <4>2 DEF FdReady
    <3> QED
      BY <3>1, <3>2
  <2>2. f \in Fds => file[f] \in Clients \cup {NULL}
    BY DEF Shape
  <2>3. Event(f).fd = f /\ Event(f).owner = IF f = ListenFd THEN NULL ELSE file[f]
    BY DEF Event
  <2>4. Event(f) = [fd |-> f, owner |-> Event(f).owner]
    BY DEF Event
  <2> QED
    BY <2>1, <2>2, <2>3, <2>4
<1>7. /\ batch' \in Seq([fd : Fds \cup {ListenFd}, owner : Clients \cup {NULL}])
      /\ Len(batch') = Len(order)
      /\ \A i \in 1 .. Len(order) : batch'[i] = Event(order[i]) /\ order[i] \in F
  <2> DEFINE E == [fd : Fds \cup {ListenFd}, owner : Clients \cup {NULL}]
  <2>1. \A i \in 1 .. Len(order) : order[i] \in F
    BY <1>4, ElementOfSeq
  <2>2. \A i \in 1 .. Len(order) : Event(order[i]) \in E
    BY <1>6, <2>1
  <2> HIDE DEF E
  <2>3. batch' \in [1 .. Len(order) -> E]
    BY <1>3, <2>2
  <2>4. batch' \in Seq(E)
    BY <1>4, <2>3, SeqDef
  <2>5. Len(batch') = Len(order)
    BY <1>4, <2>3, <2>4, LenProperties
  <2> QED
    BY <1>3, <2>1, <2>4, <2>5 DEF E
<1>8. Shape'
  BY <1>0, <1>7 DEF Shape
<1>9. TablesAgree' /\ QueueOnce'
  BY <1>0 DEF TablesAgree, QueueOnce
<1>10. cur = NULL /\ cur' = NULL
  BY <1>0 DEF CurAccepted, Processing, Alive
<1>11. BatchOnce'
  BY <1>0, <1>4, <1>6, <1>7, <1>10 DEF BatchOnce
<1>12. CurAccepted'
  BY <1>0, <1>10 DEF CurAccepted, Processing
<1>13. InterestFollows'
  BY <1>0 DEF InterestFollows, Processing, Accepted, Matches, AwaitsRequest, AwaitsFlush
<1> QED
  BY <1>8, <1>9, <1>11, <1>12, <1>13

(* The rest of a batch, and its head. *)
LEMMA BatchTail ==
  ASSUME Shape, batch # << >>
  PROVE  /\ Head(batch) = batch[1] /\ 1 \in 1 .. Len(batch)
         /\ Head(batch) \in [fd : Fds \cup {ListenFd}, owner : Clients \cup {NULL}]
         /\ Tail(batch) \in Seq([fd : Fds \cup {ListenFd}, owner : Clients \cup {NULL}])
         /\ \A i \in 1 .. Len(Tail(batch)) :
              Tail(batch)[i] = batch[i + 1] /\ i + 1 \in 1 .. Len(batch) /\ i + 1 # 1
<1> DEFINE E == [fd : Fds \cup {ListenFd}, owner : Clients \cup {NULL}]
<1>1. batch \in Seq(E)
  BY DEF Shape
<1> HIDE DEF E
<1>2. /\ Tail(batch) \in Seq(E) /\ Head(batch) \in E /\ Len(Tail(batch)) = Len(batch) - 1
      /\ \A i \in 1 .. Len(Tail(batch)) : Tail(batch)[i] = batch[i + 1]
      /\ Len(batch) \in Nat \ {0}
  BY <1>1, HeadTailProperties, EmptySeq
<1>3. Head(batch) = batch[1]
  BY <1>1, <1>2
<1> QED
  BY <1>2, <1>3 DEF E

(* The rest of the backlog, and its head. *)
LEMMA BacklogTail ==
  ASSUME Shape, QueueOnce, backlog # << >>
  PROVE  /\ Head(backlog) \in Clients
         /\ fd[Head(backlog)] = NULL /\ sock[Head(backlog)] # "none"
         /\ Tail(backlog) \in Seq(Clients)
         /\ \A i, j \in 1 .. Len(Tail(backlog)) : Tail(backlog)[i] = Tail(backlog)[j] => i = j
         /\ \A i \in 1 .. Len(Tail(backlog)) :
              /\ Tail(backlog)[i] \in Clients
              /\ Tail(backlog)[i] # Head(backlog)
              /\ fd[Tail(backlog)[i]] = NULL /\ sock[Tail(backlog)[i]] # "none"
<1>1. /\ Tail(backlog) \in Seq(Clients) /\ Head(backlog) \in Clients
      /\ Len(Tail(backlog)) = Len(backlog) - 1
      /\ \A i \in 1 .. Len(Tail(backlog)) : Tail(backlog)[i] = backlog[i + 1]
      /\ Len(backlog) \in Nat \ {0}
  BY HeadTailProperties, EmptySeq DEF Shape
<1>2. Head(backlog) = backlog[1]
  BY <1>1 DEF Shape
<1>3. \A i \in 1 .. Len(Tail(backlog)) : i + 1 \in 1 .. Len(backlog) /\ i + 1 # 1
  BY <1>1
<1>4. \A i \in 1 .. Len(Tail(backlog)) : Tail(backlog)[i] \in Clients
  BY <1>1, ElementOfSeq
<1>5. 1 \in 1 .. Len(backlog)
  BY <1>1
<1>6. \A i, j \in 1 .. Len(Tail(backlog)) : i + 1 = j + 1 => i = j
  BY <1>1
<1> QED
  BY <1>1, <1>2, <1>3, <1>4, <1>5, <1>6 DEF QueueOnce

(* The events that are left when the first one has been taken, for a       *)
(* connection among those left or for none.                                *)
LEMMA BatchOnceTail ==
  ASSUME TablesInv, batch # << >>, batch' = Tail(batch),
         \A f \in Fds : file[f] # NULL => file'[f] = file[f],
         Head(batch).fd = ListenFd \/ backlog' = backlog,
         cur' = cur \/ (Head(batch).fd # ListenFd /\ cur' = file[Head(batch).fd])
  PROVE  BatchOnce'
<1> USE DEF TablesInv
<1>1. /\ Head(batch) = batch[1] /\ 1 \in 1 .. Len(batch)
      /\ \A i \in 1 .. Len(batch') :
           batch'[i] = batch[i + 1] /\ i + 1 \in 1 .. Len(batch) /\ i + 1 # 1 /\ i \in Nat
  BY BatchTail
<1>2. ASSUME NEW i \in 1 .. Len(batch')
      PROVE  /\ batch'[i].fd \in Fds \cup {ListenFd}
             /\ batch'[i].fd # ListenFd =>
                  /\ batch'[i].owner # NULL /\ batch'[i].owner # cur
                  /\ file[batch'[i].fd] = batch'[i].owner
                  /\ fd[batch'[i].owner] = batch'[i].fd
  <2>1. batch[i + 1] \in [fd : Fds \cup {ListenFd}, owner : Clients \cup {NULL}]
    BY <1>1, ElementOfSeq DEF Shape
  <2> QED
    BY <1>1, <2>1 DEF BatchOnce, TablesAgree
<1>3. \A i, j \in 1 .. Len(batch') : batch'[i].fd = batch'[j].fd => i = j
  BY <1>1 DEF BatchOnce
<1>4. ASSUME NEW i \in 1 .. Len(batch'), batch'[i].fd # ListenFd
      PROVE  batch'[i].owner # cur'
  <2>1. CASE cur' = cur
    BY <1>2, <1>4, <2>1
  <2>2. CASE Head(batch).fd # ListenFd /\ cur' = file[Head(batch).fd]
    <3>1. batch'[i].fd # Head(batch).fd
      BY <1>1 DEF BatchOnce
    <3>2. Head(batch).fd \in Fds
      BY <2>2, BatchTail
    <3> QED
      BY <1>2, <1>4, <2>2, <3>1, <3>2 DEF TablesAgree, Shape
  <2> QED
    BY <2>1, <2>2
<1>5. \A i \in 1 .. Len(batch') : batch'[i].fd # ListenFd => file'[batch'[i].fd] = batch'[i].owner
  BY <1>2
<1>6. \A i \in 1 .. Len(batch') : batch'[i].fd = ListenFd => backlog' # << >>
  BY <1>1 DEF BatchOnce
<1> QED
  BY <1>2, <1>3, <1>4, <1>5, <1>6 DEF BatchOnce

(* What accept finds at the head of a batch. *)
LEMMA ListenHead ==
  ASSUME TablesInv, ListenEvent
  PROVE  /\ backlog # << >> /\ cur = NULL
         /\ batch # << >> /\ batch' = Tail(batch) /\ Head(batch).fd = ListenFd
         /\ pc = "dispatch"
<1> USE DEF TablesInv, ListenEvent
<1>1. Head(batch) = batch[1] /\ 1 \in 1 .. Len(batch)
  BY BatchTail
<1>2. backlog # << >>
  BY <1>1 DEF BatchOnce
<1>3. cur = NULL
  BY DEF CurAccepted, Processing, Alive
<1> QED
  BY <1>2, <1>3

(* The listening descriptor's event, where accept brings no connection. *)
LEMMA ListenStep ==
  ASSUME TablesInv, AcceptError \/ ConnMallocFails \/ AcceptDies
  PROVE  TablesInv'
<1> USE DEF TablesInv, netVars, kernVars, connVars
<1>0. /\ UNCHANGED <<sendq, file, interest, connVars, cur, fd2conn>>
      /\ ListenEvent /\ pc' \in {"dispatch", "died"}
      /\ \/ UNCHANGED <<sock, backlog>>
         \/ UNCHANGED sock /\ backlog' = Tail(backlog)
         \/ sock' = Closed(Head(backlog), "refused") /\ backlog' = Tail(backlog)
  BY DEF AcceptError, ConnMallocFails, AcceptDies, ListenEvent
<1>1. /\ backlog # << >> /\ cur = NULL
      /\ batch # << >> /\ batch' = Tail(batch) /\ Head(batch).fd = ListenFd
      /\ pc = "dispatch"
  BY <1>0, ListenHead
<1>2. /\ DOMAIN sock' = Clients
      /\ \A c \in Clients : sock'[c] = "none" <=> sock[c] = "none"
  BY <1>0, <1>1, BacklogTail DEF Closed, Shape
<1>3. /\ Tail(batch) \in Seq([fd : Fds \cup {ListenFd}, owner : Clients \cup {NULL}])
      /\ Tail(backlog) \in Seq(Clients)
  BY <1>1, BatchTail, BacklogTail
<1>4. Shape'
  BY <1>0, <1>1, <1>2, <1>3 DEF Shape
<1>5. TablesAgree'
  BY <1>0 DEF TablesAgree
<1>6. QueueOnce'
  <2>1. CASE backlog' = backlog
    <3>1. \A i \in 1 .. Len(backlog) : backlog[i] \in Clients
      BY ElementOfSeq DEF Shape
    <3> QED
      BY <1>0, <1>2, <2>1, <3>1 DEF QueueOnce
  <2>2. CASE backlog' = Tail(backlog)
    <3>1. /\ \A i, j \in 1 .. Len(backlog') : backlog'[i] = backlog'[j] => i = j
          /\ \A i \in 1 .. Len(backlog') :
               /\ backlog'[i] \in Clients
               /\ fd[backlog'[i]] = NULL /\ sock[backlog'[i]] # "none"
      BY <1>1, <2>2, BacklogTail
    <3> QED
      BY <1>0, <1>2, <3>1 DEF QueueOnce
  <2> QED
    BY <1>0, <2>1, <2>2
<1>7. BatchOnce'
  <2>1. /\ TablesInv
        /\ batch # << >> /\ batch' = Tail(batch)
        /\ \A f \in Fds : file[f] # NULL => file'[f] = file[f]
        /\ Head(batch).fd = ListenFd \/ backlog' = backlog
        /\ cur' = cur \/ (Head(batch).fd # ListenFd /\ cur' = file[Head(batch).fd])
    BY <1>0, <1>1
  <2> HIDE DEF TablesInv
  <2> QED
    BY <2>1, BatchOnceTail
<1>8. CurAccepted'
  BY <1>0, <1>1 DEF CurAccepted, Processing
<1>9. InterestFollows'
  BY <1>0, <1>1 DEF InterestFollows, Processing, Accepted, Matches, AwaitsRequest, AwaitsFlush
<1> QED
  BY <1>4, <1>5, <1>6, <1>7, <1>8, <1>9

(* A new connection: its descriptor is free and it has waited in the       *)
(* backlog.                                                                *)
LEMMA AcceptStep ==
  ASSUME TablesInv, accept_new_conn
  PROVE  TablesInv'
<1> USE DEF TablesInv
<1> DEFINE c == Head(backlog)
           f == Min(FreeFds)
<1>0. /\ ListenEvent /\ FreeFds # {}
      /\ UNCHANGED <<sock, sendq, pc, cur>> /\ backlog' = Tail(backlog)
      /\ file' = [file EXCEPT ![f] = c]
      /\ interest' = [interest EXCEPT ![f] = "EPOLLIN"]
      /\ fd2conn' = [fd2conn EXCEPT ![f] = c]
      /\ fd' = [fd EXCEPT ![c] = f]
      /\ state' = [state EXCEPT ![c] = "STATE_REQ"]
      /\ wbuf' = [wbuf EXCEPT ![c] = << >>]
      /\ wbuf_sent' = [wbuf_sent EXCEPT ![c] = 0]
  BY DEF accept_new_conn
<1>1. /\ backlog # << >> /\ cur = NULL
      /\ batch # << >> /\ batch' = Tail(batch) /\ Head(batch).fd = ListenFd
      /\ pc = "dispatch"
  BY <1>0, ListenHead
<1>2. f \in Fds /\ file[f] = NULL
  <2>1. FreeFds \in SUBSET Nat
    BY DescriptorAssumption DEF FreeFds
  <2>2. f \in FreeFds
    BY <1>0, <2>1, MinOfNaturals
  <2> QED
    BY <2>2 DEF FreeFds
<1>3. /\ c \in Clients /\ fd[c] = NULL /\ sock[c] # "none"
      /\ backlog' \in Seq(Clients)
      /\ \A i, j \in 1 .. Len(backlog') : backlog'[i] = backlog'[j] => i = j
      /\ \A i \in 1 .. Len(backlog') :
           /\ backlog'[i] \in Clients /\ backlog'[i] # c
           /\ fd[backlog'[i]] = NULL /\ sock[backlog'[i]] # "none"
  BY <1>0, <1>1, BacklogTail
<1>4. batch' \in Seq([fd : Fds \cup {ListenFd}, owner : Clients \cup {NULL}])
  BY <1>1, BatchTail
<1>5. f # NULL /\ c # NULL
  BY <1>2, <1>3, DescriptorAssumption
<1> HIDE DEF c, f
<1>6. Shape'
  <2>1. wbuf' = [d \in Clients |-> wbuf'[d]] /\ \A d \in Clients : IsSeq(wbuf'[d])
    BY <1>0, <1>3, EmptyIsSeq DEF Shape
  <2> QED
    BY <1>0, <1>1, <1>2, <1>3, <1>4, <2>1 DEF Shape
<1>7. TablesAgree'
  <2>1. fd2conn' = file'
    BY <1>0 DEF TablesAgree
  <2>2. \A g \in Fds, d \in Clients : file'[g] = d <=> fd'[d] = g
    BY <1>0, <1>2, <1>3, <1>5, DescriptorAssumption DEF TablesAgree, Shape
  <2>3. \A g \in Fds : interest'[g] = "none" <=> file'[g] = NULL
    BY <1>0, <1>2, <1>5 DEF TablesAgree, Shape
  <2> QED
    BY <2>1, <2>2, <2>3 DEF TablesAgree
<1>8. QueueOnce'
  BY <1>0, <1>3 DEF QueueOnce, Shape
<1>9. BatchOnce'
  <2>1. \A g \in Fds : file[g] # NULL => file'[g] = file[g]
    BY <1>0, <1>2 DEF Shape
  <2>2. /\ TablesInv
        /\ batch # << >> /\ batch' = Tail(batch)
        /\ Head(batch).fd = ListenFd \/ backlog' = backlog
        /\ cur' = cur \/ (Head(batch).fd # ListenFd /\ cur' = file[Head(batch).fd])
    BY <1>0, <1>1
  <2> HIDE DEF TablesInv
  <2> QED
    BY <2>1, <2>2, BatchOnceTail
<1>10. CurAccepted'
  BY <1>0, <1>1 DEF CurAccepted, Processing
<1>11. InterestFollows'
  <2>1. ASSUME NEW d \in Clients, fd'[d] # NULL
        PROVE  AwaitsRequest(d)' \/ AwaitsFlush(d)'
    <3>1. CASE d = c
      BY <1>0, <1>2, <1>3, <3>1 DEF AwaitsRequest, Shape
    <3>2. CASE d # c
      <4>1. fd'[d] = fd[d] /\ state'[d] = state[d] /\ wbuf'[d] = wbuf[d]
            /\ wbuf_sent'[d] = wbuf_sent[d]
        BY <1>0, <3>2 DEF Shape
      <4>2. fd[d] \in Fds /\ file[fd[d]] = d
        BY <2>1, <4>1 DEF Shape, TablesAgree
      <4>3. interest'[fd[d]] = interest[fd[d]]
        <5>1. fd[d] # f
          BY <1>2, <4>2, DescriptorAssumption
        <5> QED
          BY <1>0, <4>2, <5>1 DEF Shape
      <4>4. AwaitsRequest(d) \/ AwaitsFlush(d)
        BY <1>1, <2>1, <4>1, DescriptorAssumption
           DEF InterestFollows, Matches, Accepted
      <4> QED
        BY <4>1, <4>3, <4>4 DEF AwaitsRequest, AwaitsFlush
    <3> QED
      BY <3>1, <3>2
  <2>2. pc' = "dispatch"
    BY <1>0, <1>1
  <2> QED
    BY <2>1, <2>2 DEF InterestFollows, Matches, Accepted
<1> QED
  BY <1>6, <1>7, <1>8, <1>9, <1>10, <1>11

(* An event for a connection finds it, in a state its event is about. *)
LEMMA ConnectionIoStep ==
  ASSUME TablesInv, connection_io
  PROVE  TablesInv'
<1> USE DEF TablesInv, netVars, kernVars, connVars
<1> DEFINE g == Head(batch).fd
           conn == fd2conn[g]
<1>0. /\ UNCHANGED <<sock, sendq, backlog, file, interest, fd, state, wbuf, wbuf_sent, fd2conn>>
      /\ pc = "dispatch" /\ batch # << >> /\ batch' = Tail(batch)
      /\ g # ListenFd /\ conn # NULL /\ cur' = conn
      /\ \/ state[conn] = "STATE_REQ" /\ pc' = "fill"
         \/ state[conn] = "STATE_RES" /\ pc' = "flush"
  BY DEF connection_io
<1>1. g \in Fds /\ conn = file[g] /\ conn \in Clients /\ fd[conn] = g
  BY <1>0, BatchTail DEF TablesAgree, Shape
<1>2. cur = NULL
  BY <1>0 DEF CurAccepted, Processing, Alive
<1>3. Shape'
  <2>1. batch' \in Seq([fd : Fds \cup {ListenFd}, owner : Clients \cup {NULL}])
    BY <1>0, BatchTail
  <2> QED
    BY <1>0, <1>1, <2>1 DEF Shape
<1>4. TablesAgree' /\ QueueOnce'
  BY <1>0 DEF TablesAgree, QueueOnce
<1>5. BatchOnce'
  <2>1. file' = file /\ backlog' = backlog /\ cur' = file[Head(batch).fd]
    BY <1>0, <1>1
  <2> QED
    BY <1>0, <2>1, BatchOnceTail
<1>6. CurAccepted'
  BY <1>0, <1>1, DescriptorAssumption DEF CurAccepted, Processing, Accepted
<1>7. Matches(conn)
  BY <1>1, <1>2, DescriptorAssumption DEF InterestFollows, Accepted
<1>8. InterestFollows'
  <2>1. \A d \in Clients : Accepted(d) => Matches(d)
    BY <1>2, DescriptorAssumption DEF InterestFollows
  <2>2. \A d \in Clients : Accepted(d)' => Matches(d)'
    BY <1>0, <2>1 DEF Accepted, Matches, AwaitsRequest, AwaitsFlush
  <2>3. pc' \in {"fill", "parse"} => AwaitsRequest(cur)'
    BY <1>0, <1>7 DEF Matches, AwaitsRequest, AwaitsFlush
  <2>4. pc' = "flush" => AwaitsFlush(cur)'
    BY <1>0, <1>7 DEF Matches, AwaitsRequest, AwaitsFlush
  <2>5. pc' # "after"
    BY <1>0
  <2> QED
    BY <2>2, <2>3, <2>4, <2>5 DEF InterestFollows
<1> QED
  BY <1>3, <1>4, <1>5, <1>6, <1>8

-----------------------------------------------------------------------------
(* The connection being processed.                                         *)

LEMMA CurProperties ==
  ASSUME TablesInv, pc \in Processing
  PROVE  cur \in Clients /\ fd[cur] \in Fds /\ file[fd[cur]] = cur /\ fd[cur] # NULL
BY DEF TablesInv, CurAccepted, Accepted, Shape, TablesAgree

(* A step that works on the connection being processed, and neither opens  *)
(* nor closes a descriptor.                                                *)
LEMMA ConnStep ==
  ASSUME TablesInv, pc \in Processing, pc' \in Processing,
         UNCHANGED <<backlog, file, batch, cur, fd, fd2conn>>,
         Shape',
         \A c \in Clients : sock'[c] = "none" <=> sock[c] = "none",
         \A f \in Fds : f # fd[cur] => interest'[f] = interest[f],
         interest'[fd[cur]] # "none",
         \A c \in Clients : c # cur =>
           state'[c] = state[c] /\ wbuf'[c] = wbuf[c] /\ wbuf_sent'[c] = wbuf_sent[c],
         pc' \in {"fill", "parse"} => AwaitsRequest(cur)',
         pc' = "flush" => AwaitsFlush(cur)',
         pc' = "after" => state'[cur] = "STATE_END" \/ Matches(cur)'
  PROVE  TablesInv'
<1> USE DEF TablesInv
<1>0. cur \in Clients /\ fd[cur] \in Fds /\ file[fd[cur]] = cur /\ fd[cur] # NULL
  BY CurProperties
<1>1. TablesAgree'
  <2>1. \A f \in Fds : interest'[f] = "none" <=> file'[f] = NULL
    BY <1>0, DescriptorAssumption DEF TablesAgree
  <2> QED
    BY <2>1 DEF TablesAgree
<1>2. QueueOnce'
  <2>1. \A i \in 1 .. Len(backlog) : backlog[i] \in Clients
    BY ElementOfSeq DEF Shape
  <2> QED
    BY <2>1 DEF QueueOnce
<1>3. BatchOnce'
  BY DEF BatchOnce
<1>4. CurAccepted'
  BY <1>0, DescriptorAssumption DEF CurAccepted, Accepted
<1>5. ASSUME NEW c \in Clients, fd'[c] # NULL, c # cur
      PROVE  Matches(c)'
  <2>1. fd[c] \in Fds /\ file[fd[c]] = c
    BY <1>5 DEF Shape, TablesAgree
  <2>2. fd[c] # fd[cur]
    BY <1>0, <1>5, <2>1
  <2>3. interest'[fd'[c]] = interest[fd[c]]
    BY <2>1, <2>2
  <2>4. Matches(c)
    BY <1>5 DEF InterestFollows, Accepted
  <2> QED
    BY <1>5, <2>3, <2>4 DEF Matches, AwaitsRequest, AwaitsFlush
<1>6. InterestFollows'
  BY <1>5 DEF InterestFollows, Accepted
<1> QED
  BY <1>1, <1>2, <1>3, <1>4, <1>6

(* state_req, try_one_request and state_res give up on the connection. *)
LEMMA EndConnStep ==
  ASSUME TablesInv, ReadEnds \/ BadFrame \/ WriteError
  PROVE  TablesInv'
<1>0. /\ pc \in Processing /\ pc' = "after"
      /\ state' = [state EXCEPT ![cur] = "STATE_END"]
      /\ UNCHANGED <<netTables, batch, cur, fd, wbuf, wbuf_sent, fd2conn>>
  BY DEF ReadEnds, BadFrame, WriteError, EndConn, Processing, netTables, netVars, kernVars
<1>1. /\ cur \in Clients /\ fd[cur] \in Fds /\ file[fd[cur]] = cur
      /\ Shape /\ TablesAgree
  BY <1>0, CurProperties DEF TablesInv
<1>2. Shape'
  BY <1>0, <1>1 DEF Shape, netTables, kernVars
<1>3. interest[fd[cur]] # "none"
  BY <1>1, DescriptorAssumption DEF TablesAgree
<1>4. \A c \in Clients : state'[c] = IF c = cur THEN "STATE_END" ELSE state[c]
  BY <1>0, <1>1 DEF Shape
<1>5. UNCHANGED <<backlog, sock, file, interest, batch, cur, fd, wbuf, wbuf_sent, fd2conn>>
  BY <1>0 DEF netTables, kernVars
<1>6. pc' \in Processing
  BY <1>0 DEF Processing
<1> QED
  BY <1>0, <1>1, <1>2, <1>3, <1>4, <1>5, <1>6, ConnStep

(* state_req and try_one_request go on or find nothing to do; state_res    *)
(* finds no room.                                                          *)
LEMMA WaitingStep ==
  ASSUME TablesInv,
         FillBuffer \/ ReadAgain \/ FrameIncomplete \/ WriteAgain \/ WriteBrokenPipe
  PROVE  TablesInv'
<1> USE DEF TablesInv, ioTables, netTables, connTables, netVars, kernVars, connVars
<1>1. CASE FillBuffer
  BY <1>1, BusyPcStep DEF FillBuffer, Processing, InterestFollows
<1>2. CASE ReadAgain
  BY <1>2, BusyPcStep DEF ReadAgain, Processing, InterestFollows, Matches
<1>3. CASE FrameIncomplete
  BY <1>3, BusyPcStep DEF FrameIncomplete, Processing, InterestFollows
<1>4. CASE WriteAgain
  BY <1>4, BusyPcStep DEF WriteAgain, Processing, InterestFollows, Matches
<1>5. CASE WriteBrokenPipe
  BY <1>5, BusyPcStep DEF WriteBrokenPipe, Processing
<1> QED
  BY <1>1, <1>2, <1>3, <1>4, <1>5

(* A request is executed: its reply, which is never empty, awaits flushing. *)
LEMMA TryOneRequestStep ==
  ASSUME TablesInv, try_one_request
  PROVE  TablesInv'
<1> DEFINE r == Reply(script[cur], rbuf[cur][1][1])
<1>0. /\ pc = "parse" /\ pc' = "flush"
      /\ HeadRequest(cur) \in WellFormed
      /\ wbuf' = [wbuf EXCEPT ![cur] = r]
      /\ state' = [state EXCEPT ![cur] = "STATE_RES"]
      /\ interest' = [interest EXCEPT ![fd[cur]] = "EPOLLOUT"]
      /\ UNCHANGED <<sock, sendq, backlog, file, batch, cur, fd, wbuf_sent, fd2conn>>
  BY DEF try_one_request, AwaitFlush, netVars
<1>1. /\ cur \in Clients /\ fd[cur] \in Fds /\ file[fd[cur]] = cur /\ fd[cur] # NULL
      /\ Shape /\ wbuf_sent[cur] = 0
  BY <1>0, CurProperties DEF TablesInv, Processing, InterestFollows, AwaitsRequest
<1>2. ReplyLen(HeadRequest(cur)) \in Nat \ {0}
  BY <1>0, RequestAssumption, LimitAssumption DEF ReplyLen
<1>3. IsSeq(r) /\ Len(r) > 0
  <2> DEFINE n == ReplyLen(HeadRequest(cur))
  <2>1. r = [k \in 1 .. n |-> <<rbuf[cur][1][1], k>>]
    BY DEF Reply, HeadRequest
  <2>2. r \in [1 .. n -> {<<rbuf[cur][1][1], k>> : k \in 1 .. n}]
    BY <2>1
  <2> HIDE DEF r, n
  <2>3. n \in Nat \ {0}
    BY <1>2 DEF n
  <2>4. r \in Seq({<<rbuf[cur][1][1], k>> : k \in 1 .. n})
    BY <2>2, <2>3, SeqDef
  <2>5. Len(r) = n
    BY <2>2, <2>3, <2>4, LenProperties
  <2> QED
    BY <2>3, <2>4, <2>5, SeqIs
<1> HIDE DEF r
<1>4. Shape'
  <2>1. wbuf' = [d \in Clients |-> wbuf'[d]] /\ \A d \in Clients : IsSeq(wbuf'[d])
    BY <1>0, <1>1, <1>3 DEF Shape
  <2> QED
    BY <1>0, <1>1, <2>1 DEF Shape
<1>5. AwaitsFlush(cur)'
  BY <1>0, <1>1, <1>3 DEF AwaitsFlush, Shape
<1>6. interest'[fd[cur]] = "EPOLLOUT" /\ \A f \in Fds : f # fd[cur] => interest'[f] = interest[f]
  BY <1>0, <1>1 DEF Shape
<1>7. \A c \in Clients : c # cur =>
        state'[c] = state[c] /\ wbuf'[c] = wbuf[c] /\ wbuf_sent'[c] = wbuf_sent[c]
  BY <1>0, <1>1 DEF Shape
<1>8. pc \in Processing /\ pc' \in Processing
  BY <1>0 DEF Processing
<1> QED
  BY <1>0, <1>4, <1>5, <1>6, <1>7, <1>8, ConnStep

(* What one write does to the sockets and to the bytes on their way. *)
LEMMA TransmitProperties ==
  ASSUME Shape, cur \in Clients, wbuf_sent[cur] \in 0 .. Len(wbuf[cur]),
         NEW n \in 0 .. Len(wbuf[cur]) - wbuf_sent[cur], Transmit(n)
  PROVE  /\ DOMAIN sock' = Clients
         /\ \A c \in Clients : sock'[c] = "none" <=> sock[c] = "none"
         /\ sendq' = [c \in Clients |-> sendq'[c]]
         /\ \A c \in Clients : IsSeq(sendq'[c])
<1>1. /\ sendq' = [sendq EXCEPT ![cur] = IF sock[cur] = "open" THEN @ \o Take(Unsent(cur), n) ELSE @]
      /\ sock' = [sock EXCEPT ![cur] = IF @ = "fin" THEN "finsent" ELSE @]
  BY DEF Transmit
<1>2. IsSeq(Unsent(cur)) /\ Len(Unsent(cur)) = Len(wbuf[cur]) - wbuf_sent[cur]
  BY DropIsSeq DEF Unsent, Shape
<1>3. IsSeq(Take(Unsent(cur), n))
  BY <1>2, TakeIsSeq
<1>4. IsSeq(sendq[cur] \o Take(Unsent(cur), n))
  BY <1>3, ConcatIsSeq DEF Shape
<1>5. /\ sendq' = [c \in Clients |-> sendq'[c]]
      /\ \A c \in Clients : IsSeq(sendq'[c])
  BY <1>1, <1>4 DEF Shape
<1>6. /\ DOMAIN sock' = Clients
      /\ \A c \in Clients : sock'[c] = "none" <=> sock[c] = "none"
  BY <1>1 DEF Shape
<1> QED
  BY <1>5, <1>6

(* What the write buffer still holds while it is flushed. *)
LEMMA UnsentLen ==
  ASSUME TablesInv, pc = "flush"
  PROVE  /\ cur \in Clients /\ AwaitsFlush(cur)
         /\ wbuf_sent[cur] \in 0 .. Len(wbuf[cur]) /\ Len(wbuf[cur]) \in Nat
         /\ Len(Unsent(cur)) = Len(wbuf[cur]) - wbuf_sent[cur]
<1>1. cur \in Clients /\ AwaitsFlush(cur)
  BY CurProperties DEF TablesInv, Processing, InterestFollows
<1>2. /\ IsSeq(wbuf[cur]) /\ Len(wbuf[cur]) \in Nat /\ wbuf_sent[cur] \in Nat
      /\ wbuf_sent[cur] < Len(wbuf[cur])
  BY <1>1 DEF TablesInv, Shape, AwaitsFlush, IsSeq
<1>3. wbuf_sent[cur] \in 0 .. Len(wbuf[cur])
  BY <1>2
<1>4. Len(Unsent(cur)) = Len(wbuf[cur]) - wbuf_sent[cur]
  BY <1>2, <1>3, DropIsSeq DEF Unsent
<1> QED
  BY <1>1, <1>2, <1>3, <1>4

(* Part of a reply leaves; the connection still waits for room to write. *)
LEMMA WritePartStep ==
  ASSUME TablesInv, WritePart
  PROVE  TablesInv'
<1>0. /\ pc = "flush" /\ pc' = "flush" /\ Space(cur) > 0
      /\ Space(cur) < Len(Unsent(cur)) /\ Transmit(Space(cur))
      /\ wbuf_sent' = [wbuf_sent EXCEPT ![cur] = @ + Space(cur)]
      /\ UNCHANGED <<backlog, file, interest, fd, state, wbuf, batch, cur, fd2conn>>
  BY DEF WritePart, CanWrite, kernVars, loopVars
<1>1. /\ cur \in Clients /\ AwaitsFlush(cur)
      /\ wbuf_sent[cur] \in 0 .. Len(wbuf[cur]) /\ Len(wbuf[cur]) \in Nat
      /\ Len(Unsent(cur)) = Len(wbuf[cur]) - wbuf_sent[cur]
      /\ fd[cur] \in Fds /\ Shape
  BY <1>0, UnsentLen, CurProperties DEF TablesInv, Processing
<1>2. Space(cur) \in Nat
  <2>1. Len(sendq[cur]) \in Nat
    BY <1>1 DEF Shape, IsSeq
  <2> QED
    BY <1>0, <1>1, <2>1, LimitAssumption DEF Space
<1>3. Space(cur) \in 0 .. Len(wbuf[cur]) - wbuf_sent[cur]
  BY <1>0, <1>1, <1>2
<1>4. /\ DOMAIN sock' = Clients
      /\ \A c \in Clients : sock'[c] = "none" <=> sock[c] = "none"
      /\ sendq' = [c \in Clients |-> sendq'[c]]
      /\ \A c \in Clients : IsSeq(sendq'[c])
  BY <1>0, <1>1, <1>3, TransmitProperties
<1>5. \A c \in Clients :
        wbuf_sent'[c] = IF c = cur THEN wbuf_sent[cur] + Space(cur) ELSE wbuf_sent[c]
  BY <1>0, <1>1 DEF Shape
<1>6. Shape'
  <2>1. wbuf_sent' \in [Clients -> Nat]
    BY <1>0, <1>1, <1>2 DEF Shape
  <2> QED
    BY <1>0, <1>1, <1>4, <2>1 DEF Shape
<1>7. AwaitsFlush(cur)'
  <2>1. wbuf_sent'[cur] = wbuf_sent[cur] + Space(cur)
    BY <1>1, <1>5
  <2>2. wbuf_sent[cur] + Space(cur) < Len(wbuf[cur])
    BY <1>0, <1>1, <1>2
  <2> QED
    BY <1>0, <1>1, <2>1, <2>2 DEF AwaitsFlush
<1>8. interest[fd[cur]] # "none"
  BY <1>1 DEF AwaitsFlush
<1>9. pc \in Processing /\ pc' \in Processing
  BY <1>0 DEF Processing
<1> QED
  BY <1>0, <1>4, <1>5, <1>6, <1>7, <1>8, <1>9, ConnStep

(* The last of a reply leaves; the connection waits for requests again. *)
LEMMA WriteAllStep ==
  ASSUME TablesInv, WriteAll
  PROVE  TablesInv'
<1>0. /\ pc = "flush" /\ pc' \in {"parse", "after"}
      /\ Transmit(Len(Unsent(cur)))
      /\ state' = [state EXCEPT ![cur] = "STATE_REQ"]
      /\ wbuf' = [wbuf EXCEPT ![cur] = << >>]
      /\ wbuf_sent' = [wbuf_sent EXCEPT ![cur] = 0]
      /\ interest' = [interest EXCEPT ![fd[cur]] = "EPOLLIN"]
      /\ UNCHANGED <<backlog, file, fd, batch, cur, fd2conn>>
  BY DEF WriteAll, CanWrite, AwaitRequest
<1>1. /\ cur \in Clients
      /\ wbuf_sent[cur] \in 0 .. Len(wbuf[cur]) /\ Len(wbuf[cur]) \in Nat
      /\ Len(Unsent(cur)) = Len(wbuf[cur]) - wbuf_sent[cur]
      /\ fd[cur] \in Fds /\ Shape
  BY <1>0, UnsentLen, CurProperties DEF TablesInv, Processing
<1>2. Len(Unsent(cur)) \in 0 .. Len(wbuf[cur]) - wbuf_sent[cur]
  BY <1>1
<1>3. /\ DOMAIN sock' = Clients
      /\ \A c \in Clients : sock'[c] = "none" <=> sock[c] = "none"
      /\ sendq' = [c \in Clients |-> sendq'[c]]
      /\ \A c \in Clients : IsSeq(sendq'[c])
  BY <1>0, <1>1, <1>2, TransmitProperties
<1>4. Shape'
  <2>1. wbuf' = [d \in Clients |-> wbuf'[d]] /\ \A d \in Clients : IsSeq(wbuf'[d])
    BY <1>0, <1>1, EmptyIsSeq DEF Shape
  <2> QED
    BY <1>0, <1>1, <1>3, <2>1 DEF Shape
<1>5. AwaitsRequest(cur)'
  BY <1>0, <1>1 DEF AwaitsRequest, Shape
<1>6. interest'[fd[cur]] = "EPOLLIN" /\ \A f \in Fds : f # fd[cur] => interest'[f] = interest[f]
  BY <1>0, <1>1 DEF Shape
<1>7. \A c \in Clients : c # cur =>
        state'[c] = state[c] /\ wbuf'[c] = wbuf[c] /\ wbuf_sent'[c] = wbuf_sent[c]
  BY <1>0, <1>1 DEF Shape
<1>8. pc \in Processing /\ pc' \in Processing
  BY <1>0 DEF Processing
<1>9. pc' = "after" => Matches(cur)'
  BY <1>5 DEF Matches
<1> QED
  BY <1>0, <1>3, <1>4, <1>5, <1>6, <1>7, <1>8, <1>9, ConnStep

-----------------------------------------------------------------------------
(* Back in main.                                                           *)

LEMMA KeepConnStep ==
  ASSUME TablesInv, KeepConn
  PROVE  TablesInv'
<1>0. /\ pc = "after" /\ pc' = "dispatch" /\ state[cur] # "STATE_END" /\ cur' = NULL
      /\ UNCHANGED <<ioTables, batch>>
  BY DEF KeepConn, ioTables, netTables, connTables, netVars, kernVars, connVars
<1> USE DEF TablesInv, ioTables, netTables, connTables, kernVars
<1>1. Shape'
  BY <1>0 DEF Shape
<1>2. TablesAgree' /\ QueueOnce'
  BY <1>0 DEF TablesAgree, QueueOnce
<1>3. BatchOnce'
  BY <1>0 DEF BatchOnce
<1>4. CurAccepted'
  BY <1>0 DEF CurAccepted, Processing
<1>5. \A c \in Clients : Accepted(c) => Matches(c)
  BY <1>0 DEF InterestFollows
<1>6. InterestFollows'
  BY <1>0, <1>5 DEF InterestFollows, Accepted, Matches, AwaitsRequest, AwaitsFlush
<1> QED
  BY <1>1, <1>2, <1>3, <1>4, <1>6

(* A connection ends: no event of the batch is for it or its descriptor,   *)
(* and no other connection has the descriptor that becomes free.           *)
LEMMA DestroyConnStep ==
  ASSUME TablesInv, DestroyConn
  PROVE  TablesInv'
<1> DEFINE f == fd[cur]
<1>0. /\ pc = "after" /\ pc' = "dispatch" /\ cur' = NULL
      /\ Discard(cur)
      /\ fd2conn' = [fd2conn EXCEPT ![f] = NULL]
      /\ file' = [file EXCEPT ![f] = NULL]
      /\ interest' = [interest EXCEPT ![f] = "none"]
      /\ sock' = Closed(cur, "dropped")
      /\ fd' = [fd EXCEPT ![cur] = NULL]
      /\ UNCHANGED <<backlog, state, wbuf, wbuf_sent, batch>>
  BY DEF DestroyConn, Release
<1>1. cur \in Clients /\ f \in Fds /\ file[f] = cur /\ f # NULL
  BY <1>0, CurProperties DEF Processing
<1>2. Shape /\ TablesAgree /\ QueueOnce /\ BatchOnce /\ InterestFollows
  BY DEF TablesInv
<1>3. /\ sendq' = [c \in Clients |-> sendq'[c]]
      /\ \A c \in Clients : IsSeq(sendq'[c])
  <2>1. PICK n \in 0 .. Len(sendq[cur]) : sendq' = [sendq EXCEPT ![cur] = Take(@, n)]
    BY <1>0 DEF Discard
  <2>2. IsSeq(Take(sendq[cur], n))
    BY <1>1, <1>2, <2>1, TakeIsSeq DEF Shape
  <2> QED
    BY <1>1, <1>2, <2>1, <2>2 DEF Shape
<1>4. /\ DOMAIN sock' = Clients
      /\ \A c \in Clients : sock'[c] = "none" => sock[c] = "none" /\ c # cur
      /\ \A c \in Clients : sock[c] # "none" => sock'[c] # "none"
  BY <1>0, <1>1, <1>2 DEF Closed, Shape
<1> HIDE DEF f
<1>5. Shape'
  BY <1>0, <1>1, <1>2, <1>3, <1>4 DEF Shape
<1>6. TablesAgree'
  <2>1. fd2conn' = file'
    BY <1>0, <1>2 DEF TablesAgree
  <2>2. \A g \in Fds, c \in Clients : file'[g] = c <=> fd'[c] = g
    <3>1. ASSUME NEW g \in Fds, NEW c \in Clients
          PROVE  file'[g] = c <=> fd'[c] = g
      <4>1. file'[g] = IF g = f THEN NULL ELSE file[g]
        BY <1>0, <1>2 DEF Shape
      <4>2. fd'[c] = IF c = cur THEN NULL ELSE fd[c]
        BY <1>0, <1>2 DEF Shape
      <4>3. g # NULL /\ c # NULL
        BY DescriptorAssumption
      <4>4. fd[cur] = f
        BY DEF f
      <4>5. file[g] = c <=> fd[c] = g
        BY <1>2 DEF TablesAgree
      <4> QED
        BY <1>1, <4>1, <4>2, <4>3, <4>4, <4>5
    <3> QED
      BY <3>1
  <2>3. \A g \in Fds : interest'[g] = "none" <=> file'[g] = NULL
    BY <1>0, <1>1, <1>2 DEF TablesAgree, Shape
  <2> QED
    BY <2>1, <2>2, <2>3 DEF TablesAgree
<1>7. QueueOnce'
  <2>1. \A i \in 1 .. Len(backlog) : backlog[i] \in Clients /\ backlog[i] # cur
    <3>1. \A i \in 1 .. Len(backlog) : backlog[i] \in Clients /\ fd[backlog[i]] = NULL
      BY <1>2, ElementOfSeq DEF Shape, QueueOnce
    <3>2. fd[cur] # NULL
      BY <1>1 DEF f
    <3> QED
      BY <3>1, <3>2
  <2>2. \A c \in Clients : c # cur => fd'[c] = fd[c]
    BY <1>0, <1>2 DEF Shape
  <2> QED
    BY <1>0, <1>2, <1>4, <2>1, <2>2 DEF QueueOnce
<1>8. BatchOnce'
  <2>1. ASSUME NEW i \in 1 .. Len(batch), batch[i].fd # ListenFd
        PROVE  /\ batch[i].owner # NULL
               /\ file'[batch[i].fd] = batch[i].owner
    <3>1. batch[i] \in [fd : Fds \cup {ListenFd}, owner : Clients \cup {NULL}]
      BY <1>2, ElementOfSeq DEF Shape
    <3>2. /\ batch[i].owner # NULL /\ batch[i].owner # cur
          /\ file[batch[i].fd] = batch[i].owner /\ batch[i].fd \in Fds
      BY <1>2, <2>1, <3>1 DEF BatchOnce
    <3>3. batch[i].fd # f
      BY <1>1, <3>2
    <3> QED
      BY <1>0, <1>2, <3>2, <3>3 DEF Shape
  <2> QED
    BY <1>0, <1>2, <2>1 DEF BatchOnce
<1>9. CurAccepted'
  BY <1>0 DEF CurAccepted, Processing
<1>10. InterestFollows'
  <2>1. ASSUME NEW c \in Clients, fd'[c] # NULL
        PROVE  Matches(c)'
    <3>1. c # cur /\ fd'[c] = fd[c]
      BY <1>0, <1>2, <2>1 DEF Shape
    <3>2. fd[c] \in Fds /\ file[fd[c]] = c
      BY <1>2, <2>1, <3>1 DEF Shape, TablesAgree
    <3>3. fd[c] # f
      BY <1>1, <3>1, <3>2
    <3>4. interest'[fd[c]] = interest[fd[c]]
      BY <1>0, <1>2, <3>2, <3>3 DEF Shape
    <3>5. Matches(c)
      BY <1>2, <2>1, <3>1 DEF InterestFollows, Accepted
    <3> QED
      BY <1>0, <3>1, <3>4, <3>5 DEF Matches, AwaitsRequest, AwaitsFlush
  <2> QED
    BY <1>0, <2>1 DEF InterestFollows, Accepted
<1> QED
  BY <1>5, <1>6, <1>7, <1>8, <1>9, <1>10 DEF TablesInv

-----------------------------------------------------------------------------
(* The specification.                                                      *)

LEMMA NextKeepsTables == TablesInv /\ [Next]_vars => TablesInv'
<1> SUFFICES ASSUME TablesInv, [Next]_vars PROVE TablesInv'
  OBVIOUS
<1> USE DEF ioTables, netTables, connTables, netVars, kernVars, connVars
<1>1. CASE StartUp \/ StartUpFails \/ EpollWaitFails \/ BatchDone
  BY <1>1, IdlePcStep
     DEF StartUp, StartUpFails, EpollWaitFails, BatchDone, NextStep, Processing, Alive
<1>2. CASE epoll_wait \/ accept_new_conn \/ connection_io \/ KeepConn \/ DestroyConn
  BY <1>2, EpollWaitStep, AcceptStep, ConnectionIoStep, KeepConnStep, DestroyConnStep
<1>3. CASE AcceptError \/ ConnMallocFails \/ AcceptDies
  BY <1>3, ListenStep
<1>4. CASE Connection
  BY <1>4, WaitingStep, EndConnStep, TryOneRequestStep, WritePartStep, WriteAllStep
     DEF Connection
<1>5. CASE \E c \in Clients : Peer(c)
  BY <1>5, PeerStep
<1>6. CASE UNCHANGED vars
  <2>1. UNCHANGED <<ioTables, batch, cur, pc>>
    BY <1>6 DEF vars, loopVars
  <2>2. CurAccepted' /\ InterestFollows'
    BY <2>1 DEF TablesInv, CurAccepted, InterestFollows, Processing, Accepted, Alive,
                Matches, AwaitsRequest, AwaitsFlush
  <2> QED
    BY <2>1, <2>2, PcStep
<1> QED
  BY <1>1, <1>2, <1>3, <1>4, <1>5, <1>6 DEF Next, Thread, Loop, Fault

(* The tables, the batch and the epoll interest hold together in every     *)
(* state: the inductive invariant, whatever clients do and whichever       *)
(* system call fails (main, accept_new_conn, connection_io, the states).   *)
THEOREM TablesStayConsistent == Spec => []TablesInv
BY InitTables, NextKeepsTables, PTL DEF Spec

(* fd2conn, the descriptors in use, the epoll set and the fd of each Conn  *)
(* agree over any number of connections and any reuse of descriptors       *)
(* (accept_new_conn, the loop of main).                                    *)
THEOREM TablesStayInAgreement == Spec => []TablesAgree
<1>1. TablesInv => TablesAgree
  BY DEF TablesInv
<1> QED
  BY <1>1, TablesStayConsistent, PTL

(* The loop of main finds, for every event of a batch, the live Conn the   *)
(* event was raised for, although earlier events of the batch close        *)
(* connections and accept new ones under the same descriptors.             *)
THEOREM EventsStayWithTheirConn == Spec => []EventsFindTheirConn
<1>1. TablesInv => EventsFindTheirConn
  <2> SUFFICES ASSUME TablesInv, NEW i \in DOMAIN batch, batch[i].fd # ListenFd
               PROVE  /\ fd2conn[batch[i].fd] = batch[i].owner
                      /\ batch[i].owner # NULL
                      /\ state[batch[i].owner] # "STATE_END"
    BY DEF EventsFindTheirConn
  <2> USE DEF TablesInv
  <2>1. i \in 1 .. Len(batch)
    BY DEF Shape
  <2>2. batch[i] \in [fd : Fds \cup {ListenFd}, owner : Clients \cup {NULL}]
    BY <2>1, ElementOfSeq DEF Shape
  <2>3. /\ batch[i].owner # NULL /\ batch[i].owner \in Clients /\ batch[i].owner # cur
        /\ file[batch[i].fd] = batch[i].owner /\ batch[i].fd \in Fds
    BY <2>1, <2>2 DEF BatchOnce
  <2>4. fd[batch[i].owner] = batch[i].fd /\ fd2conn[batch[i].fd] = batch[i].owner
    BY <2>3 DEF TablesAgree
  <2>5. Matches(batch[i].owner)
    BY <2>3, <2>4, DescriptorAssumption DEF InterestFollows, Accepted
  <2> QED
    BY <2>3, <2>4, <2>5 DEF Matches, AwaitsRequest, AwaitsFlush
<1> QED
  BY <1>1, TablesStayConsistent, PTL

(* Between events, epoll waits for room to write exactly on the            *)
(* connections that have bytes left to write (state_res and                *)
(* try_one_request, which tell epoll when a reply begins and ends).        *)
THEOREM InterestFollowsState == Spec => []InterestMatchesState
<1>1. TablesInv => InterestMatchesState
  <2> SUFFICES ASSUME TablesInv, pc \in {"wait", "dispatch"},
                      NEW c \in Clients, Accepted(c)
               PROVE  \/ /\ state[c] = "STATE_RES"
                         /\ interest[fd[c]] = "EPOLLOUT"
                         /\ Unsent(c) # << >>
                      \/ /\ state[c] = "STATE_REQ"
                         /\ interest[fd[c]] = "EPOLLIN"
                         /\ wbuf[c] = << >>
    BY DEF InterestMatchesState
  <2>1. cur = NULL
    BY DEF TablesInv, CurAccepted, Processing, Alive
  <2>2. Matches(c)
    BY <2>1, DescriptorAssumption DEF TablesInv, InterestFollows
  <2>3. CASE AwaitsFlush(c)
    <3>1. IsSeq(wbuf[c]) /\ wbuf_sent[c] \in 0 .. Len(wbuf[c]) /\ wbuf_sent[c] < Len(wbuf[c])
          /\ Len(wbuf[c]) \in Nat
      BY <2>3 DEF TablesInv, Shape, AwaitsFlush, IsSeq
    <3>2. Len(Unsent(c)) = Len(wbuf[c]) - wbuf_sent[c]
      BY <3>1, DropIsSeq DEF Unsent
    <3>3. Unsent(c) # << >>
      BY <3>1, <3>2, EmptyIsSeq
    <3> QED
      BY <2>3, <3>3 DEF AwaitsFlush
  <2> QED
    BY <2>2, <2>3 DEF Matches, AwaitsRequest
<1> QED
  BY <1>1, TablesStayConsistent, PTL
=============================================================================
