---------------------------- MODULE StreamProofs ----------------------------
(***************************************************************************)
(* Proofs about the byte streams of the event loop: what clients send is   *)
(* cut into frames at the right places, and what they get back is the      *)
(* replies in order, for any clients, scripts, buffer sizes and limits.    *)
(***************************************************************************)
EXTENDS ServerProofs

Bytes == Nat \X Nat

-----------------------------------------------------------------------------
(* Sequences of bytes.                                                     *)

LEMMA Concat ==
  ASSUME NEW s \in Seq(Bytes), NEW t \in Seq(Bytes)
  PROVE  s \o t \in Seq(Bytes)
BY ConcatProperties

LEMMA Associative ==
  ASSUME NEW s \in Seq(Bytes), NEW t \in Seq(Bytes), NEW u \in Seq(Bytes)
  PROVE  (s \o t) \o u = s \o (t \o u)
BY ConcatAssociative

(* The same of a name for concatenation that keeps it from the provers,    *)
(* for facts about several sequences that need nothing else.               *)
LEMMA JoinedType ==
  ASSUME NEW s \in Seq(Bytes), NEW t \in Seq(Bytes)
  PROVE  Joined(s, t) \in Seq(Bytes)
BY Concat DEF Joined

LEMMA JoinedAssociative ==
  ASSUME NEW s \in Seq(Bytes), NEW t \in Seq(Bytes), NEW u \in Seq(Bytes)
  PROVE  Joined(Joined(s, t), u) = Joined(s, Joined(t, u))
BY Associative DEF Joined

LEMMA TakeDrop ==
  ASSUME NEW s \in Seq(Bytes), NEW n \in 0 .. Len(s)
  PROVE  /\ Take(s, n) \in Seq(Bytes) /\ Len(Take(s, n)) = n
         /\ Drop(s, n) \in Seq(Bytes) /\ Len(Drop(s, n)) = Len(s) - n
         /\ Take(s, n) \o Drop(s, n) = s
<1>1. Len(s) \in Nat /\ \A i \in 1 .. Len(s) : s[i] \in Bytes
  BY LenProperties, ElementOfSeq
<1>2. Take(s, n) \in Seq(Bytes) /\ Len(Take(s, n)) = n
  <2>1. \A i \in 1 .. n : s[i] \in Bytes
    BY <1>1
  <2>2. SubSeq(s, 1, n) \in Seq(Bytes) /\ Len(SubSeq(s, 1, n)) = IF 1 <= n THEN n - 1 + 1 ELSE 0
    BY <2>1, SubSeqProperties
  <2> QED
    BY <2>2 DEF Take
<1>3. Drop(s, n) \in Seq(Bytes) /\ Len(Drop(s, n)) = Len(s) - n
  <2>1. \A i \in n + 1 .. Len(s) : s[i] \in Bytes
    BY <1>1
  <2>2. /\ SubSeq(s, n + 1, Len(s)) \in Seq(Bytes)
        /\ Len(SubSeq(s, n + 1, Len(s))) = IF n + 1 <= Len(s) THEN Len(s) - (n + 1) + 1 ELSE 0
    BY <1>1, <2>1, SubSeqProperties
  <2> QED
    BY <1>1, <2>2 DEF Drop
<1>4. Take(s, n) \o Drop(s, n) = s
  <2>1. SubSeq(s, 1, n) \o SubSeq(s, n + 1, Len(s)) = SubSeq(s, 1, Len(s))
    <3>1. 1 \in 1 .. Len(s) + 1 /\ n \in 1 - 1 .. Len(s) /\ Len(s) \in n .. Len(s)
      BY <1>1
    <3> QED
      BY <3>1, ConcatAdjacentSubSeq
  <2>2. SubSeq(s, 1, Len(s)) = s
    BY SubSeqFull
  <2> QED
    BY <2>1, <2>2 DEF Take, Drop
<1> QED
  BY <1>2, <1>3, <1>4

(* A sequence followed by another begins with it, and gives it back. *)
LEMMA TakeOfConcat ==
  ASSUME NEW s \in Seq(Bytes), NEW t \in Seq(Bytes)
  PROVE  Take(s \o t, Len(s)) = s
<1>1. /\ s \o t \in Seq(Bytes) /\ Len(s \o t) = Len(s) + Len(t)
      /\ Len(s) \in Nat /\ Len(t) \in Nat
      /\ \A i \in 1 .. Len(s) + Len(t) :
           (s \o t)[i] = IF i <= Len(s) THEN s[i] ELSE t[i - Len(s)]
  BY ConcatProperties, LenProperties
<1>2. Take(s \o t, Len(s)) \in Seq(Bytes) /\ Len(Take(s \o t, Len(s))) = Len(s)
  <2>1. Len(s) \in 0 .. Len(s \o t)
    BY <1>1
  <2> QED
    BY <1>1, <2>1, TakeDrop, Zenon
<1>3. \A i \in 1 .. Len(s) : Take(s \o t, Len(s))[i] = s[i]
  <2>1. \A i \in 1 .. Len(s) : (s \o t)[i] \in Bytes /\ (s \o t)[i] = s[i]
    BY <1>1, ElementOfSeq
  <2>2. \A i \in 1 .. Len(s) - 1 + 1 : SubSeq(s \o t, 1, Len(s))[i] = (s \o t)[1 + i - 1]
    BY <1>1, <2>1, SubSeqProperties
  <2> QED
    BY <1>1, <2>1, <2>2 DEF Take
<1>4. \A i \in 1 .. Len(Take(s \o t, Len(s))) : Take(s \o t, Len(s))[i] = s[i]
  BY <1>2, <1>3, Zenon
<1> QED
  BY <1>2, <1>4, SeqEqual, Zenon

LEMMA DropOfConcat ==
  ASSUME NEW s \in Seq(Bytes), NEW t \in Seq(Bytes)
  PROVE  Drop(s \o t, Len(s)) = t
<1>1. s \o t \in Seq(Bytes) /\ Len(s) \in 0 .. Len(s \o t)
  BY ConcatProperties, LenProperties
<1>2. /\ Take(s \o t, Len(s)) \o Drop(s \o t, Len(s)) = s \o t
      /\ Drop(s \o t, Len(s)) \in Seq(Bytes)
  BY <1>1, TakeDrop
<1>3. s \o Drop(s \o t, Len(s)) = s \o t
  BY <1>2, TakeOfConcat
<1> QED
  BY <1>2, <1>3, ConcatSimplifications

(* A prefix is what something can be added to. *)
LEMMA PrefixIntro ==
  ASSUME NEW s \in Seq(Bytes), NEW t \in Seq(Bytes)
  PROVE  IsPrefix(s, s \o t)
<1>1. Len(s \o t) = Len(s) + Len(t) /\ Len(s) \in Nat /\ Len(t) \in Nat
  BY ConcatProperties, LenProperties
<1>2. SubSeq(s \o t, 1, Len(s)) = s
  BY TakeOfConcat DEF Take
<1>3. SubSeq(s, 1, Len(s)) = s
  BY SubSeqFull
<1> QED
  BY <1>1, <1>2, <1>3 DEF IsPrefix

LEMMA PrefixElim ==
  ASSUME NEW s \in Seq(Bytes), NEW t \in Seq(Bytes), IsPrefix(s, t)
  PROVE  \E z \in Seq(Bytes) : t = s \o z
<1>1. Len(s) \in 0 .. Len(t) /\ SubSeq(s, 1, Len(s)) = SubSeq(t, 1, Len(s))
  BY LenProperties DEF IsPrefix
<1>2. Take(t, Len(s)) = s
  BY <1>1, SubSeqFull DEF Take
<1>3. Take(t, Len(s)) \o Drop(t, Len(s)) = t /\ Drop(t, Len(s)) \in Seq(Bytes)
  BY <1>1, TakeDrop
<1> QED
  BY <1>2, <1>3

LEMMA PrefixOfPrefix ==
  ASSUME NEW s \in Seq(Bytes), NEW t \in Seq(Bytes), NEW u \in Seq(Bytes),
         IsPrefix(s \o t, u)
  PROVE  IsPrefix(s, u)
<1>0. s \o t \in Seq(Bytes)
  BY ConcatProperties
<1>1. PICK z \in Seq(Bytes) : u = (s \o t) \o z
  BY <1>0, PrefixElim, Zenon
<1>2. t \o z \in Seq(Bytes)
  BY Concat
<1>3. (s \o t) \o z = s \o (t \o z)
  BY Associative
<1>4. IsPrefix(s, s \o (t \o z))
  BY <1>2, PrefixIntro, Zenon
<1> QED
  BY <1>1, <1>3, <1>4

LEMMA PrefixExtended ==
  ASSUME NEW s \in Seq(Bytes), NEW t \in Seq(Bytes), NEW u \in Seq(Bytes), IsPrefix(s, t)
  PROVE  IsPrefix(s, t \o u)
<1>1. PICK z \in Seq(Bytes) : t = s \o z
  BY PrefixElim
<1>2. z \o u \in Seq(Bytes)
  BY Concat
<1>3. (s \o z) \o u = s \o (z \o u)
  BY Associative
<1>4. IsPrefix(s, s \o (z \o u))
  BY <1>2, PrefixIntro, Zenon
<1> QED
  BY <1>1, <1>3, <1>4

-----------------------------------------------------------------------------
(* Frames and replies.                                                     *)

FirstFrames(reqs, n)  == FlattenSeq([i \in 1 .. n |-> Frame(reqs, i)])
FirstReplies(reqs, n) == FlattenSeq([i \in 1 .. n |-> Reply(reqs, i)])

LEMMA BytesOf ==
  ASSUME NEW n \in Nat, NEW i \in Nat
  PROVE  /\ [k \in 1 .. n |-> <<i, k>>] \in Seq(Bytes)
         /\ Len([k \in 1 .. n |-> <<i, k>>]) = n
<1> DEFINE s == [k \in 1 .. n |-> <<i, k>>]
<1>1. \A k \in 1 .. n : <<i, k>> \in Bytes
  BY DEF Bytes
<1>2. s \in [1 .. n -> Bytes]
  BY <1>1
<1> HIDE DEF s
<1>3. s \in Seq(Bytes)
  BY <1>2, SeqDef
<1>4. Len(s) = n
  BY <1>2, <1>3, LenProperties
<1> QED
  BY <1>3, <1>4 DEF s

LEMMA FrameType ==
  ASSUME NEW reqs \in Seq(Requests), NEW i \in 1 .. Len(reqs)
  PROVE  /\ Frame(reqs, i) \in Seq(Bytes)
         /\ FrameLen(reqs[i]) \in Nat \ {0} /\ Len(Frame(reqs, i)) = FrameLen(reqs[i])
         /\ Frame(reqs, i)[1] = <<i, 1>>
<1>1. reqs[i] \in Requests /\ i \in Nat
  BY ElementOfSeq
<1>2. FrameLen(reqs[i]) \in Nat \ {0}
  BY <1>1, RequestAssumption, LimitAssumption DEF FrameLen
<1>3. Frame(reqs, i) \in Seq(Bytes) /\ Len(Frame(reqs, i)) = FrameLen(reqs[i])
  BY <1>1, <1>2, BytesOf DEF Frame
<1>4. Frame(reqs, i)[1] = <<i, 1>>
  BY <1>2 DEF Frame
<1> QED
  BY <1>2, <1>3, <1>4

(* A reply fits the write buffer, whatever do_request builds. *)
LEMMA ReplyType ==
  ASSUME NEW reqs \in Seq(Requests), NEW i \in 1 .. Len(reqs)
  PROVE  Reply(reqs, i) \in Seq(Bytes) /\ Len(Reply(reqs, i)) <= BufSize
<1>1. reqs[i] \in Requests /\ i \in Nat
  BY ElementOfSeq
<1>2. ReplyLen(reqs[i]) \in Nat /\ ReplyLen(reqs[i]) <= BufSize
  BY <1>1, RequestAssumption, LimitAssumption DEF ReplyLen, BufSize
<1>3. Reply(reqs, i) \in Seq(Bytes) /\ Len(Reply(reqs, i)) = ReplyLen(reqs[i])
  BY <1>1, <1>2, BytesOf DEF Reply
<1> QED
  BY <1>2, <1>3

LEMMA PiecesType ==
  ASSUME NEW n \in Nat, NEW s, s = [i \in 1 .. n |-> s[i]],
         \A i \in 1 .. n : s[i] \in Seq(Bytes)
  PROVE  s \in Seq(Seq(Bytes)) /\ Len(s) = n
<1>1. s \in [1 .. n -> Seq(Bytes)]
  OBVIOUS
<1>2. s \in Seq(Seq(Bytes))
  BY <1>1, SeqDef
<1> QED
  BY <1>1, <1>2, LenProperties

LEMMA FirstFramesNext ==
  ASSUME NEW reqs \in Seq(Requests), NEW n \in Nat, n < Len(reqs)
  PROVE  FirstFrames(reqs, n + 1) = FirstFrames(reqs, n) \o Frame(reqs, n + 1)
<1> DEFINE s == [i \in 1 .. n |-> Frame(reqs, i)]
           t == [i \in 1 .. n + 1 |-> Frame(reqs, i)]
<1>0. Len(reqs) \in Nat
  BY LenProperties
<1>1. \A i \in 1 .. n + 1 : Frame(reqs, i) \in Seq(Bytes)
  BY <1>0, FrameType
<1>2. /\ s = [i \in 1 .. n |-> s[i]] /\ \A i \in 1 .. n : s[i] = Frame(reqs, i)
      /\ t = [i \in 1 .. n + 1 |-> t[i]] /\ \A i \in 1 .. n + 1 : t[i] = Frame(reqs, i)
  OBVIOUS
<1> HIDE DEF s, t
<1>3. s \in Seq(Seq(Bytes)) /\ Len(s) = n
  <2>1. \A i \in 1 .. n : i \in 1 .. n + 1
    OBVIOUS
  <2>2. \A i \in 1 .. n : s[i] \in Seq(Bytes)
    BY <1>1, <1>2, <2>1
  <2> QED
    BY <1>2, <2>2, PiecesType, Zenon
<1>4. t \in Seq(Seq(Bytes)) /\ Len(t) = n + 1
  <2>1. n + 1 \in Nat /\ \A i \in 1 .. n + 1 : t[i] \in Seq(Bytes)
    BY <1>1, <1>2
  <2> QED
    BY <1>2, <2>1, PiecesType, Zenon
<1>5. \A i \in 1 .. Len(s) : t[i] = s[i]
  BY <1>2, <1>3
<1>6. FlattenSeq(t) = FlattenSeq(s) \o t[Len(t)]
  BY <1>3, <1>4, <1>5, FlattenSeqLast
<1>7. t[Len(t)] = Frame(reqs, n + 1)
  BY <1>2, <1>4
<1>8. FirstFrames(reqs, n + 1) = FlattenSeq(t) /\ FirstFrames(reqs, n) = FlattenSeq(s)
  BY DEF FirstFrames, s, t
<1> QED
  BY <1>6, <1>7, <1>8

LEMMA FirstFramesType ==
  ASSUME NEW reqs \in Seq(Requests), NEW n \in Nat, n <= Len(reqs)
  PROVE  FirstFrames(reqs, n) \in Seq(Bytes)
<1> DEFINE s == [i \in 1 .. n |-> Frame(reqs, i)]
<1>0. Len(reqs) \in Nat
  BY LenProperties
<1>1. \A i \in 1 .. n : s[i] \in Seq(Bytes)
  BY <1>0, FrameType
<1>2. s = [i \in 1 .. n |-> s[i]]
  OBVIOUS
<1> HIDE DEF s
<1>3. s \in Seq(Seq(Bytes))
  BY <1>1, <1>2, PiecesType
<1>4. FlattenSeq(s) \in Seq(Bytes)
  BY <1>3, FlattenSeqType
<1> QED
  BY <1>4 DEF FirstFrames, s

LEMMA NoFrames ==
  ASSUME NEW reqs
  PROVE  FirstFrames(reqs, 0) = << >> /\ FirstReplies(reqs, 0) = << >>
<1>1. [i \in 1 .. 0 |-> Frame(reqs, i)] = << >> /\ [i \in 1 .. 0 |-> Reply(reqs, i)] = << >>
  OBVIOUS
<1> QED
  BY <1>1, FlattenSeqEmpty DEF FirstFrames, FirstReplies

LEMMA FirstRepliesNext ==
  ASSUME NEW reqs \in Seq(Requests), NEW n \in Nat, n < Len(reqs)
  PROVE  FirstReplies(reqs, n + 1) = FirstReplies(reqs, n) \o Reply(reqs, n + 1)
<1> DEFINE s == [i \in 1 .. n |-> Reply(reqs, i)]
           t == [i \in 1 .. n + 1 |-> Reply(reqs, i)]
<1>0. Len(reqs) \in Nat
  BY LenProperties
<1>1. \A i \in 1 .. n + 1 : Reply(reqs, i) \in Seq(Bytes)
  BY <1>0, ReplyType
<1>2. /\ s = [i \in 1 .. n |-> s[i]] /\ \A i \in 1 .. n : s[i] = Reply(reqs, i)
      /\ t = [i \in 1 .. n + 1 |-> t[i]] /\ \A i \in 1 .. n + 1 : t[i] = Reply(reqs, i)
  OBVIOUS
<1> HIDE DEF s, t
<1>3. s \in Seq(Seq(Bytes)) /\ Len(s) = n
  <2>1. \A i \in 1 .. n : i \in 1 .. n + 1
    OBVIOUS
  <2>2. \A i \in 1 .. n : s[i] \in Seq(Bytes)
    BY <1>1, <1>2, <2>1
  <2> QED
    BY <1>2, <2>2, PiecesType, Zenon
<1>4. t \in Seq(Seq(Bytes)) /\ Len(t) = n + 1
  <2>1. n + 1 \in Nat /\ \A i \in 1 .. n + 1 : t[i] \in Seq(Bytes)
    BY <1>1, <1>2
  <2> QED
    BY <1>2, <2>1, PiecesType, Zenon
<1>5. \A i \in 1 .. Len(s) : t[i] = s[i]
  BY <1>2, <1>3
<1>6. FlattenSeq(t) = FlattenSeq(s) \o t[Len(t)]
  BY <1>3, <1>4, <1>5, FlattenSeqLast
<1>7. t[Len(t)] = Reply(reqs, n + 1)
  BY <1>2, <1>4
<1>8. FirstReplies(reqs, n + 1) = FlattenSeq(t) /\ FirstReplies(reqs, n) = FlattenSeq(s)
  BY DEF FirstReplies, s, t
<1> QED
  BY <1>6, <1>7, <1>8

LEMMA FirstRepliesType ==
  ASSUME NEW reqs \in Seq(Requests), NEW n \in Nat, n <= Len(reqs)
  PROVE  FirstReplies(reqs, n) \in Seq(Bytes)
<1> DEFINE s == [i \in 1 .. n |-> Reply(reqs, i)]
<1>0. Len(reqs) \in Nat
  BY LenProperties
<1>1. \A i \in 1 .. n : s[i] \in Seq(Bytes)
  BY <1>0, ReplyType
<1>2. s = [i \in 1 .. n |-> s[i]]
  OBVIOUS
<1> HIDE DEF s
<1>3. s \in Seq(Seq(Bytes))
  BY <1>1, <1>2, PiecesType
<1>4. FlattenSeq(s) \in Seq(Bytes)
  BY <1>3, FlattenSeqType
<1> QED
  BY <1>4 DEF FirstReplies, s

(* What all of the frames begin with after the first n. *)
LEMMA FramesSplit ==
  ASSUME NEW reqs \in Seq(Requests), NEW n \in Nat, n < Len(reqs)
  PROVE  \E z \in Seq(Bytes) : Stream(reqs) = FirstFrames(reqs, n) \o (Frame(reqs, n + 1) \o z)
<1> DEFINE F == Frame(reqs, n + 1)
           First == FirstFrames(reqs, n)
           S == {m \in Nat : m \in n + 1 .. Len(reqs) =>
                   \E z \in Seq(Bytes) : FirstFrames(reqs, m) = First \o (F \o z)}
<1>0. Len(reqs) \in Nat
  BY LenProperties
<1>1. F \in Seq(Bytes) /\ First \in Seq(Bytes)
  BY <1>0, FrameType, FirstFramesType
<1>2. 0 \in S
  OBVIOUS
<1>3. ASSUME NEW m \in Nat, m \in S, m + 1 \in n + 1 .. Len(reqs)
      PROVE  \E z \in Seq(Bytes) : FirstFrames(reqs, m + 1) = First \o (F \o z)
  <2>1. CASE m = n
    <3>1. FirstFrames(reqs, m + 1) = First \o F
      BY <2>1, FirstFramesNext
    <3>2. F \o << >> = F /\ << >> \in Seq(Bytes)
      BY <1>1, ConcatEmptySeq, EmptySeq
    <3> QED
      BY <3>1, <3>2
  <2>2. CASE m # n
    <3>1. m \in n + 1 .. Len(reqs) /\ m < Len(reqs) /\ m + 1 \in 1 .. Len(reqs)
      BY <1>0, <1>3, <2>2
    <3>2. PICK z \in Seq(Bytes) : FirstFrames(reqs, m) = First \o (F \o z)
      BY <1>3, <3>1
    <3>3. PICK G \in Seq(Bytes) : G = Frame(reqs, m + 1)
      BY <3>1, FrameType
    <3>4. FirstFrames(reqs, m + 1) = (First \o (F \o z)) \o G
      BY <3>1, <3>2, <3>3, FirstFramesNext
    <3> HIDE DEF F, First
    <3>5. PICK v \in Seq(Bytes) : v = F \o z
      BY <1>1, Concat
    <3>6. (First \o v) \o G = First \o (v \o G)
      BY <1>1, Associative
    <3>7. (F \o z) \o G = F \o (z \o G)
      BY <1>1, Associative
    <3>8. z \o G \in Seq(Bytes)
      BY Concat
    <3> QED
      BY <3>4, <3>5, <3>6, <3>7, <3>8
  <2> QED
    BY <2>1, <2>2
<1>4. \A m \in Nat : m \in S => m + 1 \in S
  <2> SUFFICES ASSUME NEW m \in Nat, m \in S PROVE m + 1 \in S
    OBVIOUS
  <2>1. m + 1 \in n + 1 .. Len(reqs) =>
          \E z \in Seq(Bytes) : FirstFrames(reqs, m + 1) = First \o (F \o z)
    BY <1>3
  <2>2. m + 1 \in Nat
    OBVIOUS
  <2> QED
    BY <2>1, <2>2, Zenon
<1> HIDE DEF S
<1>5. Len(reqs) \in S
  BY <1>0, <1>2, <1>4, NaturalsFromZero
<1>6. Len(reqs) \in n + 1 .. Len(reqs)
  BY <1>0
<1>7. \E z \in Seq(Bytes) : FirstFrames(reqs, Len(reqs)) = First \o (F \o z)
  BY <1>5, <1>6 DEF S
<1> QED
  BY <1>7 DEF Stream, FirstFrames

(* If what comes after the first n frames is not empty, it begins with the *)
(* next one.                                                               *)
LEMMA RestBegins ==
  ASSUME NEW reqs \in Seq(Requests), NEW n \in Nat, n <= Len(reqs),
         NEW x \in Seq(Bytes), x # << >>, FirstFrames(reqs, n) \o x = Stream(reqs)
  PROVE  /\ n < Len(reqs)
         /\ \E z \in Seq(Bytes) : x = Frame(reqs, n + 1) \o z
<1>0. Len(reqs) \in Nat /\ FirstFrames(reqs, n) \in Seq(Bytes)
  BY LenProperties, FirstFramesType
<1>1. n < Len(reqs)
  <2>1. SUFFICES ASSUME n = Len(reqs) PROVE FALSE
    BY <1>0
  <2>2. FirstFrames(reqs, n) = Stream(reqs)
    BY <2>1 DEF FirstFrames, Stream
  <2>3. x = << >>
    BY <1>0, <2>2, ConcatSimplifications
  <2> QED
    BY <2>3
<1>2. PICK z \in Seq(Bytes) : Stream(reqs) = FirstFrames(reqs, n) \o (Frame(reqs, n + 1) \o z)
  BY <1>1, FramesSplit
<1>3. Frame(reqs, n + 1) \in Seq(Bytes)
  BY <1>0, <1>1, FrameType
<1>4. Frame(reqs, n + 1) \o z \in Seq(Bytes)
  BY <1>3, Concat
<1>5. PICK y \in Seq(Bytes) : y = Frame(reqs, n + 1) \o z
  BY <1>4
<1>6. FirstFrames(reqs, n) \o x = FirstFrames(reqs, n) \o y
  BY <1>2, <1>5
<1>7. x = y
  BY <1>0, <1>6, ConcatSimplifications
<1> QED
  BY <1>1, <1>5, <1>7

LEMMA SameFront ==
  ASSUME NEW F \in Seq(Bytes), NEW z \in Seq(Bytes), NEW a \in Seq(Bytes),
         NEW d \in Seq(Bytes), NEW u \in Seq(Bytes),
         F \o z = (a \o d) \o u, Len(a) = Len(F)
  PROVE  a = F
<1>1. PICK y \in Seq(Bytes) : y = d \o u
  BY Concat
<1>2. (a \o d) \o u = a \o (d \o u)
  BY Associative
<1>3. F \o z = a \o y
  BY <1>1, <1>2
<1>4. Take(a \o y, Len(a)) = a /\ Take(F \o z, Len(F)) = F
  BY TakeOfConcat
<1> QED
  BY <1>3, <1>4

(* The read buffer of a connection that has had n requests executed begins *)
(* with the next frame, in as far as it holds anything; r is the buffer, q *)
(* what the kernel holds and t what the client has not written.            *)
LEMMA BufferBegins ==
  ASSUME NEW reqs \in Seq(Requests), NEW n \in Nat, n <= Len(reqs),
         NEW r \in Seq(Bytes), NEW q \in Seq(Bytes), NEW t \in Seq(Bytes),
         Joined(Joined(Joined(FirstFrames(reqs, n), r), q), t) = Stream(reqs), r # << >>
  PROVE  /\ n < Len(reqs) /\ r[1] = <<n + 1, 1>>
         /\ Len(r) >= FrameLen(reqs[n + 1]) =>
              r = Frame(reqs, n + 1) \o Drop(r, FrameLen(reqs[n + 1]))
<1> DEFINE e == FirstFrames(reqs, n)
           F == Frame(reqs, n + 1)
           L == FrameLen(reqs[n + 1])
<1>0. Len(reqs) \in Nat /\ e \in Seq(Bytes)
  BY LenProperties, FirstFramesType
<1>1. PICK rest \in Seq(Bytes) : rest = q \o t
  BY Concat
<1>2. PICK x \in Seq(Bytes) : x = r \o rest
  BY Concat
<1>3. e \o x = Stream(reqs)
  <2> HIDE DEF e
  <2>1. Joined(Joined(Joined(e, r), q), t) = Joined(e, Joined(r, Joined(q, t)))
    BY <1>0, JoinedAssociative, JoinedType
  <2>2. Joined(Joined(Joined(e, r), q), t) = Stream(reqs)
    BY DEF e
  <2>3. rest = Joined(q, t) /\ x = Joined(r, rest)
    BY <1>1, <1>2 DEF Joined
  <2>4. Joined(e, x) = Stream(reqs)
    BY <2>1, <2>2, <2>3
  <2> QED
    BY <2>4, Zenon DEF Joined, e
<1>4. Len(r) \in Nat \ {0} /\ r[1] \in Bytes
  BY EmptySeq, ElementOfSeq
<1>5. x[1] = r[1] /\ x # << >>
  <2>1. /\ Len(r \o rest) = Len(r) + Len(rest) /\ Len(rest) \in Nat
        /\ \A i \in 1 .. Len(r) + Len(rest) :
             (r \o rest)[i] = IF i <= Len(r) THEN r[i] ELSE rest[i - Len(r)]
    BY ConcatProperties, LenProperties
  <2>2. 1 \in 1 .. Len(r) + Len(rest) /\ 1 <= Len(r)
    BY <1>4, <2>1
  <2>3. (r \o rest)[1] = r[1]
    BY <2>1, <2>2
  <2>4. Len(x) > 0
    BY <1>2, <1>4, <2>1
  <2> QED
    BY <1>2, <2>3, <2>4, EmptySeq
<1>6. n < Len(reqs) /\ \E z \in Seq(Bytes) : x = F \o z
  BY <1>3, <1>5, RestBegins
<1>7. PICK z \in Seq(Bytes) : x = F \o z
  BY <1>6
<1>8. n + 1 \in 1 .. Len(reqs)
  BY <1>0, <1>6
<1>9. F \in Seq(Bytes) /\ L \in Nat \ {0} /\ Len(F) = L /\ F[1] = <<n + 1, 1>>
  BY <1>8, FrameType
<1> HIDE DEF e, F, L
<1>10. x[1] = F[1]
  <2>1. /\ Len(z) \in Nat
        /\ \A i \in 1 .. Len(F) + Len(z) : (F \o z)[i] = IF i <= Len(F) THEN F[i] ELSE z[i - Len(F)]
    BY <1>9, ConcatProperties, LenProperties
  <2>2. 1 \in 1 .. Len(F) + Len(z) /\ 1 <= Len(F)
    BY <1>9, <2>1
  <2>3. (F \o z)[1] = F[1]
    BY <2>1, <2>2
  <2> QED
    BY <1>7, <2>3
<1>11. ASSUME Len(r) >= L
       PROVE  r = F \o Drop(r, L)
  <2>1. L \in 0 .. Len(r)
    BY <1>4, <1>9, <1>11
  <2>2. PICK a \in Seq(Bytes) : a = Take(r, L)
    BY <2>1, TakeDrop
  <2>3. PICK d \in Seq(Bytes) : d = Drop(r, L)
    BY <2>1, TakeDrop
  <2>4. Len(a) = L /\ a \o d = r
    BY <2>1, <2>2, <2>3, TakeDrop
  <2>5. F \o z = (a \o d) \o rest
    BY <1>2, <1>7, <2>4
  <2>6. a = F
    BY <1>9, <2>4, <2>5, SameFront
  <2> QED
    BY <2>3, <2>4, <2>6
<1> QED
  BY <1>5, <1>6, <1>9, <1>10, <1>11 DEF F, L

(* The frame at the front of the buffer has been executed. *)
LEMMA FrameExecuted ==
  ASSUME NEW reqs \in Seq(Requests), NEW n \in Nat, n <= Len(reqs),
         NEW r \in Seq(Bytes), NEW q \in Seq(Bytes), NEW t \in Seq(Bytes),
         Joined(Joined(Joined(FirstFrames(reqs, n), r), q), t) = Stream(reqs), r # << >>,
         Len(r) >= FrameLen(reqs[n + 1])
  PROVE  /\ n + 1 <= Len(reqs)
         /\ Joined(Joined(Joined(FirstFrames(reqs, n + 1), Drop(r, FrameLen(reqs[n + 1]))), q), t)
              = Stream(reqs)
<1> DEFINE e == FirstFrames(reqs, n)
           F == Frame(reqs, n + 1)
           d == Drop(r, FrameLen(reqs[n + 1]))
<1>0. Len(reqs) \in Nat /\ e \in Seq(Bytes) /\ Len(r) \in Nat
  BY LenProperties, FirstFramesType
<1>1. n < Len(reqs) /\ r = F \o d
  BY BufferBegins
<1>2. n + 1 \in 1 .. Len(reqs)
  BY <1>0, <1>1
<1>3. F \in Seq(Bytes) /\ FrameLen(reqs[n + 1]) \in 0 .. Len(r)
  BY <1>0, <1>2, FrameType
<1>4. d \in Seq(Bytes)
  BY <1>3, TakeDrop
<1>5. FirstFrames(reqs, n + 1) = e \o F
  BY <1>1, FirstFramesNext
<1> HIDE DEF e, F, d
<1>6. FirstFrames(reqs, n + 1) = Joined(e, F) /\ r = Joined(F, d)
  BY <1>1, <1>5 DEF Joined
<1>7. Joined(Joined(e, F), d) = Joined(e, r)
  BY <1>0, <1>3, <1>4, <1>6, JoinedAssociative
<1>8. Joined(Joined(Joined(e, r), q), t) = Stream(reqs)
  BY DEF e
<1>9. n + 1 <= Len(reqs)
  BY <1>0, <1>2
<1>10. Joined(Joined(Joined(FirstFrames(reqs, n + 1), d), q), t) = Stream(reqs)
  BY <1>6, <1>7, <1>8
<1> QED
  BY <1>9, <1>10 DEF d

(* The first bytes of a sequence go to the end of the one before it. *)
LEMMA Shifted ==
  ASSUME NEW a \in Seq(Bytes), NEW b \in Seq(Bytes), NEW s \in Seq(Bytes),
         NEW n \in 0 .. Len(s), NEW q, q = Joined(b, Take(s, n))
  PROVE  Joined(Joined(a, q), Drop(s, n)) = Joined(Joined(a, b), s)
<1>1. PICK x \in Seq(Bytes) : x = Take(s, n)
  BY TakeDrop
<1>2. PICK y \in Seq(Bytes) : y = Drop(s, n)
  BY TakeDrop
<1>3. Joined(x, y) = s
  BY <1>1, <1>2, TakeDrop DEF Joined
<1>4. Joined(Joined(a, Joined(b, x)), y) = Joined(Joined(a, b), Joined(x, y))
  BY JoinedAssociative, JoinedType
<1> QED
  BY <1>1, <1>2, <1>3, <1>4

LEMMA DropTwice ==
  ASSUME NEW s \in Seq(Bytes), NEW m \in Nat, NEW n \in Nat, m + n <= Len(s)
  PROVE  Drop(Drop(s, m), n) = Drop(s, m + n)
<1>0. Len(s) \in Nat /\ \A i \in 1 .. Len(s) : s[i] \in Bytes
  BY LenProperties, ElementOfSeq
<1>1. m \in 0 .. Len(s) /\ m + n \in 0 .. Len(s)
  BY <1>0
<1>2. PICK d \in Seq(Bytes) : d = Drop(s, m) /\ Len(d) = Len(s) - m
  BY <1>1, TakeDrop
<1>3. n \in 0 .. Len(d)
  BY <1>0, <1>1, <1>2
<1>4. PICK x \in Seq(Bytes) : x = Drop(d, n) /\ Len(x) = Len(d) - n
  BY <1>3, TakeDrop
<1>5. PICK y \in Seq(Bytes) : y = Drop(s, m + n) /\ Len(y) = Len(s) - (m + n)
  BY <1>1, TakeDrop
<1>6. \A i \in 1 .. Len(s) - m : d[i] = s[m + 1 + i - 1]
  <2>1. \A i \in m + 1 .. Len(s) : s[i] \in Bytes
    BY <1>0
  <2>2. \A i \in 1 .. Len(s) - (m + 1) + 1 : SubSeq(s, m + 1, Len(s))[i] = s[m + 1 + i - 1]
    BY <1>0, <2>1, SubSeqProperties
  <2> QED
    BY <1>0, <1>2, <2>2 DEF Drop
<1>7. \A i \in 1 .. Len(d) - n : x[i] = d[n + 1 + i - 1]
  <2>1. Len(d) \in Nat /\ \A i \in n + 1 .. Len(d) : d[i] \in Bytes
    BY <1>0, <1>2, ElementOfSeq
  <2>2. \A i \in 1 .. Len(d) - (n + 1) + 1 : SubSeq(d, n + 1, Len(d))[i] = d[n + 1 + i - 1]
    BY <2>1, SubSeqProperties
  <2> QED
    BY <1>4, <2>1, <2>2 DEF Drop
<1>8. \A i \in 1 .. Len(s) - (m + n) : y[i] = s[m + n + 1 + i - 1]
  <2>1. \A i \in m + n + 1 .. Len(s) : s[i] \in Bytes
    BY <1>0
  <2>2. \A i \in 1 .. Len(s) - (m + n + 1) + 1 :
          SubSeq(s, m + n + 1, Len(s))[i] = s[m + n + 1 + i - 1]
    BY <1>0, <2>1, SubSeqProperties
  <2> QED
    BY <1>0, <1>5, <2>2 DEF Drop
<1>9. ASSUME NEW i \in 1 .. Len(x)  PROVE x[i] = y[i]
  <2>1. i \in Int /\ i \in 1 .. Len(d) - n /\ n + i \in 1 .. Len(s) - m
        /\ i \in 1 .. Len(s) - (m + n)
    BY <1>0, <1>2, <1>4
  <2>2. n + 1 + i - 1 = n + i /\ m + n + 1 + i - 1 = m + n + i
        /\ m + 1 + (n + i) - 1 = m + n + i
    BY <2>1
  <2>3. x[i] = d[n + i]
    BY <1>7, <2>1, <2>2
  <2>4. y[i] = s[m + n + i]
    BY <1>8, <2>1, <2>2
  <2>5. d[n + i] = s[m + n + i]
    BY <1>6, <2>1, <2>2
  <2> QED
    BY <2>3, <2>4, <2>5
<1>10. Len(x) = Len(y)
  <2>1. Len(s) - m - n = Len(s) - (m + n)
    BY <1>0
  <2> QED
    BY <1>2, <1>4, <1>5, <2>1
<1>11. x = y
  BY <1>9, <1>10, SeqEqual, Zenon
<1> QED
  BY <1>2, <1>4, <1>5, <1>11

LEMMA DropNothing == Drop(<< >>, 0) = << >>
<1>1. << >> \in Seq(Bytes) /\ Len(<< >>) = 0
  BY EmptySeq
<1>2. SubSeq(<< >>, 1, 0) = << >>
  BY SubSeqEmpty
<1> QED
  BY <1>1, <1>2 DEF Drop

LEMMA DropAll ==
  ASSUME NEW s \in Seq(Bytes)
  PROVE  Take(s, Len(s)) = s /\ Drop(s, Len(s)) = << >>
<1>1. Len(s) \in Nat
  BY LenProperties
<1>2. SubSeq(s, Len(s) + 1, Len(s)) = << >>
  BY <1>1, SubSeqEmpty
<1> QED
  BY <1>2, SubSeqFull DEF Take, Drop

(* A byte that is read stays in its place among those on their way. *)
LEMMA OneRead ==
  ASSUME NEW g \in Seq(Bytes), NEW s \in Seq(Bytes), s # << >>
  PROVE  /\ Append(g, Head(s)) \in Seq(Bytes) /\ Tail(s) \in Seq(Bytes)
         /\ Append(g, Head(s)) \o Tail(s) = g \o s
<1>1. Head(s) \in Bytes /\ Tail(s) \in Seq(Bytes) /\ Len(s) \in Nat \ {0} /\ Head(s) = s[1]
  BY HeadTailProperties, EmptySeq
<1>2. Append(g, Head(s)) \in Seq(Bytes) /\ Append(g, Head(s)) = g \o <<Head(s)>>
  BY <1>1, AppendProperties, AppendIsConcat
<1>3. PICK h \in Seq(Bytes) : h = <<Head(s)>>
  <2>1. <<Head(s)>> = [i \in 1 .. 1 |-> Head(s)]
    OBVIOUS
  <2>2. <<Head(s)>> \in [1 .. 1 -> Bytes]
    BY <1>1, <2>1
  <2>3. 1 \in Nat /\ \A T : Seq(T) = UNION {[1 .. n -> T] : n \in Nat}
    BY SeqDef
  <2>4. <<Head(s)>> \in Seq(Bytes)
    BY <2>2, <2>3, Zenon
  <2> QED
    BY <2>4, Zenon
<1>4. PICK t \in Seq(Bytes) : t = Tail(s)
  BY <1>1
<1>5. h \o t = s
  <2>1. SubSeq(s, 1, Len(s)) = << s[1] >> \o SubSeq(s, 1 + 1, Len(s))
    BY <1>1, SubSeqRecursiveFirst
  <2>2. SubSeq(s, 1, Len(s)) = s /\ Tail(s) = SubSeq(s, 2, Len(s))
    BY SubSeqFull, TailIsSubSeq
  <2> QED
    BY <1>1, <1>3, <1>4, <2>1, <2>2
<1>6. (g \o h) \o t = g \o (h \o t)
  BY Associative
<1> QED
  BY <1>1, <1>2, <1>3, <1>4, <1>5, <1>6

-----------------------------------------------------------------------------
(* The streams of one client, as values.                                   *)

AlignedAt(reqs, n, r, q, t) ==
  n <= Len(reqs) /\ Joined(Joined(Joined(FirstFrames(reqs, n), r), q), t) = Stream(reqs)

DeliversAt(reqs, n, k, g, s, u) ==
  /\ IsPrefix(Joined(g, s), FirstReplies(reqs, n))
  /\ k = "open" => Joined(Joined(g, s), u) = FirstReplies(reqs, n)

LEMMA AlignedIs ==
  ASSUME NEW c
  PROVE  /\ Aligned(c) <=> AlignedAt(script[c], served[c], rbuf[c], recvq[c], todo[c])
         /\ Aligned(c)' <=> AlignedAt(script'[c], served'[c], rbuf'[c], recvq'[c], todo'[c])
<1>1. /\ Executed(c) = FirstFrames(script[c], served[c])
      /\ Executed(c)' = FirstFrames(script'[c], served'[c])
  BY DEF Executed, FirstFrames
<1> QED
  BY <1>1, Zenon DEF Aligned, AlignedAt, Joined

LEMMA DeliversIs ==
  ASSUME NEW c
  PROVE  /\ Delivers(c) <=> DeliversAt(script[c], served[c], sock[c], got[c], sendq[c],
                                       Drop(wbuf[c], wbuf_sent[c]))
         /\ Delivers(c)' <=> DeliversAt(script'[c], served'[c], sock'[c], got'[c], sendq'[c],
                                        Drop(wbuf'[c], wbuf_sent'[c]))
<1>1. /\ Replies(c) = FirstReplies(script[c], served[c])
      /\ Replies(c)' = FirstReplies(script'[c], served'[c])
  BY DEF Replies, FirstReplies
<1>2. /\ Unsent(c) = Drop(wbuf[c], wbuf_sent[c])
      /\ Unsent(c)' = Drop(wbuf'[c], wbuf_sent'[c])
  BY DEF Unsent
<1> QED
  BY <1>1, <1>2, Zenon DEF Delivers, DeliversAt, Joined

(* What a step does not touch of the streams of a client. *)
Same(c) ==
  /\ todo'[c] = todo[c] /\ got'[c] = got[c]
  /\ sock'[c] = sock[c] /\ recvq'[c] = recvq[c] /\ sendq'[c] = sendq[c]
  /\ fd'[c] = fd[c] /\ state'[c] = state[c]
  /\ rbuf'[c] = rbuf[c] /\ wbuf'[c] = wbuf[c] /\ wbuf_sent'[c] = wbuf_sent[c]
  /\ served'[c] = served[c]
  /\ Waiting(c)' => Waiting(c)

LEMMA Undisturbed ==
  ASSUME NEW c, Strand(c), script' = script, Same(c)
  PROVE  Strand(c)'
<1> USE DEF Same
<1>1. Aligned(c)'
  <2>1. AlignedAt(script[c], served[c], rbuf[c], recvq[c], todo[c])
    BY AlignedIs DEF Strand
  <2>2. AlignedAt(script'[c], served'[c], rbuf'[c], recvq'[c], todo'[c])
    BY <2>1
  <2> QED
    BY <2>2, AlignedIs
<1>2. Delivers(c)'
  <2>1. DeliversAt(script[c], served[c], sock[c], got[c], sendq[c],
                   Drop(wbuf[c], wbuf_sent[c]))
    BY DeliversIs DEF Strand
  <2>2. DeliversAt(script'[c], served'[c], sock'[c], got'[c], sendq'[c],
                   Drop(wbuf'[c], wbuf_sent'[c]))
    BY <2>1
  <2> QED
    BY <2>2, DeliversIs
<1>3. Ends(c)'
  BY DEF Strand, Ends, Untouched, HeadRejected, Accepted, Connected
<1>4. Fits(c)'
  BY DEF Strand, Fits
<1> QED
  BY <1>1, <1>2, <1>3, <1>4 DEF Strand

(* What keeps one of the two streams of a client as it is. *)
LEMMA AlignedKept ==
  ASSUME NEW c, Aligned(c), script' = script, served'[c] = served[c],
         rbuf'[c] = rbuf[c], recvq'[c] = recvq[c], todo'[c] = todo[c]
  PROVE  Aligned(c)'
<1>1. AlignedAt(script[c], served[c], rbuf[c], recvq[c], todo[c])
  BY AlignedIs
<1>2. AlignedAt(script'[c], served'[c], rbuf'[c], recvq'[c], todo'[c])
  BY <1>1
<1> QED
  BY <1>2, AlignedIs

LEMMA DeliversKept ==
  ASSUME NEW c, Delivers(c), script' = script, served'[c] = served[c],
         got'[c] = got[c], sendq'[c] = sendq[c], wbuf'[c] = wbuf[c],
         wbuf_sent'[c] = wbuf_sent[c], sock'[c] = "open" => sock[c] = "open"
  PROVE  Delivers(c)'
<1>1. DeliversAt(script[c], served[c], sock[c], got[c], sendq[c],
                 Drop(wbuf[c], wbuf_sent[c]))
  BY DeliversIs
<1>2. DeliversAt(script'[c], served'[c], sock'[c], got'[c], sendq'[c],
                 Drop(wbuf'[c], wbuf_sent'[c]))
  BY <1>1 DEF DeliversAt
<1> QED
  BY <1>2, DeliversIs

(* A connection that is no longer open has only a prefix to keep. *)
LEMMA DeliversPrefix ==
  ASSUME NEW c, Delivers(c), script' = script, served'[c] = served[c],
         got[c] \in Seq(Bytes), got'[c] = got[c], FirstReplies(script[c], served[c]) \in Seq(Bytes),
         NEW s \in Seq(Bytes), NEW t \in Seq(Bytes), sendq[c] = Joined(s, t), sendq'[c] = s,
         sock'[c] # "open"
  PROVE  Delivers(c)'
<1>1. IsPrefix(Joined(got[c], Joined(s, t)), FirstReplies(script[c], served[c]))
  BY DeliversIs DEF DeliversAt
<1>2. Joined(got[c], Joined(s, t)) = Joined(Joined(got[c], s), t)
  BY JoinedAssociative
<1>3. IsPrefix(Joined(got[c], s), FirstReplies(script[c], served[c]))
  <2>1. PICK x \in Seq(Bytes) : x = Joined(got[c], s)
    BY JoinedType
  <2>2. IsPrefix(x \o t, FirstReplies(script[c], served[c]))
    BY <1>1, <1>2, <2>1 DEF Joined
  <2>3. IsPrefix(x, FirstReplies(script[c], served[c]))
    BY <2>2, PrefixOfPrefix
  <2> QED
    BY <2>1, <2>3
<1>4. DeliversAt(script'[c], served'[c], sock'[c], got'[c], sendq'[c],
                 Drop(wbuf'[c], wbuf_sent'[c]))
  BY <1>3 DEF DeliversAt
<1> QED
  BY <1>4, DeliversIs

(* A step that touches the streams of one client at most. *)
LEMMA StrandStep ==
  ASSUME StreamsInv, StreamShape', script' = script, NEW d, Strand(d)',
         \A c \in Clients : c # d => Same(c)
  PROVE  StreamsInv'
<1>1. ASSUME NEW c \in Clients  PROVE Strand(c)'
  BY Undisturbed DEF StreamsInv
<1> QED
  BY <1>1 DEF StreamsInv

LEMMA StillStep ==
  ASSUME StreamsInv, StreamShape', script' = script, \A c \in Clients : Same(c)
  PROVE  StreamsInv'
<1>1. ASSUME NEW c \in Clients  PROVE Strand(c)'
  BY Undisturbed DEF StreamsInv
<1> QED
  BY <1>1 DEF StreamsInv

(* What a client's streams are made of. *)
LEMMA StrandTypes ==
  ASSUME StreamShape, NEW c \in Clients
  PROVE  /\ script[c] \in Seq(Requests) /\ Len(script[c]) \in Nat
         /\ todo[c] \in Seq(Bytes) /\ got[c] \in Seq(Bytes)
         /\ recvq[c] \in Seq(Bytes) /\ sendq[c] \in Seq(Bytes)
         /\ rbuf[c] \in Seq(Bytes) /\ wbuf[c] \in Seq(Bytes)
         /\ served[c] \in Nat
<1>1. script \in [Clients -> Seq(Requests)]
  BY RequestAssumption DEF StreamShape
<1>2. script[c] \in Seq(Requests) /\ Len(script[c]) \in Nat
  BY <1>1, LenProperties
<1> QED
  BY <1>2 DEF StreamShape, Streams, Bytes

LEMMA InitStreams == Init => StreamsInv
<1> SUFFICES ASSUME Init PROVE StreamsInv
  OBVIOUS
<1> USE DEF Init
<1>0. << >> \in Seq(Bytes) /\ Len(<< >>) = 0
  BY EmptySeq
<1>1. ASSUME NEW c \in Clients
      PROVE  /\ script[c] \in Seq(Requests) /\ Len(script[c]) \in Nat
             /\ Stream(script[c]) \in Seq(Bytes)
  <2>1. script \in [Clients -> Seq(Requests)]
    BY RequestAssumption
  <2>2. script[c] \in Seq(Requests) /\ Len(script[c]) \in Nat
    BY <2>1, LenProperties
  <2>3. FirstFrames(script[c], Len(script[c])) \in Seq(Bytes)
    BY <2>2, FirstFramesType
  <2> QED
    BY <2>2, <2>3 DEF FirstFrames, Stream
<1>2. StreamShape
  <2>1. todo \in Streams
    BY <1>1 DEF Streams, Bytes
  <2>2. got \in Streams /\ recvq \in Streams /\ sendq \in Streams
        /\ rbuf \in Streams /\ wbuf \in Streams
    BY <1>0 DEF Streams, Bytes
  <2> QED
    BY <2>1, <2>2 DEF StreamShape, Sockets
<1>3. ASSUME NEW c \in Clients  PROVE Strand(c)
  <2>1. Aligned(c)
    <3>1. << >> \o << >> = << >> /\ << >> \o Stream(script[c]) = Stream(script[c])
      BY <1>0, <1>1, ConcatEmptySeq
    <3>2. AlignedAt(script[c], 0, << >>, << >>, Stream(script[c]))
      BY <1>1, <3>1, NoFrames DEF AlignedAt, Joined
    <3> QED
      BY <3>2, AlignedIs
  <2>2. Delivers(c)
    <3>1. << >> \o << >> = << >>
      BY <1>0, ConcatEmptySeq
    <3>2. IsPrefix(<< >>, << >>)
      BY <1>0, <3>1, PrefixIntro
    <3>3. DeliversAt(script[c], 0, "none", << >>, << >>, Drop(<< >>, 0))
      BY <3>1, <3>2, NoFrames DEF DeliversAt, Joined
    <3> QED
      BY <3>3, DeliversIs
  <2>3. Ends(c)
    BY <1>0 DEF Ends, Untouched, Accepted, Waiting
  <2>4. Fits(c)
    BY <1>0, LimitAssumption DEF Fits, BufSize
  <2> QED
    BY <2>1, <2>2, <2>3, <2>4 DEF Strand
<1> QED
  BY <1>2, <1>3 DEF StreamsInv

-----------------------------------------------------------------------------
(* Clients and the kernel.                                                 *)

LEMMA ConnectStrand ==
  ASSUME TablesInv, StreamsInv, NEW c \in Clients, Connect(c)
  PROVE  StreamsInv'
<1> USE DEF kernVars, connVars, loopVars, clientVars
<1>0. /\ UNCHANGED <<clientVars, recvq, sendq, kernVars, connVars, loopVars>>
      /\ sock[c] = "none" /\ sock' = [sock EXCEPT ![c] = "open"]
      /\ backlog' = Append(backlog, c)
  BY DEF Connect
<1>1. /\ Len(backlog') = Len(backlog) + 1 /\ Len(backlog) \in Nat
      /\ \A i \in 1 .. Len(backlog) : backlog'[i] = backlog[i]
      /\ backlog'[Len(backlog) + 1] = c
  BY <1>0, AppendProperties, LenProperties DEF TablesInv, Shape
<1>2. StreamShape /\ Strand(c) /\ fd[c] = NULL
  BY <1>0 DEF StreamsInv, TablesInv, QueueOnce
<1>3. StreamShape'
  BY <1>0, <1>2 DEF StreamShape, Sockets
<1>4. \A d \in Clients : c # d => Same(d)
  <2>1. ASSUME NEW d \in Clients, c # d, Waiting(d)'  PROVE Waiting(d)
    <3>1. PICK i \in 1 .. Len(backlog') : backlog'[i] = d
      BY <2>1 DEF Waiting
    <3>2. i \in 1 .. Len(backlog)
      BY <1>1, <2>1, <3>1
    <3> QED
      BY <1>1, <3>1, <3>2 DEF Waiting
  <2>2. \A d \in Clients : c # d => sock'[d] = sock[d]
    BY <1>0, <1>2 DEF StreamShape
  <2> QED
    BY <1>0, <2>1, <2>2 DEF Same
<1>5. Strand(c)'
  <2>0. Untouched(c) /\ sock'[c] = "open"
    BY <1>0, <1>2 DEF Strand, Ends, StreamShape
  <2>1. Aligned(c)'
    <3>1. AlignedAt(script'[c], served'[c], rbuf'[c], recvq'[c], todo'[c])
      BY <1>0, <1>2, AlignedIs DEF Strand
    <3> QED
      BY <3>1, AlignedIs
  <2>2. Delivers(c)'
    <3>1. << >> \in Seq(Bytes)
      BY EmptySeq
    <3>2. << >> \o << >> = << >>
      BY <3>1, ConcatEmptySeq
    <3>3. IsPrefix(<< >>, << >>)
      BY <3>1, <3>2, PrefixIntro
    <3>4. DeliversAt(script'[c], 0, "open", << >>, << >>, Drop(<< >>, 0))
      BY <3>2, <3>3, NoFrames, DropNothing DEF DeliversAt, Joined
    <3>5. served'[c] = 0 /\ got'[c] = << >> /\ sendq'[c] = << >> /\ wbuf'[c] = << >>
          /\ wbuf_sent'[c] = 0
      BY <1>0, <2>0 DEF Untouched
    <3> QED
      BY <2>0, <3>4, <3>5, DeliversIs
  <2>3. Ends(c)'
    BY <1>0, <1>2, <2>0 DEF Ends, Untouched, Accepted, Connected
  <2>4. Fits(c)'
    BY <1>0, <1>2 DEF Strand, Fits
  <2> QED
    BY <2>1, <2>2, <2>3, <2>4 DEF Strand
<1> QED
  BY <1>0, <1>2, <1>3, <1>4, <1>5, StrandStep

LEMMA WriteStrand ==
  ASSUME StreamsInv, NEW c \in Clients, NEW n \in 1 .. Len(todo[c]), Write(c, n)
  PROVE  StreamsInv'
<1> USE DEF kernVars, connVars, loopVars
<1>0. /\ UNCHANGED <<script, got, sock, sendq, backlog, kernVars, connVars, loopVars>>
      /\ recvq' = [recvq EXCEPT ![c] = @ \o Take(todo[c], n)]
      /\ todo' = [todo EXCEPT ![c] = Drop(@, n)]
  BY DEF Write
<1>1. StreamShape /\ Strand(c)
  BY DEF StreamsInv
<1>2. /\ script[c] \in Seq(Requests) /\ Len(script[c]) \in Nat /\ served[c] \in Nat
      /\ todo[c] \in Seq(Bytes) /\ recvq[c] \in Seq(Bytes) /\ rbuf[c] \in Seq(Bytes)
  BY <1>1, StrandTypes
<1>3. n \in 0 .. Len(todo[c])
  BY <1>2, LenProperties
<1>4. Take(todo[c], n) \in Seq(Bytes) /\ Drop(todo[c], n) \in Seq(Bytes)
  BY <1>2, <1>3, TakeDrop
<1>5. PICK q \in Seq(Bytes) : q = Joined(recvq[c], Take(todo[c], n))
  BY <1>2, <1>4, JoinedType
<1>6. recvq' = [recvq EXCEPT ![c] = q] /\ recvq'[c] = q /\ todo'[c] = Drop(todo[c], n)
  BY <1>0, <1>1, <1>5 DEF StreamShape, Streams, Joined
<1>7. StreamShape'
  <2>1. recvq' \in Streams
    BY <1>1, <1>5, <1>6 DEF StreamShape, Streams, Bytes
  <2>2. todo' \in Streams
    BY <1>0, <1>1, <1>4 DEF StreamShape, Streams, Bytes
  <2> QED
    BY <1>0, <1>1, <2>1, <2>2 DEF StreamShape
<1>8. \A d \in Clients : c # d => Same(d)
  BY <1>0, <1>1 DEF Same, Waiting, StreamShape, Streams
<1>9. Strand(c)'
  <2>1. Aligned(c)'
    <3>1. AlignedAt(script[c], served[c], rbuf[c], recvq[c], todo[c])
      BY <1>1, AlignedIs DEF Strand
    <3>2. PICK a \in Seq(Bytes) : a = Joined(FirstFrames(script[c], served[c]), rbuf[c])
      BY <1>2, <3>1, FirstFramesType, JoinedType DEF AlignedAt
    <3>3. Joined(Joined(a, q), Drop(todo[c], n)) = Joined(Joined(a, recvq[c]), todo[c])
      BY <1>2, <1>3, <1>5, Shifted
    <3>4. AlignedAt(script[c], served[c], rbuf[c], q, Drop(todo[c], n))
      BY <3>1, <3>2, <3>3 DEF AlignedAt
    <3> QED
      BY <1>0, <1>6, <3>4, AlignedIs
  <2>2. Delivers(c)'
    BY <1>0, <1>1 DEF Strand, Delivers, Replies, Unsent
  <2>3. Ends(c)'
    BY <1>0, <1>1 DEF Strand, Ends, Untouched, HeadRejected, Accepted, Connected, Waiting
  <2>4. Fits(c)'
    BY <1>0, <1>1 DEF Strand, Fits
  <2> QED
    BY <2>1, <2>2, <2>3, <2>4 DEF Strand
<1> QED
  BY <1>0, <1>7, <1>8, <1>9, StrandStep

LEMMA ReadStrand ==
  ASSUME StreamsInv, NEW c \in Clients, Read(c)
  PROVE  StreamsInv'
<1> USE DEF kernVars, connVars, loopVars
<1>0. /\ UNCHANGED <<script, todo, sock, recvq, backlog, kernVars, connVars, loopVars>>
      /\ sendq[c] # << >>
      /\ got' = [got EXCEPT ![c] = Append(@, Head(sendq[c]))]
      /\ sendq' = [sendq EXCEPT ![c] = Tail(@)]
  BY DEF Read
<1>1. StreamShape /\ Strand(c)
  BY DEF StreamsInv
<1>2. got[c] \in Seq(Bytes) /\ sendq[c] \in Seq(Bytes)
  BY <1>1, StrandTypes
<1>3. /\ Append(got[c], Head(sendq[c])) \in Seq(Bytes) /\ Tail(sendq[c]) \in Seq(Bytes)
      /\ Joined(Append(got[c], Head(sendq[c])), Tail(sendq[c])) = Joined(got[c], sendq[c])
  BY <1>0, <1>2, OneRead DEF Joined
<1>4. got'[c] = Append(got[c], Head(sendq[c])) /\ sendq'[c] = Tail(sendq[c])
  BY <1>0, <1>1 DEF StreamShape, Streams
<1>5. StreamShape'
  <2>1. got' \in Streams
    BY <1>0, <1>1, <1>3 DEF StreamShape, Streams, Bytes
  <2>2. sendq' \in Streams
    BY <1>0, <1>1, <1>3 DEF StreamShape, Streams, Bytes
  <2> QED
    BY <1>0, <1>1, <2>1, <2>2 DEF StreamShape
<1>6. \A d \in Clients : c # d => Same(d)
  BY <1>0, <1>1 DEF Same, Waiting, StreamShape, Streams
<1>7. Strand(c)'
  <2>1. Aligned(c)'
    BY <1>0, <1>1, AlignedKept DEF Strand
  <2>2. Delivers(c)'
    <3>1. DeliversAt(script[c], served[c], sock[c], got[c], sendq[c],
                     Drop(wbuf[c], wbuf_sent[c]))
      BY <1>1, DeliversIs DEF Strand
    <3>2. DeliversAt(script[c], served[c], sock[c], got'[c], sendq'[c],
                     Drop(wbuf[c], wbuf_sent[c]))
      BY <1>3, <1>4, <3>1 DEF DeliversAt
    <3> QED
      BY <1>0, <3>2, DeliversIs
  <2>3. Ends(c)'
    BY <1>0, <1>1 DEF Strand, Ends, Untouched, HeadRejected, Accepted, Connected, Waiting
  <2>4. Fits(c)'
    BY <1>0, <1>1 DEF Strand, Fits
  <2> QED
    BY <2>1, <2>2, <2>3, <2>4 DEF Strand
<1> QED
  BY <1>0, <1>5, <1>6, <1>7, StrandStep

LEMMA HangUpStrand ==
  ASSUME StreamsInv, NEW c \in Clients, HangUp(c)
  PROVE  StreamsInv'
<1> USE DEF clientVars, kernVars, connVars, loopVars
<1>0. /\ UNCHANGED <<clientVars, recvq, backlog, kernVars, connVars, loopVars>>
      /\ sock[c] = "open"
      /\ sendq' = [sendq EXCEPT ![c] = << >>]
      /\ \E s \in {"fin", "reset", "broken"} : sock' = [sock EXCEPT ![c] = s]
  BY DEF HangUp
<1>1. StreamShape /\ Strand(c)
  BY DEF StreamsInv
<1>2. /\ script[c] \in Seq(Requests) /\ served[c] \in Nat
      /\ got[c] \in Seq(Bytes) /\ sendq[c] \in Seq(Bytes) /\ << >> \in Seq(Bytes)
  BY <1>1, StrandTypes, EmptySeq
<1>3. sendq'[c] = << >> /\ sock'[c] \in {"fin", "reset", "broken"}
  BY <1>0, <1>1 DEF StreamShape, Streams
<1>4. StreamShape'
  <2>1. sendq' \in Streams
    BY <1>0, <1>1, <1>2 DEF StreamShape, Streams, Bytes
  <2>2. sock' \in [Clients -> Sockets]
    BY <1>0, <1>1 DEF StreamShape, Sockets
  <2> QED
    BY <1>0, <1>1, <2>1, <2>2 DEF StreamShape
<1>5. \A d \in Clients : c # d => Same(d)
  BY <1>0, <1>1 DEF Same, Waiting, StreamShape, Streams
<1>6. Strand(c)'
  <2>1. Aligned(c)'
    BY <1>0, <1>1, AlignedKept DEF Strand
  <2>2. Delivers(c)'
    <3>1. sendq[c] = Joined(<< >>, sendq[c])
      BY <1>2, ConcatEmptySeq DEF Joined
    <3>2. FirstReplies(script[c], served[c]) \in Seq(Bytes)
      BY <1>1, <1>2, FirstRepliesType DEF Strand, Aligned
    <3> QED
      BY <1>0, <1>1, <1>2, <1>3, <3>1, <3>2, DeliversPrefix DEF Strand
  <2>3. Ends(c)'
    BY <1>0, <1>1, <1>3 DEF Strand, Ends, Untouched, HeadRejected, Accepted, Connected, Waiting
  <2>4. Fits(c)'
    BY <1>0, <1>1 DEF Strand, Fits
  <2> QED
    BY <2>1, <2>2, <2>3, <2>4 DEF Strand
<1> QED
  BY <1>0, <1>4, <1>5, <1>6, StrandStep

(* A step that ends a connection another way, or moves it on in the state  *)
(* of its socket, with its streams left alone.                             *)
LEMMA SockStrand ==
  ASSUME StreamsInv, NEW c \in Clients, NEW s \in Sockets, sock' = [sock EXCEPT ![c] = s],
         UNCHANGED <<script, todo, got, recvq, sendq, connVars, from>>, StreamShape',
         Waiting(c)' => Waiting(c), \A d \in Clients : c # d /\ Waiting(d)' => Waiting(d),
         s # "open" /\ s # "none" /\ s # "dropped",
         Accepted(c) \/ Waiting(c)' => s \in {"fin", "finsent", "reset", "broken"}
  PROVE  StreamsInv'
<1> USE DEF connVars
<1>1. StreamShape /\ Strand(c)
  BY DEF StreamsInv
<1>2. sock'[c] = s /\ \A d \in Clients : c # d => Same(d)
  BY <1>1 DEF Same, StreamShape
<1>3. Aligned(c)'
  BY <1>1, AlignedKept DEF Strand
<1>4. Delivers(c)'
  BY <1>1, <1>2, DeliversKept DEF Strand
<1>5. Ends(c)'
  BY <1>1, <1>2 DEF Strand, Ends, Untouched, HeadRejected, Accepted, Connected
<1>6. Fits(c)'
  BY <1>1 DEF Strand, Fits
<1>7. Strand(c)'
  BY <1>3, <1>4, <1>5, <1>6 DEF Strand
<1> QED
  BY <1>2, <1>7, StrandStep

LEMMA ResetArrivesStrand ==
  ASSUME StreamsInv, NEW c \in Clients, ResetArrives(c)
  PROVE  StreamsInv'
<1> USE DEF clientVars, kernVars, connVars, loopVars
<1>0. /\ UNCHANGED <<clientVars, recvq, sendq, backlog, kernVars, connVars, loopVars>>
      /\ sock' = [sock EXCEPT ![c] = "broken"]
  BY DEF ResetArrives
<1>1. StreamShape'
  BY <1>0 DEF StreamsInv, StreamShape, Sockets
<1>2. Waiting(c)' = Waiting(c) /\ \A d \in Clients : Waiting(d)' = Waiting(d)
  BY <1>0 DEF Waiting
<1> QED
  BY <1>0, <1>1, <1>2, SockStrand DEF Sockets

LEMMA PeerStrand ==
  ASSUME TablesInv, StreamsInv, NEW c \in Clients, Peer(c)
  PROVE  StreamsInv'
BY ConnectStrand, HangUpStrand, ResetArrivesStrand, ReadStrand, WriteStrand DEF Peer

-----------------------------------------------------------------------------
(* The loop of main.                                                       *)

(* A step that leaves every connection alone, those that wait included. *)
LEMMA PcStill ==
  ASSUME StreamsInv, UNCHANGED <<clientVars, netVars, connVars>>, StreamShape'
  PROVE  StreamsInv'
<1> USE DEF clientVars, netVars, connVars
<1>1. \A c \in Clients : Same(c)
  BY DEF Same, Waiting
<1> QED
  BY <1>1, StillStep

LEMMA StillSteps ==
  ASSUME StreamsInv,
         \/ StartUp \/ StartUpFails \/ epoll_wait \/ EpollWaitFails \/ BatchDone
         \/ AcceptError \/ connection_io \/ KeepConn
         \/ ReadAgain \/ FrameIncomplete \/ WriteAgain \/ WriteBrokenPipe
  PROVE  StreamsInv'
<1> USE DEF clientVars, netVars, connVars
<1>1. UNCHANGED <<clientVars, netVars, connVars>>
  BY DEF StartUp, StartUpFails, epoll_wait, EpollWaitFails, BatchDone, AcceptError,
         connection_io, KeepConn, ReadAgain, FrameIncomplete, WriteAgain, WriteBrokenPipe
<1>2. StreamShape
  BY DEF StreamsInv
<1>3. pc' \in {"socket", "bind", "listen", "set_nb", "epoll_create1", "wait", "dispatch",
               "fill", "parse", "flush", "after", "abort", "killed", "died"}
  <2>1. CASE StartUp
    BY <2>1 DEF StartUp, NextStep
  <2>2. CASE StartUpFails \/ EpollWaitFails \/ BatchDone \/ KeepConn
    BY <2>2 DEF StartUpFails, EpollWaitFails, BatchDone, KeepConn
  <2>3. CASE epoll_wait \/ connection_io
    BY <2>3 DEF epoll_wait, connection_io
  <2>4. CASE AcceptError
    BY <1>2, <2>4 DEF AcceptError, StreamShape
  <2>5. CASE ReadAgain \/ FrameIncomplete \/ WriteAgain \/ WriteBrokenPipe
    BY <2>5 DEF ReadAgain, FrameIncomplete, WriteAgain, WriteBrokenPipe
  <2> QED
    BY <2>1, <2>2, <2>3, <2>4, <2>5
<1>4. from' \in {"event", "request"}
  BY <1>2 DEF StreamShape, StartUp, StartUpFails, epoll_wait, EpollWaitFails, BatchDone,
              AcceptError, connection_io, KeepConn, ReadAgain, FrameIncomplete, WriteAgain,
              WriteBrokenPipe
<1>5. StreamShape'
  BY <1>1, <1>2, <1>3, <1>4 DEF StreamShape
<1> QED
  BY <1>1, <1>5, PcStill

(* What taking the first connection off the queue means for the others. *)
LEMMA HeadTaken ==
  ASSUME TablesInv, ListenEvent, backlog' = Tail(backlog)
  PROVE  /\ \E c \in Clients : c = Head(backlog) /\ Waiting(c) /\ ~ Waiting(c)' /\ fd[c] = NULL
         /\ \A c \in Clients : Waiting(c)' => Waiting(c)
<1>1. backlog # << >> /\ Shape /\ QueueOnce
  BY ListenHead DEF TablesInv
<1>2. /\ Head(backlog) \in Clients /\ fd[Head(backlog)] = NULL
      /\ \A i \in 1 .. Len(Tail(backlog)) : Tail(backlog)[i] # Head(backlog)
  BY <1>1, BacklogTail
<1>3. /\ Head(backlog) = backlog[1] /\ 1 \in 1 .. Len(backlog)
      /\ \A i \in 1 .. Len(Tail(backlog)) :
           i + 1 \in 1 .. Len(backlog) /\ Tail(backlog)[i] = backlog[i + 1]
  BY <1>1, HeadTailProperties, EmptySeq DEF Shape
<1>4. PICK c \in Clients : c = Head(backlog)
  BY <1>2
<1>5. Waiting(c) /\ ~ Waiting(c)' /\ fd[c] = NULL
  BY <1>2, <1>3, <1>4 DEF Waiting
<1>6. \A d \in Clients : Waiting(d)' => Waiting(d)
  BY <1>3 DEF Waiting
<1> QED
  BY <1>4, <1>5, <1>6

LEMMA AcceptDiesStrand ==
  ASSUME TablesInv, StreamsInv, AcceptDies
  PROVE  StreamsInv'
<1> USE DEF clientVars, kernVars, connVars
<1>1. /\ UNCHANGED <<clientVars, sock, recvq, sendq, kernVars, connVars, cur, from, fd2conn>>
      /\ backlog' = Tail(backlog) /\ ListenEvent /\ pc' = "died"
  BY DEF AcceptDies
<1>2. StreamShape'
  BY <1>1 DEF StreamsInv, StreamShape
<1>3. \A c \in Clients : Same(c)
  BY <1>1, HeadTaken DEF Same
<1> QED
  BY <1>1, <1>2, <1>3, StillStep

LEMMA ConnMallocFailsStrand ==
  ASSUME TablesInv, StreamsInv, ConnMallocFails
  PROVE  StreamsInv'
<1> USE DEF clientVars, kernVars, connVars
<1>1. /\ UNCHANGED <<clientVars, recvq, sendq, kernVars, connVars, pc, cur, from, fd2conn>>
      /\ backlog' = Tail(backlog) /\ ListenEvent
      /\ sock' = Closed(Head(backlog), "refused")
  BY DEF ConnMallocFails
<1>2. PICK c \in Clients : c = Head(backlog) /\ Waiting(c) /\ ~ Waiting(c)' /\ fd[c] = NULL
  BY <1>1, HeadTaken
<1>3. \A d \in Clients : Waiting(d)' => Waiting(d)
  BY <1>1, HeadTaken
<1>4. PICK s \in {"refused", "gone"} : sock' = [sock EXCEPT ![c] = s]
  BY <1>1, <1>2 DEF Closed, StreamsInv, StreamShape
<1>5. s \in Sockets /\ s # "open" /\ s # "none" /\ s # "dropped"
  BY <1>4 DEF Sockets
<1>6. StreamShape'
  BY <1>1, <1>4, <1>5 DEF StreamsInv, StreamShape
<1>7. ~ Accepted(c)
  BY <1>2 DEF Accepted
<1> QED
  BY <1>1, <1>2, <1>3, <1>4, <1>5, <1>6, <1>7, SockStrand

LEMMA AcceptStrand ==
  ASSUME TablesInv, StreamsInv, accept_new_conn
  PROVE  StreamsInv'
<1> USE DEF clientVars
<1>1. /\ UNCHANGED <<clientVars, sock, recvq, sendq, served, pc, cur, from>>
      /\ backlog' = Tail(backlog) /\ ListenEvent
  BY DEF accept_new_conn
<1>2. PICK c \in Clients : c = Head(backlog) /\ Waiting(c) /\ ~ Waiting(c)' /\ fd[c] = NULL
  BY <1>1, HeadTaken
<1>3. \A d \in Clients : Waiting(d)' => Waiting(d)
  BY <1>1, HeadTaken
<1>4. /\ fd' = [fd EXCEPT ![c] = Min(FreeFds)]
      /\ state' = [state EXCEPT ![c] = "STATE_REQ"]
      /\ rbuf' = [rbuf EXCEPT ![c] = << >>]
      /\ wbuf' = [wbuf EXCEPT ![c] = << >>]
      /\ wbuf_sent' = [wbuf_sent EXCEPT ![c] = 0]
  BY <1>2 DEF accept_new_conn
<1>5. StreamShape /\ Strand(c) /\ Shape
  BY DEF StreamsInv, TablesInv
<1>6. Untouched(c) /\ Connected(c)
  BY <1>2, <1>5 DEF Strand, Ends
<1>7. /\ rbuf'[c] = << >> /\ wbuf'[c] = << >> /\ wbuf_sent'[c] = 0
      /\ state'[c] = "STATE_REQ"
  BY <1>4, <1>5 DEF StreamShape, Streams, Shape
<1>8. StreamShape'
  <2>1. << >> \in Seq(Bytes)
    BY EmptySeq
  <2>2. rbuf' \in Streams /\ wbuf' \in Streams
    BY <1>4, <1>5, <2>1 DEF StreamShape, Streams, Bytes
  <2> QED
    BY <1>1, <1>5, <2>2 DEF StreamShape
<1>9. \A d \in Clients : c # d => Same(d)
  BY <1>1, <1>3, <1>4, <1>5 DEF Same, StreamShape, Streams, Shape
<1>10. Strand(c)'
  <2>1. Aligned(c)'
    BY <1>1, <1>5, <1>6, <1>7, AlignedKept DEF Strand, Untouched
  <2>2. Delivers(c)'
    BY <1>1, <1>5, <1>6, <1>7, DeliversKept DEF Strand, Untouched
  <2>3. Ends(c)'
    BY <1>1, <1>2, <1>6, <1>7 DEF Ends, Connected
  <2>4. Fits(c)'
    BY <1>5, <1>6, <1>7 DEF Strand, Fits, Untouched
  <2> QED
    BY <2>1, <2>2, <2>3, <2>4 DEF Strand
<1> QED
  BY <1>1, <1>8, <1>9, <1>10, StrandStep

-----------------------------------------------------------------------------
(* The connection being processed.                                         *)

LEMMA CurStrand ==
  ASSUME TablesInv, StreamsInv, pc \in Processing
  PROVE  \E c \in Clients :
           /\ c = cur /\ Accepted(c) /\ ~ Waiting(c) /\ sock[c] # "none"
           /\ Connected(c) /\ Strand(c)
<1>1. PICK c \in Clients : c = cur /\ fd[c] # NULL
  BY CurProperties
<1>2. ~ Waiting(c) /\ sock[c] # "none"
  BY <1>1 DEF TablesInv, QueueOnce, Waiting
<1>3. Accepted(c) /\ Strand(c) /\ Connected(c)
  BY <1>1 DEF Accepted, StreamsInv, Strand, Ends
<1> QED
  BY <1>1, <1>2, <1>3

LEMMA BusyStrand ==
  ASSUME TablesInv, StreamsInv, pc \in Processing, NEW c \in Clients, c = cur,
         UNCHANGED <<script, todo, got, backlog, fd>>, StreamShape',
         Aligned(c)', Delivers(c)', Fits(c)', Connected(c)',
         state'[c] = "STATE_END" /\ sock'[c] = "open" => HeadRejected(c)',
         \A d \in Clients : c # d =>
           /\ sock'[d] = sock[d] /\ recvq'[d] = recvq[d] /\ sendq'[d] = sendq[d]
           /\ state'[d] = state[d] /\ rbuf'[d] = rbuf[d] /\ wbuf'[d] = wbuf[d]
           /\ wbuf_sent'[d] = wbuf_sent[d] /\ served'[d] = served[d]
  PROVE  StreamsInv'
<1>1. ~ Waiting(c)'
  BY CurStrand DEF Waiting
<1>2. \A d \in Clients : c # d => Same(d)
  BY DEF Same, Waiting
<1>3. sock'[c] # "none" /\ sock'[c] # "dropped"
  BY DEF Connected
<1>4. Ends(c)'
  BY <1>1, <1>3 DEF Ends
<1>5. Strand(c)'
  BY <1>4 DEF Strand
<1> QED
  BY <1>2, <1>5, StrandStep

(* The length field at the front of the read buffer is that of the request *)
(* after those executed.                                                   *)
LEMMA HeadIsNext ==
  ASSUME StreamShape, NEW c \in Clients, Aligned(c), rbuf[c] # << >>
  PROVE  served[c] < Len(script[c]) /\ HeadRequest(c) = script[c][served[c] + 1]
<1>1. /\ script[c] \in Seq(Requests) /\ Len(script[c]) \in Nat /\ served[c] \in Nat
      /\ todo[c] \in Seq(Bytes) /\ recvq[c] \in Seq(Bytes) /\ rbuf[c] \in Seq(Bytes)
  BY StrandTypes
<1>2. AlignedAt(script[c], served[c], rbuf[c], recvq[c], todo[c])
  BY AlignedIs
<1>3. served[c] < Len(script[c]) /\ rbuf[c][1] = <<served[c] + 1, 1>>
  BY <1>1, <1>2, BufferBegins DEF AlignedAt
<1> QED
  BY <1>3 DEF HeadRequest

LEMMA HeaderRead ==
  ASSUME StreamShape, NEW c \in Clients, HasHeader(c)
  PROVE  rbuf[c] # << >>
BY LimitAssumption, EmptySeq, StrandTypes, LenProperties DEF HasHeader

LEMMA EndConnStrand ==
  ASSUME TablesInv, StreamsInv, ReadEnds \/ BadFrame \/ WriteError
  PROVE  StreamsInv'
<1> USE DEF clientVars, netVars, kernVars
<1>1. /\ UNCHANGED <<clientVars, netVars, kernVars, fd, rbuf, wbuf, wbuf_sent, served,
                     batch, cur, from>>
      /\ EndConn /\ pc \in Processing
  BY DEF ReadEnds, BadFrame, WriteError, Processing
<1>2. PICK c \in Clients : c = cur /\ Accepted(c) /\ Connected(c) /\ Strand(c)
  BY <1>1, CurStrand
<1>3. StreamShape /\ Shape
  BY DEF StreamsInv, TablesInv
<1>4. StreamShape'
  BY <1>1, <1>3 DEF StreamShape, EndConn
<1>5. sock[c] = "open" => HeadRejected(c)
  <2>1. CASE ReadEnds \/ WriteError
    BY <1>2, <2>1 DEF ReadEnds, WriteError, PeerGone
  <2>2. CASE BadFrame
    <3>1. HasHeader(c) /\ (HeadRequest(c) \notin WellFormed \/ BodyLen[HeadRequest(c)] > k_max_msg)
      BY <1>2, <2>2 DEF BadFrame, TooLong, HasFrame
    <3>2. rbuf[c] # << >>
      BY <1>3, <3>1, HeaderRead
    <3>3. served[c] < Len(script[c]) /\ HeadRequest(c) = script[c][served[c] + 1]
      BY <1>2, <1>3, <3>2, HeadIsNext DEF Strand
    <3> QED
      BY <3>1, <3>3 DEF HeadRejected, Rejects
  <2> QED
    BY <2>1, <2>2
<1>6. Aligned(c)'
  BY <1>1, <1>2, AlignedKept DEF Strand
<1>7. Delivers(c)'
  BY <1>1, <1>2, DeliversKept DEF Strand
<1>8. Fits(c)' /\ Connected(c)' /\ (sock'[c] = "open" => HeadRejected(c)')
  BY <1>1, <1>2, <1>5 DEF Strand, Fits, Connected, HeadRejected
<1>9. \A d \in Clients : c # d => state'[d] = state[d]
  BY <1>1, <1>2, <1>3 DEF EndConn, Shape
<1> QED
  BY <1>1, <1>2, <1>4, <1>6, <1>7, <1>8, <1>9, BusyStrand

LEMMA FillBufferStrand ==
  ASSUME TablesInv, StreamsInv, FillBuffer
  PROVE  StreamsInv'
<1> USE DEF clientVars, kernVars
<1>1. /\ UNCHANGED <<clientVars, sock, sendq, backlog, kernVars, fd, state, wbuf,
                     wbuf_sent, served, batch, cur, from, fd2conn>>
      /\ pc \in Processing /\ pc' \in {"parse", "abort"}
  BY DEF FillBuffer, Processing
<1>2. PICK c \in Clients : c = cur /\ Accepted(c) /\ Connected(c) /\ Strand(c)
  BY <1>1, CurStrand
<1>3. StreamShape
  BY DEF StreamsInv
<1>4. /\ script[c] \in Seq(Requests) /\ Len(script[c]) \in Nat /\ served[c] \in Nat
      /\ todo[c] \in Seq(Bytes) /\ recvq[c] \in Seq(Bytes) /\ rbuf[c] \in Seq(Bytes)
      /\ Len(recvq[c]) \in Nat /\ Len(rbuf[c]) \in Nat
  BY <1>3, StrandTypes, LenProperties
<1>5. PICK n \in Nat : /\ n = Min2(BufSize - Len(rbuf[c]), Len(recvq[c]))
                      /\ n \in 0 .. Len(recvq[c]) /\ Len(rbuf[c]) + n <= BufSize
  <2>1. BufSize \in Nat
    BY LimitAssumption DEF BufSize
  <2>2. Len(rbuf[c]) <= BufSize
    BY <1>2 DEF Strand, Fits
  <2>3. ASSUME NEW b \in Nat, NEW l \in Nat, NEW k \in Nat, l <= b
        PROVE  Min2(b - l, k) \in 0 .. k /\ l + Min2(b - l, k) <= b
    BY <2>3 DEF Min2
  <2>4. /\ Min2(BufSize - Len(rbuf[c]), Len(recvq[c])) \in 0 .. Len(recvq[c])
        /\ Len(rbuf[c]) + Min2(BufSize - Len(rbuf[c]), Len(recvq[c])) <= BufSize
    BY <1>4, <2>1, <2>2, <2>3
  <2>5. Min2(BufSize - Len(rbuf[c]), Len(recvq[c])) \in Nat
    BY <1>4, <2>4
  <2> QED
    BY <2>4, <2>5, Zenon
<1>6. n \in 0 .. Len(recvq[c]) /\ Len(rbuf[c]) + n <= BufSize
  BY <1>5
<1>7. /\ rbuf' = [rbuf EXCEPT ![c] = @ \o Take(recvq[c], n)]
      /\ recvq' = [recvq EXCEPT ![c] = Drop(@, n)]
  BY <1>2, <1>5 DEF FillBuffer
<1>8. /\ Take(recvq[c], n) \in Seq(Bytes) /\ Drop(recvq[c], n) \in Seq(Bytes)
      /\ Len(Take(recvq[c], n)) = n
  BY <1>4, <1>6, TakeDrop
<1>9. PICK r \in Seq(Bytes) : r = Joined(rbuf[c], Take(recvq[c], n)) /\ Len(r) <= BufSize
  <2>1. Len(rbuf[c] \o Take(recvq[c], n)) = Len(rbuf[c]) + Len(Take(recvq[c], n))
    BY <1>4, <1>8, ConcatProperties, Zenon
  <2>2. Len(Joined(rbuf[c], Take(recvq[c], n))) <= BufSize
    BY <1>6, <1>8, <2>1 DEF Joined
  <2>3. Joined(rbuf[c], Take(recvq[c], n)) \in Seq(Bytes)
    BY <1>4, <1>8, JoinedType
  <2> QED
    BY <2>2, <2>3
<1>10. rbuf' = [rbuf EXCEPT ![c] = r] /\ rbuf'[c] = r /\ recvq'[c] = Drop(recvq[c], n)
  BY <1>3, <1>7, <1>9 DEF StreamShape, Streams, Joined
<1>11. StreamShape'
  <2>1. rbuf' \in Streams
    BY <1>3, <1>9, <1>10 DEF StreamShape, Streams, Bytes
  <2>2. recvq' \in Streams
    BY <1>3, <1>7, <1>8 DEF StreamShape, Streams, Bytes
  <2> QED
    BY <1>1, <1>3, <2>1, <2>2 DEF StreamShape
<1>12. Aligned(c)'
  <2>1. AlignedAt(script[c], served[c], rbuf[c], recvq[c], todo[c])
    BY <1>2, AlignedIs DEF Strand
  <2>2. FirstFrames(script[c], served[c]) \in Seq(Bytes)
    BY <1>4, <2>1, FirstFramesType DEF AlignedAt
  <2>3. Joined(Joined(FirstFrames(script[c], served[c]), r), Drop(recvq[c], n))
          = Joined(Joined(FirstFrames(script[c], served[c]), rbuf[c]), recvq[c])
    BY <1>4, <1>6, <1>9, <2>2, Shifted
  <2>4. AlignedAt(script[c], served[c], r, Drop(recvq[c], n), todo[c])
    BY <2>1, <2>3 DEF AlignedAt
  <2> QED
    BY <1>1, <1>10, <2>4, AlignedIs
<1>13. Delivers(c)'
  BY <1>1, <1>2, DeliversKept DEF Strand
<1>14. Fits(c)'
  BY <1>1, <1>2, <1>9, <1>10 DEF Strand, Fits
<1>15. Connected(c)' /\ (state'[c] = "STATE_END" /\ sock'[c] = "open" => HeadRejected(c)')
  BY <1>1, <1>2 DEF Connected, Strand, Ends, HeadRejected
<1>16. \A d \in Clients : c # d => rbuf'[d] = rbuf[d] /\ recvq'[d] = recvq[d]
  BY <1>3, <1>7 DEF StreamShape, Streams
<1> QED
  BY <1>1, <1>2, <1>11, <1>12, <1>13, <1>14, <1>15, <1>16, BusyStrand

LEMMA TryOneRequestStrand ==
  ASSUME TablesInv, StreamsInv, try_one_request
  PROVE  StreamsInv'
<1> USE DEF clientVars, netVars
<1>1. /\ UNCHANGED <<clientVars, netVars, file, fd, wbuf_sent, batch, cur, fd2conn>>
      /\ pc = "parse" /\ pc \in Processing /\ pc' = "flush" /\ from' = "request"
  BY DEF try_one_request, Processing
<1>2. PICK c \in Clients : c = cur /\ Accepted(c) /\ Connected(c) /\ Strand(c)
  BY <1>1, CurStrand
<1>3. StreamShape /\ Shape
  BY DEF StreamsInv, TablesInv
<1>4. /\ script[c] \in Seq(Requests) /\ Len(script[c]) \in Nat /\ served[c] \in Nat
      /\ todo[c] \in Seq(Bytes) /\ recvq[c] \in Seq(Bytes) /\ rbuf[c] \in Seq(Bytes)
      /\ got[c] \in Seq(Bytes) /\ sendq[c] \in Seq(Bytes)
  BY <1>3, StrandTypes
<1>5. PICK n \in Nat : n = served[c]
  BY <1>4
<1>6. rbuf[c] # << >> /\ HasFrame(c)
  BY <1>2, <1>3, HeaderRead DEF try_one_request, HasFrame
<1>7. AlignedAt(script[c], n, rbuf[c], recvq[c], todo[c])
  BY <1>2, <1>5, AlignedIs DEF Strand
<1>8. n < Len(script[c]) /\ rbuf[c][1] = <<n + 1, 1>> /\ n + 1 \in 1 .. Len(script[c])
  <2>1. n < Len(script[c]) /\ rbuf[c][1] = <<n + 1, 1>>
    BY <1>4, <1>6, <1>7, BufferBegins DEF AlignedAt
  <2> QED
    BY <1>4, <2>1
<1>9. HeadRequest(c) = script[c][n + 1]
  BY <1>8 DEF HeadRequest
<1>10. PICK x \in Seq(Bytes) : x = Reply(script[c], n + 1) /\ Len(x) <= BufSize
  BY <1>4, <1>8, ReplyType
<1>11. PICK r : r = Drop(rbuf[c], FrameLen(script[c][n + 1]))
  OBVIOUS
<1>12. Len(rbuf[c]) >= FrameLen(script[c][n + 1])
  <2>1. FrameLen(script[c][n + 1]) \in Nat /\ BodyLen[script[c][n + 1]] \in Nat
    BY <1>4, <1>8, FrameType, ElementOfSeq, RequestAssumption
  <2>2. Len(rbuf[c]) \in Nat
    BY <1>4, LenProperties
  <2> QED
    BY <1>6, <1>9, <2>1, <2>2, LimitAssumption DEF HasFrame, FrameLen
<1>13. r \in Seq(Bytes) /\ Len(r) <= Len(rbuf[c])
  <2>1. FrameLen(script[c][n + 1]) \in 0 .. Len(rbuf[c]) /\ Len(rbuf[c]) \in Nat
    BY <1>4, <1>8, <1>12, FrameType, LenProperties
  <2> QED
    BY <1>4, <1>11, <2>1, TakeDrop
<1>14. /\ wbuf' = [wbuf EXCEPT ![c] = x] /\ rbuf' = [rbuf EXCEPT ![c] = r]
       /\ served' = [served EXCEPT ![c] = n + 1]
       /\ state' = [state EXCEPT ![c] = "STATE_RES"]
  BY <1>2, <1>3, <1>5, <1>8, <1>9, <1>10, <1>11 DEF try_one_request, Remaining, StreamShape
<1>15. wbuf'[c] = x /\ rbuf'[c] = r /\ served'[c] = n + 1 /\ state'[c] = "STATE_RES"
  BY <1>3, <1>14 DEF StreamShape, Streams, Shape
<1>16. StreamShape'
  <2>1. wbuf' \in Streams /\ rbuf' \in Streams
    BY <1>3, <1>10, <1>13, <1>14 DEF StreamShape, Streams, Bytes
  <2>2. served' \in [Clients -> Nat]
    BY <1>3, <1>14 DEF StreamShape
  <2> QED
    BY <1>1, <1>3, <2>1, <2>2 DEF StreamShape
<1>17. Aligned(c)'
  <2>1. AlignedAt(script[c], n + 1, r, recvq[c], todo[c])
    BY <1>4, <1>6, <1>7, <1>11, <1>12, FrameExecuted DEF AlignedAt
  <2> QED
    BY <1>1, <1>15, <2>1, AlignedIs
<1>18. wbuf[c] = << >> /\ wbuf_sent[c] = 0
  BY <1>1, <1>2 DEF TablesInv, InterestFollows, AwaitsRequest
<1>19. Delivers(c)'
  <2>1. DeliversAt(script[c], n, sock[c], got[c], sendq[c], << >>)
    BY <1>2, <1>5, <1>18, DeliversIs, DropNothing DEF Strand
  <2>2. PICK g \in Seq(Bytes) : g = Joined(got[c], sendq[c])
    BY <1>4, JoinedType
  <2>3. PICK p \in Seq(Bytes) : p = FirstReplies(script[c], n)
    BY <1>4, <1>8, FirstRepliesType
  <2>4. FirstReplies(script[c], n + 1) = p \o x
    BY <1>4, <1>8, <1>10, <2>3, FirstRepliesNext
  <2>5. IsPrefix(g, p) /\ (sock[c] = "open" => Joined(g, << >>) = p)
    BY <2>1, <2>2, <2>3 DEF DeliversAt
  <2>6. IsPrefix(g, p \o x)
    BY <2>5, PrefixExtended
  <2>7. Joined(g, << >>) = g
    BY ConcatEmptySeq DEF Joined
  <2>8. Drop(x, 0) = x
    BY SubSeqFull DEF Drop
  <2>9. DeliversAt(script[c], n + 1, sock[c], got[c], sendq[c], Drop(x, 0))
    BY <2>2, <2>4, <2>5, <2>6, <2>7, <2>8 DEF DeliversAt, Joined
  <2>10. wbuf_sent'[c] = 0
    BY <1>1, <1>18
  <2> QED
    BY <1>1, <1>15, <2>9, <2>10, DeliversIs
<1>20. Fits(c)'
  <2>1. wbuf_sent'[c] = 0 /\ Len(x) \in Nat
    BY <1>1, <1>18, LenProperties
  <2>2. Len(r) \in Nat /\ Len(rbuf[c]) \in Nat /\ BufSize \in Nat
    BY <1>4, <1>13, LenProperties, LimitAssumption DEF BufSize
  <2>3. Len(r) <= BufSize
    BY <1>2, <1>13, <2>2 DEF Strand, Fits
  <2> QED
    BY <1>10, <1>15, <2>1, <2>3 DEF Fits
<1>21. Connected(c)' /\ state'[c] # "STATE_END"
  BY <1>1, <1>2, <1>15 DEF Connected
<1>22. \A d \in Clients : c # d =>
         /\ wbuf'[d] = wbuf[d] /\ rbuf'[d] = rbuf[d] /\ served'[d] = served[d]
         /\ state'[d] = state[d]
  BY <1>3, <1>14 DEF StreamShape, Streams, Shape
<1> QED
  BY <1>1, <1>2, <1>16, <1>17, <1>19, <1>20, <1>21, <1>22, BusyStrand

(* What one write does to the streams. *)
LEMMA TransmitStrand ==
  ASSUME StreamShape, NEW c \in Clients, c = cur, Strand(c), Connected(c),
         NEW u \in Seq(Bytes), u = Unsent(c), NEW k \in 0 .. Len(u), Transmit(k)
  PROVE  /\ sock' \in [Clients -> Sockets] /\ sendq' \in Streams
         /\ \A d \in Clients : c # d => sock'[d] = sock[d] /\ sendq'[d] = sendq[d]
         /\ sock'[c] \in {"open", "fin", "finsent", "reset", "broken"}
         /\ sock'[c] = "open" <=> sock[c] = "open"
         /\ DeliversAt(script[c], served[c], sock'[c], got[c], sendq'[c], Drop(u, k))
<1>1. /\ script[c] \in Seq(Requests) /\ served[c] \in Nat
      /\ got[c] \in Seq(Bytes) /\ sendq[c] \in Seq(Bytes)
  BY StrandTypes
<1>2. PICK t \in Seq(Bytes) : t = Take(u, k)
  BY TakeDrop
<1>3. PICK w \in Seq(Bytes) : w = Drop(u, k)
  BY TakeDrop
<1>4. PICK s \in Seq(Bytes) : s = IF sock[c] = "open" THEN Joined(sendq[c], t) ELSE sendq[c]
  <2>1. Joined(sendq[c], t) \in Seq(Bytes)
    BY <1>1, <1>2, JoinedType
  <2> QED
    BY <1>1, <2>1
<1>5. sendq' = [sendq EXCEPT ![c] = s]
  BY <1>2, <1>4 DEF Transmit, Joined, StreamShape, Streams
<1>6. sock' = [sock EXCEPT ![c] = IF @ = "fin" THEN "finsent" ELSE @]
  BY DEF Transmit
<1>7. /\ sock'[c] \in {"open", "fin", "finsent", "reset", "broken"}
      /\ sock'[c] = "open" <=> sock[c] = "open"
  BY <1>6 DEF StreamShape, Connected
<1>8. DeliversAt(script[c], served[c], sock[c], got[c], sendq[c], u)
  BY DeliversIs DEF Strand, Unsent
<1>9. DeliversAt(script[c], served[c], sock'[c], got[c], s, w)
  <2>1. CASE sock[c] = "open"
    <3>1. s = Joined(sendq[c], t) /\ Joined(t, w) = u
      BY <1>2, <1>3, <1>4, <2>1, TakeDrop DEF Joined
    <3>2. Joined(Joined(got[c], Joined(sendq[c], t)), w)
            = Joined(Joined(got[c], sendq[c]), Joined(t, w))
      <4>1. Joined(got[c], Joined(sendq[c], t)) = Joined(Joined(got[c], sendq[c]), t)
        BY <1>1, JoinedAssociative
      <4>2. PICK g \in Seq(Bytes) : g = Joined(got[c], sendq[c])
        BY <1>1, JoinedType
      <4>3. Joined(Joined(g, t), w) = Joined(g, Joined(t, w))
        BY JoinedAssociative
      <4> QED
        BY <4>1, <4>2, <4>3
    <3>3. Joined(Joined(got[c], s), w) = FirstReplies(script[c], served[c])
      BY <1>8, <2>1, <3>1, <3>2 DEF DeliversAt
    <3>4. IsPrefix(Joined(got[c], s), Joined(Joined(got[c], s), w))
      <4>1. PICK g \in Seq(Bytes) : g = Joined(got[c], s)
        BY <1>1, <1>4, JoinedType
      <4>2. IsPrefix(g, g \o w)
        BY <1>3, PrefixIntro
      <4> QED
        BY <4>1, <4>2 DEF Joined
    <3> QED
      BY <3>3, <3>4 DEF DeliversAt
  <2>2. CASE sock[c] # "open"
    BY <1>4, <1>7, <1>8, <2>2 DEF DeliversAt
  <2> QED
    BY <2>1, <2>2
<1>10. sock' \in [Clients -> Sockets]
  BY <1>6 DEF StreamShape, Sockets
<1>11. sendq' \in Streams /\ sendq'[c] = s
  BY <1>4, <1>5 DEF StreamShape, Streams, Bytes
<1>12. \A d \in Clients : c # d => sock'[d] = sock[d] /\ sendq'[d] = sendq[d]
  BY <1>5, <1>6 DEF StreamShape, Streams
<1> QED
  BY <1>3, <1>7, <1>9, <1>10, <1>11, <1>12

(* The part of the reply that is left to send. *)
LEMMA UnsentPart ==
  ASSUME TablesInv, StreamShape, pc = "flush"
  PROVE  /\ wbuf[cur] \in Seq(Bytes) /\ Unsent(cur) \in Seq(Bytes)
         /\ wbuf_sent[cur] \in Nat /\ Len(wbuf[cur]) \in Nat
         /\ Len(Unsent(cur)) = Len(wbuf[cur]) - wbuf_sent[cur] /\ Len(Unsent(cur)) \in Nat
<1>1. /\ cur \in Clients /\ wbuf_sent[cur] \in 0 .. Len(wbuf[cur]) /\ Len(wbuf[cur]) \in Nat
      /\ Len(Unsent(cur)) = Len(wbuf[cur]) - wbuf_sent[cur]
  BY UnsentLen
<1>2. wbuf[cur] \in Seq(Bytes)
  BY <1>1, StrandTypes
<1>3. Unsent(cur) \in Seq(Bytes)
  BY <1>1, <1>2, TakeDrop DEF Unsent
<1> QED
  BY <1>1, <1>2, <1>3

LEMMA WritePartStrand ==
  ASSUME TablesInv, StreamsInv, WritePart
  PROVE  StreamsInv'
<1> USE DEF clientVars, kernVars, loopVars
<1>1. /\ UNCHANGED <<clientVars, recvq, backlog, kernVars, fd, state, rbuf, wbuf, served,
                     loopVars>>
      /\ pc = "flush" /\ pc \in Processing
      /\ Space(cur) > 0 /\ Space(cur) < Len(Unsent(cur)) /\ Transmit(Space(cur))
      /\ wbuf_sent' = [wbuf_sent EXCEPT ![cur] = @ + Space(cur)]
  BY DEF WritePart, CanWrite, Processing
<1>2. PICK c \in Clients : c = cur /\ Accepted(c) /\ Connected(c) /\ Strand(c)
  BY <1>1, CurStrand
<1>3. StreamShape /\ Shape
  BY DEF StreamsInv, TablesInv
<1>4. /\ wbuf[c] \in Seq(Bytes) /\ Unsent(c) \in Seq(Bytes)
      /\ wbuf_sent[c] \in Nat /\ Len(wbuf[c]) \in Nat
      /\ Len(Unsent(c)) = Len(wbuf[c]) - wbuf_sent[c] /\ Len(Unsent(c)) \in Nat
  BY <1>1, <1>2, <1>3, UnsentPart
<1>5. PICK k \in Nat : k = Space(c) /\ k < Len(Unsent(c))
  <2>1. Len(sendq[c]) \in Nat
    BY <1>3, StrandTypes, LenProperties
  <2>2. Space(c) \in Int
    BY <1>4, <2>1, LimitAssumption DEF Space
  <2> QED
    BY <1>1, <1>2, <1>4, <2>2
<1>6. PICK u \in Seq(Bytes) : u = Unsent(c)
  BY <1>4
<1>7. k \in 0 .. Len(u) /\ wbuf_sent[c] + k <= Len(wbuf[c])
  BY <1>4, <1>5, <1>6
<1>8. /\ sock' \in [Clients -> Sockets] /\ sendq' \in Streams
      /\ \A d \in Clients : c # d => sock'[d] = sock[d] /\ sendq'[d] = sendq[d]
      /\ sock'[c] \in {"open", "fin", "finsent", "reset", "broken"}
      /\ sock'[c] = "open" <=> sock[c] = "open"
      /\ DeliversAt(script[c], served[c], sock'[c], got[c], sendq'[c], Drop(u, k))
  BY <1>1, <1>2, <1>3, <1>5, <1>6, <1>7, TransmitStrand
<1>9. wbuf_sent' = [wbuf_sent EXCEPT ![c] = wbuf_sent[c] + k] /\ wbuf_sent'[c] = wbuf_sent[c] + k
  BY <1>1, <1>2, <1>3, <1>5 DEF Shape
<1>10. StreamShape'
  BY <1>1, <1>3, <1>8 DEF StreamShape
<1>11. Aligned(c)'
  BY <1>1, <1>2, AlignedKept DEF Strand
<1>12. Delivers(c)'
  <2>1. Drop(u, k) = Drop(wbuf[c], wbuf_sent[c] + k)
    BY <1>4, <1>6, <1>7, DropTwice DEF Unsent
  <2> QED
    BY <1>1, <1>8, <1>9, <2>1, DeliversIs
<1>13. Fits(c)'
  BY <1>1, <1>2, <1>7, <1>9 DEF Strand, Fits
<1>14. Connected(c)' /\ (state'[c] = "STATE_END" /\ sock'[c] = "open" => HeadRejected(c)')
  BY <1>1, <1>2, <1>8 DEF Connected, Strand, Ends, HeadRejected
<1>15. \A d \in Clients : c # d => wbuf_sent'[d] = wbuf_sent[d]
  BY <1>3, <1>9 DEF Shape
<1> QED
  BY <1>1, <1>2, <1>8, <1>10, <1>11, <1>12, <1>13, <1>14, <1>15, BusyStrand

LEMMA WriteAllStrand ==
  ASSUME TablesInv, StreamsInv, WriteAll
  PROVE  StreamsInv'
<1> USE DEF clientVars
<1>1. /\ UNCHANGED <<clientVars, recvq, backlog, file, fd, rbuf, served, batch, cur, from,
                     fd2conn>>
      /\ pc = "flush" /\ pc \in Processing /\ pc' \in {"parse", "after"}
      /\ Transmit(Len(Unsent(cur))) /\ AwaitRequest(cur)
  BY DEF WriteAll, CanWrite, Processing
<1>2. PICK c \in Clients : c = cur /\ Accepted(c) /\ Connected(c) /\ Strand(c)
  BY <1>1, CurStrand
<1>3. StreamShape /\ Shape
  BY DEF StreamsInv, TablesInv
<1>4. Unsent(c) \in Seq(Bytes) /\ Len(Unsent(c)) \in Nat
  BY <1>1, <1>2, <1>3, UnsentPart
<1>5. PICK u \in Seq(Bytes) : u = Unsent(c)
  BY <1>4
<1>6. PICK k \in 0 .. Len(u) : k = Len(u)
  BY <1>4, <1>5
<1>7. /\ sock' \in [Clients -> Sockets] /\ sendq' \in Streams
      /\ \A d \in Clients : c # d => sock'[d] = sock[d] /\ sendq'[d] = sendq[d]
      /\ sock'[c] \in {"open", "fin", "finsent", "reset", "broken"}
      /\ sock'[c] = "open" <=> sock[c] = "open"
      /\ DeliversAt(script[c], served[c], sock'[c], got[c], sendq'[c], Drop(u, k))
  BY <1>1, <1>2, <1>3, <1>5, <1>6, TransmitStrand
<1>8. /\ state' = [state EXCEPT ![c] = "STATE_REQ"]
      /\ wbuf' = [wbuf EXCEPT ![c] = << >>]
      /\ wbuf_sent' = [wbuf_sent EXCEPT ![c] = 0]
  BY <1>1, <1>2 DEF AwaitRequest
<1>9. /\ wbuf'[c] = << >> /\ wbuf_sent'[c] = 0 /\ state'[c] = "STATE_REQ"
      /\ \A d \in Clients : c # d =>
           state'[d] = state[d] /\ wbuf'[d] = wbuf[d] /\ wbuf_sent'[d] = wbuf_sent[d]
  BY <1>3, <1>8 DEF Shape, StreamShape, Streams
<1>10. StreamShape'
  <2>1. << >> \in Seq(Bytes)
    BY EmptySeq
  <2>2. wbuf' \in Streams
    BY <1>3, <1>8, <2>1 DEF StreamShape, Streams, Bytes
  <2> QED
    BY <1>1, <1>3, <1>7, <2>2 DEF StreamShape
<1>11. Aligned(c)'
  BY <1>1, <1>2, AlignedKept DEF Strand
<1>12. Delivers(c)'
  <2>1. Drop(u, k) = Drop(<< >>, 0)
    BY <1>6, DropAll, DropNothing
  <2> QED
    BY <1>1, <1>7, <1>9, <2>1, DeliversIs
<1>13. Fits(c)'
  <2>1. Len(<< >>) = 0 /\ BufSize \in Nat
    BY LimitAssumption, EmptySeq DEF BufSize
  <2> QED
    BY <1>1, <1>2, <1>9, <2>1 DEF Strand, Fits
<1>14. Connected(c)' /\ state'[c] # "STATE_END"
  BY <1>7, <1>9 DEF Connected
<1> QED
  BY <1>1, <1>2, <1>7, <1>9, <1>10, <1>11, <1>12, <1>13, <1>14, BusyStrand

LEMMA DestroyConnStrand ==
  ASSUME TablesInv, StreamsInv, DestroyConn
  PROVE  StreamsInv'
<1> USE DEF clientVars
<1>1. /\ UNCHANGED <<clientVars, recvq, backlog, state, rbuf, wbuf, wbuf_sent, served,
                     batch, from>>
      /\ pc = "after" /\ pc \in Processing /\ pc' = "dispatch"
      /\ state[cur] = "STATE_END" /\ Discard(cur) /\ Release(cur)
  BY DEF DestroyConn, Processing
<1>2. PICK c \in Clients : /\ c = cur /\ Accepted(c) /\ Connected(c) /\ Strand(c)
                           /\ ~ Waiting(c)
  BY <1>1, CurStrand
<1>3. StreamShape /\ Shape
  BY DEF StreamsInv, TablesInv
<1>4. PICK n \in 0 .. Len(sendq[c]) : sendq' = [sendq EXCEPT ![c] = Take(sendq[c], n)]
  BY <1>1, <1>2, <1>3 DEF Discard, StreamShape, Streams
<1>5. /\ script[c] \in Seq(Requests) /\ served[c] \in Nat
      /\ got[c] \in Seq(Bytes) /\ sendq[c] \in Seq(Bytes)
  BY <1>3, StrandTypes
<1>6. PICK s \in Seq(Bytes) : s = Take(sendq[c], n)
  BY <1>5, TakeDrop
<1>7. PICK t \in Seq(Bytes) : t = Drop(sendq[c], n)
  BY <1>5, TakeDrop
<1>8. Joined(s, t) = sendq[c]
  BY <1>5, <1>6, <1>7, TakeDrop DEF Joined
<1>9. /\ sock' = [sock EXCEPT ![c] = IF @ = "open" THEN "dropped" ELSE "gone"]
      /\ fd' = [fd EXCEPT ![c] = NULL]
  BY <1>1, <1>2 DEF Release, Closed
<1>10. /\ sendq'[c] = s /\ fd'[c] = NULL
       /\ sock'[c] \in {"dropped", "gone"} /\ (sock'[c] = "dropped" => sock[c] = "open")
  BY <1>3, <1>4, <1>6, <1>9 DEF StreamShape, Streams, Shape
<1>11. StreamShape'
  <2>1. sendq' \in Streams
    BY <1>3, <1>4, <1>6 DEF StreamShape, Streams, Bytes
  <2>2. sock' \in [Clients -> Sockets]
    BY <1>3, <1>9 DEF StreamShape, Sockets
  <2> QED
    BY <1>1, <1>3, <2>1, <2>2 DEF StreamShape
<1>12. \A d \in Clients : c # d => Same(d)
  BY <1>1, <1>3, <1>4, <1>9 DEF Same, Waiting, StreamShape, Streams, Shape
<1>13. Aligned(c)'
  BY <1>1, <1>2, AlignedKept DEF Strand
<1>14. Delivers(c)'
  <2>1. FirstReplies(script[c], served[c]) \in Seq(Bytes)
    BY <1>2, <1>5, FirstRepliesType DEF Strand, Aligned
  <2> QED
    BY <1>1, <1>2, <1>5, <1>8, <1>10, <2>1, DeliversPrefix DEF Strand
<1>15. Ends(c)'
  <2>1. sock'[c] = "dropped" => HeadRejected(c)'
    BY <1>1, <1>2, <1>10 DEF Strand, Ends, HeadRejected
  <2>2. ~ Waiting(c)' /\ ~ Accepted(c)'
    BY <1>1, <1>2, <1>10 DEF Waiting, Accepted
  <2> QED
    BY <1>10, <2>1, <2>2 DEF Ends
<1>16. Fits(c)'
  BY <1>1, <1>2 DEF Strand, Fits
<1>17. Strand(c)'
  BY <1>13, <1>14, <1>15, <1>16 DEF Strand
<1> QED
  BY <1>1, <1>11, <1>12, <1>17, StrandStep

-----------------------------------------------------------------------------
(* The theorems.                                                           *)

LEMMA NextKeepsStreams == TablesInv /\ StreamsInv /\ [Next]_vars => StreamsInv'
<1> SUFFICES ASSUME TablesInv, StreamsInv, [Next]_vars  PROVE StreamsInv'
  OBVIOUS
<1>1. CASE UNCHANGED vars
  <2>1. UNCHANGED <<clientVars, netVars, connVars>> /\ UNCHANGED <<pc, from>>
    BY <1>1 DEF vars, loopVars
  <2>2. StreamShape'
    BY <2>1 DEF StreamsInv, StreamShape, clientVars, netVars, connVars
  <2> QED
    BY <2>1, <2>2, PcStill
<1>2. CASE Thread
  BY <1>2, StillSteps, AcceptStrand, ConnMallocFailsStrand, DestroyConnStrand,
     FillBufferStrand, EndConnStrand, TryOneRequestStrand, WritePartStrand, WriteAllStrand
     DEF Thread, Loop, Connection
<1>3. CASE Fault
  BY <1>3, StillSteps, AcceptDiesStrand DEF Fault
<1>4. CASE \E c \in Clients : Peer(c)
  BY <1>4, PeerStrand
<1> QED
  BY <1>1, <1>2, <1>3, <1>4 DEF Next

(* The invariant of the streams: every client's bytes are the frames it    *)
(* set out to send and the replies to those executed, wherever they are,   *)
(* and a connection ends for one of the reasons the code gives it.         *)
THEOREM StreamsStayWhole == Spec => []StreamsInv
<1>1. Spec => []TablesInv
  BY TablesStayConsistent
<1>2. Init => StreamsInv
  BY InitStreams
<1>3. TablesInv /\ StreamsInv /\ [Next]_vars => StreamsInv'
  BY NextKeepsStreams
<1> QED
  BY <1>1, <1>2, <1>3, PTL DEF Spec

(* try_fill_buffer and try_one_request cut what a client sends at the      *)
(* frames it is made of, however it arrives; none is skipped or repeated.  *)
THEOREM RequestsStayAligned == Spec => []RequestStream
<1>1. StreamsInv => RequestStream
  BY DEF StreamsInv, Strand, Aligned, RequestStream
<1> QED
  BY <1>1, StreamsStayWhole, PTL

(* try_flush_buffer delivers the replies of do_request once each and in    *)
(* order, however the kernel cuts its writes.                              *)
THEOREM RepliesStayInOrder == Spec => []ReplyStream
<1>1. StreamsInv => ReplyStream
  BY DEF StreamsInv, Strand, Delivers, ReplyStream
<1> QED
  BY <1>1, StreamsStayWhole, PTL

(* A connection the server closes with its client still there had a frame  *)
(* next that try_one_request rejects.                                      *)
THEOREM OnlyBadFramesEnd == Spec => []DroppedOnlyIfBad
<1>1. StreamsInv => DroppedOnlyIfBad
  BY DEF StreamsInv, Strand, Ends, HeadRejected, DroppedOnlyIfBad
<1> QED
  BY <1>1, StreamsStayWhole, PTL

(* Every variable keeps its type, and no buffer of a Conn overflows. *)
THEOREM TypesStayCorrect == Spec => []TypeOK
<1>1. ASSUME TablesInv, StreamsInv  PROVE TypeOK
  <2>1. StreamShape /\ Shape
    BY <1>1 DEF TablesInv, StreamsInv
  <2>2. ToSet(backlog) \subseteq Clients
    BY <2>1, ElementOfSeq, LenProperties DEF Shape, ToSet
  <2>3. \A i \in DOMAIN batch :
          batch[i] \in [fd : Fds \cup {ListenFd}, owner : Clients \cup {NULL}]
    <3>1. DOMAIN batch = 1 .. Len(batch)
      BY <2>1, LenProperties DEF Shape
    <3> QED
      BY <2>1, <3>1, ElementOfSeq DEF Shape
  <2>4. ASSUME NEW c \in Clients
        PROVE  /\ Len(rbuf[c]) <= BufSize /\ Len(wbuf[c]) <= BufSize
               /\ wbuf_sent[c] \in 0 .. Len(wbuf[c])
    <3>1. Fits(c) /\ wbuf_sent[c] \in Nat /\ wbuf[c] \in Seq(Bytes)
      BY <1>1, <2>1, StrandTypes DEF StreamsInv, Strand, Shape
    <3>2. Len(wbuf[c]) \in Nat
      BY <3>1, LenProperties
    <3> QED
      BY <3>1, <3>2 DEF Fits
  <2>5. fd2conn \in [Fds -> Clients \cup {NULL}]
    BY <1>1, <2>1 DEF TablesInv, TablesAgree, Shape
  <2> QED
    BY <2>1, <2>2, <2>3, <2>4, <2>5 DEF TypeOK, StreamShape, Shape, Sockets
<1> QED
  BY <1>1, TablesStayConsistent, StreamsStayWhole, PTL
=============================================================================
