-------------------------- MODULE NanoRedisProofs --------------------------
(***************************************************************************)
(* Proofs about the client program and the server together, for words of   *)
(* any size, any limit and any commands: the parser of requests accepts    *)
(* just the encoded commands; on_response reads back every reply; and the  *)
(* clients' calls are those of Service.                                    *)
(***************************************************************************)
EXTENDS NanoRedisProps, LibraryProofs

-----------------------------------------------------------------------------
(* The number in a word.                                                   *)

LEMMA ByteIsNatural == \A b \in Byte : b \in Nat
  BY DEF Byte

(* The function FoldRight chooses, on the subsets of a set of places.      *)
Folds(f, w, I) ==
  f = [s \in SUBSET I |-> IF s = {} THEN 0 ELSE w[Min(s)] + 256 * f[s \ {Min(s)}]]

LEMMA NumberFolds ==
  ASSUME NEW data, NEW at, NEW w, w = SubSeq(data, at + 1, at + WordSize)
  PROVE  Number(data, at) = (CHOOSE f : Folds(f, w, DOMAIN w))[DOMAIN w]
BY DEF Number, FoldRight, MapThenFoldSet, Folds

LEMMA MinOfInterval ==
  ASSUME NEW i \in Nat, NEW m \in Nat, NEW s \in SUBSET (i .. m), i \in s
  PROVE  Min(s) = i
<1>1. s \in SUBSET Nat /\ s # {}
  OBVIOUS
<1>2. PICK l : l = Min(s)
  OBVIOUS
<1>3. l \in s /\ \A j \in s : l <= j
  BY <1>1, <1>2, MinOfNaturals
<1>4. l \in i .. m /\ l <= i
  BY <1>3
<1> QED
  BY <1>2, <1>4

LEMMA FirstOfInterval ==
  ASSUME NEW m \in Nat, NEW i \in 1 .. m
  PROVE  /\ i .. m \in SUBSET (1 .. m)
         /\ i .. m # {}
         /\ Min(i .. m) = i
         /\ (i .. m) \ {i} = i + 1 .. m
<1>1. i \in Nat /\ i \in i .. m /\ i .. m \in SUBSET (i .. m)
  OBVIOUS
<1>2. Min(i .. m) = i
  BY <1>1, MinOfInterval
<1>3. i .. m # {}
  BY <1>1
<1> QED
  BY <1>2, <1>3

LEMMA FoldsAt ==
  ASSUME NEW f, NEW w, NEW I, Folds(f, w, I), NEW s \in SUBSET I, s # {}
  PROVE  f[s] = w[Min(s)] + 256 * f[s \ {Min(s)}]
  BY DEF Folds

LEMMA FoldsExist ==
  ASSUME NEW w
  PROVE  \A n \in Nat : \A k \in Nat : \E f : Folds(f, w, k + 1 .. k + n)
<1> DEFINE U == {n \in Nat : \A k \in Nat : \E f : Folds(f, w, k + 1 .. k + n)}
<1>1. 0 \in U
  <2>1. ASSUME NEW k \in Nat  PROVE \E f : Folds(f, w, k + 1 .. k + 0)
    <3> DEFINE f == [s \in SUBSET (k + 1 .. k + 0) |-> 0]
    <3>1. \A s \in SUBSET (k + 1 .. k + 0) : s = {}
      OBVIOUS
    <3>2. Folds(f, w, k + 1 .. k + 0)
      BY <3>1 DEF Folds
    <3> QED
      BY <3>2
  <2> QED
    BY <2>1
<1>2. ASSUME NEW n \in Nat, n \in U  PROVE n + 1 \in U
  <2>1. ASSUME NEW k \in Nat  PROVE \E f : Folds(f, w, k + 1 .. k + (n + 1))
    <3> DEFINE I == k + 1 .. k + (n + 1)
               J == (k + 1) + 1 .. (k + 1) + n
    <3> HIDE DEF J
    <3>1. PICK f : Folds(f, w, J)
      <4>1. k + 1 \in Nat
        OBVIOUS
      <4> QED
        BY <1>2, <4>1 DEF J
    <3> USE DEF J
    <3> DEFINE g == [s \in SUBSET I |->
                       IF k + 1 \in s THEN w[k + 1] + 256 * f[s \ {k + 1}] ELSE f[s]]
    <3>2. ASSUME NEW s \in SUBSET I
          PROVE  g[s] = IF s = {} THEN 0 ELSE w[Min(s)] + 256 * g[s \ {Min(s)}]
      <4>1. CASE k + 1 \in s
        <5>1. Min(s) = k + 1
          <6>1. k + 1 \in Nat /\ k + (n + 1) \in Nat
            OBVIOUS
          <6> QED
            BY <4>1, <6>1, MinOfInterval
        <5>2. s \ {k + 1} \in SUBSET I /\ k + 1 \notin s \ {k + 1}
          OBVIOUS
        <5>3. g[s \ {k + 1}] = f[s \ {k + 1}] /\ g[s] = w[k + 1] + 256 * f[s \ {k + 1}]
          BY <4>1, <5>2
        <5> QED
          BY <4>1, <5>1, <5>3
      <4>2. CASE k + 1 \notin s
        <5>1. s \in SUBSET J
          BY <4>2
        <5>2. f[s] = IF s = {} THEN 0 ELSE w[Min(s)] + 256 * f[s \ {Min(s)}]
          BY <3>1, <5>1 DEF Folds
        <5>3. s \ {Min(s)} \in SUBSET I /\ k + 1 \notin s \ {Min(s)}
          BY <4>2
        <5>4. g[s] = f[s] /\ g[s \ {Min(s)}] = f[s \ {Min(s)}]
          BY <4>2, <5>3
        <5> QED
          BY <5>2, <5>4
      <4> QED
        BY <4>1, <4>2
    <3>3. g = [s \in SUBSET I |-> g[s]]
      OBVIOUS
    <3> HIDE DEF g, I
    <3>4. Folds(g, w, I)
      BY <3>2, <3>3 DEF Folds
    <3> QED
      BY <3>4 DEF I
  <2> QED
    BY <2>1
<1> HIDE DEF U
<1>3. \A n \in Nat : n \in U
  BY <1>1, <1>2, NaturalsFromZero
<1> QED
  BY <1>3 DEF U

(* rest[i] is the number in what follows the first i - 1 bytes of a word.  *)
Remainders(rest, data, at) ==
  /\ rest \in [1 .. WordSize + 1 -> Nat]
  /\ rest[WordSize + 1] = 0
  /\ \A i \in 1 .. WordSize : rest[i] = data[at + i] + 256 * rest[i + 1]
  /\ rest[1] = Number(data, at)

LEMMA NumberHasRemainders ==
  ASSUME NEW data \in Seq(Byte), NEW at \in Nat, at + WordSize <= Len(data)
  PROVE  \E rest : Remainders(rest, data, at)
<1> DEFINE w == SubSeq(data, at + 1, at + WordSize)
<1>1. WordSize \in Nat /\ WordSize # 0 /\ Len(data) \in Nat
  BY WordAssumption, LenProperties
<1>2. \A i \in at + 1 .. at + WordSize : data[i] \in Byte
  BY <1>1, ElementOfSeq
<1>3. /\ w \in Seq(Byte)
      /\ Len(w) = WordSize
      /\ \A i \in 1 .. WordSize : w[i] = data[at + i]
  <2>1. /\ w \in Seq(Byte)
        /\ Len(w) = IF at + 1 <= at + WordSize THEN (at + WordSize) - (at + 1) + 1 ELSE 0
        /\ \A i \in 1 .. (at + WordSize) - (at + 1) + 1 : w[i] = data[(at + 1) + i - 1]
    BY <1>1, <1>2, SubSeqProperties
  <2>2. ASSUME NEW i \in 1 .. WordSize  PROVE w[i] = data[at + i]
    <3>1. i \in 1 .. (at + WordSize) - (at + 1) + 1 /\ (at + 1) + i - 1 = at + i
      BY <1>1
    <3> QED
      BY <2>1, <3>1
  <2> QED
    BY <1>1, <2>1, <2>2
<1>4. DOMAIN w = 1 .. WordSize
  BY <1>3, LenProperties
<1> HIDE DEF w
<1>5. \E f : Folds(f, w, 1 .. WordSize)
  <2>1. 1 .. WordSize = 0 + 1 .. 0 + WordSize
    BY <1>1
  <2> QED
    BY <1>1, <2>1, FoldsExist
<1>6. PICK f : Folds(f, w, 1 .. WordSize) /\ Number(data, at) = f[1 .. WordSize]
  BY <1>4, <1>5, NumberFolds DEF w
<1> DEFINE rest == [i \in 1 .. WordSize + 1 |-> f[i .. WordSize]]
<1>7. rest[WordSize + 1] = 0
  <2>1. WordSize + 1 .. WordSize = {} /\ WordSize + 1 \in 1 .. WordSize + 1
    BY <1>1
  <2>2. f[{}] = 0
    BY <1>6 DEF Folds
  <2> QED
    BY <2>1, <2>2
<1>8. ASSUME NEW i \in 1 .. WordSize  PROVE rest[i] = data[at + i] + 256 * rest[i + 1]
  <2>1. i .. WordSize \in SUBSET (1 .. WordSize) /\ i .. WordSize # {}
    BY <1>1, FirstOfInterval
  <2>2. Min(i .. WordSize) = i
    BY <1>1, FirstOfInterval
  <2>3. (i .. WordSize) \ {i} = i + 1 .. WordSize
    BY <1>1, FirstOfInterval
  <2>4. f[i .. WordSize] = w[i] + 256 * f[i + 1 .. WordSize]
    <3> HIDE DEF w
    <3>1. f[i .. WordSize] =
            w[Min(i .. WordSize)] + 256 * f[(i .. WordSize) \ {Min(i .. WordSize)}]
      <4> HIDE DEF rest
      <4>1. PICK I : I = 1 .. WordSize
        OBVIOUS
      <4>2. PICK s : s = i .. WordSize
        OBVIOUS
      <4>3. Folds(f, w, I) /\ s \in SUBSET I /\ s # {}
        BY <1>6, <2>1, <4>1, <4>2
      <4>4. f[s] = w[Min(s)] + 256 * f[s \ {Min(s)}]
        BY <4>3, FoldsAt
      <4> QED
        BY <4>2, <4>4
    <3> QED
      BY <2>2, <2>3, <3>1
  <2>5. i \in 1 .. WordSize + 1 /\ i + 1 \in 1 .. WordSize + 1
    BY <1>1
  <2> QED
    BY <1>3, <2>4, <2>5
<1>9. rest[1] = Number(data, at)
  <2>1. 1 \in 1 .. WordSize + 1
    BY <1>1
  <2> QED
    BY <1>6, <2>1
<1>10. rest = [i \in 1 .. WordSize + 1 |-> rest[i]]
  OBVIOUS
<1> HIDE DEF rest
<1>11. \A i \in 1 .. WordSize + 1 : rest[i] \in Nat
  <2> DEFINE U == {n \in Nat : n <= WordSize => rest[WordSize + 1 - n] \in Nat}
  <2>1. 0 \in U
    BY <1>1, <1>7
  <2>2. ASSUME NEW n \in Nat, n \in U  PROVE n + 1 \in U
    <3>1. CASE n + 1 <= WordSize
      <4>1. PICK i \in 1 .. WordSize : i = WordSize + 1 - (n + 1) /\ i + 1 = WordSize + 1 - n
        BY <1>1, <3>1
      <4>2. rest[i + 1] \in Nat
        <5>1. n <= WordSize
          BY <1>1, <3>1
        <5>2. rest[WordSize + 1 - n] \in Nat
          BY <2>2, <5>1
        <5> QED
          BY <1>1, <4>1, <5>2
      <4>3. data[at + i] \in Nat
        <5>1. at + i \in at + 1 .. at + WordSize
          BY <1>1
        <5>2. data[at + i] \in Byte
          BY <1>2, <5>1
        <5> QED
          BY <5>2, ByteIsNatural
      <4>4. rest[i] \in Nat
        BY <1>8, <4>2, <4>3
      <4> QED
        BY <4>1, <4>4
    <3> QED
      BY <1>1, <3>1
  <2> HIDE DEF U
  <2>3. \A n \in Nat : n \in U
    BY <2>1, <2>2, NaturalsFromZero
  <2>4. ASSUME NEW i \in 1 .. WordSize + 1  PROVE rest[i] \in Nat
    <3>1. /\ WordSize + 1 - i \in Nat
          /\ WordSize + 1 - i <= WordSize
          /\ WordSize + 1 - (WordSize + 1 - i) = i
      BY <1>1
    <3>2. WordSize + 1 - i \in U
      BY <2>3, <3>1
    <3> QED
      BY <3>1, <3>2 DEF U
  <2> QED
    BY <2>4
<1>12. rest \in [1 .. WordSize + 1 -> Nat]
  BY <1>10, <1>11
<1> QED
  BY <1>7, <1>8, <1>9, <1>12 DEF Remainders

LEMMA NumberType ==
  ASSUME NEW data \in Seq(Byte), NEW at \in Nat, at + WordSize <= Len(data)
  PROVE  Number(data, at) \in Nat
<1>1. PICK rest : Remainders(rest, data, at)
  BY NumberHasRemainders
<1>2. 1 \in 1 .. WordSize + 1
  BY WordAssumption
<1> QED
  BY <1>1, <1>2 DEF Remainders

(* What the conversion of a number into bytes divides down.                *)
Halves(h, n, width) ==
  h = [i \in 0 .. width |-> IF i = 0 THEN n ELSE h[i - 1] \div 256]

LEMMA HalvesExist ==
  ASSUME NEW n \in Nat, NEW width \in Nat
  PROVE  \E h \in [0 .. width -> Nat] : Halves(h, n, width)
<1> DEFINE UpTo(h, k) ==
             h = [i \in 0 .. k |-> IF i = 0 THEN n ELSE h[i - 1] \div 256]
           U == {k \in Nat : \E h \in [0 .. k -> Nat] : UpTo(h, k)}
<1>1. 0 \in U
  <2> DEFINE h == [i \in 0 .. 0 |-> n]
  <2>1. h \in [0 .. 0 -> Nat] /\ UpTo(h, 0)
    OBVIOUS
  <2> QED
    BY <2>1
<1>2. ASSUME NEW k \in Nat, k \in U  PROVE k + 1 \in U
  <2>1. PICK h \in [0 .. k -> Nat] : UpTo(h, k)
    BY <1>2
  <2> DEFINE g == [i \in 0 .. k + 1 |-> IF i <= k THEN h[i] ELSE h[k] \div 256]
  <2>2. g \in [0 .. k + 1 -> Nat]
    <3>1. ASSUME NEW i \in 0 .. k  PROVE h[i] \in Nat
      OBVIOUS
    <3>2. k \in 0 .. k
      OBVIOUS
    <3>3. h[k] \div 256 \in Nat
      BY <3>1, <3>2
    <3>4. \A i \in 0 .. k + 1 : i <= k => i \in 0 .. k
      OBVIOUS
    <3> QED
      BY <3>1, <3>3, <3>4
  <2>3. \A i \in 0 .. k : g[i] = h[i]
    OBVIOUS
  <2>4. g[k + 1] = h[k] \div 256
    OBVIOUS
  <2>5. g = [i \in 0 .. k + 1 |-> g[i]]
    OBVIOUS
  <2> HIDE DEF g
  <2>6. \A i \in 0 .. k : h[i] = IF i = 0 THEN n ELSE h[i - 1] \div 256
    BY <2>1
  <2>7. ASSUME NEW i \in 0 .. k + 1
        PROVE  g[i] = IF i = 0 THEN n ELSE g[i - 1] \div 256
    <3>1. CASE i = k + 1
      <4>1. i - 1 = k /\ k \in 0 .. k /\ i # 0
        BY <3>1
      <4> QED
        BY <2>3, <2>4, <3>1, <4>1
    <3>2. CASE i # k + 1
      <4>1. i \in 0 .. k /\ (i # 0 => i - 1 \in 0 .. k)
        BY <3>2
      <4> QED
        BY <2>3, <2>6, <4>1
    <3> QED
      BY <3>1, <3>2
  <2>8. UpTo(g, k + 1)
    BY <2>5, <2>7
  <2> HIDE DEF UpTo
  <2> QED
    BY <2>2, <2>8
<1> HIDE DEF U
<1>3. width \in U
  BY <1>1, <1>2, NaturalsFromZero
<1> QED
  BY <1>3 DEF U, Halves

LEMMA HalvesAt ==
  ASSUME NEW h, NEW n, NEW width, Halves(h, n, width), NEW i \in 0 .. width
  PROVE  h[i] = IF i = 0 THEN n ELSE h[i - 1] \div 256
  BY DEF Halves

LEMMA DividingOff ==
  ASSUME NEW b \in 0 .. 255, NEW m \in Nat
  PROVE  (b + 256 * m) % 256 = b /\ (b + 256 * m) \div 256 = m
<1>1. (b + 256 * m) % 256 = b
  OBVIOUS
<1>2. (b + 256 * m) \div 256 = m
  OBVIOUS
<1> QED
  BY <1>1, <1>2

LEMMA ShiftedIs ==
  ASSUME NEW n, NEW width
  PROVE  Shifted(n, width) = CHOOSE h : Halves(h, n, width)
BY DEF Shifted, Halves

LEMMA ShiftedType ==
  ASSUME NEW n \in Nat, NEW width \in Nat
  PROVE  Shifted(n, width) \in [0 .. width -> Nat] /\ Halves(Shifted(n, width), n, width)
<1>1. PICK h \in [0 .. width -> Nat] : Halves(h, n, width)
  BY HalvesExist
<1>2. PICK g : g = Shifted(n, width)
  OBVIOUS
<1>3. Halves(g, n, width)
  <2>1. \E f : Halves(f, n, width)
    BY <1>1
  <2>2. g = CHOOSE f : Halves(f, n, width)
    BY <1>2, ShiftedIs
  <2> QED
    BY <2>1, <2>2
<1>4. \A i \in 0 .. width : h[i] = IF i = 0 THEN n ELSE h[i - 1] \div 256
  BY <1>1 DEF Halves
<1>5. \A i \in 0 .. width : g[i] = IF i = 0 THEN n ELSE g[i - 1] \div 256
  BY <1>3, HalvesAt
<1> DEFINE U == {i \in Nat : i <= width => g[i] = h[i]}
<1>6. 0 \in U
  BY <1>4, <1>5
<1>7. ASSUME NEW i \in Nat, i \in U  PROVE i + 1 \in U
  <2>1. ASSUME i + 1 <= width  PROVE g[i + 1] = h[i + 1]
    <3>1. i <= width /\ i + 1 \in 0 .. width /\ i + 1 # 0 /\ (i + 1) - 1 = i
      BY <2>1
    <3> QED
      BY <1>4, <1>5, <1>7, <3>1
  <2> QED
    BY <2>1
<1> HIDE DEF U
<1>8. \A i \in Nat : i \in U
  BY <1>6, <1>7, NaturalsFromZero
<1>9. \A i \in 0 .. width : g[i] = h[i]
  BY <1>8 DEF U
<1>10. g = [i \in 0 .. width |-> g[i]]
  BY <1>3 DEF Halves
<1>11. g \in [0 .. width -> Nat]
  BY <1>9, <1>10
<1> QED
  BY <1>2, <1>3, <1>11

LEMMA WordDivides ==
  ASSUME NEW n
  PROVE  Word(n) = [i \in 1 .. WordSize |-> (CHOOSE h : Halves(h, n, WordSize))[i - 1] % 256]
<1>1. Word(n) = [i \in 1 .. WordSize |-> Shifted(n, WordSize)[i - 1] % 256]
  BY DEF Word, Bytes
<1> QED
  BY <1>1, ShiftedIs

LEMMA RemaindersHalve ==
  ASSUME NEW data \in Seq(Byte), NEW at \in Nat, at + WordSize <= Len(data),
         NEW rest, Remainders(rest, data, at), NEW i \in 1 .. WordSize
  PROVE  rest[i] % 256 = data[at + i] /\ rest[i] \div 256 = rest[i + 1]
<1>1. i \in 1 .. WordSize + 1 /\ i + 1 \in 1 .. WordSize + 1
  BY WordAssumption
<1>2. PICK m \in Nat : m = rest[i + 1]
  BY <1>1 DEF Remainders
<1>3. at + i \in 1 .. Len(data)
  BY WordAssumption, LenProperties
<1>4. PICK b \in Byte : b = data[at + i]
  BY <1>3, ElementOfSeq
<1>5. rest[i] = b + 256 * m
  BY <1>2, <1>4 DEF Remainders
<1>6. (b + 256 * m) % 256 = b /\ (b + 256 * m) \div 256 = m
  <2>1. b \in 0 .. 255
    BY <1>4 DEF Byte
  <2> QED
    BY <2>1, DividingOff, ZenonT(60)
<1>7. rest[i] % 256 = b /\ rest[i] \div 256 = m
  BY <1>5, <1>6, Zenon
<1> QED
  BY <1>2, <1>4, <1>7, Zenon

LEMMA HalvesAreRemainders ==
  ASSUME NEW data \in Seq(Byte), NEW at \in Nat, at + WordSize <= Len(data),
         NEW rest, Remainders(rest, data, at)
  PROVE  LET h == CHOOSE h : Halves(h, Number(data, at), WordSize)
         IN  \A i \in 1 .. WordSize : h[i - 1] = rest[i]
<1>1. WordSize \in Nat /\ WordSize # 0
  BY WordAssumption
<1>2. PICK n : n = Number(data, at)
  OBVIOUS
<1>3. rest[1] = n
  BY <1>2 DEF Remainders
<1>4. ASSUME NEW i \in 1 .. WordSize  PROVE rest[i] \div 256 = rest[i + 1]
  BY RemaindersHalve
<1>5. \E h : Halves(h, n, WordSize)
  <2> DEFINE h == [i \in 0 .. WordSize |-> rest[i + 1]]
  <2>1. ASSUME NEW i \in 0 .. WordSize
        PROVE  h[i] = IF i = 0 THEN n ELSE h[i - 1] \div 256
    <3>1. CASE i = 0
      BY <1>3, <3>1
    <3>2. CASE i # 0
      <4>1. i \in 1 .. WordSize /\ i - 1 \in 0 .. WordSize /\ (i - 1) + 1 = i
        BY <1>1, <3>2
      <4>2. h[i - 1] = rest[i] /\ h[i] = rest[i + 1]
        BY <4>1
      <4> QED
        BY <1>4, <3>2, <4>1, <4>2
    <3> QED
      BY <3>1, <3>2
  <2>2. h = [i \in 0 .. WordSize |-> h[i]]
    OBVIOUS
  <2> HIDE DEF h
  <2>3. Halves(h, n, WordSize)
    BY <2>1, <2>2 DEF Halves
  <2> QED
    BY <2>3
<1>6. PICK h : h = (CHOOSE g : Halves(g, n, WordSize)) /\ Halves(h, n, WordSize)
  BY <1>5
<1>7. h[0] = n
  <2>1. Halves(h, n, WordSize) /\ 0 \in 0 .. WordSize
    BY <1>1, <1>6
  <2> QED
    BY <2>1, HalvesAt
<1>8. ASSUME NEW i \in Nat, i + 1 <= WordSize  PROVE h[i + 1] = h[i] \div 256
  <2>1. i + 1 \in 0 .. WordSize /\ i + 1 # 0 /\ (i + 1) - 1 = i
    BY <1>1, <1>8
  <2>2. Halves(h, n, WordSize)
    BY <1>6
  <2>3. h[i + 1] = h[(i + 1) - 1] \div 256
    BY <2>1, <2>2, HalvesAt
  <2> QED
    BY <2>1, <2>3
<1> DEFINE U == {i \in Nat : i + 1 <= WordSize => h[i] = rest[i + 1]}
<1>9. 0 \in U
  BY <1>3, <1>7
<1>10. ASSUME NEW i \in Nat, i \in U  PROVE i + 1 \in U
  <2>1. CASE (i + 1) + 1 <= WordSize
    <3>1. i + 1 \in 1 .. WordSize /\ i + 1 <= WordSize
      BY <1>1, <2>1
    <3>2. h[i] = rest[i + 1]
      BY <1>10, <3>1
    <3>3. h[i + 1] = rest[i + 1] \div 256
      BY <1>8, <3>1, <3>2
    <3>4. rest[i + 1] \div 256 = rest[(i + 1) + 1]
      BY <1>4, <3>1
    <3> QED
      BY <3>3, <3>4
  <2> QED
    BY <2>1
<1> HIDE DEF U
<1>11. \A i \in Nat : i \in U
  BY <1>9, <1>10, NaturalsFromZero
<1>12. ASSUME NEW i \in 1 .. WordSize  PROVE h[i - 1] = rest[i]
  <2>1. i - 1 \in Nat /\ (i - 1) + 1 = i /\ (i - 1) + 1 <= WordSize
    BY <1>1
  <2>2. i - 1 \in U
    BY <1>11, <2>1
  <2>3. h[i - 1] = rest[(i - 1) + 1]
    BY <2>1, <2>2 DEF U
  <2> QED
    BY <2>1, <2>3
<1> QED
  BY <1>2, <1>6, <1>12

(* Writing the number in a word gives the bytes of the word.               *)
LEMMA WordOfNumber ==
  ASSUME NEW data \in Seq(Byte), NEW at \in Nat, at + WordSize <= Len(data)
  PROVE  Word(Number(data, at)) = SubSeq(data, at + 1, at + WordSize)
<1>1. PICK rest : Remainders(rest, data, at)
  BY NumberHasRemainders
<1>2. PICK h : h = CHOOSE g : Halves(g, Number(data, at), WordSize)
  OBVIOUS
<1>3. \A i \in 1 .. WordSize : h[i - 1] = rest[i]
  BY <1>1, <1>2, HalvesAreRemainders
<1>4. \A i \in 1 .. WordSize : rest[i] % 256 = data[at + i]
  BY <1>1, RemaindersHalve
<1>5. Word(Number(data, at)) = [i \in 1 .. WordSize |-> h[i - 1] % 256]
  BY <1>2, WordDivides
<1>6. Word(Number(data, at)) = [i \in 1 .. WordSize |-> data[at + i]]
  BY <1>3, <1>4, <1>5
<1>7. SubSeq(data, at + 1, at + WordSize) = [i \in 1 .. WordSize |-> data[at + i]]
  <2>1. WordSize \in Nat /\ (at + WordSize) - (at + 1) + 1 = WordSize
    BY WordAssumption
  <2> QED
    BY <2>1
<1> QED
  BY <1>6, <1>7

-----------------------------------------------------------------------------
(* The strings parse_req finds.                                            *)

StringEnd(data, at) == at + WordSize + Number(data, at)

NoString(data, at) == PastEnd(data, at + WordSize) \/ PastEnd(data, StringEnd(data, at))

StringAt(data, at) == SubSeq(data, at + WordSize + 1, StringEnd(data, at))

NoMore(data, at) == {s \in {<< >>} : AtEnd(data, at)}

OneMore(data, at, row) ==
  IF NoString(data, at) THEN {}
  ELSE {<<StringAt(data, at)>> \o rest : rest \in row[StringEnd(data, at)]}

LastRow(data) == [at \in 0 .. Len(data) |-> NoMore(data, at)]
RowBefore(data, row) == [at \in 0 .. Len(data) |-> OneMore(data, at, row)]

(* f[i] is what i strings from each offset to the end are, for i up to n.  *)
RowsUpTo(f, data, n) ==
  /\ f[0] = LastRow(data)
  /\ \A i \in Nat : i < n => f[i + 1] = RowBefore(data, f[i])

LEMMA RowsExist ==
  ASSUME NEW data
  PROVE  \A n \in Nat : \E f : RowsUpTo(f, data, n)
<1> DEFINE U == {n \in Nat : \E f : RowsUpTo(f, data, n)}
<1>1. 0 \in U
  <2>1. RowsUpTo([i \in Nat |-> LastRow(data)], data, 0)
    BY DEF RowsUpTo
  <2> QED
    BY <2>1
<1>2. ASSUME NEW n \in Nat, n \in U  PROVE n + 1 \in U
  <2>1. PICK f : RowsUpTo(f, data, n)
    BY <1>2
  <2> DEFINE g == [i \in Nat |-> IF i <= n THEN f[i] ELSE RowBefore(data, f[n])]
  <2>2. \A i \in Nat : i <= n => g[i] = f[i]
    OBVIOUS
  <2>3. g[n + 1] = RowBefore(data, f[n])
    OBVIOUS
  <2> HIDE DEF g
  <2>4. g[0] = LastRow(data)
    BY <2>1, <2>2 DEF RowsUpTo
  <2>5. ASSUME NEW i \in Nat, i < n + 1  PROVE g[i + 1] = RowBefore(data, g[i])
    <3>1. CASE i = n
      BY <2>2, <2>3, <3>1
    <3>2. CASE i # n
      <4>1. i < n /\ i + 1 <= n /\ i <= n
        BY <2>5, <3>2
      <4>2. f[i + 1] = RowBefore(data, f[i])
        BY <2>1, <4>1 DEF RowsUpTo
      <4> QED
        BY <2>2, <4>1, <4>2
    <3> QED
      BY <3>1, <3>2
  <2>6. RowsUpTo(g, data, n + 1)
    BY <2>4, <2>5 DEF RowsUpTo
  <2> QED
    BY <2>6
<1> HIDE DEF U
<1>3. \A n \in Nat : n \in U
  BY <1>1, <1>2, NaturalsFromZero
<1> QED
  BY <1>3 DEF U

LEMMA RowsAgree ==
  ASSUME NEW data
  PROVE  \A n \in Nat : \A f, g :
           RowsUpTo(f, data, n) /\ RowsUpTo(g, data, n) => f[n] = g[n]
<1> DEFINE U == {n \in Nat : \A f, g :
                   RowsUpTo(f, data, n) /\ RowsUpTo(g, data, n) => f[n] = g[n]}
<1>1. 0 \in U
  BY DEF RowsUpTo
<1>2. ASSUME NEW n \in Nat, n \in U  PROVE n + 1 \in U
  <2>1. ASSUME NEW f, NEW g, RowsUpTo(f, data, n + 1), RowsUpTo(g, data, n + 1)
        PROVE  f[n + 1] = g[n + 1]
    <3>1. RowsUpTo(f, data, n) /\ RowsUpTo(g, data, n)
      BY <2>1 DEF RowsUpTo
    <3>2. f[n] = g[n]
      BY <1>2, <3>1
    <3>3. f[n + 1] = RowBefore(data, f[n]) /\ g[n + 1] = RowBefore(data, g[n])
      BY <2>1 DEF RowsUpTo
    <3> QED
      BY <3>2, <3>3
  <2> QED
    BY <2>1
<1> HIDE DEF U
<1>3. \A n \in Nat : n \in U
  BY <1>1, <1>2, NaturalsFromZero
<1> QED
  BY <1>3 DEF U

(* One function for all numbers of strings.                                *)
Rows(f, data) ==
  /\ f[0] = LastRow(data)
  /\ \A n \in Nat : f[n + 1] = RowBefore(data, f[n])

LEMMA AllRowsExist ==
  ASSUME NEW data
  PROVE  \E f : Rows(f, data) /\ f = [n \in Nat |-> f[n]]
<1> DEFINE Upto(n) == CHOOSE f : RowsUpTo(f, data, n)
           g == [n \in Nat |-> Upto(n)[n]]
<1>1. ASSUME NEW n \in Nat  PROVE RowsUpTo(Upto(n), data, n)
  BY RowsExist
<1>2. \A n \in Nat : g[n] = Upto(n)[n]
  OBVIOUS
<1>3. g = [n \in Nat |-> g[n]]
  OBVIOUS
<1> HIDE DEF Upto, g
<1>4. g[0] = LastRow(data)
  <2>1. RowsUpTo(Upto(0), data, 0)
    BY <1>1
  <2> QED
    BY <1>2, <2>1 DEF RowsUpTo
<1>5. ASSUME NEW n \in Nat  PROVE g[n + 1] = RowBefore(data, g[n])
  <2>1. PICK f : f = Upto(n + 1)
    OBVIOUS
  <2>2. RowsUpTo(f, data, n + 1) /\ RowsUpTo(Upto(n), data, n)
    BY <1>1, <2>1
  <2>3. RowsUpTo(f, data, n) /\ f[n + 1] = RowBefore(data, f[n])
    BY <2>2 DEF RowsUpTo
  <2>4. f[n] = Upto(n)[n]
    BY <2>2, <2>3, RowsAgree
  <2>5. g[n + 1] = f[n + 1] /\ g[n] = Upto(n)[n]
    BY <1>2, <2>1
  <2> QED
    BY <2>3, <2>4, <2>5
<1>6. Rows(g, data)
  BY <1>4, <1>5 DEF Rows
<1> QED
  BY <1>3, <1>6

(* The recursion of parse_req as it is written.                            *)
Strings(f, data) ==
  f = [n \in Nat |-> [at \in 0 .. Len(data) |->
         IF n = 0 THEN NoMore(data, at)
         ELSE OneMore(data, at, f[n - 1])]]

LEMMA ParseChooses ==
  ASSUME NEW data
  PROVE  parse_req(data) =
           IF Len(data) < WordSize \/ Number(data, 0) > k_max_msg THEN {}
           ELSE (CHOOSE f : Strings(f, data))[Number(data, 0)][WordSize]
BY DEF parse_req, Strings, NoMore, OneMore, NoString, StringEnd, StringAt

LEMMA RowsAreStrings ==
  ASSUME NEW data, NEW f, Rows(f, data), f = [n \in Nat |-> f[n]]
  PROVE  Strings(f, data)
<1>1. ASSUME NEW n \in Nat
      PROVE  f[n] = [at \in 0 .. Len(data) |->
                       IF n = 0 THEN NoMore(data, at) ELSE OneMore(data, at, f[n - 1])]
  <2>1. CASE n = 0
    <3>1. f[n] = LastRow(data)
      BY <2>1 DEF Rows
    <3> QED
      BY <2>1, <3>1 DEF LastRow
  <2>2. CASE n # 0
    <3>1. PICK m \in Nat : m = n - 1 /\ n = m + 1
      BY <2>2
    <3>2. f[n] = RowBefore(data, f[m])
      BY <3>1 DEF Rows
    <3> QED
      BY <2>2, <3>1, <3>2 DEF RowBefore
  <2> QED
    BY <2>1, <2>2
<1> QED
  BY <1>1 DEF Strings

LEMMA StringsAt ==
  ASSUME NEW data, NEW f, Strings(f, data), NEW at \in 0 .. Len(data)
  PROVE  /\ f[0][at] = NoMore(data, at)
         /\ \A n \in Nat : f[n + 1][at] = OneMore(data, at, f[n])
<1>1. \A n \in Nat : f[n][at] = IF n = 0 THEN NoMore(data, at) ELSE OneMore(data, at, f[n - 1])
  BY DEF Strings
<1>2. ASSUME NEW n \in Nat  PROVE f[n + 1][at] = OneMore(data, at, f[n])
  <2>1. n + 1 \in Nat /\ n + 1 # 0 /\ (n + 1) - 1 = n
    OBVIOUS
  <2>2. f[n + 1][at] = OneMore(data, at, f[(n + 1) - 1])
    BY <1>1, <2>1
  <2> QED
    BY <2>1, <2>2
<1> QED
  BY <1>1, <1>2

LEMMA ParseIs ==
  ASSUME NEW data
  PROVE  \E f : /\ Strings(f, data)
                /\ parse_req(data) =
                     IF Len(data) < WordSize \/ Number(data, 0) > k_max_msg THEN {}
                     ELSE f[Number(data, 0)][WordSize]
<1>1. \E f : Strings(f, data)
  BY AllRowsExist, RowsAreStrings
<1>2. PICK f : f = CHOOSE g : Strings(g, data)
  OBVIOUS
<1>3. Strings(f, data)
  BY <1>1, <1>2
<1> QED
  BY <1>2, <1>3, ParseChooses

-----------------------------------------------------------------------------
(* What parse_req reads.                                                   *)

LEMMA OneBefore ==
  ASSUME NEW U, NEW a \in U, NEW s \in Seq(U), NEW t, t = <<a>> \o s
  PROVE  /\ t \in Seq(U)
         /\ Len(t) = Len(s) + 1
         /\ t[1] = a
         /\ \A i \in 1 .. Len(s) : t[i + 1] = s[i]
<1>1. <<a>> \in Seq(U) /\ Len(<<a>>) = 1 /\ <<a>>[1] = a
  OBVIOUS
<1>2. Len(s) \in Nat
  BY LenProperties
<1>3. /\ t \in Seq(U)
      /\ Len(t) = 1 + Len(s)
      /\ \A i \in 1 .. 1 + Len(s) : t[i] = IF i <= 1 THEN <<a>>[i] ELSE s[i - 1]
  BY <1>1, ConcatProperties
<1>4. t[1] = a
  BY <1>1, <1>2, <1>3
<1>5. ASSUME NEW i \in 1 .. Len(s)  PROVE t[i + 1] = s[i]
  <2>1. i + 1 \in 1 .. 1 + Len(s) /\ ~(i + 1 <= 1) /\ (i + 1) - 1 = i
    BY <1>2
  <2> QED
    BY <1>3, <2>1
<1> QED
  BY <1>2, <1>3, <1>4, <1>5

FlattensFirst(a, s) == FlattenSeq(<<a>> \o s) = a \o FlattenSeq(s)

LEMMA FlattenSeqFirst ==
  ASSUME NEW U, NEW a \in Seq(U), NEW s \in Seq(Seq(U))
  PROVE  FlattensFirst(a, s)
<1> DEFINE T == {n \in Nat : \A r \in Seq(Seq(U)) : Len(r) = n => FlattensFirst(a, r)}
<1>1. 0 \in T
  <2>1. ASSUME NEW r \in Seq(Seq(U)), Len(r) = 0
        PROVE  FlattensFirst(a, r)
    <3>1. r = << >>
      BY <2>1, EmptySeq
    <3>2. PICK t : t = <<a>> \o r
      OBVIOUS
    <3>3. t \in Seq(Seq(U)) /\ Len(t) = Len(r) + 1 /\ t[1] = a
      BY <3>2, OneBefore
    <3>4. \A i \in 1 .. Len(r) : t[i] = r[i]
      BY <2>1
    <3>5. FlattenSeq(t) = FlattenSeq(r) \o t[Len(t)]
      BY <3>3, <3>4, FlattenSeqLast, ZenonT(30)
    <3>6. FlattenSeq(t) = << >> \o a /\ a \o FlattenSeq(r) = a \o << >>
      BY <2>1, <3>1, <3>3, <3>5, FlattenSeqEmpty
    <3> QED
      BY <3>2, <3>6, ConcatEmptySeq DEF FlattensFirst
  <2> QED
    BY <2>1
<1>2. ASSUME NEW n \in Nat, n \in T  PROVE n + 1 \in T
  <2>1. ASSUME NEW r \in Seq(Seq(U)), Len(r) = n + 1
        PROVE  FlattensFirst(a, r)
    <3>1. PICK q : q = SubSeq(r, 1, n)
      OBVIOUS
    <3>2. \A i \in 1 .. n + 1 : r[i] \in Seq(U)
      BY <2>1, ElementOfSeq
    <3>3. q \in Seq(Seq(U)) /\ Len(q) = n /\ \A i \in 1 .. n : q[i] = r[i]
      <4>1. \A i \in 1 .. n : r[i] \in Seq(U)
        BY <3>2
      <4>2. /\ q \in Seq(Seq(U))
            /\ Len(q) = IF 1 <= n THEN n - 1 + 1 ELSE 0
            /\ \A i \in 1 .. n - 1 + 1 : q[i] = r[1 + i - 1]
        BY <3>1, <4>1, SubSeqProperties
      <4> QED
        BY <4>2
    <3>4. PICK t : t = <<a>> \o r
      OBVIOUS
    <3>5. PICK u : u = <<a>> \o q
      OBVIOUS
    <3>6. /\ t \in Seq(Seq(U)) /\ Len(t) = n + 2
          /\ t[1] = a /\ \A i \in 1 .. n + 1 : t[i + 1] = r[i]
      BY <2>1, <3>4, OneBefore
    <3>7. /\ u \in Seq(Seq(U)) /\ Len(u) = n + 1
          /\ u[1] = a /\ \A i \in 1 .. n : u[i + 1] = q[i]
      BY <3>3, <3>5, OneBefore
    <3>8. ASSUME NEW i \in 1 .. Len(u)  PROVE t[i] = u[i]
      <4>1. CASE i = 1
        BY <3>6, <3>7, <4>1
      <4>2. CASE i # 1
        <5>1. PICK j \in 1 .. n : i = j + 1
          <6>1. i - 1 \in 1 .. n /\ i = (i - 1) + 1
            BY <3>7, <4>2
          <6> QED
            BY <6>1
        <5>2. t[j + 1] = r[j]
          <6>1. j \in 1 .. n + 1
            OBVIOUS
          <6> QED
            BY <3>6, <6>1
        <5>3. u[j + 1] = q[j]
          BY <3>7
        <5>4. q[j] = r[j]
          BY <3>3
        <5> QED
          BY <5>1, <5>2, <5>3, <5>4
      <4> QED
        BY <4>1, <4>2
    <3>9. FlattenSeq(t) = FlattenSeq(u) \o t[Len(t)]
      <4>1. Len(t) = Len(u) + 1
        BY <3>6, <3>7
      <4> QED
        BY <3>6, <3>7, <3>8, <4>1, FlattenSeqLast
    <3>10. FlattenSeq(r) = FlattenSeq(q) \o r[Len(r)]
      BY <2>1, <3>3, FlattenSeqLast
    <3>11. FlattenSeq(u) = a \o FlattenSeq(q)
      BY <1>2, <3>3, <3>5 DEF FlattensFirst
    <3>12. t[Len(t)] = r[Len(r)] /\ r[Len(r)] \in Seq(U)
      BY <2>1, <3>2, <3>6
    <3>13. FlattenSeq(q) \in Seq(U)
      BY <3>3, FlattenSeqType
    <3>14. PICK x \in Seq(U) : x = FlattenSeq(q)
      BY <3>13
    <3>15. PICK y \in Seq(U) : y = r[Len(r)]
      BY <3>12
    <3>16. (a \o x) \o y = a \o (x \o y)
      BY ConcatAssociative, SMTT(30)
    <3>17. FlattenSeq(t) = (a \o x) \o y /\ FlattenSeq(r) = x \o y
      BY <3>9, <3>10, <3>11, <3>12, <3>14, <3>15
    <3> QED
      BY <3>4, <3>16, <3>17 DEF FlattensFirst
  <2> QED
    BY <2>1
<1> HIDE DEF T
<1>3. \A n \in Nat : n \in T
  BY <1>1, <1>2, NaturalsFromZero
<1>4. Len(s) \in Nat
  BY LenProperties
<1> QED
  BY <1>3, <1>4 DEF T

LEMMA SubSeqType ==
  ASSUME NEW U, NEW s \in Seq(U), NEW m \in Nat, NEW n \in Nat, m <= n, n <= Len(s)
  PROVE  SubSeq(s, m + 1, n) \in Seq(U) /\ Len(SubSeq(s, m + 1, n)) = n - m
<1>1. \A i \in m + 1 .. n : s[i] \in U
  BY ElementOfSeq, LenProperties
<1>2. /\ SubSeq(s, m + 1, n) \in Seq(U)
      /\ Len(SubSeq(s, m + 1, n)) = IF m + 1 <= n THEN n - (m + 1) + 1 ELSE 0
  BY <1>1, SubSeqProperties
<1> QED
  BY <1>2

LEMMA SubSeqJoin ==
  ASSUME NEW U, NEW s \in Seq(U), NEW l \in Nat, NEW m \in Nat, NEW n \in Nat,
         l <= m, m <= n, n <= Len(s)
  PROVE  SubSeq(s, l + 1, m) \o SubSeq(s, m + 1, n) = SubSeq(s, l + 1, n)
<1>1. Len(s) \in Nat
  BY LenProperties
<1>2. l + 1 \in 1 .. Len(s) + 1 /\ m \in (l + 1) - 1 .. Len(s) /\ n \in m .. Len(s)
  BY <1>1
<1> QED
  BY <1>2, ConcatAdjacentSubSeq

(* The strings of a command, each behind its length.                       *)
Pieces(cmd) == [i \in 1 .. Len(cmd) |-> Sized(cmd[i])]

(* The string at an offset, where there is one.                            *)
LEMMA StringThere ==
  ASSUME NEW data \in Seq(Byte), NEW at \in 0 .. Len(data), ~NoString(data, at)
  PROVE  /\ Number(data, at) \in Nat
         /\ StringEnd(data, at) \in 0 .. Len(data)
         /\ at + WordSize <= StringEnd(data, at)
         /\ StringAt(data, at) \in Seq(Byte)
         /\ Sized(StringAt(data, at)) = SubSeq(data, at + 1, StringEnd(data, at))
<1>1. WordSize \in Nat /\ Len(data) \in Nat
  BY WordAssumption, LenProperties
<1>2. PICK str \in Nat : str = at + WordSize
  BY <1>1
<1>3. str <= Len(data)
  BY <1>1, <1>2 DEF NoString, PastEnd
<1>4. PICK n \in Nat : n = Number(data, at)
  BY <1>1, <1>2, <1>3, NumberType
<1>5. PICK end \in Nat : end = StringEnd(data, at) /\ end = str + n
  BY <1>2, <1>4 DEF StringEnd
<1>6. end <= Len(data)
  BY <1>1, <1>5 DEF NoString, PastEnd
<1>7. StringAt(data, at) = SubSeq(data, str + 1, end)
  BY <1>2, <1>5 DEF StringAt
<1>8. StringAt(data, at) \in Seq(Byte) /\ Len(StringAt(data, at)) = n
  <2>1. str <= end /\ end - str = n
    BY <1>5
  <2> QED
    BY <1>6, <1>7, <2>1, SubSeqType
<1>9. Word(n) = SubSeq(data, at + 1, str)
  BY <1>1, <1>2, <1>3, <1>4, WordOfNumber
<1>10. SubSeq(data, at + 1, str) \o SubSeq(data, str + 1, end) = SubSeq(data, at + 1, end)
  BY <1>1, <1>2, <1>5, <1>6, SubSeqJoin
<1>11. Sized(StringAt(data, at)) = SubSeq(data, at + 1, end)
  BY <1>7, <1>8, <1>9, <1>10 DEF Sized
<1>12. at + WordSize <= end /\ end \in 0 .. Len(data)
  BY <1>1, <1>2, <1>5, <1>6
<1> QED
  BY <1>4, <1>5, <1>8, <1>11, <1>12

(* A command s that n strings from an offset to the end are.               *)
Decoded(s, data, at, n) ==
  /\ s \in Seq(Seq(Byte))
  /\ Len(s) = n
  /\ Pieces(s) \in Seq(Seq(Byte))
  /\ FlattenSeq(Pieces(s)) = SubSeq(data, at + 1, Len(data))

LEMMA PiecesFirst ==
  ASSUME NEW str \in Seq(Byte), NEW rest \in Seq(Seq(Byte)),
         Pieces(rest) \in Seq(Seq(Byte)), Sized(str) \in Seq(Byte),
         NEW s, s = <<str>> \o rest
  PROVE  Pieces(s) = <<Sized(str)>> \o Pieces(rest)
<1>1. Len(rest) \in Nat
  BY LenProperties
<1>2. s \in Seq(Seq(Byte)) /\ Len(s) = Len(rest) + 1 /\ s[1] = str
  BY OneBefore
<1>3. \A i \in 1 .. Len(rest) : s[i + 1] = rest[i]
  BY OneBefore
<1>4. PICK p : p = Pieces(rest)
  OBVIOUS
<1>5. Len(p) = Len(rest) /\ \A i \in 1 .. Len(rest) : p[i] = Sized(rest[i])
  BY <1>1, <1>4 DEF Pieces
<1>6. PICK q : q = <<Sized(str)>> \o p
  OBVIOUS
<1>7. /\ q \in Seq(Seq(Byte)) /\ Len(q) = Len(rest) + 1 /\ q[1] = Sized(str)
      /\ \A i \in 1 .. Len(rest) : q[i + 1] = p[i]
  <2>1. p \in Seq(Seq(Byte))
    BY <1>4
  <2>2. /\ q \in Seq(Seq(Byte)) /\ Len(q) = Len(p) + 1 /\ q[1] = Sized(str)
        /\ \A i \in 1 .. Len(p) : q[i + 1] = p[i]
    BY <1>6, <2>1, OneBefore
  <2> QED
    BY <1>5, <2>2
<1>8. ASSUME NEW i \in 1 .. Len(rest) + 1  PROVE q[i] = Sized(s[i])
  <2>1. CASE i = 1
    BY <1>2, <1>7, <2>1
  <2>2. CASE i # 1
    <3>1. PICK j \in 1 .. Len(rest) : i = j + 1
      <4>1. i - 1 \in 1 .. Len(rest) /\ i = (i - 1) + 1
        BY <1>1, <2>2
      <4> QED
        BY <4>1
    <3>2. q[j + 1] = p[j] /\ p[j] = Sized(rest[j]) /\ s[j + 1] = rest[j]
      BY <1>3, <1>5, <1>7
    <3> QED
      BY <3>1, <3>2
  <2> QED
    BY <2>1, <2>2
<1>9. q = [i \in 1 .. Len(rest) + 1 |-> q[i]]
  <2>1. Len(q) \in Nat /\ q \in [1 .. Len(q) -> Seq(Byte)]
    BY <1>7, LenProperties
  <2> QED
    BY <1>7, <2>1
<1>10. q = Pieces(s)
  BY <1>2, <1>8, <1>9 DEF Pieces
<1> QED
  BY <1>4, <1>6, <1>10

LEMMA DecodedNone ==
  ASSUME NEW data \in Seq(Byte), NEW at \in 0 .. Len(data), NEW s \in NoMore(data, at)
  PROVE  Decoded(s, data, at, 0)
<1>1. s = << >> /\ at = Len(data)
  BY DEF NoMore, AtEnd
<1>2. Len(data) \in Nat
  BY LenProperties
<1>3. s \in Seq(Seq(Byte)) /\ Len(s) = 0
  BY <1>1, EmptySeq
<1>4. Pieces(s) = << >>
  BY <1>3 DEF Pieces
<1>5. Pieces(s) \in Seq(Seq(Byte))
  BY <1>4, EmptySeq
<1>6. SubSeq(data, at + 1, Len(data)) = << >>
  BY <1>1, <1>2, SubSeqEmpty
<1>7. FlattenSeq(Pieces(s)) = << >>
  BY <1>4, FlattenSeqEmpty
<1> QED
  BY <1>3, <1>5, <1>6, <1>7 DEF Decoded

LEMMA DecodedOneMore ==
  ASSUME NEW data \in Seq(Byte), NEW at \in 0 .. Len(data), ~NoString(data, at),
         NEW n \in Nat, NEW rest, Decoded(rest, data, StringEnd(data, at), n),
         NEW s, s = <<StringAt(data, at)>> \o rest
  PROVE  Decoded(s, data, at, n + 1)
<1>1. PICK str : str = StringAt(data, at)
  OBVIOUS
<1>2. PICK end : end = StringEnd(data, at)
  OBVIOUS
<1>3. /\ end \in 0 .. Len(data) /\ at + WordSize <= end
      /\ str \in Seq(Byte) /\ Sized(str) = SubSeq(data, at + 1, end)
  BY <1>1, <1>2, StringThere
<1>4. at \in Nat /\ end \in Nat /\ at <= end /\ end <= Len(data) /\ Len(data) \in Nat
  BY <1>3, WordAssumption, LenProperties
<1>5. Sized(str) \in Seq(Byte)
  BY <1>3, <1>4, SubSeqType
<1>6. /\ rest \in Seq(Seq(Byte)) /\ Len(rest) = n /\ Pieces(rest) \in Seq(Seq(Byte))
      /\ FlattenSeq(Pieces(rest)) = SubSeq(data, end + 1, Len(data))
  BY <1>2 DEF Decoded
<1>7. s \in Seq(Seq(Byte)) /\ Len(s) = n + 1
  <2>1. s = <<str>> \o rest
    BY <1>1
  <2> QED
    BY <1>3, <1>6, <2>1, OneBefore
<1>8. Pieces(s) = <<Sized(str)>> \o Pieces(rest)
  BY <1>1, <1>3, <1>5, <1>6, PiecesFirst
<1>9. Pieces(s) \in Seq(Seq(Byte))
  BY <1>5, <1>6, <1>8, OneBefore
<1>10. FlattenSeq(Pieces(s)) = Sized(str) \o FlattenSeq(Pieces(rest))
  BY <1>5, <1>6, <1>8, FlattenSeqFirst DEF FlattensFirst
<1>11. SubSeq(data, at + 1, end) \o SubSeq(data, end + 1, Len(data))
         = SubSeq(data, at + 1, Len(data))
  <2>1. PICK len \in Nat : len = Len(data)
    BY <1>4
  <2>2. at <= end /\ end <= len /\ len <= Len(data)
    BY <1>4, <2>1
  <2>3. SubSeq(data, at + 1, end) \o SubSeq(data, end + 1, len) = SubSeq(data, at + 1, len)
    BY <1>4, <2>2, SubSeqJoin
  <2> QED
    BY <2>1, <2>3
<1>12. FlattenSeq(Pieces(s)) = SubSeq(data, at + 1, Len(data))
  BY <1>3, <1>6, <1>10, <1>11
<1> QED
  BY <1>7, <1>9, <1>12 DEF Decoded

LEMMA RowsDecode ==
  ASSUME NEW data \in Seq(Byte), NEW f, Strings(f, data)
  PROVE  \A n \in Nat : \A at \in 0 .. Len(data) : \A s \in f[n][at] : Decoded(s, data, at, n)
<1> DEFINE T == {n \in Nat : \A at \in 0 .. Len(data) :
                   \A s \in f[n][at] : Decoded(s, data, at, n)}
<1>1. 0 \in T
  <2>1. ASSUME NEW at \in 0 .. Len(data), NEW s \in f[0][at]  PROVE Decoded(s, data, at, 0)
    <3>1. s \in NoMore(data, at)
      BY <2>1, StringsAt
    <3> QED
      BY <3>1, DecodedNone
  <2> QED
    BY <2>1
<1>2. ASSUME NEW n \in Nat, n \in T  PROVE n + 1 \in T
  <2>1. ASSUME NEW at \in 0 .. Len(data), NEW s \in f[n + 1][at]
        PROVE  Decoded(s, data, at, n + 1)
    <3>1. f[n + 1][at] = OneMore(data, at, f[n])
      BY StringsAt
    <3>2. s \in OneMore(data, at, f[n])
      BY <2>1, <3>1
    <3>3. ~NoString(data, at)
      BY <3>2 DEF OneMore
    <3>4. PICK rest \in f[n][StringEnd(data, at)] : s = <<StringAt(data, at)>> \o rest
      BY <3>2, <3>3 DEF OneMore
    <3>5. StringEnd(data, at) \in 0 .. Len(data)
      BY <3>3, StringThere
    <3>6. Decoded(rest, data, StringEnd(data, at), n)
      BY <1>2, <3>4, <3>5
    <3> QED
      BY <3>3, <3>4, <3>6, DecodedOneMore
  <2> QED
    BY <2>1
<1> HIDE DEF T
<1>3. \A n \in Nat : n \in T
  BY <1>1, <1>2, NaturalsFromZero
<1> QED
  BY <1>3 DEF T

(* parse_req reads what was encoded: encoding the command it reads gives   *)
(* the payload back.                                                       *)
LEMMA ParseReads ==
  ASSUME NEW data \in Seq(Byte), NEW cmd \in parse_req(data)
  PROVE  cmd \in Seq(Seq(Byte)) /\ Body(cmd) = data
<1>1. WordSize \in Nat /\ Len(data) \in Nat
  BY WordAssumption, LenProperties
<1>2. PICK f : /\ Strings(f, data)
               /\ parse_req(data) =
                    IF Len(data) < WordSize \/ Number(data, 0) > k_max_msg THEN {}
                    ELSE f[Number(data, 0)][WordSize]
  BY ParseIs
<1>3. ~(Len(data) < WordSize) /\ cmd \in f[Number(data, 0)][WordSize]
  BY <1>2
<1>4. WordSize \in 0 .. Len(data) /\ 0 + WordSize <= Len(data) /\ 0 \in Nat
  BY <1>1, <1>3
<1>5. PICK n \in Nat : n = Number(data, 0)
  BY <1>4, NumberType
<1>6. Decoded(cmd, data, WordSize, n)
  BY <1>2, <1>3, <1>4, <1>5, RowsDecode
<1>7. Word(n) = SubSeq(data, 0 + 1, 0 + WordSize)
  BY <1>4, <1>5, WordOfNumber
<1>8. Word(n) = SubSeq(data, 0 + 1, WordSize)
  BY <1>1, <1>7
<1>9. Body(cmd) = Word(n) \o FlattenSeq(Pieces(cmd))
  BY <1>6 DEF Body, Pieces, Decoded
<1>10. Body(cmd) = SubSeq(data, 0 + 1, WordSize) \o SubSeq(data, WordSize + 1, Len(data))
  BY <1>6, <1>8, <1>9 DEF Decoded
<1>11. SubSeq(data, 0 + 1, WordSize) \o SubSeq(data, WordSize + 1, Len(data))
         = SubSeq(data, 0 + 1, Len(data))
  <2>1. PICK len \in Nat : len = Len(data)
    BY <1>1
  <2>2. 0 <= WordSize /\ WordSize <= len /\ len <= Len(data)
    BY <1>1, <1>4, <2>1
  <2>3. SubSeq(data, 0 + 1, WordSize) \o SubSeq(data, WordSize + 1, len)
          = SubSeq(data, 0 + 1, len)
    BY <1>1, <1>4, <2>2, SubSeqJoin
  <2> QED
    BY <2>1, <2>3
<1>12. SubSeq(data, 0 + 1, Len(data)) = data
  BY SubSeqFull
<1> QED
  BY <1>6, <1>10, <1>11, <1>12 DEF Decoded

-----------------------------------------------------------------------------
(* What parse_req accepts.                                                 *)

IsNext(b, cuts, a) == b \in cuts /\ b > a /\ \A d \in cuts : d > a => b <= d

NextCut(cuts, a) == CHOOSE b \in cuts : b > a /\ \A d \in cuts : d > a => b <= d

(* The offsets where strings begin, and the end, from an offset on.        *)
Cuts(cuts, data, at) ==
  /\ cuts \in SUBSET (at .. Len(data))
  /\ at \in cuts
  /\ Len(data) \in cuts
  /\ \A a \in cuts : a # Len(data) =>
       ~NoString(data, a) /\ IsNext(StringEnd(data, a), cuts, a)

LEMMA NextCutIs ==
  ASSUME NEW cuts \in SUBSET Nat, NEW a \in Nat, NEW b, IsNext(b, cuts, a)
  PROVE  NextCut(cuts, a) = b
<1>1. PICK x : x = NextCut(cuts, a)
  OBVIOUS
<1>2. x \in cuts /\ x > a /\ \A d \in cuts : d > a => x <= d
  BY <1>1 DEF NextCut, IsNext
<1>3. b \in cuts /\ b > a /\ \A d \in cuts : d > a => b <= d
  BY DEF IsNext
<1>4. x <= b /\ b <= x /\ x \in Nat /\ b \in Nat
  BY <1>2, <1>3
<1> QED
  BY <1>1, <1>4

LEMMA NextCutExists ==
  ASSUME NEW cuts \in SUBSET Nat, NEW a \in Nat, NEW m \in cuts, m > a
  PROVE  IsNext(NextCut(cuts, a), cuts, a)
<1> DEFINE I == {d \in cuts : d > a}
<1>1. I \in SUBSET Nat /\ I # {}
  OBVIOUS
<1>2. PICK b : b = Min(I)
  OBVIOUS
<1>3. b \in I /\ \A i \in I : b <= i
  BY <1>1, <1>2, MinOfNaturals
<1>4. IsNext(b, cuts, a)
  BY <1>3 DEF IsNext
<1> QED
  BY <1>4, NextCutIs

LEMMA CutStep ==
  ASSUME NEW data \in Seq(Byte), NEW cuts \in SUBSET (0 .. Len(data)), Len(data) \in cuts,
         NEW a \in cuts, a # Len(data)
  PROVE  (/\ NextCut(cuts, a) - a >= WordSize
          /\ NextCut(cuts, a) - a = WordSize + Number(data, a))
         <=> (~NoString(data, a) /\ IsNext(StringEnd(data, a), cuts, a))
<1>1. WordSize \in Nat /\ WordSize # 0 /\ Len(data) \in Nat
  BY WordAssumption, LenProperties
<1>2. cuts \in SUBSET Nat /\ a \in Nat /\ Len(data) > a /\ a \in 0 .. Len(data)
  BY <1>1
<1>3. PICK b : b = NextCut(cuts, a)
  OBVIOUS
<1>4. IsNext(b, cuts, a)
  BY <1>2, <1>3, NextCutExists
<1>5. b \in cuts /\ b \in Nat /\ b <= Len(data)
  BY <1>1, <1>4 DEF IsNext
<1>6. ASSUME b - a >= WordSize, b - a = WordSize + Number(data, a)
      PROVE  ~NoString(data, a) /\ StringEnd(data, a) = b
  <2>1. a + WordSize <= Len(data)
    BY <1>1, <1>2, <1>5, <1>6
  <2>2. PICK n \in Nat : n = Number(data, a)
    BY <1>2, <2>1, NumberType
  <2>3. StringEnd(data, a) = b
    BY <1>1, <1>2, <1>5, <1>6, <2>2 DEF StringEnd
  <2>4. ~PastEnd(data, a + WordSize) /\ ~PastEnd(data, StringEnd(data, a))
    BY <1>1, <1>2, <1>5, <2>1, <2>3 DEF PastEnd
  <2> QED
    BY <2>3, <2>4 DEF NoString
<1>7. ASSUME ~NoString(data, a), IsNext(StringEnd(data, a), cuts, a)
      PROVE  b - a >= WordSize /\ b - a = WordSize + Number(data, a)
  <2>1. StringEnd(data, a) = b
    BY <1>2, <1>3, <1>7, NextCutIs
  <2>2. PICK n \in Nat : n = Number(data, a)
    BY <1>2, <1>7, StringThere
  <2>3. b = a + WordSize + n
    BY <2>1, <2>2 DEF StringEnd
  <2> QED
    BY <1>1, <1>2, <2>2, <2>3
<1> QED
  BY <1>3, <1>4, <1>6, <1>7

LEMMA IsRequestCuts ==
  ASSUME NEW data \in Seq(Byte)
  PROVE  IsRequest(data) <=>
           /\ Len(data) >= WordSize
           /\ \E cuts : Cuts(cuts, data, WordSize) /\ Number(data, 0) = Cardinality(cuts) - 1
<1>1. WordSize \in Nat /\ Len(data) \in Nat
  BY WordAssumption, LenProperties
<1> DEFINE Steps(cuts) ==
      \A a \in cuts \ {Len(data)} :
        /\ NextCut(cuts, a) - a >= WordSize
        /\ NextCut(cuts, a) - a = WordSize + Number(data, a)
<1>2. IsRequest(data) <=>
        /\ Len(data) >= WordSize
        /\ \E cuts \in SUBSET (WordSize .. Len(data)) :
             /\ {WordSize, Len(data)} \subseteq cuts
             /\ Number(data, 0) = Cardinality(cuts) - 1
             /\ Steps(cuts)
  BY DEF IsRequest, NextCut
<1>3. ASSUME NEW cuts \in SUBSET (WordSize .. Len(data)), {WordSize, Len(data)} \subseteq cuts
      PROVE  Steps(cuts) <=> Cuts(cuts, data, WordSize)
  <2>1. cuts \in SUBSET (0 .. Len(data)) /\ Len(data) \in cuts /\ WordSize \in cuts
    BY <1>1, <1>3
  <2>2. \A a \in cuts : a # Len(data) =>
          ((/\ NextCut(cuts, a) - a >= WordSize
            /\ NextCut(cuts, a) - a = WordSize + Number(data, a))
           <=> (~NoString(data, a) /\ IsNext(StringEnd(data, a), cuts, a)))
    BY <2>1, CutStep
  <2> QED
    BY <2>1, <2>2 DEF Cuts
<1>4. \A cuts : Cuts(cuts, data, WordSize) =>
        cuts \in SUBSET (WordSize .. Len(data)) /\ {WordSize, Len(data)} \subseteq cuts
  BY DEF Cuts
<1> HIDE DEF Steps
<1> QED
  BY <1>2, <1>3, <1>4

LEMMA CutsFinite ==
  ASSUME NEW data \in Seq(Byte), NEW at \in 0 .. Len(data), NEW cuts, Cuts(cuts, data, at)
  PROVE  /\ IsFiniteSet(cuts)
         /\ Cardinality(cuts) \in Nat
         /\ Cardinality(cuts) <= Len(data) - at + 1
<1>1. PICK len \in Nat : len = Len(data)
  BY LenProperties
<1>2. at \in Int /\ at <= len /\ len \in Int
  BY <1>1
<1>3. IsFiniteSet(at .. len) /\ Cardinality(at .. len) = len - at + 1
  BY <1>2, FS_Interval
<1>4. cuts \in SUBSET (at .. len)
  BY <1>1 DEF Cuts
<1>5. IsFiniteSet(cuts) /\ Cardinality(cuts) <= Cardinality(at .. len)
  BY <1>3, <1>4, FS_Subset
<1>6. Cardinality(cuts) \in Nat
  BY <1>5, FS_CardinalityType
<1> QED
  BY <1>1, <1>3, <1>5, <1>6

(* A string in front of others is one more cut.                            *)
LEMMA AddCut ==
  ASSUME NEW data \in Seq(Byte), NEW at \in 0 .. Len(data), ~NoString(data, at),
         NEW cuts, Cuts(cuts, data, StringEnd(data, at))
  PROVE  /\ Cuts(cuts \cup {at}, data, at)
         /\ Cardinality(cuts \cup {at}) = Cardinality(cuts) + 1
<1>1. WordSize \in Nat /\ WordSize # 0 /\ Len(data) \in Nat
  BY WordAssumption, LenProperties
<1>2. PICK end : end = StringEnd(data, at)
  OBVIOUS
<1>3. end \in 0 .. Len(data) /\ at < end
  BY <1>1, <1>2, StringThere
<1>4. /\ cuts \in SUBSET (end .. Len(data)) /\ end \in cuts /\ Len(data) \in cuts
      /\ \A a \in cuts : a # Len(data) =>
           ~NoString(data, a) /\ IsNext(StringEnd(data, a), cuts, a)
  BY <1>2 DEF Cuts
<1>5. \A d \in cuts : d \in Nat /\ end <= d
  BY <1>3, <1>4
<1>6. at \notin cuts
  BY <1>3, <1>5
<1>7. cuts \cup {at} \in SUBSET (at .. Len(data))
  BY <1>3, <1>4
<1>8. IsNext(end, cuts \cup {at}, at)
  BY <1>3, <1>4, <1>5 DEF IsNext
<1>9. ASSUME NEW a \in cuts, a # Len(data)
      PROVE  IsNext(StringEnd(data, a), cuts \cup {at}, a)
  <2>1. PICK b : b = StringEnd(data, a)
    OBVIOUS
  <2>2. IsNext(b, cuts, a)
    BY <1>4, <1>9, <2>1
  <2>3. ~(at > a)
    BY <1>3, <1>5
  <2>4. IsNext(b, cuts \cup {at}, a)
    BY <2>2, <2>3 DEF IsNext
  <2> QED
    BY <2>1, <2>4
<1>10. \A a \in cuts \cup {at} : a # Len(data) =>
         ~NoString(data, a) /\ IsNext(StringEnd(data, a), cuts \cup {at}, a)
  BY <1>2, <1>4, <1>8, <1>9
<1>11. Cuts(cuts \cup {at}, data, at)
  BY <1>4, <1>7, <1>10 DEF Cuts
<1>12. IsFiniteSet(cuts)
  BY <1>2, <1>3, CutsFinite
<1> QED
  BY <1>6, <1>11, <1>12, FS_AddElement

(* Where there is more than the end there is a string, and one cut less    *)
(* behind it.                                                              *)
LEMMA DropCut ==
  ASSUME NEW data \in Seq(Byte), NEW at \in 0 .. Len(data), at # Len(data),
         NEW cuts, Cuts(cuts, data, at)
  PROVE  /\ ~NoString(data, at)
         /\ Cuts(cuts \ {at}, data, StringEnd(data, at))
         /\ Cardinality(cuts \ {at}) = Cardinality(cuts) - 1
<1>1. WordSize \in Nat /\ WordSize # 0 /\ Len(data) \in Nat
  BY WordAssumption, LenProperties
<1>2. /\ cuts \in SUBSET (at .. Len(data)) /\ at \in cuts /\ Len(data) \in cuts
      /\ \A a \in cuts : a # Len(data) =>
           ~NoString(data, a) /\ IsNext(StringEnd(data, a), cuts, a)
  BY DEF Cuts
<1>3. ~NoString(data, at)
  BY <1>2
<1>4. PICK end : end = StringEnd(data, at)
  OBVIOUS
<1>5. end \in 0 .. Len(data) /\ at < end
  BY <1>1, <1>3, <1>4, StringThere
<1>6. end \in cuts /\ \A d \in cuts : d > at => end <= d
  BY <1>2, <1>4 DEF IsNext
<1>7. \A d \in cuts : d \in Nat /\ d <= Len(data) /\ (d = at \/ d > at)
  BY <1>1, <1>2
<1>8. cuts \ {at} \in SUBSET (end .. Len(data))
  BY <1>5, <1>6, <1>7
<1>9. end \in cuts \ {at} /\ Len(data) \in cuts \ {at}
  BY <1>2, <1>5, <1>6
<1>10. ASSUME NEW a \in cuts \ {at}, a # Len(data)
       PROVE  ~NoString(data, a) /\ IsNext(StringEnd(data, a), cuts \ {at}, a)
  <2>1. PICK b : b = StringEnd(data, a)
    OBVIOUS
  <2>2. ~NoString(data, a) /\ IsNext(b, cuts, a)
    BY <1>2, <1>10, <2>1
  <2>3. a > at /\ a \in Nat
    BY <1>7
  <2>4. b \in cuts /\ b > a /\ \A d \in cuts : d > a => b <= d
    BY <2>2 DEF IsNext
  <2>5. b \in Nat /\ b # at
    BY <1>7, <2>3, <2>4
  <2>6. IsNext(b, cuts \ {at}, a)
    BY <2>4, <2>5 DEF IsNext
  <2> QED
    BY <2>1, <2>2, <2>6
<1>11. Cuts(cuts \ {at}, data, end)
  BY <1>8, <1>9, <1>10 DEF Cuts
<1>12. IsFiniteSet(cuts)
  BY CutsFinite
<1>13. Cardinality(cuts \ {at}) = Cardinality(cuts) - 1
  BY <1>2, <1>12, FS_RemoveElement
<1> QED
  BY <1>3, <1>4, <1>11, <1>13

LEMMA RowsAccept ==
  ASSUME NEW data \in Seq(Byte), NEW f, Strings(f, data)
  PROVE  \A n \in Nat : \A at \in 0 .. Len(data) :
           f[n][at] # {} <=> \E cuts : Cuts(cuts, data, at) /\ Cardinality(cuts) = n + 1
<1> DEFINE Cut(at, n) == \E cuts : Cuts(cuts, data, at) /\ Cardinality(cuts) = n + 1
           T == {n \in Nat : \A at \in 0 .. Len(data) : f[n][at] # {} <=> Cut(at, n)}
<1>1. Len(data) \in Nat
  BY LenProperties
<1>2. 0 \in T
  <2>1. ASSUME NEW at \in 0 .. Len(data)  PROVE f[0][at] # {} <=> Cut(at, 0)
    <3>1. f[0][at] = NoMore(data, at)
      BY StringsAt
    <3>2. f[0][at] # {} <=> at = Len(data)
      BY <3>1 DEF NoMore, AtEnd
    <3>3. ASSUME at = Len(data)  PROVE Cut(at, 0)
      <4>1. Cardinality({at}) = 0 + 1
        <5>1. Cardinality({at}) = 1
          BY FS_Singleton
        <5> QED
          BY <5>1
      <4>2. {at} \in SUBSET (at .. Len(data)) /\ at \in {at} /\ Len(data) \in {at}
        BY <1>1, <3>3
      <4>3. Cuts({at}, data, at)
        BY <3>3, <4>2 DEF Cuts
      <4> QED
        BY <4>1, <4>3
    <3>4. ASSUME NEW cuts, Cuts(cuts, data, at), Cardinality(cuts) = 0 + 1
          PROVE  at = Len(data)
      <4>1. IsFiniteSet(cuts) /\ Cardinality(cuts) = 1
        BY <3>4, CutsFinite
      <4>2. PICK x : cuts = {x}
        BY <4>1, FS_Singleton
      <4> QED
        BY <3>4, <4>2 DEF Cuts
    <3> QED
      BY <3>2, <3>3, <3>4
  <2> QED
    BY <2>1
<1>3. ASSUME NEW n \in Nat, n \in T  PROVE n + 1 \in T
  <2>1. ASSUME NEW at \in 0 .. Len(data)  PROVE f[n + 1][at] # {} <=> Cut(at, n + 1)
    <3>1. f[n + 1][at] = OneMore(data, at, f[n])
      BY StringsAt
    <3>2. PICK end : end = StringEnd(data, at)
      OBVIOUS
    <3>3. ~NoString(data, at) => end \in 0 .. Len(data)
      BY <3>2, StringThere
    <3>4. f[n + 1][at] # {} <=> ~NoString(data, at) /\ f[n][end] # {}
      BY <3>1, <3>2 DEF OneMore
    <3>5. ~NoString(data, at) => (f[n][end] # {} <=> Cut(end, n))
      BY <1>3, <3>3
    <3>6. ASSUME ~NoString(data, at), NEW cuts, Cuts(cuts, data, end), Cardinality(cuts) = n + 1
          PROVE  Cut(at, n + 1)
      <4>1. Cuts(cuts \cup {at}, data, at) /\ Cardinality(cuts \cup {at}) = (n + 1) + 1
        BY <3>2, <3>6, AddCut
      <4> QED
        BY <4>1
    <3>7. ASSUME NEW cuts, Cuts(cuts, data, at), Cardinality(cuts) = (n + 1) + 1
          PROVE  ~NoString(data, at) /\ Cut(end, n)
      <4>1. at # Len(data)
        <5>1. SUFFICES ASSUME at = Len(data)  PROVE FALSE
          OBVIOUS
        <5>2. Cardinality(cuts) <= Len(data) - at + 1
          BY <3>7, CutsFinite
        <5> QED
          BY <1>1, <3>7, <5>1, <5>2
      <4>2. /\ ~NoString(data, at)
            /\ Cuts(cuts \ {at}, data, end)
            /\ Cardinality(cuts \ {at}) = Cardinality(cuts) - 1
        BY <3>2, <3>7, <4>1, DropCut
      <4>3. Cardinality(cuts \ {at}) = n + 1
        BY <3>7, <4>2
      <4> QED
        BY <4>2, <4>3
    <3> QED
      BY <3>4, <3>5, <3>6, <3>7
  <2> QED
    BY <2>1
<1> HIDE DEF T
<1>4. \A n \in Nat : n \in T
  BY <1>2, <1>3, NaturalsFromZero
<1> QED
  BY <1>4 DEF T

(* parse_req accepts what IsRequest describes, if it fits the limit.       *)
LEMMA ParseAccepts ==
  ASSUME NEW data \in Seq(Byte), Len(data) <= k_max_msg
  PROVE  parse_req(data) # {} <=> IsRequest(data)
<1>1. WordSize \in Nat /\ Len(data) \in Nat /\ k_max_msg \in Nat
  BY WordAssumption, MaxMsgAssumption, LenProperties
<1>2. PICK f : /\ Strings(f, data)
               /\ parse_req(data) =
                    IF Len(data) < WordSize \/ Number(data, 0) > k_max_msg THEN {}
                    ELSE f[Number(data, 0)][WordSize]
  BY ParseIs
<1>3. CASE Len(data) < WordSize
  BY <1>1, <1>2, <1>3, IsRequestCuts
<1>4. CASE ~(Len(data) < WordSize)
  <2>1. WordSize \in 0 .. Len(data) /\ Len(data) >= WordSize /\ 0 + WordSize <= Len(data)
    BY <1>1, <1>4
  <2>2. PICK n \in Nat : n = Number(data, 0)
    BY <2>1, NumberType
  <2>3. f[n][WordSize] # {} <=>
          \E cuts : Cuts(cuts, data, WordSize) /\ Cardinality(cuts) = n + 1
    BY <1>2, <2>1, <2>2, RowsAccept
  <2>4. IsRequest(data) <=>
          \E cuts : Cuts(cuts, data, WordSize) /\ n = Cardinality(cuts) - 1
    BY <2>1, <2>2, IsRequestCuts
  <2>5. ASSUME NEW cuts, Cuts(cuts, data, WordSize)
        PROVE  /\ Cardinality(cuts) = n + 1 <=> n = Cardinality(cuts) - 1
               /\ n = Cardinality(cuts) - 1 => n <= k_max_msg
    <3>1. Cardinality(cuts) \in Nat /\ Cardinality(cuts) <= Len(data) - WordSize + 1
      BY <2>1, <2>5, CutsFinite
    <3> QED
      BY <1>1, <3>1
  <2>6. f[n][WordSize] # {} <=> IsRequest(data)
    BY <2>3, <2>4, <2>5
  <2>7. IsRequest(data) => ~(n > k_max_msg)
    BY <1>1, <2>4, <2>5
  <2>8. parse_req(data) = IF n > k_max_msg THEN {} ELSE f[n][WordSize]
    BY <1>2, <1>4, <2>2
  <2> QED
    BY <2>6, <2>7, <2>8
<1> QED
  BY <1>3, <1>4

-----------------------------------------------------------------------------
(* The bytes under way.                                                    *)

LEMMA BytesType ==
  ASSUME NEW n \in Nat, NEW width \in Nat
  PROVE  Bytes(n, width) \in Seq(Byte) /\ Len(Bytes(n, width)) = width
<1>1. PICK h \in [0 .. width -> Nat] : h = Shifted(n, width)
  BY ShiftedType
<1>2. ASSUME NEW i \in 1 .. width  PROVE h[i - 1] % 256 \in Byte
  <2>1. i - 1 \in 0 .. width
    OBVIOUS
  <2>2. PICK m \in Nat : m = h[i - 1]
    BY <2>1
  <2>3. m % 256 \in Byte
    BY DEF Byte
  <2> QED
    BY <2>2, <2>3
<1>3. PICK w : w = [i \in 1 .. width |-> h[i - 1] % 256]
  OBVIOUS
<1>4. w \in [1 .. width -> Byte]
  BY <1>2, <1>3
<1>5. w \in Seq(Byte) /\ Len(w) = width
  BY <1>4, SeqDef, LenProperties
<1> QED
  BY <1>1, <1>3, <1>5 DEF Bytes

LEMMA WordType ==
  ASSUME NEW n \in Nat
  PROVE  Word(n) \in Seq(Byte) /\ Len(Word(n)) = WordSize
  BY BytesType, WordAssumption DEF Word

LEMMA SizedType ==
  ASSUME NEW s \in Seq(Byte)
  PROVE  Sized(s) \in Seq(Byte)
<1>1. Len(s) \in Nat
  BY LenProperties
<1>2. Word(Len(s)) \in Seq(Byte)
  BY <1>1, WordType
<1> QED
  BY <1>2, ConcatProperties DEF Sized

LEMMA BodyType ==
  ASSUME NEW cmd \in Seq(Seq(Byte))
  PROVE  Body(cmd) \in Seq(Byte)
<1>1. Len(cmd) \in Nat
  BY LenProperties
<1>2. \A i \in 1 .. Len(cmd) : Sized(cmd[i]) \in Seq(Byte)
  BY ElementOfSeq, SizedType
<1>3. Pieces(cmd) \in [1 .. Len(cmd) -> Seq(Byte)]
  BY <1>2 DEF Pieces
<1>4. Pieces(cmd) \in Seq(Seq(Byte))
  BY <1>1, <1>3, SeqDef
<1>5. FlattenSeq(Pieces(cmd)) \in Seq(Byte)
  BY <1>4, FlattenSeqType
<1>6. Word(Len(cmd)) \in Seq(Byte)
  BY <1>1, WordType
<1>7. Body(cmd) = Word(Len(cmd)) \o FlattenSeq(Pieces(cmd))
  BY DEF Body, Pieces
<1> QED
  BY <1>5, <1>6, <1>7, ConcatProperties

LEMMA TakeType ==
  ASSUME NEW s \in Seq(Byte), NEW n \in Nat, n <= Len(s)
  PROVE  Take(s, n) \in Seq(Byte)
<1>1. SubSeq(s, 0 + 1, n) \in Seq(Byte)
  BY SubSeqType
<1> QED
  BY <1>1 DEF Take

LEMMA DropType ==
  ASSUME NEW s \in Seq(Byte), NEW n \in Nat
  PROVE  Drop(s, n) \in Seq(Byte)
<1>1. Len(s) \in Nat
  BY LenProperties
<1>2. \A i \in n + 1 .. Len(s) : s[i] \in Byte
  BY <1>1, ElementOfSeq
<1> QED
  BY <1>1, <1>2, SubSeqProperties DEF Drop

(* What TypeOK says of the connections and of the bytes going up, for any  *)
(* commands and any frames.                                                *)
BytesInv ==
  /\ conn \in [Programs -> {"none", "open", "closed"}]
  /\ up \in [Programs -> Seq(Byte)]
  /\ wbuf \in [Programs -> Seq(Byte)]

LEMMA NumberOfFrame ==
  ASSUME BytesInv, NEW c \in Programs, HasHeader(c)
  PROVE  BodyLen(c) \in Nat
<1>1. WordSize \in Nat /\ up[c] \in Seq(Byte) /\ Len(up[c]) >= WordSize
  BY WordAssumption DEF BytesInv, HasHeader
<1>2. PICK s \in Seq(Byte) : s = up[c]
  BY <1>1
<1>3. 0 \in Nat /\ 0 + WordSize <= Len(s)
  BY <1>1, <1>2, LenProperties
<1>4. Number(s, 0) \in Nat
  BY <1>3, NumberType
<1> QED
  BY <1>2, <1>4 DEF BodyLen

LEMMA PayloadType ==
  ASSUME BytesInv, NEW c \in Programs, HasFrame(c)
  PROVE  Payload(c) \in Seq(Byte) /\ Len(Payload(c)) <= k_max_msg
<1>1. PICK s \in Seq(Byte) : s = up[c]
  BY DEF BytesInv
<1>2. HasHeader(c)
  BY DEF HasFrame
<1>3. PICK n \in Nat : n = BodyLen(c)
  BY <1>2, NumberOfFrame
<1>4. WordSize \in Nat /\ Len(s) \in Nat /\ k_max_msg \in Nat
  BY WordAssumption, MaxMsgAssumption, LenProperties
<1>5. n <= k_max_msg /\ n <= Len(s) - WordSize
  BY <1>1, <1>2, <1>3, <1>4 DEF HasFrame, TooLong
<1>6. PICK m \in Nat : m = WordSize + n
  BY <1>4
<1>7. WordSize <= m /\ m <= Len(s) /\ m - WordSize = n
  BY <1>4, <1>5, <1>6
<1>8. SubSeq(s, WordSize + 1, m) \in Seq(Byte) /\ Len(SubSeq(s, WordSize + 1, m)) = m - WordSize
  BY <1>4, <1>7, SubSeqType
<1> QED
  BY <1>1, <1>3, <1>5, <1>6, <1>7, <1>8 DEF Payload

-----------------------------------------------------------------------------
(* The invariant is inductive.                                             *)

LEMMA BytesInit == Init => BytesInv
<1> SUFFICES ASSUME Init  PROVE BytesInv
  OBVIOUS
<1>1. << >> \in Seq(Byte)
  BY EmptySeq
<1> QED
  BY <1>1 DEF Init, BytesInv

LEMMA OpenKeepsBytes ==
  ASSUME BytesInv, NEW c \in Programs, NEW cmd, NEW bytes \in Seq(Byte),
         Begin(c, cmd), Open(c, bytes)
  PROVE  BytesInv'
<1>1. << >> \in Seq(Byte)
  BY EmptySeq
<1>2. up' = [up EXCEPT ![c] = << >>]
  BY DEF Begin
<1>3. conn' = [conn EXCEPT ![c] = "open"] /\ wbuf' = [wbuf EXCEPT ![c] = bytes]
  BY DEF Open
<1>4. up' \in [Programs -> Seq(Byte)]
  BY <1>1, <1>2 DEF BytesInv
<1> QED
  BY <1>3, <1>4 DEF BytesInv

LEMMA StartKeepsBytes ==
  ASSUME BytesInv, NEW c \in Programs, Start(c)
  PROVE  BytesInv'
<1>1. CASE \E cmd \in Argvs : send_req(c, cmd)
  <2>1. PICK cmd \in Argvs : send_req(c, cmd)
    BY <1>1
  <2>2. Sized(Body(cmd)) \in Seq(Byte)
    BY ArgvAssumption, BodyType, SizedType
  <2> QED
    BY <2>1, <2>2, OpenKeepsBytes DEF send_req
<1>2. CASE \E cmd \in Argvs : SendTooLong(c, cmd)
  <2>1. << >> \in Seq(Byte)
    BY EmptySeq
  <2>2. up' = [up EXCEPT ![c] = << >>] /\ UNCHANGED <<conn, wbuf>>
    BY <1>2 DEF SendTooLong, Begin
  <2> QED
    BY <2>1, <2>2 DEF BytesInv
<1>3. CASE \E frame \in Frames : SendFrame(c, frame)
  BY <1>3, FrameAssumption, OpenKeepsBytes DEF SendFrame
<1> QED
  BY <1>1, <1>2, <1>3 DEF Start

LEMMA FinishKeepsBytes ==
  ASSUME BytesInv, NEW c \in Programs, conn' = [conn EXCEPT ![c] = "none"],
         UNCHANGED <<up, wbuf>>
  PROVE  BytesInv'
  BY DEF BytesInv

LEMMA ProgressKeepsBytes ==
  ASSUME BytesInv, NEW c \in Programs, Progress(c)
  PROVE  BytesInv'
<1>1. CASE \E n \in 1 .. Len(wbuf[c]) : write_all(c, n)
  <2>1. PICK n \in 1 .. Len(wbuf[c]) : write_all(c, n)
    BY <1>1
  <2>2. PICK w \in Seq(Byte) : w = wbuf[c]
    BY DEF BytesInv
  <2>3. n \in Nat /\ n <= Len(w)
    BY <2>2, LenProperties
  <2>4. Take(w, n) \in Seq(Byte) /\ Drop(w, n) \in Seq(Byte)
    BY <2>3, TakeType, DropType
  <2>5. up[c] \in Seq(Byte)
    BY DEF BytesInv
  <2>6. up[c] \o Take(w, n) \in Seq(Byte)
    BY <2>4, <2>5, ConcatProperties
  <2>7. /\ up' = [up EXCEPT ![c] = up[c] \o Take(w, n)]
        /\ wbuf' = [wbuf EXCEPT ![c] = Drop(w, n)]
        /\ conn' = conn
    BY <2>1, <2>2 DEF write_all
  <2>8. up' \in [Programs -> Seq(Byte)]
    BY <2>6, <2>7 DEF BytesInv
  <2>9. wbuf' \in [Programs -> Seq(Byte)]
    BY <2>4, <2>7 DEF BytesInv
  <2> QED
    BY <2>7, <2>8, <2>9 DEF BytesInv
<1>2. CASE WriteFails(c)
  <2>1. << >> \in Seq(Byte)
    BY EmptySeq
  <2>2. /\ conn' = [conn EXCEPT ![c] = "none"]
        /\ wbuf' = [wbuf EXCEPT ![c] = << >>]
        /\ up' = up
    BY <1>2 DEF WriteFails, Finish
  <2> QED
    BY <2>1, <2>2 DEF BytesInv
<1>3. CASE \E n \in 1 .. Len(down[c]) : ReadHeader(c, n) \/ ReadBody(c, n)
  <2>1. UNCHANGED <<up, wbuf>> /\ (conn' = conn \/ conn' = [conn EXCEPT ![c] = "none"])
    BY <1>3 DEF ReadHeader, ReadBody, ReadSome, Finish
  <2>2. CASE conn' = conn
    BY <2>1, <2>2 DEF BytesInv
  <2> QED
    BY <2>1, <2>2, FinishKeepsBytes
<1>4. CASE EndOfFile(c)
  BY <1>4, FinishKeepsBytes DEF EndOfFile, Finish
<1> QED
  BY <1>1, <1>2, <1>3, <1>4 DEF Progress

LEMMA AnswerKeepsBytes ==
  ASSUME BytesInv, NEW c \in Programs, Request(c) # {}, NEW reply, Answer(c, reply)
  PROVE  BytesInv'
<1>1. HasFrame(c) /\ HasHeader(c)
  BY DEF Request, HasFrame
<1>2. PICK n \in Nat : n = BodyLen(c)
  BY <1>1, NumberOfFrame
<1>3. WordSize + n \in Nat
  BY WordAssumption
<1>4. PICK s \in Seq(Byte) : s = Drop(up[c], WordSize + n)
  BY <1>3, DropType DEF BytesInv
<1>5. up' = [up EXCEPT ![c] = s] /\ UNCHANGED <<conn, wbuf>>
  BY <1>2, <1>4 DEF Answer, clientVars
<1> QED
  BY <1>4, <1>5 DEF BytesInv

LEMMA RequestKeepsBytes ==
  ASSUME BytesInv, NEW c \in Programs, try_one_request(c)
  PROVE  BytesInv'
<1>1. CASE DropConnection(c)
  BY <1>1 DEF DropConnection, clientVars, BytesInv
<1>2. CASE ~DropConnection(c)
  <2>1. Request(c) # {} /\ \E reply : Answer(c, reply)
    BY <1>2 DEF try_one_request, do_get, do_set, do_del, do_keys, UnknownCmd, Requested
  <2> QED
    BY <2>1, AnswerKeepsBytes
<1> QED
  BY <1>1, <1>2

LEMMA BytesNext == BytesInv /\ [Next]_vars => BytesInv'
<1> SUFFICES ASSUME BytesInv, [Next]_vars  PROVE BytesInv'
  OBVIOUS
<1>1. CASE UNCHANGED vars
  BY <1>1 DEF vars, clientVars, BytesInv
<1>2. CASE Next
  <2>1. PICK c \in Programs : Start(c) \/ Progress(c) \/ try_one_request(c)
    BY <1>2 DEF Next
  <2> QED
    BY <2>1, StartKeepsBytes, ProgressKeepsBytes, RequestKeepsBytes
<1> QED
  BY <1>1, <1>2

(* The connections and the bytes going up keep their types.                *)
THEOREM BytesStay == Spec => []BytesInv
<1> QED
  BY BytesInit, BytesNext, PTL DEF Spec

-----------------------------------------------------------------------------
(* The theorems.                                                           *)

LEMMA RequestAccepted ==
  ASSUME BytesInv, NEW c \in Programs, HasFrame(c)
  PROVE  Request(c) # {} <=> IsRequest(Payload(c))
<1>1. Request(c) = parse_req(Payload(c))
  BY DEF Request
<1>2. parse_req(Payload(c)) # {} <=> IsRequest(Payload(c))
  BY PayloadType, ParseAccepts
<1> QED
  BY <1>1, <1>2

LEMMA ExactFromBytes == BytesInv => ParseExact
<1> SUFFICES ASSUME BytesInv, NEW c \in Programs, HasFrame(c)
             PROVE  /\ Request(c) # {} <=> IsRequest(Payload(c))
                    /\ \A cmd \in Request(c) : Body(cmd) = Payload(c)
  BY DEF ParseExact
<1>1. \A cmd \in parse_req(Payload(c)) : Body(cmd) = Payload(c)
  BY PayloadType, ParseReads
<1>2. Request(c) = parse_req(Payload(c))
  BY DEF Request
<1> QED
  BY <1>1, <1>2, RequestAccepted

(* parse_req accepts the payloads that are requests and no others, and     *)
(* reads from one the command it encodes, whatever the size of a word, the *)
(* limit, the commands of the clients and the frames of the peers.         *)
THEOREM ParserIsExact == Spec => []ParseExact
<1>1. BytesInv => ParseExact
  BY ExactFromBytes
<1> QED
  BY <1>1, BytesStay, PTL

LEMMA ConnSteps ==
  ASSUME BytesInv, Next
  PROVE  \E d \in Programs :
           \/ conn' = conn
           \/ conn' = [conn EXCEPT ![d] = "open"]
           \/ conn' = [conn EXCEPT ![d] = "none"]
           \/ DropConnection(d)
<1>1. PICK d \in Programs : Start(d) \/ Progress(d) \/ try_one_request(d)
  BY DEF Next
<1>2. CASE Start(d)
  BY <1>2 DEF Start, send_req, SendTooLong, SendFrame, Open
<1>3. CASE Progress(d)
  <2>1. conn' = conn \/ conn' = [conn EXCEPT ![d] = "none"]
    BY <1>3 DEF Progress, write_all, WriteFails, ReadHeader, ReadBody, EndOfFile, Finish
  <2> QED
    BY <2>1
<1>4. CASE try_one_request(d)
  <2>1. CASE ~DropConnection(d)
    <3>1. \E reply : Answer(d, reply)
      BY <1>4, <2>1 DEF try_one_request, do_get, do_set, do_del, do_keys, UnknownCmd
    <3> QED
      BY <3>1 DEF Answer
  <2> QED
    BY <2>1
<1> QED
  BY <1>1, <1>2, <1>3, <1>4

LEMMA DroppedStep ==
  ASSUME BytesInv, Next, NEW c \in Programs, conn[c] = "open", conn'[c] = "closed"
  PROVE  TooLong(c) \/ (HasFrame(c) /\ ~IsRequest(Payload(c)))
<1>1. PICK d \in Programs :
           \/ conn' = conn
           \/ conn' = [conn EXCEPT ![d] = "open"]
           \/ conn' = [conn EXCEPT ![d] = "none"]
           \/ DropConnection(d)
  BY ConnSteps
<1>2. DropConnection(d)
  BY <1>1 DEF BytesInv
<1>3. c = d
  BY <1>2 DEF DropConnection, BytesInv
<1>4. TooLong(c) \/ (HasFrame(c) /\ Request(c) = {})
  BY <1>2, <1>3 DEF DropConnection
<1> QED
  BY <1>4, RequestAccepted

(* The server closes no connection whose frame is a request.               *)
THEOREM OnlyMalformedDropped == Spec => DroppedOnlyIfMalformed
<1>1. ASSUME BytesInv, [Next]_vars
      PROVE  [\A c \in Programs : conn[c] = "open" /\ conn'[c] = "closed" =>
                TooLong(c) \/ (HasFrame(c) /\ ~IsRequest(Payload(c)))]_vars
  BY <1>1, DroppedStep
<1> QED
  BY <1>1, BytesStay, PTL DEF Spec, DroppedOnlyIfMalformed

-----------------------------------------------------------------------------
(* Reading back the number in a word.                                      *)

(* h[i] is what is left of a number without its first i bytes.             *)
Shifts(h, n, width) ==
  /\ h[0] = n
  /\ \A i \in Nat : i + 1 <= width =>
       /\ h[i] \in Nat
       /\ h[i + 1] \in Nat
       /\ h[i + 1] = h[i] \div 256
       /\ Bytes(n, width)[i + 1] = h[i] % 256

LEMMA ShiftedShifts ==
  ASSUME NEW n \in Nat, NEW width \in Nat
  PROVE  Shifts(Shifted(n, width), n, width)
<1>1. PICK h : h = Shifted(n, width)
  OBVIOUS
<1>2. h \in [0 .. width -> Nat] /\ Halves(h, n, width)
  BY <1>1, ShiftedType
<1>3. \A i \in 0 .. width : h[i] = IF i = 0 THEN n ELSE h[i - 1] \div 256
  BY <1>2 DEF Halves
<1>4. h[0] = n
  BY <1>3
<1>5. ASSUME NEW i \in Nat, i + 1 <= width
      PROVE  /\ h[i] \in Nat
             /\ h[i + 1] \in Nat
             /\ h[i + 1] = h[i] \div 256
             /\ Bytes(n, width)[i + 1] = h[i] % 256
  <2>1. i \in 0 .. width /\ i + 1 \in 0 .. width /\ i + 1 # 0 /\ (i + 1) - 1 = i
    BY <1>5
  <2>2. h[i] \in Nat /\ h[i + 1] \in Nat
    BY <1>2, <2>1
  <2>3. h[i + 1] = h[i] \div 256
    BY <1>3, <2>1
  <2>4. i + 1 \in 1 .. width
    BY <1>5
  <2>5. Bytes(n, width)[i + 1] = h[i] % 256
    BY <1>1, <2>1, <2>4 DEF Bytes
  <2> QED
    BY <2>2, <2>3, <2>5
<1> QED
  BY <1>1, <1>4, <1>5 DEF Shifts

LEMMA Division ==
  ASSUME NEW m \in Nat
  PROVE  (m % 256) + 256 * (m \div 256) = m
  OBVIOUS

LEMMA DivisionMonotone ==
  ASSUME NEW m \in Nat, NEW k \in Nat, m <= k
  PROVE  m \div 256 <= k \div 256
  OBVIOUS

(* Of a number up to the limit nothing is left beyond a word.              *)
LEMMA NothingLeft ==
  ASSUME NEW n \in Nat, n <= k_max_msg, NEW width \in Nat, WordSize <= width
  PROVE  Shifted(n, width)[WordSize] = 0
<1>1. WordSize \in Nat /\ k_max_msg \in Nat
  BY WordAssumption, MaxMsgAssumption
<1>2. PICK h : h = Shifted(n, width)
  OBVIOUS
<1>3. PICK g : g = Shifted(k_max_msg, WordSize)
  OBVIOUS
<1>4. /\ h[0] = n
      /\ \A i \in Nat : i + 1 <= width =>
           h[i] \in Nat /\ h[i + 1] \in Nat /\ h[i + 1] = h[i] \div 256
  <2>1. Shifts(h, n, width)
    BY <1>2, ShiftedShifts
  <2> QED
    BY <2>1 DEF Shifts
<1>5. /\ g[0] = k_max_msg
      /\ \A i \in Nat : i + 1 <= WordSize =>
           g[i] \in Nat /\ g[i + 1] \in Nat /\ g[i + 1] = g[i] \div 256
  <2>1. Shifts(g, k_max_msg, WordSize)
    BY <1>1, <1>3, ShiftedShifts
  <2> QED
    BY <2>1 DEF Shifts
<1> DEFINE U == {i \in Nat : i <= WordSize => h[i] \in Nat /\ h[i] <= g[i]}
<1>6. 0 \in U
  BY <1>1, <1>4, <1>5
<1>7. ASSUME NEW i \in Nat, i \in U  PROVE i + 1 \in U
  <2>1. ASSUME i + 1 <= WordSize  PROVE h[i + 1] \in Nat /\ h[i + 1] <= g[i + 1]
    <3>1. i <= WordSize /\ i + 1 <= width
      BY <1>1, <2>1
    <3>2. PICK a \in Nat : a = h[i]
      BY <1>4, <3>1
    <3>3. PICK b \in Nat : b = g[i]
      BY <1>5, <2>1
    <3>4. a <= b
      BY <1>7, <3>1, <3>2, <3>3
    <3>5. a \div 256 <= b \div 256
      BY <3>4, DivisionMonotone
    <3> QED
      BY <1>4, <1>5, <2>1, <3>1, <3>2, <3>3, <3>5
  <2> QED
    BY <2>1
<1> HIDE DEF U
<1>8. WordSize \in U
  BY <1>1, <1>6, <1>7, NaturalsFromZero
<1>9. h[WordSize] \in Nat /\ h[WordSize] <= g[WordSize]
  BY <1>1, <1>8 DEF U
<1>10. g[WordSize] = 0
  BY <1>3, LengthAssumption
<1> QED
  BY <1>2, <1>9, <1>10

(* The first bytes of a number up to the limit, read as a word.            *)
LEMMA NumberOfBytes ==
  ASSUME NEW data \in Seq(Byte), NEW at \in Nat, at + WordSize <= Len(data),
         NEW n \in Nat, n <= k_max_msg, NEW width \in Nat, WordSize <= width,
         \A i \in 1 .. WordSize : data[at + i] = Bytes(n, width)[i]
  PROVE  Number(data, at) = n
<1>1. WordSize \in Nat
  BY WordAssumption
<1>2. PICK rest : Remainders(rest, data, at)
  BY NumberHasRemainders
<1>3. PICK h : h = Shifted(n, width)
  OBVIOUS
<1>4. /\ h[0] = n
      /\ \A i \in Nat : i + 1 <= width =>
           /\ h[i] \in Nat /\ h[i + 1] \in Nat /\ h[i + 1] = h[i] \div 256
           /\ Bytes(n, width)[i + 1] = h[i] % 256
  <2>1. Shifts(h, n, width)
    BY <1>3, ShiftedShifts
  <2> QED
    BY <2>1 DEF Shifts
<1>5. h[WordSize] = 0
  BY <1>3, NothingLeft
<1> DEFINE U == {k \in Nat : k <= WordSize => rest[WordSize + 1 - k] = h[WordSize - k]}
<1>6. 0 \in U
  <2>1. WordSize + 1 - 0 = WordSize + 1 /\ WordSize - 0 = WordSize
    BY <1>1
  <2>2. rest[WordSize + 1] = 0
    BY <1>2 DEF Remainders
  <2> QED
    BY <1>5, <2>1, <2>2
<1>7. ASSUME NEW k \in Nat, k \in U  PROVE k + 1 \in U
  <2>1. ASSUME k + 1 <= WordSize  PROVE rest[WordSize + 1 - (k + 1)] = h[WordSize - (k + 1)]
    <3>1. PICK i \in Nat : i = WordSize - (k + 1)
      BY <1>1, <2>1
    <3>2. /\ WordSize + 1 - (k + 1) = i + 1 /\ WordSize + 1 - k = (i + 1) + 1
          /\ WordSize - k = i + 1 /\ i + 1 \in 1 .. WordSize /\ i + 1 <= width
      BY <1>1, <2>1, <3>1
    <3>3. PICK m \in Nat : m = h[i]
      BY <1>4, <3>2
    <3>4. rest[(i + 1) + 1] = m \div 256
      <4>1. k <= WordSize
        BY <1>1, <2>1
      <4>2. rest[WordSize + 1 - k] = h[WordSize - k]
        BY <1>7, <4>1
      <4> QED
        BY <1>4, <3>2, <3>3, <4>2
    <3>5. data[at + (i + 1)] = m % 256
      BY <1>4, <3>2, <3>3
    <3>6. rest[i + 1] = data[at + (i + 1)] + 256 * rest[(i + 1) + 1]
      BY <1>2, <3>2 DEF Remainders
    <3>7. rest[i + 1] = (m % 256) + 256 * (m \div 256)
      BY <3>4, <3>5, <3>6
    <3>8. rest[i + 1] = m
      BY <3>7, Division
    <3> QED
      BY <3>1, <3>2, <3>3, <3>8
  <2> QED
    BY <2>1
<1> HIDE DEF U
<1>8. WordSize \in U
  BY <1>1, <1>6, <1>7, NaturalsFromZero
<1>9. rest[1] = h[0]
  <2>1. WordSize + 1 - WordSize = 1 /\ WordSize - WordSize = 0 /\ WordSize <= WordSize
    BY <1>1
  <2> QED
    BY <1>8, <2>1 DEF U
<1>10. rest[1] = Number(data, at)
  BY <1>2 DEF Remainders
<1> QED
  BY <1>4, <1>9, <1>10

-----------------------------------------------------------------------------
(* Strings in their place.                                                 *)

Has(data, at, s) ==
  /\ at + Len(s) <= Len(data)
  /\ \A i \in 1 .. Len(s) : data[at + i] = s[i]

LEMMA HasItself ==
  ASSUME NEW s \in Seq(Byte)
  PROVE  Has(s, 0, s)
<1>1. Len(s) \in Nat
  BY LenProperties
<1>2. \A i \in 1 .. Len(s) : 0 + i = i
  BY <1>1
<1> QED
  BY <1>1, <1>2 DEF Has

LEMMA HasParts ==
  ASSUME NEW data \in Seq(Byte), NEW at \in Nat, NEW s \in Seq(Byte), NEW t \in Seq(Byte),
         NEW whole, whole = s \o t, Has(data, at, whole)
  PROVE  Has(data, at, s) /\ Has(data, at + Len(s), t)
<1>1. Len(data) \in Nat /\ Len(s) \in Nat /\ Len(t) \in Nat
  BY LenProperties
<1>2. /\ Len(whole) = Len(s) + Len(t)
      /\ \A i \in 1 .. Len(s) + Len(t) : whole[i] = IF i <= Len(s) THEN s[i] ELSE t[i - Len(s)]
  BY ConcatProperties
<1>3. PICK m \in Nat : m = Len(s)
  BY <1>1
<1>4. PICK n \in Nat : n = Len(t)
  BY <1>1
<1>5. at + (m + n) <= Len(data) /\ \A i \in 1 .. m + n : data[at + i] = whole[i]
  BY <1>2, <1>3, <1>4 DEF Has
<1>6. ASSUME NEW i \in 1 .. m  PROVE data[at + i] = s[i]
  <2>1. i \in 1 .. m + n /\ i <= m
    OBVIOUS
  <2> QED
    BY <1>2, <1>3, <1>4, <1>5, <2>1
<1>7. ASSUME NEW i \in 1 .. n  PROVE data[(at + m) + i] = t[i]
  <2>1. PICK j \in 1 .. m + n : j = m + i /\ ~(j <= m) /\ j - m = i /\ at + j = (at + m) + i
    OBVIOUS
  <2>2. data[at + j] = whole[j]
    BY <1>5
  <2>3. whole[j] = t[i]
    BY <1>2, <1>3, <1>4, <2>1
  <2> QED
    BY <2>1, <2>2, <2>3
<1>8. at + m <= Len(data) /\ (at + m) + n <= Len(data)
  BY <1>1, <1>5
<1> QED
  BY <1>3, <1>4, <1>6, <1>7, <1>8 DEF Has

LEMMA HasString ==
  ASSUME NEW data \in Seq(Byte), NEW at \in Nat, NEW s \in Seq(Byte), Has(data, at, s)
  PROVE  SubSeq(data, at + 1, at + Len(s)) = s
<1>1. Len(data) \in Nat
  BY LenProperties
<1>2. PICK n \in Nat : n = Len(s)
  BY LenProperties
<1>3. at + n <= Len(data) /\ \A i \in 1 .. n : data[at + i] = s[i]
  BY <1>2 DEF Has
<1>4. \A i \in at + 1 .. at + n : data[i] \in Byte
  BY <1>1, <1>3, ElementOfSeq
<1>5. PICK t : t = SubSeq(data, at + 1, at + n)
  OBVIOUS
<1>6. /\ t \in Seq(Byte)
      /\ Len(t) = IF at + 1 <= at + n THEN (at + n) - (at + 1) + 1 ELSE 0
      /\ \A i \in 1 .. (at + n) - (at + 1) + 1 : t[i] = data[(at + 1) + i - 1]
  <2>1. PICK l \in Int, m \in Int : l = at + 1 /\ m = at + n
    OBVIOUS
  <2>2. \A i \in l .. m : data[i] \in Byte
    BY <1>4, <2>1
  <2>3. /\ SubSeq(data, l, m) \in Seq(Byte)
        /\ Len(SubSeq(data, l, m)) = IF l <= m THEN m - l + 1 ELSE 0
        /\ \A i \in 1 .. m - l + 1 : SubSeq(data, l, m)[i] = data[l + i - 1]
    BY <2>2, SubSeqProperties
  <2> QED
    BY <1>5, <2>1, <2>3
<1>7. Len(t) = n
  BY <1>6
<1>8. ASSUME NEW i \in 1 .. Len(t)  PROVE t[i] = s[i]
  <2>1. i \in 1 .. (at + n) - (at + 1) + 1 /\ (at + 1) + i - 1 = at + i /\ i \in 1 .. n
    BY <1>7
  <2> QED
    BY <1>3, <1>6, <2>1
<1>9. t = s
  BY <1>2, <1>6, <1>7, <1>8, SeqEqual
<1> QED
  BY <1>2, <1>5, <1>9

LEMMA HasBytes ==
  ASSUME NEW data \in Seq(Byte), NEW at \in Nat, NEW n \in Nat, n <= k_max_msg,
         NEW width \in Nat, WordSize <= width, Has(data, at, Bytes(n, width))
  PROVE  Number(data, at) = n
<1>1. WordSize \in Nat /\ Len(data) \in Nat
  BY WordAssumption, LenProperties
<1>2. PICK w \in Seq(Byte) : w = Bytes(n, width) /\ Len(w) = width
  BY BytesType
<1>3. at + width <= Len(data) /\ \A i \in 1 .. width : data[at + i] = w[i]
  BY <1>2 DEF Has
<1>4. at + WordSize <= Len(data)
  BY <1>1, <1>3
<1>5. ASSUME NEW i \in 1 .. WordSize  PROVE data[at + i] = Bytes(n, width)[i]
  <2>1. i \in 1 .. width
    BY <1>1
  <2> QED
    BY <1>2, <1>3, <2>1
<1> QED
  BY <1>4, <1>5, NumberOfBytes

LEMMA HasWord ==
  ASSUME NEW data \in Seq(Byte), NEW at \in Nat, NEW n \in Nat, n <= k_max_msg,
         Has(data, at, Word(n))
  PROVE  Number(data, at) = n /\ at + WordSize <= Len(data)
<1>1. WordSize \in Nat /\ WordSize <= WordSize
  BY WordAssumption
<1>2. Has(data, at, Bytes(n, WordSize))
  BY DEF Word
<1>3. Number(data, at) = n
  BY <1>1, <1>2, HasBytes
<1>4. Len(Word(n)) = WordSize
  BY WordType
<1> QED
  BY <1>3, <1>4 DEF Has

(* A string of at most k_max_msg bytes behind its length.                  *)
LEMMA HasSized ==
  ASSUME NEW data \in Seq(Byte), NEW at \in Nat, NEW s \in Seq(Byte), Len(s) <= k_max_msg,
         Has(data, at, Sized(s))
  PROVE  /\ Number(data, at) = Len(s)
         /\ at + WordSize + Len(s) <= Len(data)
         /\ SubSeq(data, at + WordSize + 1, at + WordSize + Len(s)) = s
<1>1. WordSize \in Nat /\ Len(data) \in Nat /\ Len(s) \in Nat
  BY WordAssumption, LenProperties
<1>2. PICK w \in Seq(Byte) : w = Word(Len(s)) /\ Len(w) = WordSize
  BY <1>1, WordType
<1>3. PICK whole : whole = w \o s
  OBVIOUS
<1>4. Has(data, at, whole)
  BY <1>2, <1>3 DEF Sized
<1>5. Has(data, at, w) /\ Has(data, at + Len(w), s)
  BY <1>3, <1>4, HasParts
<1>6. Number(data, at) = Len(s)
  BY <1>1, <1>2, <1>5, HasWord
<1>7. PICK from \in Nat : from = at + WordSize
  BY <1>1
<1>8. Has(data, from, s)
  BY <1>2, <1>5, <1>7
<1>9. SubSeq(data, from + 1, from + Len(s)) = s
  BY <1>8, HasString
<1>10. from + Len(s) <= Len(data)
  BY <1>8 DEF Has
<1> QED
  BY <1>6, <1>7, <1>9, <1>10

LEMMA SizedLength ==
  ASSUME NEW s \in Seq(Byte)
  PROVE  Sized(s) \in Seq(Byte) /\ Len(Sized(s)) = WordSize + Len(s)
<1>1. Len(s) \in Nat
  BY LenProperties
<1>2. PICK w \in Seq(Byte) : w = Word(Len(s)) /\ Len(w) = WordSize
  BY <1>1, WordType
<1>3. w \o s \in Seq(Byte) /\ Len(w \o s) = Len(w) + Len(s)
  BY ConcatProperties
<1> QED
  BY <1>2, <1>3 DEF Sized

-----------------------------------------------------------------------------
(* A command that is encoded is read.                                      *)

LEMMA FirstOfSeq ==
  ASSUME NEW U, NEW s \in Seq(U), NEW n \in Nat, Len(s) = n + 1
  PROVE  \E a \in U : \E rest \in Seq(U) : s = <<a>> \o rest /\ Len(rest) = n
<1>1. 1 \in 1 .. Len(s) /\ n + 1 \in 1 .. Len(s) /\ 1 <= n + 1
  OBVIOUS
<1>2. SubSeq(s, 1, n + 1) = <<s[1]>> \o SubSeq(s, 1 + 1, n + 1)
  BY <1>1, SubSeqRecursiveFirst
<1>3. SubSeq(s, 1, n + 1) = s
  BY SubSeqFull
<1>4. s[1] \in U
  BY <1>1, ElementOfSeq
<1>5. 1 \in Nat /\ n + 1 \in Nat /\ 1 <= n + 1 /\ n + 1 <= Len(s) /\ (n + 1) - 1 = n
  OBVIOUS
<1>6. SubSeq(s, 1 + 1, n + 1) \in Seq(U) /\ Len(SubSeq(s, 1 + 1, n + 1)) = n
  BY <1>5, SubSeqType
<1> QED
  BY <1>2, <1>3, <1>4, <1>6

LEMMA FirstOfStrings ==
  ASSUME NEW cmd \in Seq(Seq(Byte)), NEW n \in Nat, Len(cmd) = n + 1
  PROVE  \E str \in Seq(Byte) : \E rest \in Seq(Seq(Byte)) :
           cmd = <<str>> \o rest /\ Len(rest) = n
<1> DEFINE Texts == Seq(Byte)
<1>1. cmd \in Seq(Texts)
  OBVIOUS
<1> HIDE DEF Texts
<1>2. \E str \in Texts : \E rest \in Seq(Texts) : cmd = <<str>> \o rest /\ Len(rest) = n
  BY <1>1, FirstOfSeq, ZenonT(60)
<1> QED
  BY <1>2 DEF Texts

LEMMA PiecesType ==
  ASSUME NEW cmd \in Seq(Seq(Byte))
  PROVE  Pieces(cmd) \in Seq(Seq(Byte)) /\ Len(Pieces(cmd)) = Len(cmd)
<1>1. Len(cmd) \in Nat
  BY LenProperties
<1>2. \A i \in 1 .. Len(cmd) : Sized(cmd[i]) \in Seq(Byte)
  BY ElementOfSeq, SizedType
<1>3. PICK p : p = Pieces(cmd)
  OBVIOUS
<1>4. p \in [1 .. Len(cmd) -> Seq(Byte)]
  BY <1>2, <1>3 DEF Pieces
<1>5. p \in Seq(Seq(Byte))
  BY <1>1, <1>4, SeqDef
<1>6. Len(p) = Len(cmd)
  <2>1. DOMAIN p = 1 .. Len(p) /\ Len(p) \in Nat /\ DOMAIN p = 1 .. Len(cmd)
    BY <1>4, <1>5, LenProperties
  <2> QED
    BY <1>1, <2>1
<1> QED
  BY <1>3, <1>5, <1>6

(* The strings of a command one behind the other. *)
Flat(cmd) == FlattenSeq(Pieces(cmd))

LEMMA FlatType ==
  ASSUME NEW cmd \in Seq(Seq(Byte))
  PROVE  Flat(cmd) \in Seq(Byte)
  BY PiecesType, FlattenSeqType DEF Flat

LEMMA FlatFirst ==
  ASSUME NEW str \in Seq(Byte), NEW rest \in Seq(Seq(Byte)), NEW cmd, cmd = <<str>> \o rest
  PROVE  Flat(cmd) = Sized(str) \o Flat(rest)
<1>1. Pieces(rest) \in Seq(Seq(Byte)) /\ Sized(str) \in Seq(Byte)
  BY PiecesType, SizedType
<1>2. Pieces(cmd) = <<Sized(str)>> \o Pieces(rest)
  BY <1>1, PiecesFirst
<1> QED
  BY <1>1, <1>2, FlattenSeqFirst DEF Flat, FlattensFirst

LEMMA FlatLength ==
  \A n \in Nat : \A cmd \in Seq(Seq(Byte)) : Len(cmd) = n => n <= Len(Flat(cmd))
<1> DEFINE T == {n \in Nat : \A cmd \in Seq(Seq(Byte)) : Len(cmd) = n => n <= Len(Flat(cmd))}
<1>1. 0 \in T
  <2>1. \A cmd \in Seq(Seq(Byte)) : Len(Flat(cmd)) \in Nat
    BY FlatType, LenProperties
  <2> QED
    BY <2>1
<1>2. ASSUME NEW n \in Nat, n \in T  PROVE n + 1 \in T
  <2>1. ASSUME NEW cmd \in Seq(Seq(Byte)), Len(cmd) = n + 1  PROVE n + 1 <= Len(Flat(cmd))
    <3>1. PICK str \in Seq(Byte), rest \in Seq(Seq(Byte)) : cmd = <<str>> \o rest /\ Len(rest) = n
      BY <2>1, FirstOfStrings
    <3>2. Flat(cmd) = Sized(str) \o Flat(rest)
      BY <3>1, FlatFirst
    <3>3. Sized(str) \in Seq(Byte) /\ Len(Sized(str)) = WordSize + Len(str) /\ Len(str) \in Nat
      BY SizedLength, LenProperties
    <3>4. Flat(rest) \in Seq(Byte) /\ Len(Flat(rest)) \in Nat
      BY FlatType, LenProperties
    <3>5. Len(Flat(cmd)) = (WordSize + Len(str)) + Len(Flat(rest))
      <4>1. Len(Sized(str) \o Flat(rest)) = Len(Sized(str)) + Len(Flat(rest))
        BY <3>3, <3>4, ConcatProperties
      <4> QED
        BY <3>2, <3>3, <4>1
    <3>6. n <= Len(Flat(rest))
      BY <1>2, <3>1
    <3> QED
      BY <3>3, <3>4, <3>5, <3>6, WordAssumption
  <2> QED
    BY <2>1
<1> HIDE DEF T
<1>3. \A n \in Nat : n \in T
  BY <1>1, <1>2, NaturalsFromZero
<1> QED
  BY <1>3 DEF T

(* The strings of a command from an offset to the end. *)
EndsWith(data, at, cmd) == Has(data, at, Flat(cmd)) /\ at + Len(Flat(cmd)) = Len(data)

LEMMA EndsWithNothing ==
  ASSUME NEW data \in Seq(Byte), NEW at \in 0 .. Len(data), EndsWith(data, at, << >>)
  PROVE  NoMore(data, at) = {<< >>}
<1>1. Pieces(<< >>) = << >>
  BY EmptySeq DEF Pieces
<1>2. Len(Flat(<< >>)) = 0
  BY <1>1, FlattenSeqEmpty, EmptySeq DEF Flat
<1>3. at = Len(data)
  BY <1>2 DEF EndsWith
<1> QED
  BY <1>3 DEF NoMore, AtEnd

LEMMA EndsWithOneMore ==
  ASSUME NEW data \in Seq(Byte), Len(data) <= k_max_msg, NEW at \in 0 .. Len(data),
         NEW str \in Seq(Byte), NEW rest \in Seq(Seq(Byte)), NEW cmd, cmd = <<str>> \o rest,
         EndsWith(data, at, cmd)
  PROVE  /\ ~NoString(data, at)
         /\ StringAt(data, at) = str
         /\ EndsWith(data, StringEnd(data, at), rest)
<1>1. WordSize \in Nat /\ k_max_msg \in Nat
  BY WordAssumption, MaxMsgAssumption
<1>2. PICK len \in Nat : len = Len(data)
  BY LenProperties
<1>3. PICK first \in Seq(Byte) : first = Sized(str) /\ Len(first) = WordSize + Len(str)
  BY SizedLength
<1>4. PICK flat \in Seq(Byte) : flat = Flat(rest)
  BY FlatType
<1>5. PICK whole : whole = first \o flat
  OBVIOUS
<1>6. Flat(cmd) = whole
  BY <1>3, <1>4, <1>5, FlatFirst
<1>7. Has(data, at, whole) /\ at + Len(whole) = Len(data)
  BY <1>6 DEF EndsWith
<1>8. at \in Nat /\ at <= len
  BY <1>2
<1>9. Has(data, at, first) /\ Has(data, at + Len(first), flat)
  BY <1>5, <1>7, <1>8, HasParts
<1>10. PICK n \in Nat : n = Len(str)
  BY LenProperties
<1>11. PICK m \in Nat : m = Len(flat)
  BY LenProperties
<1>12. Len(whole) = (WordSize + n) + m
  BY <1>3, <1>5, <1>10, <1>11, ConcatProperties
<1>13. Len(str) <= k_max_msg
  BY <1>1, <1>2, <1>7, <1>8, <1>10, <1>12
<1>14. Has(data, at, Sized(str))
  BY <1>3, <1>9
<1>15. /\ Number(data, at) = Len(str)
       /\ at + WordSize + Len(str) <= Len(data)
       /\ SubSeq(data, at + WordSize + 1, at + WordSize + Len(str)) = str
  BY <1>8, <1>13, <1>14, HasSized
<1>16. StringEnd(data, at) = at + WordSize + n
  BY <1>10, <1>15 DEF StringEnd
<1>17. ~NoString(data, at)
  BY <1>1, <1>2, <1>8, <1>10, <1>15, <1>16 DEF NoString, PastEnd
<1>18. StringAt(data, at) = str
  BY <1>10, <1>15, <1>16 DEF StringAt
<1>19. EndsWith(data, StringEnd(data, at), rest)
  <2>1. at + Len(first) = StringEnd(data, at)
    BY <1>1, <1>3, <1>8, <1>10, <1>16
  <2>2. (at + WordSize + n) + m = Len(data)
    BY <1>1, <1>7, <1>8, <1>12
  <2> QED
    BY <1>4, <1>9, <1>11, <1>16, <2>1, <2>2 DEF EndsWith
<1> QED
  BY <1>17, <1>18, <1>19

LEMMA RowsRead ==
  ASSUME NEW data \in Seq(Byte), Len(data) <= k_max_msg, NEW f, Strings(f, data)
  PROVE  \A n \in Nat : \A cmd \in Seq(Seq(Byte)) : \A at \in 0 .. Len(data) :
           Len(cmd) = n /\ EndsWith(data, at, cmd) => f[n][at] = {cmd}
<1> DEFINE T == {n \in Nat : \A cmd \in Seq(Seq(Byte)) : \A at \in 0 .. Len(data) :
                   Len(cmd) = n /\ EndsWith(data, at, cmd) => f[n][at] = {cmd}}
<1>1. 0 \in T
  <2>1. ASSUME NEW cmd \in Seq(Seq(Byte)), NEW at \in 0 .. Len(data),
               Len(cmd) = 0, EndsWith(data, at, cmd)
        PROVE  f[0][at] = {cmd}
    <3>1. cmd = << >>
      BY <2>1, EmptySeq
    <3>2. f[0][at] = NoMore(data, at)
      BY StringsAt
    <3> QED
      BY <2>1, <3>1, <3>2, EndsWithNothing
  <2> QED
    BY <2>1
<1>2. ASSUME NEW n \in Nat, n \in T  PROVE n + 1 \in T
  <2>1. ASSUME NEW cmd \in Seq(Seq(Byte)), NEW at \in 0 .. Len(data),
               Len(cmd) = n + 1, EndsWith(data, at, cmd)
        PROVE  f[n + 1][at] = {cmd}
    <3>1. PICK str \in Seq(Byte), rest \in Seq(Seq(Byte)) : cmd = <<str>> \o rest /\ Len(rest) = n
      BY <2>1, FirstOfStrings
    <3>2. PICK end : end = StringEnd(data, at)
      OBVIOUS
    <3>3. ~NoString(data, at) /\ StringAt(data, at) = str /\ EndsWith(data, end, rest)
      BY <2>1, <3>1, <3>2, EndsWithOneMore
    <3>4. end \in 0 .. Len(data)
      BY <3>2, <3>3, StringThere
    <3>5. f[n][end] = {rest}
      BY <1>2, <3>1, <3>3, <3>4
    <3>6. f[n + 1][at] = OneMore(data, at, f[n])
      BY StringsAt
    <3>7. OneMore(data, at, f[n]) = {<<str>> \o r : r \in f[n][end]}
      BY <3>2, <3>3 DEF OneMore
    <3> QED
      BY <3>1, <3>5, <3>6, <3>7
  <2> QED
    BY <2>1
<1> HIDE DEF T
<1>3. \A n \in Nat : n \in T
  BY <1>1, <1>2, NaturalsFromZero
<1> QED
  BY <1>3 DEF T

(* What send_req sends, parse_req reads: a request arrives as the command  *)
(* the client was started with.                                            *)
THEOREM EncodedIsRead ==
  ASSUME NEW cmd \in Seq(Seq(Byte)), Len(Body(cmd)) <= k_max_msg
  PROVE  parse_req(Body(cmd)) = {cmd}
<1>1. WordSize \in Nat /\ k_max_msg \in Nat
  BY WordAssumption, MaxMsgAssumption
<1>2. PICK n \in Nat : n = Len(cmd)
  BY LenProperties
<1>3. PICK w \in Seq(Byte) : w = Word(n) /\ Len(w) = WordSize
  BY WordType
<1>4. PICK flat \in Seq(Byte) : flat = Flat(cmd)
  BY FlatType
<1>5. PICK data : data = w \o flat
  OBVIOUS
<1>6. Body(cmd) = data
  BY <1>2, <1>3, <1>4, <1>5 DEF Body, Flat, Pieces
<1>7. PICK m \in Nat : m = Len(flat)
  BY LenProperties
<1>8. data \in Seq(Byte) /\ Len(data) = WordSize + m
  BY <1>3, <1>5, <1>7, ConcatProperties
<1>9. Has(data, 0, data)
  BY <1>8, HasItself
<1>10. Has(data, 0, w) /\ Has(data, 0 + Len(w), flat)
  <2>1. 0 \in Nat
    OBVIOUS
  <2> QED
    BY <1>5, <1>8, <1>9, <2>1, HasParts
<1>11. n <= m
  BY <1>2, <1>4, <1>7, FlatLength
<1>12. WordSize + m <= k_max_msg
  BY <1>6, <1>8
<1>13. n <= k_max_msg
  BY <1>1, <1>11, <1>12
<1>14. Number(data, 0) = n
  <2>1. Has(data, 0, Word(n)) /\ 0 \in Nat
    BY <1>3, <1>10
  <2> QED
    BY <1>8, <1>13, <2>1, HasWord
<1>15. PICK f : /\ Strings(f, data)
                /\ parse_req(data) =
                     IF Len(data) < WordSize \/ Number(data, 0) > k_max_msg THEN {}
                     ELSE f[Number(data, 0)][WordSize]
  BY ParseIs
<1>16. parse_req(data) = f[n][WordSize]
  <2>1. ~(Len(data) < WordSize) /\ ~(n > k_max_msg)
    BY <1>1, <1>8, <1>13
  <2> QED
    BY <1>14, <1>15, <2>1
<1>17. EndsWith(data, WordSize, cmd)
  <2>1. 0 + Len(w) = WordSize /\ WordSize + m = Len(data)
    BY <1>1, <1>3, <1>8
  <2> QED
    BY <1>4, <1>7, <1>10, <2>1 DEF EndsWith
<1>18. f[n][WordSize] = {cmd}
  <2>1. WordSize \in 0 .. Len(data) /\ Len(data) <= k_max_msg
    BY <1>1, <1>8, <1>12
  <2>2. \A k \in Nat : \A s \in Seq(Seq(Byte)) : \A at \in 0 .. Len(data) :
          Len(s) = k /\ EndsWith(data, at, s) => f[k][at] = {s}
    <3>1. data \in Seq(Byte) /\ Len(data) <= k_max_msg /\ Strings(f, data)
      BY <1>8, <1>15, <2>1
    <3> QED
      BY <3>1, RowsRead
  <2> QED
    BY <1>2, <1>17, <2>1, <2>2
<1> QED
  BY <1>6, <1>16, <1>18

-----------------------------------------------------------------------------
(* The entries of an array.                                                *)

NoEntries == {Shown(1 + WordSize, ArrReply(0, << >>))}

OneMoreEntry(row, at, Entry) ==
  UNION {{WithEntry(got, entry) : entry \in Entry[at + got.used]} : got \in row}

(* f[i] is what i entries are, for i up to n.                              *)
EntriesUpTo(f, at, Entry, n) ==
  /\ f[0] = NoEntries
  /\ \A i \in Nat : i < n => f[i + 1] = OneMoreEntry(f[i], at, Entry)

LEMMA EntriesExist ==
  ASSUME NEW at, NEW Entry
  PROVE  \A n \in Nat : \E f : EntriesUpTo(f, at, Entry, n)
<1> DEFINE U == {n \in Nat : \E f : EntriesUpTo(f, at, Entry, n)}
<1>1. 0 \in U
  <2>1. EntriesUpTo([i \in Nat |-> NoEntries], at, Entry, 0)
    BY DEF EntriesUpTo
  <2> QED
    BY <2>1
<1>2. ASSUME NEW n \in Nat, n \in U  PROVE n + 1 \in U
  <2>1. PICK f : EntriesUpTo(f, at, Entry, n)
    BY <1>2
  <2> DEFINE g == [i \in Nat |-> IF i <= n THEN f[i] ELSE OneMoreEntry(f[n], at, Entry)]
  <2>2. \A i \in Nat : i <= n => g[i] = f[i]
    OBVIOUS
  <2>3. g[n + 1] = OneMoreEntry(f[n], at, Entry)
    OBVIOUS
  <2> HIDE DEF g
  <2>4. g[0] = NoEntries
    BY <2>1, <2>2 DEF EntriesUpTo
  <2>5. ASSUME NEW i \in Nat, i < n + 1  PROVE g[i + 1] = OneMoreEntry(g[i], at, Entry)
    <3>1. CASE i = n
      BY <2>2, <2>3, <3>1
    <3>2. CASE i # n
      <4>1. i < n /\ i + 1 <= n /\ i <= n
        BY <2>5, <3>2
      <4>2. f[i + 1] = OneMoreEntry(f[i], at, Entry)
        BY <2>1, <4>1 DEF EntriesUpTo
      <4> QED
        BY <2>2, <4>1, <4>2
    <3> QED
      BY <3>1, <3>2
  <2>6. EntriesUpTo(g, at, Entry, n + 1)
    BY <2>4, <2>5 DEF EntriesUpTo
  <2> QED
    BY <2>6
<1> HIDE DEF U
<1>3. \A n \in Nat : n \in U
  BY <1>1, <1>2, NaturalsFromZero
<1> QED
  BY <1>3 DEF U

LEMMA EntriesAgree ==
  ASSUME NEW at, NEW Entry
  PROVE  \A n \in Nat : \A f, g :
           EntriesUpTo(f, at, Entry, n) /\ EntriesUpTo(g, at, Entry, n) => f[n] = g[n]
<1> DEFINE U == {n \in Nat : \A f, g :
                   EntriesUpTo(f, at, Entry, n) /\ EntriesUpTo(g, at, Entry, n) => f[n] = g[n]}
<1>1. 0 \in U
  BY DEF EntriesUpTo
<1>2. ASSUME NEW n \in Nat, n \in U  PROVE n + 1 \in U
  <2>1. ASSUME NEW f, NEW g, EntriesUpTo(f, at, Entry, n + 1), EntriesUpTo(g, at, Entry, n + 1)
        PROVE  f[n + 1] = g[n + 1]
    <3>1. EntriesUpTo(f, at, Entry, n) /\ EntriesUpTo(g, at, Entry, n)
      BY <2>1 DEF EntriesUpTo
    <3>2. f[n] = g[n]
      BY <1>2, <3>1
    <3>3. /\ f[n + 1] = OneMoreEntry(f[n], at, Entry)
          /\ g[n + 1] = OneMoreEntry(g[n], at, Entry)
      BY <2>1 DEF EntriesUpTo
    <3> QED
      BY <3>2, <3>3
  <2> QED
    BY <2>1
<1> HIDE DEF U
<1>3. \A n \in Nat : n \in U
  BY <1>1, <1>2, NaturalsFromZero
<1> QED
  BY <1>3 DEF U

(* One function for all numbers of entries.                                *)
Entries(f, at, Entry) ==
  /\ f[0] = NoEntries
  /\ \A n \in Nat : f[n + 1] = OneMoreEntry(f[n], at, Entry)

LEMMA AllEntriesExist ==
  ASSUME NEW at, NEW Entry
  PROVE  \E f : Entries(f, at, Entry) /\ f = [n \in Nat |-> f[n]]
<1> DEFINE Upto(n) == CHOOSE f : EntriesUpTo(f, at, Entry, n)
           g == [n \in Nat |-> Upto(n)[n]]
<1>1. ASSUME NEW n \in Nat  PROVE EntriesUpTo(Upto(n), at, Entry, n)
  BY EntriesExist
<1>2. \A n \in Nat : g[n] = Upto(n)[n]
  OBVIOUS
<1>3. g = [n \in Nat |-> g[n]]
  OBVIOUS
<1> HIDE DEF Upto, g
<1>4. g[0] = NoEntries
  <2>1. EntriesUpTo(Upto(0), at, Entry, 0)
    BY <1>1
  <2> QED
    BY <1>2, <2>1 DEF EntriesUpTo
<1>5. ASSUME NEW n \in Nat  PROVE g[n + 1] = OneMoreEntry(g[n], at, Entry)
  <2>1. PICK f : f = Upto(n + 1)
    OBVIOUS
  <2>2. EntriesUpTo(f, at, Entry, n + 1) /\ EntriesUpTo(Upto(n), at, Entry, n)
    BY <1>1, <2>1
  <2>3. EntriesUpTo(f, at, Entry, n) /\ f[n + 1] = OneMoreEntry(f[n], at, Entry)
    BY <2>2 DEF EntriesUpTo
  <2>4. f[n] = Upto(n)[n]
    BY <2>2, <2>3, EntriesAgree
  <2>5. g[n + 1] = f[n + 1] /\ g[n] = Upto(n)[n]
    BY <1>2, <2>1
  <2> QED
    BY <2>3, <2>4, <2>5
<1>6. Entries(g, at, Entry)
  BY <1>4, <1>5 DEF Entries
<1> QED
  BY <1>3, <1>6

(* The recursion of ArrAt as it is written.                                *)
EntryRows(f, at, Entry) ==
  f = [n \in Nat |-> IF n = 0 THEN NoEntries ELSE OneMoreEntry(f[n - 1], at, Entry)]

LEMMA EntriesAreRows ==
  ASSUME NEW at, NEW Entry, NEW f
  PROVE  EntryRows(f, at, Entry) <=> Entries(f, at, Entry) /\ f = [n \in Nat |-> f[n]]
<1>1. ASSUME Entries(f, at, Entry), f = [n \in Nat |-> f[n]]
      PROVE  EntryRows(f, at, Entry)
  <2>1. ASSUME NEW n \in Nat
        PROVE  f[n] = IF n = 0 THEN NoEntries ELSE OneMoreEntry(f[n - 1], at, Entry)
    <3>1. CASE n = 0
      BY <1>1, <3>1 DEF Entries
    <3>2. CASE n # 0
      <4>1. PICK m \in Nat : m = n - 1 /\ n = m + 1
        BY <3>2
      <4>2. f[m + 1] = OneMoreEntry(f[m], at, Entry)
        BY <1>1 DEF Entries
      <4> QED
        BY <3>2, <4>1, <4>2
    <3> QED
      BY <3>1, <3>2
  <2> QED
    BY <1>1, <2>1 DEF EntryRows
<1>2. ASSUME EntryRows(f, at, Entry)
      PROVE  Entries(f, at, Entry) /\ f = [n \in Nat |-> f[n]]
  <2>1. \A n \in Nat : f[n] = IF n = 0 THEN NoEntries ELSE OneMoreEntry(f[n - 1], at, Entry)
    BY <1>2 DEF EntryRows
  <2>2. f = [n \in Nat |-> f[n]]
    BY <1>2 DEF EntryRows
  <2>3. ASSUME NEW n \in Nat  PROVE f[n + 1] = OneMoreEntry(f[n], at, Entry)
    <3>1. n + 1 \in Nat /\ n + 1 # 0 /\ (n + 1) - 1 = n
      OBVIOUS
    <3>2. f[n + 1] = OneMoreEntry(f[(n + 1) - 1], at, Entry)
      BY <2>1, <3>1
    <3> QED
      BY <3>1, <3>2
  <2> QED
    BY <2>1, <2>2, <2>3 DEF Entries
<1> QED
  BY <1>1, <1>2

LEMMA ArrChooses ==
  ASSUME NEW data, NEW at, NEW Entry
  PROVE  ArrAt(data, at, Entry) =
           IF Len(data) < at + 1 + WordSize THEN {}
           ELSE (CHOOSE f : EntryRows(f, at, Entry))[Number(data, at + 1)]
BY DEF ArrAt, EntryRows, NoEntries, OneMoreEntry

LEMMA ArrIs ==
  ASSUME NEW data, NEW at, NEW Entry
  PROVE  \E f : /\ Entries(f, at, Entry)
                /\ ArrAt(data, at, Entry) =
                     IF Len(data) < at + 1 + WordSize THEN {} ELSE f[Number(data, at + 1)]
<1>1. \E f : EntryRows(f, at, Entry)
  BY AllEntriesExist, EntriesAreRows
<1>2. PICK f : f = CHOOSE g : EntryRows(g, at, Entry)
  OBVIOUS
<1>3. EntryRows(f, at, Entry)
  BY <1>1, <1>2
<1>4. Entries(f, at, Entry)
  BY <1>3, EntriesAreRows
<1> QED
  BY <1>2, <1>4, ArrChooses

-----------------------------------------------------------------------------
(* on_response at every offset.                                            *)

(* A reply lies within the data.                                           *)
Fits(x, data, at) == x.used \in Nat /\ 1 <= x.used /\ at + x.used <= Len(data)

AllFit(F, data, at) == \A b \in at + 1 .. Len(data) : \A x \in F[b] : Fits(x, data, b)

LEMMA OneAfterAnother ==
  ASSUME NEW at \in Nat, NEW u \in Nat, NEW v \in Nat, NEW len \in Nat,
         1 <= u, (at + u) + v <= len
  PROVE  u + v \in Nat /\ 1 <= u + v /\ at + (u + v) <= len
  OBVIOUS

LEMMA EntriesFit ==
  ASSUME NEW data \in Seq(Byte), NEW at \in Nat, at + 1 + WordSize <= Len(data),
         NEW F, AllFit(F, data, at), NEW f, Entries(f, at, F)
  PROVE  \A n \in Nat : \A x \in f[n] : Fits(x, data, at)
<1> DEFINE U == {n \in Nat : \A x \in f[n] : Fits(x, data, at)}
<1>1. WordSize \in Nat /\ Len(data) \in Nat
  BY WordAssumption, LenProperties
<1>2. 0 \in U
  <2>1. f[0] = {Shown(1 + WordSize, ArrReply(0, << >>))}
    BY DEF Entries, NoEntries
  <2>2. Shown(1 + WordSize, ArrReply(0, << >>)).used = 1 + WordSize
    BY DEF Shown
  <2>3. ASSUME NEW x \in f[0]  PROVE Fits(x, data, at)
    <3>1. x.used = 1 + WordSize
      BY <2>1, <2>2
    <3> QED
      BY <1>1, <3>1 DEF Fits
  <2> QED
    BY <2>3
<1>3. ASSUME NEW n \in Nat, n \in U  PROVE n + 1 \in U
  <2>1. ASSUME NEW x \in f[n + 1]  PROVE Fits(x, data, at)
    <3>1. f[n + 1] = OneMoreEntry(f[n], at, F)
      BY DEF Entries
    <3>2. PICK got \in f[n] : \E entry \in F[at + got.used] : x = WithEntry(got, entry)
      BY <3>1 DEF OneMoreEntry
    <3>3. PICK entry \in F[at + got.used] : x = WithEntry(got, entry)
      BY <3>2
    <3>4. Fits(got, data, at)
      BY <1>3
    <3>5. PICK u \in Nat : u = got.used /\ 1 <= u /\ at + u <= Len(data)
      BY <3>4 DEF Fits
    <3>6. at + u \in at + 1 .. Len(data)
      BY <1>1, <3>5
    <3>7. Fits(entry, data, at + u)
      BY <3>3, <3>5, <3>6 DEF AllFit
    <3>8. x.used = u + entry.used
      BY <3>3, <3>5 DEF WithEntry, Shown
    <3>9. PICK v \in Nat : v = entry.used /\ 1 <= v /\ (at + u) + v <= Len(data)
      <4>1. /\ entry.used \in Nat
            /\ 1 <= entry.used
            /\ (at + u) + entry.used <= Len(data)
        BY <3>7, Zenon DEF Fits
      <4> QED
        BY <4>1, Zenon
    <3>10. u + v \in Nat /\ 1 <= u + v /\ at + (u + v) <= Len(data)
      BY <1>1, <3>5, <3>9, OneAfterAnother, ZenonT(30)
    <3> QED
      BY <3>8, <3>9, <3>10 DEF Fits
  <2> QED
    BY <2>1
<1> HIDE DEF U
<1>4. \A n \in Nat : n \in U
  BY <1>2, <1>3, NaturalsFromZero
<1> QED
  BY <1>4 DEF U

LEMMA SameEntries ==
  ASSUME NEW data \in Seq(Byte), NEW at \in Nat, at + 1 + WordSize <= Len(data),
         NEW F, AllFit(F, data, at), NEW G, \A b \in at + 1 .. Len(data) : F[b] = G[b],
         NEW f, Entries(f, at, F), NEW g, Entries(g, at, G)
  PROVE  \A n \in Nat : f[n] = g[n]
<1> DEFINE U == {n \in Nat : f[n] = g[n]}
<1>1. WordSize \in Nat /\ Len(data) \in Nat
  BY WordAssumption, LenProperties
<1>2. 0 \in U
  BY DEF Entries
<1>3. ASSUME NEW n \in Nat, n \in U  PROVE n + 1 \in U
  <2>1. \A x \in f[n] : Fits(x, data, at)
    BY EntriesFit
  <2>2. ASSUME NEW got \in f[n]  PROVE F[at + got.used] = G[at + got.used]
    <3>1. PICK u \in Nat : u = got.used /\ 1 <= u /\ at + u <= Len(data)
      BY <2>1 DEF Fits
    <3>2. at + u \in at + 1 .. Len(data)
      BY <1>1, <3>1
    <3> QED
      BY <3>1, <3>2
  <2>3. OneMoreEntry(f[n], at, F) = OneMoreEntry(f[n], at, G)
    BY <2>2 DEF OneMoreEntry
  <2>4. f[n + 1] = OneMoreEntry(f[n], at, F) /\ g[n + 1] = OneMoreEntry(g[n], at, G)
    BY DEF Entries
  <2>5. f[n] = g[n]
    BY <1>3
  <2> QED
    BY <2>3, <2>4, <2>5
<1> HIDE DEF U
<1>4. \A n \in Nat : n \in U
  BY <1>2, <1>3, NaturalsFromZero
<1> QED
  BY <1>4 DEF U

LEMMA ArrFits ==
  ASSUME NEW data \in Seq(Byte), NEW at \in Nat, NEW F, AllFit(F, data, at),
         NEW x \in ArrAt(data, at, F)
  PROVE  Fits(x, data, at)
<1>1. WordSize \in Nat /\ Len(data) \in Nat
  BY WordAssumption, LenProperties
<1>2. PICK f : /\ Entries(f, at, F)
               /\ ArrAt(data, at, F) =
                    IF Len(data) < at + 1 + WordSize THEN {} ELSE f[Number(data, at + 1)]
  BY ArrIs
<1>3. ~(Len(data) < at + 1 + WordSize) /\ x \in f[Number(data, at + 1)]
  BY <1>2
<1>4. at + 1 + WordSize <= Len(data)
  BY <1>1, <1>3
<1>5. Number(data, at + 1) \in Nat
  BY <1>4, NumberType
<1>6. \A n \in Nat : \A y \in f[n] : Fits(y, data, at)
  BY <1>2, <1>4, EntriesFit
<1> QED
  BY <1>3, <1>5, <1>6

LEMMA ArrAgrees ==
  ASSUME NEW data \in Seq(Byte), NEW at \in Nat, NEW F, AllFit(F, data, at),
         NEW G, \A b \in at + 1 .. Len(data) : F[b] = G[b]
  PROVE  ArrAt(data, at, F) = ArrAt(data, at, G)
<1>1. WordSize \in Nat /\ Len(data) \in Nat
  BY WordAssumption, LenProperties
<1>2. PICK f : /\ Entries(f, at, F)
               /\ ArrAt(data, at, F) =
                    IF Len(data) < at + 1 + WordSize THEN {} ELSE f[Number(data, at + 1)]
  BY ArrIs
<1>3. PICK g : /\ Entries(g, at, G)
               /\ ArrAt(data, at, G) =
                    IF Len(data) < at + 1 + WordSize THEN {} ELSE g[Number(data, at + 1)]
  BY ArrIs
<1>4. CASE Len(data) < at + 1 + WordSize
  BY <1>2, <1>3, <1>4
<1>5. CASE ~(Len(data) < at + 1 + WordSize)
  <2>1. at + 1 + WordSize <= Len(data)
    BY <1>1, <1>5
  <2>2. Number(data, at + 1) \in Nat
    BY <2>1, NumberType
  <2>3. \A n \in Nat : f[n] = g[n]
    <3>1. Entries(f, at, F) /\ Entries(g, at, G)
      BY <1>2, <1>3
    <3> QED
      BY <2>1, <3>1, SameEntries
  <2> QED
    BY <1>2, <1>3, <1>5, <2>2, <2>3
<1> QED
  BY <1>4, <1>5

(* The step of the recursion of on_response.                               *)
RespAt(data, at, F) ==
  LET tag == data[at + 1]
  IN  CASE at = Len(data) -> {}
        [] at < Len(data) /\ tag = SER_NIL -> NilAt(data, at)
        [] at < Len(data) /\ tag = SER_ERR -> ErrAt(data, at)
        [] at < Len(data) /\ tag = SER_INT -> IntAt(data, at)
        [] at < Len(data) /\ tag = SER_STR -> StrAt(data, at)
        [] at < Len(data) /\ tag = SER_ARR -> ArrAt(data, at, F)
        [] OTHER -> {}

LEMMA Tags ==
  /\ SER_NIL = 0 /\ SER_ERR = 1 /\ SER_STR = 2 /\ SER_INT = 3 /\ SER_ARR = 4
  BY DEF SER_NIL, SER_ERR, SER_STR, SER_INT, SER_ARR

LEMMA RespAtEnd ==
  ASSUME NEW data \in Seq(Byte), NEW F
  PROVE  RespAt(data, Len(data), F) = {}
<1>1. Len(data) \in Nat
  BY LenProperties
<1> QED
  BY <1>1 DEF RespAt

LEMMA RespWithTag ==
  ASSUME NEW data \in Seq(Byte), NEW at \in Nat, at < Len(data), NEW F
  PROVE  /\ data[at + 1] = SER_NIL => RespAt(data, at, F) = NilAt(data, at)
         /\ data[at + 1] = SER_ERR => RespAt(data, at, F) = ErrAt(data, at)
         /\ data[at + 1] = SER_INT => RespAt(data, at, F) = IntAt(data, at)
         /\ data[at + 1] = SER_STR => RespAt(data, at, F) = StrAt(data, at)
         /\ data[at + 1] = SER_ARR => RespAt(data, at, F) = ArrAt(data, at, F)
<1>1. at # Len(data)
  BY LenProperties
<1>2. data[at + 1] = SER_NIL => RespAt(data, at, F) = NilAt(data, at)
  BY <1>1, Tags DEF RespAt
<1>3. data[at + 1] = SER_ERR => RespAt(data, at, F) = ErrAt(data, at)
  BY <1>1, Tags DEF RespAt
<1>4. data[at + 1] = SER_INT => RespAt(data, at, F) = IntAt(data, at)
  BY <1>1, Tags DEF RespAt
<1>5. data[at + 1] = SER_STR => RespAt(data, at, F) = StrAt(data, at)
  BY <1>1, Tags DEF RespAt
<1>6. data[at + 1] = SER_ARR => RespAt(data, at, F) = ArrAt(data, at, F)
  BY <1>1, Tags DEF RespAt
<1> QED
  BY <1>2, <1>3, <1>4, <1>5, <1>6

LEMMA RespWithoutTag ==
  ASSUME NEW data \in Seq(Byte), NEW at \in Nat, at < Len(data), NEW F,
         data[at + 1] \notin {SER_NIL, SER_ERR, SER_INT, SER_STR, SER_ARR}
  PROVE  RespAt(data, at, F) = {}
<1>1. at # Len(data)
  BY LenProperties
<1> QED
  BY <1>1 DEF RespAt

LEMMA RespFits ==
  ASSUME NEW data \in Seq(Byte), NEW at \in 0 .. Len(data), NEW F, AllFit(F, data, at),
         NEW x \in RespAt(data, at, F)
  PROVE  Fits(x, data, at)
<1>1. WordSize \in Nat /\ Len(data) \in Nat /\ at \in Nat
  BY WordAssumption, LenProperties
<1>2. at < Len(data)
  <2>1. at # Len(data)
    BY RespAtEnd
  <2> QED
    BY <1>1, <2>1
<1>3. CASE data[at + 1] = SER_NIL
  <2>1. x = Shown(1, NilReply)
    BY <1>1, <1>2, <1>3, RespWithTag DEF NilAt
  <2>2. x.used = 1
    BY <2>1 DEF Shown
  <2> QED
    BY <1>1, <1>2, <2>2 DEF Fits
<1>4. CASE data[at + 1] = SER_ERR
  <2>1. x \in ErrAt(data, at)
    BY <1>1, <1>2, <1>4, RespWithTag
  <2>2. PICK head \in Nat : head = at + 1 + 2 * WordSize
    BY <1>1
  <2>3. PICK msg_len : msg_len = Number(data, at + 1 + WordSize)
    OBVIOUS
  <2>4. ~(Len(data) < head \/ Len(data) - head < msg_len) /\ x.used = 1 + 2 * WordSize + msg_len
    BY <2>1, <2>2, <2>3 DEF ErrAt
  <2>5. at + 1 + WordSize \in Nat /\ (at + 1 + WordSize) + WordSize <= Len(data)
    BY <1>1, <2>2, <2>4
  <2>6. msg_len \in Nat
    BY <2>3, <2>5, NumberType
  <2> QED
    BY <1>1, <2>2, <2>4, <2>6 DEF Fits
<1>5. CASE data[at + 1] = SER_INT
  <2>1. x \in IntAt(data, at)
    BY <1>1, <1>2, <1>5, RespWithTag
  <2>2. ~(Len(data) < at + 1 + WordSize) /\ x.used = 1 + WordSize
    BY <2>1 DEF IntAt, Shown
  <2> QED
    BY <1>1, <2>2 DEF Fits
<1>6. CASE data[at + 1] = SER_STR
  <2>1. x \in StrAt(data, at)
    BY <1>1, <1>2, <1>6, RespWithTag
  <2>2. PICK head \in Nat : head = at + 1 + WordSize
    BY <1>1
  <2>3. PICK msg_len : msg_len = Number(data, at + 1)
    OBVIOUS
  <2>4. ~(Len(data) < head \/ Len(data) - head < msg_len) /\ x.used = 1 + WordSize + msg_len
    BY <2>1, <2>2, <2>3 DEF StrAt, Shown
  <2>5. at + 1 \in Nat /\ (at + 1) + WordSize <= Len(data)
    BY <1>1, <2>2, <2>4
  <2>6. msg_len \in Nat
    BY <2>3, <2>5, NumberType
  <2> QED
    BY <1>1, <2>2, <2>4, <2>6 DEF Fits
<1>7. CASE data[at + 1] = SER_ARR
  <2>1. x \in ArrAt(data, at, F)
    BY <1>1, <1>2, <1>7, RespWithTag
  <2> QED
    BY <1>1, <2>1, ArrFits
<1> QED
  BY <1>1, <1>2, <1>3, <1>4, <1>5, <1>6, <1>7, RespWithoutTag

LEMMA RespAgrees ==
  ASSUME NEW data \in Seq(Byte), NEW at \in 0 .. Len(data), NEW F, AllFit(F, data, at),
         NEW G, \A b \in at + 1 .. Len(data) : F[b] = G[b]
  PROVE  RespAt(data, at, F) = RespAt(data, at, G)
<1>1. Len(data) \in Nat /\ at \in Nat
  BY LenProperties
<1>2. ArrAt(data, at, F) = ArrAt(data, at, G)
  BY <1>1, ArrAgrees
<1>3. CASE at = Len(data)
  BY <1>3, RespAtEnd
<1>4. CASE at # Len(data)
  <2>1. at < Len(data)
    BY <1>1, <1>4
  <2>2. CASE data[at + 1] \in {SER_NIL, SER_ERR, SER_INT, SER_STR}
    BY <1>1, <2>1, <2>2, RespWithTag
  <2>3. CASE data[at + 1] = SER_ARR
    BY <1>1, <1>2, <2>1, <2>3, RespWithTag
  <2>4. CASE data[at + 1] \notin {SER_NIL, SER_ERR, SER_INT, SER_STR, SER_ARR}
    BY <1>1, <2>1, <2>4, RespWithoutTag
  <2> QED
    BY <2>2, <2>3, <2>4
<1> QED
  BY <1>3, <1>4

(* The recursion of on_response as it is written.                          *)
Responses(F, data) == F = [at \in 0 .. Len(data) |-> RespAt(data, at, F)]

(* The same, from an offset on.                                            *)
RespFrom(F, data, from) ==
  /\ \A at \in from .. Len(data) : F[at] = RespAt(data, at, F)
  /\ \A at \in from .. Len(data) : \A x \in F[at] : Fits(x, data, at)

LEMMA RespBefore ==
  ASSUME NEW data \in Seq(Byte), NEW from \in Nat, from + 1 <= Len(data),
         NEW F, RespFrom(F, data, from + 1)
  PROVE  \E G : RespFrom(G, data, from)
<1>1. PICK len \in Nat : len = Len(data)
  BY LenProperties
<1> DEFINE G == [at \in from .. len |-> IF at = from THEN RespAt(data, from, F) ELSE F[at]]
<1>2. G[from] = RespAt(data, from, F)
  BY <1>1
<1>3. \A at \in from + 1 .. len : G[at] = F[at]
  OBVIOUS
<1> HIDE DEF G
<1>4. \A at \in from + 1 .. len : \A x \in F[at] : Fits(x, data, at)
  BY <1>1 DEF RespFrom
<1>5. ASSUME NEW at \in from .. len
      PROVE  AllFit(F, data, at) /\ RespAt(data, at, F) = RespAt(data, at, G)
  <2>1. \A b \in at + 1 .. len : b \in from + 1 .. len
    OBVIOUS
  <2>2. AllFit(F, data, at)
    BY <1>1, <1>4, <2>1 DEF AllFit
  <2>3. \A b \in at + 1 .. Len(data) : F[b] = G[b]
    BY <1>1, <1>3, <2>1
  <2>4. at \in 0 .. Len(data)
    BY <1>1
  <2> QED
    BY <2>2, <2>3, <2>4, RespAgrees
<1>6. ASSUME NEW at \in from .. len
      PROVE  G[at] = RespAt(data, at, G) /\ \A x \in G[at] : Fits(x, data, at)
  <2>1. CASE at = from
    <3>1. from \in 0 .. Len(data) /\ from \in from .. len
      BY <1>1
    <3>2. \A x \in RespAt(data, from, F) : Fits(x, data, from)
      BY <1>5, <3>1, RespFits
    <3> QED
      BY <1>2, <1>5, <2>1, <3>2
  <2>2. CASE at # from
    <3>1. at \in from + 1 .. len
      BY <2>2
    <3>2. F[at] = RespAt(data, at, F)
      BY <1>1, <3>1 DEF RespFrom
    <3> QED
      BY <1>3, <1>4, <1>5, <3>1, <3>2
  <2> QED
    BY <2>1, <2>2
<1>7. RespFrom(G, data, from)
  BY <1>1, <1>6 DEF RespFrom
<1> QED
  BY <1>7

LEMMA ResponsesExist ==
  ASSUME NEW data \in Seq(Byte)
  PROVE  \E F : Responses(F, data)
<1>1. PICK len \in Nat : len = Len(data)
  BY LenProperties
<1> DEFINE U == {k \in Nat : k <= len => \E F : RespFrom(F, data, len - k)}
<1>2. 0 \in U
  <2> DEFINE F == [at \in {len} |-> {}]
  <2>1. F[len] = {}
    OBVIOUS
  <2>2. \A at \in len .. len : at = len
    OBVIOUS
  <2>3. RespAt(data, len, F) = {}
    BY <1>1, RespAtEnd
  <2> HIDE DEF F
  <2>4. RespFrom(F, data, len)
    BY <1>1, <2>1, <2>2, <2>3 DEF RespFrom
  <2>5. len - 0 = len
    OBVIOUS
  <2> QED
    BY <2>4, <2>5
<1>3. ASSUME NEW k \in Nat, k \in U  PROVE k + 1 \in U
  <2>1. ASSUME k + 1 <= len  PROVE \E F : RespFrom(F, data, len - (k + 1))
    <3>1. PICK from \in Nat : from = len - (k + 1) /\ from + 1 = len - k /\ from + 1 <= len
      BY <2>1
    <3>2. k <= len
      BY <2>1
    <3>3. PICK F : RespFrom(F, data, from + 1)
      BY <1>3, <3>1, <3>2
    <3> QED
      BY <1>1, <3>1, <3>3, RespBefore
  <2> QED
    BY <2>1
<1> HIDE DEF U
<1>4. len \in U
  BY <1>2, <1>3, NaturalsFromZero
<1>5. PICK F : RespFrom(F, data, 0)
  <2>1. len - len = 0 /\ len <= len
    OBVIOUS
  <2> QED
    BY <1>4, <2>1 DEF U
<1> DEFINE G == [at \in 0 .. len |-> F[at]]
<1>6. \A at \in 0 .. len : G[at] = F[at]
  OBVIOUS
<1>7. G = [at \in 0 .. len |-> G[at]]
  OBVIOUS
<1> HIDE DEF G
<1>8. ASSUME NEW at \in 0 .. len  PROVE G[at] = RespAt(data, at, G)
  <2>1. \A b \in at + 1 .. len : b \in 0 .. len
    OBVIOUS
  <2>2. AllFit(F, data, at)
    BY <1>1, <1>5, <2>1 DEF AllFit, RespFrom
  <2>3. \A b \in at + 1 .. Len(data) : F[b] = G[b]
    BY <1>1, <1>6, <2>1
  <2>4. RespAt(data, at, F) = RespAt(data, at, G)
    BY <1>1, <2>2, <2>3, RespAgrees
  <2> QED
    BY <1>1, <1>5, <1>6, <2>4 DEF RespFrom
<1>9. Responses(G, data)
  BY <1>1, <1>7, <1>8 DEF Responses
<1> QED
  BY <1>9

LEMMA ResponseChooses ==
  ASSUME NEW data
  PROVE  on_response(data) = (CHOOSE F : Responses(F, data))[0]
<1>1. PICK f : f = CHOOSE F : Responses(F, data)
  OBVIOUS
<1>2. f = CHOOSE F : F = [at \in 0 .. Len(data) |->
            CASE at = Len(data) -> {}
              [] at < Len(data) /\ data[at + 1] = SER_NIL -> NilAt(data, at)
              [] at < Len(data) /\ data[at + 1] = SER_ERR -> ErrAt(data, at)
              [] at < Len(data) /\ data[at + 1] = SER_INT -> IntAt(data, at)
              [] at < Len(data) /\ data[at + 1] = SER_STR -> StrAt(data, at)
              [] at < Len(data) /\ data[at + 1] = SER_ARR -> ArrAt(data, at, F)
              [] OTHER -> {}]
  BY <1>1 DEF Responses, RespAt
<1>3. on_response(data) = f[0]
  BY <1>2 DEF on_response
<1> QED
  BY <1>1, <1>3

LEMMA ResponseIs ==
  ASSUME NEW data \in Seq(Byte)
  PROVE  \E F : /\ \A at \in 0 .. Len(data) : F[at] = RespAt(data, at, F)
                /\ on_response(data) = RespAt(data, 0, F)
<1>1. PICK F : F = CHOOSE G : Responses(G, data)
  OBVIOUS
<1>2. Responses(F, data)
  BY <1>1, ResponsesExist
<1>3. \A at \in 0 .. Len(data) : F[at] = RespAt(data, at, F)
  BY <1>2 DEF Responses
<1>4. 0 \in 0 .. Len(data)
  BY LenProperties
<1>5. on_response(data) = F[0]
  BY <1>1, ResponseChooses
<1> QED
  BY <1>3, <1>4, <1>5

-----------------------------------------------------------------------------
(* What on_response reads.                                                 *)

(* The client can read a reply, and reads what the handler meant.          *)
Readable(reply) ==
  /\ Encoded(reply) \in Seq(Byte)
  /\ WordSize + Len(Encoded(reply)) <= k_max_msg
  /\ on_response(Encoded(reply)) # {}
  /\ \A found \in on_response(Encoded(reply)) : found.shown = reply

LEMMA TagType ==
  ASSUME NEW tag \in 0 .. 4
  PROVE  <<tag>> \in Seq(Byte) /\ Len(<<tag>>) = 1 /\ <<tag>>[1] = tag
<1>1. tag \in Byte
  BY DEF Byte
<1> QED
  BY <1>1

LEMMA TagRange ==
  /\ SER_NIL \in 0 .. 4 /\ SER_ERR \in 0 .. 4 /\ SER_STR \in 0 .. 4
  /\ SER_INT \in 0 .. 4 /\ SER_ARR \in 0 .. 4
  BY Tags

LEMMA HasTag ==
  ASSUME NEW data \in Seq(Byte), NEW at \in Nat, NEW tag \in 0 .. 4, NEW s \in Seq(Byte),
         NEW whole, whole = <<tag>> \o s, Has(data, at, whole)
  PROVE  data[at + 1] = tag /\ at < Len(data) /\ Has(data, at + 1, s)
<1>1. PICK t \in Seq(Byte) : t = <<tag>> /\ Len(t) = 1 /\ t[1] = tag
  BY TagType
<1>2. Has(data, at, t) /\ Has(data, at + Len(t), s)
  BY <1>1, HasParts
<1>3. at + 1 <= Len(data) /\ data[at + 1] = tag
  BY <1>1, <1>2 DEF Has
<1>4. Len(data) \in Nat
  BY LenProperties
<1> QED
  BY <1>1, <1>2, <1>3, <1>4

LEMMA StrType ==
  ASSUME NEW val \in Seq(Byte)
  PROVE  out_str(val) \in Seq(Byte) /\ Len(out_str(val)) = 1 + WordSize + Len(val)
<1>1. PICK s \in Seq(Byte) : s = Sized(val) /\ Len(s) = WordSize + Len(val)
  BY SizedLength
<1>2. PICK t \in Seq(Byte) : t = <<SER_STR>> /\ Len(t) = 1
  BY TagType, TagRange
<1>3. t \o s \in Seq(Byte) /\ Len(t \o s) = Len(t) + Len(s)
  BY ConcatProperties
<1>4. WordSize \in Nat /\ Len(val) \in Nat
  BY WordAssumption, LenProperties
<1> QED
  BY <1>1, <1>2, <1>3, <1>4 DEF out_str

LEMMA StrRead ==
  ASSUME NEW data \in Seq(Byte), NEW at \in Nat, NEW val \in Seq(Byte),
         Len(val) <= k_max_msg, Has(data, at, out_str(val)), NEW F
  PROVE  /\ at < Len(data)
         /\ RespAt(data, at, F) = {Shown(1 + WordSize + Len(val), StrReply(val))}
<1>1. WordSize \in Nat /\ Len(data) \in Nat /\ Len(val) \in Nat
  BY WordAssumption, LenProperties
<1>2. PICK s \in Seq(Byte) : s = Sized(val)
  BY SizedType
<1>3. data[at + 1] = SER_STR /\ at < Len(data) /\ Has(data, at + 1, s)
  <2>1. PICK whole : whole = <<SER_STR>> \o s
    OBVIOUS
  <2>2. Has(data, at, whole)
    BY <1>2, <2>1 DEF out_str
  <2> QED
    BY <2>1, <2>2, HasTag, TagRange
<1>4. RespAt(data, at, F) = StrAt(data, at)
  BY <1>3, RespWithTag
<1>5. PICK from \in Nat : from = at + 1
  OBVIOUS
<1>6. Has(data, from, Sized(val))
  BY <1>2, <1>3, <1>5
<1>7. /\ Number(data, from) = Len(val)
      /\ from + WordSize + Len(val) <= Len(data)
      /\ SubSeq(data, from + WordSize + 1, from + WordSize + Len(val)) = val
  BY <1>6, HasSized
<1>8. PICK head \in Nat : head = at + 1 + WordSize
  BY <1>1
<1>9. PICK n \in Nat : n = Len(val)
  BY <1>1
<1>10. ~(Len(data) < head \/ Len(data) - head < n)
  BY <1>1, <1>5, <1>7, <1>8, <1>9
<1>11. SubSeq(data, head + 1, head + n) = val
  BY <1>5, <1>7, <1>8, <1>9
<1>12. StrAt(data, at) = {Shown(1 + WordSize + n, StrReply(val))}
  BY <1>5, <1>7, <1>8, <1>9, <1>10, <1>11 DEF StrAt
<1> QED
  BY <1>3, <1>4, <1>9, <1>12

LEMMA LimitAtLeast ==
  /\ WordSize \in Nat /\ 1 <= WordSize /\ k_max_msg \in Nat
  /\ 2 + 4 * WordSize <= k_max_msg
<1>1. "ERR_2BIG" \in DOMAIN ErrCode
  BY DEF ErrCode
<1>2. PICK text \in Seq(Byte) : text = ErrTexts["ERR_2BIG"]
  BY <1>1, TextAssumption
<1>3. Len(text) >= 1 + WordSize /\ 1 + 3 * WordSize + Len(text) <= k_max_msg /\ Len(text) \in Nat
  BY <1>1, <1>2, TextAssumption, LenProperties
<1> QED
  BY <1>3, WordAssumption, MaxMsgAssumption

LEMMA NilReadable == Readable(NilReply)
<1>1. PICK data \in Seq(Byte) : data = <<SER_NIL>> /\ Len(data) = 1 /\ data[1] = SER_NIL
  BY TagType, TagRange
<1>2. Encoded(NilReply) = data
  BY <1>1 DEF Encoded, NilReply, out_nil
<1>3. PICK F : on_response(data) = RespAt(data, 0, F)
  BY ResponseIs
<1>4. RespAt(data, 0, F) = NilAt(data, 0)
  <2>1. 0 \in Nat /\ 0 < Len(data) /\ data[0 + 1] = SER_NIL
    BY <1>1
  <2> QED
    BY <2>1, RespWithTag
<1>5. on_response(data) = {Shown(1, NilReply)}
  BY <1>3, <1>4 DEF NilAt
<1>6. Shown(1, NilReply).shown = NilReply
  BY DEF Shown
<1>7. WordSize + Len(data) <= k_max_msg
  BY <1>1, LimitAtLeast
<1> QED
  BY <1>2, <1>5, <1>6, <1>7 DEF Readable

LEMMA StrReadable ==
  ASSUME NEW val \in Seq(Byte), WordSize + Len(Encoded(StrReply(val))) <= k_max_msg
  PROVE  Readable(StrReply(val))
<1>1. PICK data : data = out_str(val)
  OBVIOUS
<1>2. Encoded(StrReply(val)) = data
  BY <1>1 DEF Encoded, StrReply
<1>3. data \in Seq(Byte) /\ Len(data) = 1 + WordSize + Len(val)
  BY <1>1, StrType
<1>4. PICK n \in Nat : n = Len(val)
  BY LenProperties
<1>5. n <= k_max_msg
  BY <1>2, <1>3, <1>4, LimitAtLeast
<1>6. PICK F : on_response(data) = RespAt(data, 0, F)
  BY <1>3, ResponseIs
<1>7. Has(data, 0, out_str(val)) /\ 0 \in Nat
  BY <1>1, <1>3, HasItself
<1>8. RespAt(data, 0, F) = {Shown(1 + WordSize + Len(val), StrReply(val))}
  BY <1>3, <1>4, <1>5, <1>7, StrRead
<1>9. Shown(1 + WordSize + Len(val), StrReply(val)).shown = StrReply(val)
  BY DEF Shown
<1> QED
  BY <1>2, <1>3, <1>6, <1>8, <1>9 DEF Readable

LEMMA IntReadable ==
  ASSUME NEW n \in {0, 1}
  PROVE  Readable(IntReply(n))
<1>1. PICK s \in Seq(Byte) : s = Bytes(n, 2 * WordSize) /\ Len(s) = 2 * WordSize
  <2>1. n \in Nat /\ 2 * WordSize \in Nat
    BY LimitAtLeast
  <2> QED
    BY <2>1, BytesType
<1>2. PICK t \in Seq(Byte) : t = <<SER_INT>> /\ Len(t) = 1
  BY TagType, TagRange
<1>3. PICK data : data = t \o s
  OBVIOUS
<1>4. data \in Seq(Byte) /\ Len(data) = 1 + 2 * WordSize
  BY <1>1, <1>2, <1>3, ConcatProperties
<1>5. Encoded(IntReply(n)) = data
  BY <1>1, <1>2, <1>3 DEF Encoded, IntReply, out_int, Int64
<1>6. PICK F : on_response(data) = RespAt(data, 0, F)
  BY <1>4, ResponseIs
<1>7. data[0 + 1] = SER_INT /\ 0 < Len(data) /\ Has(data, 0 + 1, s)
  <2>1. Has(data, 0, data) /\ 0 \in Nat /\ SER_INT \in 0 .. 4
    BY <1>4, HasItself, Tags
  <2>2. data = <<SER_INT>> \o s
    BY <1>2, <1>3
  <2> QED
    BY <1>4, <2>1, <2>2, HasTag
<1>8. RespAt(data, 0, F) = IntAt(data, 0)
  BY <1>4, <1>7, RespWithTag
<1>9. Number(data, 1) = n
  <2>1. Has(data, 1, Bytes(n, 2 * WordSize))
    BY <1>1, <1>7
  <2>2. /\ 1 \in Nat /\ n \in Nat /\ n <= k_max_msg
        /\ 2 * WordSize \in Nat /\ WordSize <= 2 * WordSize
    BY LimitAtLeast
  <2> QED
    BY <1>4, <2>1, <2>2, HasBytes
<1>10. ~(Len(data) < 0 + 1 + WordSize) /\ 0 + 1 = 1
  BY <1>4, LimitAtLeast
<1>11. IntAt(data, 0) = {Shown(1 + WordSize, IntReply(n))}
  BY <1>9, <1>10 DEF IntAt
<1>12. Shown(1 + WordSize, IntReply(n)).shown = IntReply(n)
  BY DEF Shown
<1>13. WordSize + Len(data) <= k_max_msg
  BY <1>4, LimitAtLeast
<1> QED
  BY <1>4, <1>5, <1>6, <1>8, <1>11, <1>12, <1>13 DEF Readable

LEMMA ErrReadable ==
  ASSUME NEW code \in DOMAIN ErrCode
  PROVE  Readable(ErrReply(code))
<1>1. PICK text \in Seq(Byte) : text = ErrTexts[code]
  BY TextAssumption
<1>2. PICK len \in Nat : len = Len(text)
  BY LenProperties
<1>3. len >= 1 + WordSize /\ 1 + 3 * WordSize + len <= k_max_msg
  BY <1>1, <1>2, TextAssumption
<1>4. PICK number \in Nat : number = ErrCode[code] /\ number <= 1
  BY DEF ErrCode
<1>5. PICK t \in Seq(Byte) : t = <<SER_ERR>> /\ Len(t) = 1
  BY TagType, TagRange
<1>6. PICK v \in Seq(Byte) : v = Word(number) /\ Len(v) = WordSize
  BY WordType
<1>7. PICK out : out = t \o v
  OBVIOUS
<1>8. out \in Seq(Byte) /\ Len(out) = 1 + WordSize
  BY <1>5, <1>6, <1>7, ConcatProperties
<1>9. PICK m \in Nat : m = 1 + WordSize /\ m <= k_max_msg
  BY LimitAtLeast
<1>10. PICK w \in Seq(Byte) : w = Word(m) /\ Len(w) = WordSize
  BY WordType
<1>11. PICK front : front = out \o w
  OBVIOUS
<1>12. front \in Seq(Byte) /\ Len(front) = m + WordSize
  <2>1. front \in Seq(Byte) /\ Len(front) = Len(out) + Len(w)
    BY <1>8, <1>10, <1>11, ConcatProperties
  <2> QED
    BY <1>8, <1>9, <1>10, <2>1
<1>13. PICK data : data = front \o text
  OBVIOUS
<1>14. data \in Seq(Byte) /\ Len(data) = (m + WordSize) + len
  BY <1>2, <1>12, <1>13, ConcatProperties
<1>15. Encoded(ErrReply(code)) = data
  <2>1. Encoded(ErrReply(code)) = out_err(code)
    BY Zenon DEF Encoded, ErrReply
  <2>2. out_err(code) = data
    <3>1. out = <<SER_ERR>> \o Word(ErrCode[code])
      BY <1>4, <1>5, <1>6, <1>7
    <3>2. Word(Len(out)) = w
      BY <1>8, <1>9, <1>10
    <3> QED
      BY <1>1, <1>11, <1>13, <3>1, <3>2 DEF out_err
  <2> QED
    BY <2>1, <2>2
<1>16. PICK F : on_response(data) = RespAt(data, 0, F)
  BY <1>14, ResponseIs
<1>17. Has(data, 0, data) /\ 0 \in Nat
  BY <1>14, HasItself
<1>18. Has(data, 0, front) /\ Has(data, 0 + Len(front), text)
  BY <1>12, <1>13, <1>14, <1>17, HasParts
<1>19. Has(data, 0, out) /\ Has(data, 0 + Len(out), w)
  BY <1>8, <1>10, <1>11, <1>14, <1>17, <1>18, HasParts
<1>20. data[0 + 1] = SER_ERR /\ 0 < Len(data) /\ Has(data, 0 + 1, v)
  <2>1. out = <<SER_ERR>> \o v
    BY <1>5, <1>7
  <2> QED
    BY <1>6, <1>14, <1>17, <1>19, <2>1, HasTag, TagRange
<1>21. RespAt(data, 0, F) = ErrAt(data, 0)
  BY <1>14, <1>20, RespWithTag
<1>22. Number(data, 1) = number
  <2>1. Has(data, 1, Word(number)) /\ 1 \in Nat /\ number <= k_max_msg
    BY <1>4, <1>6, <1>20, LimitAtLeast
  <2> QED
    BY <1>14, <2>1, HasWord
<1>23. Number(data, m) = m
  <2>1. Has(data, m, Word(m))
    BY <1>8, <1>9, <1>10, <1>19
  <2> QED
    BY <1>9, <1>14, <2>1, HasWord
<1>24. (CHOOSE e \in DOMAIN ErrCode : ErrCode[e] = number) = code
  <2>1. \A e \in DOMAIN ErrCode : ErrCode[e] = number => e = code
    BY <1>4 DEF ErrCode
  <2>2. PICK e : e = CHOOSE d \in DOMAIN ErrCode : ErrCode[d] = number
    OBVIOUS
  <2>3. e \in DOMAIN ErrCode /\ ErrCode[e] = number
    BY <1>4, <2>2
  <2> QED
    BY <2>1, <2>2, <2>3
<1>25. PICK head \in Nat : head = 0 + 1 + 2 * WordSize
  BY LimitAtLeast
<1>26. ~(Len(data) < head \/ Len(data) - head < m)
  BY <1>3, <1>9, <1>14, <1>25, LimitAtLeast
<1>27. 0 + 1 = 1 /\ 0 + 1 + WordSize = m
  BY <1>9
<1>28. PICK x : x = [used |-> 1 + 2 * WordSize + m, shown |-> ErrReply(code),
                     text |-> SubSeq(data, head + 1, head + m)]
  OBVIOUS
<1>29. ErrAt(data, 0) = {x}
  BY <1>22, <1>23, <1>24, <1>25, <1>26, <1>27, <1>28 DEF ErrAt
<1>30. x.shown = ErrReply(code)
  BY <1>28
<1>31. WordSize + Len(data) <= k_max_msg
  BY <1>3, <1>9, <1>14, LimitAtLeast
<1> QED
  BY <1>14, <1>15, <1>16, <1>21, <1>29, <1>30, <1>31 DEF Readable

-----------------------------------------------------------------------------
(* Lists of keys.                                                          *)

(* The first keys one behind the other. *)
FirstStrs(keys, m) == FlattenSeq([i \in 1 .. m |-> out_str(keys[i])])

FirstReplies(keys, m) == [i \in 1 .. m |-> StrReply(keys[i])]

LEMMA OneMoreStr ==
  ASSUME NEW keys \in Seq(Seq(Byte)), NEW m \in Nat, m + 1 <= Len(keys)
  PROVE  FirstStrs(keys, m + 1) = FirstStrs(keys, m) \o out_str(keys[m + 1])
<1>1. Len(keys) \in Nat
  BY LenProperties
<1>2. PICK s : s = [i \in 1 .. m |-> out_str(keys[i])]
  OBVIOUS
<1>3. PICK t : t = [i \in 1 .. m + 1 |-> out_str(keys[i])]
  OBVIOUS
<1>4. ASSUME NEW i \in 1 .. m + 1  PROVE out_str(keys[i]) \in Seq(Byte)
  <2>1. i \in 1 .. Len(keys)
    BY <1>1
  <2>2. keys[i] \in Seq(Byte)
    BY <2>1, ElementOfSeq
  <2> QED
    BY <2>2, StrType
<1>5. t \in [1 .. m + 1 -> Seq(Byte)]
  BY <1>3, <1>4
<1>6. \A i \in 1 .. m : i \in 1 .. m + 1
  OBVIOUS
<1>7. s \in [1 .. m -> Seq(Byte)]
  BY <1>2, <1>4, <1>6
<1>8. \A i \in 1 .. m : t[i] = s[i]
  BY <1>2, <1>3, <1>6
<1>9. t[m + 1] = out_str(keys[m + 1])
  BY <1>3
<1>10. FlattenSeq(t) = FlattenSeq(s) \o t[m + 1]
  BY <1>5, <1>7, <1>8, FlattenSeqNext
<1> QED
  BY <1>2, <1>3, <1>9, <1>10 DEF FirstStrs

LEMMA OneMoreReply ==
  ASSUME NEW keys, NEW m \in Nat
  PROVE  Append(FirstReplies(keys, m), StrReply(keys[m + 1])) = FirstReplies(keys, m + 1)
<1>1. PICK U : U = {StrReply(keys[i]) : i \in 1 .. m + 1}
  OBVIOUS
<1>2. PICK s : s = FirstReplies(keys, m)
  OBVIOUS
<1>3. PICK t : t = FirstReplies(keys, m + 1)
  OBVIOUS
<1>4. PICK x \in U : x = StrReply(keys[m + 1])
  BY <1>1
<1>5. s \in [1 .. m -> U] /\ \A i \in 1 .. m : s[i] = StrReply(keys[i])
  BY <1>1, <1>2 DEF FirstReplies
<1>6. t \in [1 .. m + 1 -> U] /\ \A i \in 1 .. m + 1 : t[i] = StrReply(keys[i])
  BY <1>1, <1>3 DEF FirstReplies
<1>7. s \in Seq(U) /\ t \in Seq(U) /\ m + 1 \in Nat
  BY <1>5, <1>6, SeqDef
<1>8. Len(s) = m /\ Len(t) = m + 1
  BY <1>5, <1>6, <1>7, LenProperties
<1>9. PICK u : u = Append(s, x)
  OBVIOUS
<1>10. /\ u \in Seq(U) /\ Len(u) = m + 1
       /\ \A i \in 1 .. m : u[i] = s[i]
       /\ u[m + 1] = x
  BY <1>7, <1>8, <1>9, AppendProperties
<1>11. ASSUME NEW i \in 1 .. m + 1  PROVE u[i] = t[i]
  <2>1. CASE i = m + 1
    BY <1>4, <1>6, <1>10, <2>1
  <2>2. CASE i # m + 1
    <3>1. i \in 1 .. m
      BY <2>2
    <3> QED
      BY <1>5, <1>6, <1>10, <3>1
  <2> QED
    BY <2>1, <2>2
<1>12. u = t
  BY <1>7, <1>8, <1>10, <1>11, SeqEqual
<1> QED
  BY <1>2, <1>3, <1>4, <1>9, <1>12

LEMMA FirstStrsType ==
  ASSUME NEW keys \in Seq(Seq(Byte))
  PROVE  \A m \in Nat : m <= Len(keys) =>
           FirstStrs(keys, m) \in Seq(Byte) /\ m <= Len(FirstStrs(keys, m))
<1> DEFINE T == {m \in Nat : m <= Len(keys) =>
                   FirstStrs(keys, m) \in Seq(Byte) /\ m <= Len(FirstStrs(keys, m))}
<1>1. Len(keys) \in Nat
  BY LenProperties
<1>2. 0 \in T
  <2>1. [i \in 1 .. 0 |-> out_str(keys[i])] = << >>
    BY EmptySeq
  <2>2. FirstStrs(keys, 0) = << >>
    BY <2>1, FlattenSeqEmpty DEF FirstStrs
  <2>3. PICK s \in Seq(Byte) : s = << >> /\ Len(s) = 0
    BY EmptySeq
  <2>4. FirstStrs(keys, 0) \in Seq(Byte) /\ Len(FirstStrs(keys, 0)) = 0
    BY <2>2, <2>3
  <2> QED
    BY <2>4
<1>3. ASSUME NEW m \in Nat, m \in T  PROVE m + 1 \in T
  <2>1. ASSUME m + 1 <= Len(keys)
        PROVE  FirstStrs(keys, m + 1) \in Seq(Byte) /\ m + 1 <= Len(FirstStrs(keys, m + 1))
    <3>1. m <= Len(keys) /\ m + 1 \in 1 .. Len(keys)
      BY <1>1, <2>1
    <3>2. PICK s \in Seq(Byte) : s = FirstStrs(keys, m) /\ m <= Len(s)
      BY <1>3, <3>1
    <3>3. PICK key \in Seq(Byte) : key = keys[m + 1]
      BY <3>1, ElementOfSeq
    <3>4. PICK t \in Seq(Byte) : t = out_str(key) /\ Len(t) = 1 + WordSize + Len(key)
      BY StrType
    <3>5. FirstStrs(keys, m + 1) = s \o t
      BY <2>1, <3>2, <3>3, <3>4, OneMoreStr
    <3>6. s \o t \in Seq(Byte) /\ Len(s \o t) = Len(s) + Len(t)
      BY ConcatProperties
    <3>7. Len(s) \in Nat /\ Len(key) \in Nat
      BY LenProperties
    <3>8. m + 1 <= Len(s \o t)
      BY <3>2, <3>4, <3>6, <3>7, LimitAtLeast
    <3> QED
      BY <3>5, <3>6, <3>8
  <2> QED
    BY <2>1
<1> HIDE DEF T
<1>4. \A m \in Nat : m \in T
  BY <1>2, <1>3, NaturalsFromZero
<1> QED
  BY <1>4 DEF T

(* Where each of the listed keys is. *)
LEMMA ListedThere ==
  ASSUME NEW data \in Seq(Byte), NEW at \in Nat, NEW keys \in Seq(Seq(Byte)),
         Has(data, at, FirstStrs(keys, Len(keys)))
  PROVE  \A m \in Nat : m <= Len(keys) => Has(data, at, FirstStrs(keys, m))
<1>1. PICK n \in Nat : n = Len(keys)
  BY LenProperties
<1> DEFINE T == {k \in Nat : k <= n => Has(data, at, FirstStrs(keys, n - k))}
<1>2. 0 \in T
  <2>1. n - 0 = n
    OBVIOUS
  <2> QED
    BY <1>1, <2>1
<1>3. ASSUME NEW k \in Nat, k \in T  PROVE k + 1 \in T
  <2>1. ASSUME k + 1 <= n  PROVE Has(data, at, FirstStrs(keys, n - (k + 1)))
    <3>1. PICK m \in Nat : m = n - (k + 1) /\ m + 1 = n - k /\ m + 1 <= n /\ k <= n /\ m <= n
      BY <2>1
    <3>2. PICK s \in Seq(Byte) : s = FirstStrs(keys, m)
      BY <1>1, <3>1, FirstStrsType
    <3>3. keys[m + 1] \in Seq(Byte)
      <4>1. m + 1 \in 1 .. Len(keys)
        BY <1>1, <3>1
      <4> QED
        BY <4>1, ElementOfSeq
    <3>4. PICK t \in Seq(Byte) : t = out_str(keys[m + 1])
      BY <3>3, StrType
    <3>5. PICK whole : whole = s \o t
      OBVIOUS
    <3>6. FirstStrs(keys, m + 1) = whole
      BY <1>1, <3>1, <3>2, <3>4, <3>5, OneMoreStr
    <3>7. Has(data, at, whole)
      BY <1>3, <3>1, <3>6
    <3>8. Has(data, at, s)
      BY <3>5, <3>7, HasParts
    <3> QED
      BY <3>1, <3>2, <3>8
  <2> QED
    BY <2>1
<1> HIDE DEF T
<1>4. \A k \in Nat : k \in T
  BY <1>2, <1>3, NaturalsFromZero
<1>5. ASSUME NEW m \in Nat, m <= n  PROVE Has(data, at, FirstStrs(keys, m))
  <2>1. n - m \in Nat /\ n - m <= n /\ n - (n - m) = m
    BY <1>5
  <2>2. n - m \in T
    BY <1>4, <2>1
  <2> QED
    BY <2>1, <2>2 DEF T
<1> QED
  BY <1>1, <1>5

(* The entries that have been read after each key. *)
ReadSoFar(keys, m) ==
  Shown(1 + WordSize + Len(FirstStrs(keys, m)), ArrReply(m, FirstReplies(keys, m)))

(* The data an array is read from, and what is read at each of its offsets. *)
ReadAll(F, data) == \A at \in 0 .. Len(data) : F[at] = RespAt(data, at, F)

ArrayThere(data, keys, F) ==
  /\ data \in Seq(Byte) /\ Len(data) <= k_max_msg
  /\ Has(data, 1 + WordSize, FirstStrs(keys, Len(keys)))
  /\ ReadAll(F, data)

LEMMA NextEntry ==
  ASSUME NEW data \in Seq(Byte), Len(data) <= k_max_msg, NEW keys \in Seq(Seq(Byte)),
         Has(data, 1 + WordSize, FirstStrs(keys, Len(keys))),
         NEW F, \A at \in 0 .. Len(data) : F[at] = RespAt(data, at, F),
         NEW m \in Nat, m + 1 <= Len(keys)
  PROVE  OneMoreEntry({ReadSoFar(keys, m)}, 0, F) = {ReadSoFar(keys, m + 1)}
<1>1. WordSize \in Nat /\ k_max_msg \in Nat /\ 1 + WordSize \in Nat
  BY LimitAtLeast
<1>2. PICK len \in Nat : len = Len(data)
  BY LenProperties
<1>3. m <= Len(keys) /\ m + 1 \in 1 .. Len(keys) /\ m + 1 \in Nat
  BY LenProperties
<1>4. PICK key \in Seq(Byte) : key = keys[m + 1]
  BY <1>3, ElementOfSeq
<1>5. PICK s \in Seq(Byte) : s = FirstStrs(keys, m)
  BY <1>3, FirstStrsType
<1>6. PICK t \in Seq(Byte) : t = out_str(key) /\ Len(t) = 1 + WordSize + Len(key)
  BY StrType
<1>7. PICK whole : whole = s \o t
  OBVIOUS
<1>8. FirstStrs(keys, m + 1) = whole
  BY <1>4, <1>5, <1>6, <1>7, OneMoreStr
<1>9. Has(data, 1 + WordSize, whole)
  BY <1>1, <1>3, <1>8, ListedThere
<1>10. PICK at \in Nat : at = (1 + WordSize) + Len(s)
  BY <1>1, LenProperties
<1>11. Has(data, at, t)
  BY <1>1, <1>7, <1>9, <1>10, HasParts
<1>12. PICK n \in Nat : n = Len(key)
  BY LenProperties
<1>13. at + (1 + WordSize + n) <= len
  BY <1>2, <1>6, <1>11, <1>12 DEF Has
<1>14. n <= k_max_msg
  BY <1>1, <1>2, <1>13
<1>15. Has(data, at, out_str(key))
  BY <1>6, <1>11
<1>16. at < Len(data) /\ RespAt(data, at, F) = {Shown(1 + WordSize + n, StrReply(key))}
  BY <1>12, <1>14, <1>15, StrRead
<1>17. F[at] = {Shown(1 + WordSize + n, StrReply(key))}
  <2>1. at \in 0 .. Len(data)
    BY <1>2, <1>16
  <2> QED
    BY <1>16, <2>1
<1>18. PICK got : got = ReadSoFar(keys, m)
  OBVIOUS
<1>19. /\ got.used = 1 + WordSize + Len(s)
       /\ got.shown.len = m
       /\ got.shown.items = FirstReplies(keys, m)
  BY <1>5, <1>18 DEF ReadSoFar, Shown, ArrReply
<1>20. 0 + got.used = at
  BY <1>1, <1>10, <1>19
<1>21. PICK entry : entry = Shown(1 + WordSize + n, StrReply(key))
  OBVIOUS
<1>22. entry.used = 1 + WordSize + n /\ entry.shown = StrReply(key)
  BY <1>21 DEF Shown
<1>23. OneMoreEntry({got}, 0, F) = {WithEntry(got, entry)}
  BY <1>17, <1>20, <1>21 DEF OneMoreEntry
<1>24. WithEntry(got, entry) =
         Shown(at + (1 + WordSize + n), ArrReply(m + 1, FirstReplies(keys, m + 1)))
  <2>1. Append(got.shown.items, entry.shown) = FirstReplies(keys, m + 1)
    BY <1>4, <1>19, <1>22, OneMoreReply
  <2>2. got.used + entry.used = at + (1 + WordSize + n) /\ got.shown.len + 1 = m + 1
    BY <1>1, <1>10, <1>19, <1>20, <1>22
  <2> QED
    BY <2>1, <2>2 DEF WithEntry
<1>25. Len(whole) = Len(s) + Len(t) /\ Len(s) \in Nat
  BY <1>7, ConcatProperties, LenProperties
<1>26. 1 + WordSize + Len(whole) = at + (1 + WordSize + n)
  BY <1>1, <1>6, <1>10, <1>12, <1>25
<1>27. ReadSoFar(keys, m + 1) = WithEntry(got, entry)
  BY <1>8, <1>24, <1>26 DEF ReadSoFar
<1> QED
  BY <1>18, <1>23, <1>27

LEMMA ArrEncoded ==
  ASSUME NEW keys \in Seq(Seq(Byte)), NEW n \in Nat, n = Len(keys),
         NEW reply, reply = ArrReply(Len(keys), FirstReplies(keys, Len(keys)))
  PROVE  Encoded(reply) = out_arr(n) \o FirstStrs(keys, n)
<1>1. PICK items : items = FirstReplies(keys, n)
  OBVIOUS
<1>2. Len(items) = n /\ \A i \in 1 .. n : items[i].str = keys[i]
  <2>1. items = [i \in 1 .. n |-> StrReply(keys[i])]
    BY <1>1 DEF FirstReplies
  <2>2. Len(items) = n
    BY <2>1
  <2>3. \A i \in 1 .. n : items[i] = StrReply(keys[i])
    BY <2>1
  <2>4. \A v : StrReply(v).str = v
    BY DEF StrReply
  <2> QED
    BY <2>2, <2>3, <2>4
<1>3. Encoded(ArrReply(n, items)) =
        out_arr(n) \o FlattenSeq([i \in 1 .. Len(items) |-> out_str(items[i].str)])
  BY DEF Encoded, ArrReply
<1>4. [i \in 1 .. Len(items) |-> out_str(items[i].str)] = [i \in 1 .. n |-> out_str(keys[i])]
  BY <1>2
<1>5. Encoded(ArrReply(n, items)) = out_arr(n) \o FirstStrs(keys, n)
  BY <1>3, <1>4 DEF FirstStrs
<1> QED
  BY <1>1, <1>5

LEMMA NextEntryThere ==
  ASSUME NEW data, NEW keys \in Seq(Seq(Byte)), NEW F, ArrayThere(data, keys, F),
         NEW m \in Nat, m + 1 <= Len(keys)
  PROVE  OneMoreEntry({ReadSoFar(keys, m)}, 0, F) = {ReadSoFar(keys, m + 1)}
<1>1. /\ data \in Seq(Byte) /\ Len(data) <= k_max_msg
      /\ Has(data, 1 + WordSize, FirstStrs(keys, Len(keys)))
  BY DEF ArrayThere
<1>2. \A at \in 0 .. Len(data) : F[at] = RespAt(data, at, F)
  BY DEF ArrayThere, ReadAll
<1> QED
  BY <1>1, <1>2, NextEntry

LEMMA ArrReadable ==
  ASSUME NEW keys \in Seq(Seq(Byte)),
         NEW reply, reply = ArrReply(Len(keys), FirstReplies(keys, Len(keys))),
         WordSize + Len(Encoded(reply)) <= k_max_msg
  PROVE  Readable(reply)
<1>1. WordSize \in Nat /\ k_max_msg \in Nat
  BY LimitAtLeast
<1>2. PICK n \in Nat : n = Len(keys)
  BY LenProperties
<1>3. PICK flat \in Seq(Byte) : flat = FirstStrs(keys, n) /\ n <= Len(flat)
  BY <1>2, FirstStrsType
<1>4. PICK t \in Seq(Byte) : t = <<SER_ARR>> /\ Len(t) = 1
  BY TagType, TagRange
<1>5. PICK w \in Seq(Byte) : w = Word(n) /\ Len(w) = WordSize
  BY WordType
<1>6. PICK head : head = t \o w
  OBVIOUS
<1>7. head \in Seq(Byte) /\ Len(head) = 1 + WordSize
  BY <1>4, <1>5, <1>6, ConcatProperties
<1>8. PICK data : data = head \o flat
  OBVIOUS
<1>9. PICK m \in Nat : m = Len(flat)
  BY LenProperties
<1>10. data \in Seq(Byte) /\ Len(data) = (1 + WordSize) + m
  BY <1>7, <1>8, <1>9, ConcatProperties
<1>11. Encoded(reply) = data
  <2>1. out_arr(n) = head
    BY <1>4, <1>5, <1>6 DEF out_arr
  <2> QED
    BY <1>2, <1>3, <1>8, <2>1, ArrEncoded
<1>12. Len(data) <= k_max_msg /\ n <= k_max_msg
  BY <1>1, <1>3, <1>9, <1>10, <1>11
<1>13. PICK F : /\ \A at \in 0 .. Len(data) : F[at] = RespAt(data, at, F)
                /\ on_response(data) = RespAt(data, 0, F)
  BY <1>10, ResponseIs
<1>14. Has(data, 0, data) /\ 0 \in Nat
  BY <1>10, HasItself
<1>15. Has(data, 0, head) /\ Has(data, 0 + Len(head), flat)
  BY <1>7, <1>8, <1>10, <1>14, HasParts
<1>16. data[0 + 1] = SER_ARR /\ 0 < Len(data) /\ Has(data, 0 + 1, w)
  <2>1. head = <<SER_ARR>> \o w
    BY <1>4, <1>6
  <2> QED
    BY <1>5, <1>10, <1>14, <1>15, <2>1, HasTag, TagRange
<1>17. Number(data, 1) = n
  <2>1. Has(data, 1, Word(n)) /\ 1 \in Nat
    BY <1>5, <1>16
  <2> QED
    BY <1>10, <1>12, <2>1, HasWord
<1>18. RespAt(data, 0, F) = ArrAt(data, 0, F)
  BY <1>10, <1>16, RespWithTag
<1>19. PICK f : /\ Entries(f, 0, F)
                /\ ArrAt(data, 0, F) =
                     IF Len(data) < 0 + 1 + WordSize THEN {} ELSE f[Number(data, 0 + 1)]
  BY ArrIs
<1>20. ArrAt(data, 0, F) = f[n]
  <2>1. ~(Len(data) < 0 + 1 + WordSize) /\ 0 + 1 = 1
    BY <1>1, <1>10
  <2> QED
    BY <1>17, <1>19, <2>1
<1>21. Has(data, 1 + WordSize, FirstStrs(keys, Len(keys)))
  BY <1>1, <1>2, <1>3, <1>7, <1>15
<1>22. ArrayThere(data, keys, F)
  <2>1. ReadAll(F, data)
    BY <1>13 DEF ReadAll
  <2> QED
    BY <1>10, <1>12, <1>21, <2>1 DEF ArrayThere
<1> DEFINE T == {k \in Nat : k <= n => f[k] = {ReadSoFar(keys, k)}}
<1>23. 0 \in T
  <2>1. [i \in 1 .. 0 |-> out_str(keys[i])] = << >> /\ FirstReplies(keys, 0) = << >>
    BY EmptySeq DEF FirstReplies
  <2>2. Len(FirstStrs(keys, 0)) = 0
    BY <2>1, FlattenSeqEmpty, EmptySeq DEF FirstStrs
  <2>3. 1 + WordSize + 0 = 1 + WordSize
    BY <1>1
  <2>4. ReadSoFar(keys, 0) = Shown(1 + WordSize, ArrReply(0, << >>))
    BY <2>1, <2>2, <2>3 DEF ReadSoFar
  <2> QED
    BY <1>19, <2>4 DEF Entries, NoEntries
<1>24. ASSUME NEW k \in Nat, k \in T  PROVE k + 1 \in T
  <2>1. ASSUME k + 1 <= n  PROVE f[k + 1] = {ReadSoFar(keys, k + 1)}
    <3>1. f[k] = {ReadSoFar(keys, k)}
      BY <1>24, <2>1
    <3>2. f[k + 1] = OneMoreEntry(f[k], 0, F)
      BY <1>19 DEF Entries
    <3>3. k + 1 <= Len(keys)
      BY <1>2, <2>1
    <3>4. OneMoreEntry({ReadSoFar(keys, k)}, 0, F) = {ReadSoFar(keys, k + 1)}
      BY <1>22, <3>3, NextEntryThere
    <3> QED
      BY <3>1, <3>2, <3>4
  <2> QED
    BY <2>1
<1> HIDE DEF T
<1>25. n \in T
  BY <1>23, <1>24, NaturalsFromZero
<1>26. f[n] = {ReadSoFar(keys, n)}
  BY <1>25 DEF T
<1>27. ReadSoFar(keys, n).shown = reply
  BY <1>2 DEF ReadSoFar, Shown
<1>28. on_response(data) = {ReadSoFar(keys, n)}
  BY <1>13, <1>18, <1>20, <1>26
<1> QED
  BY <1>10, <1>11, <1>27, <1>28 DEF Readable

-----------------------------------------------------------------------------
(* Frames in parts.                                                        *)

LEMMA DropProperties ==
  ASSUME NEW s \in Seq(Byte), NEW n \in Nat, n <= Len(s)
  PROVE  /\ Drop(s, n) \in Seq(Byte)
         /\ Len(Drop(s, n)) = Len(s) - n
         /\ \A i \in 1 .. Len(s) - n : Drop(s, n)[i] = s[n + i]
<1>1. PICK len \in Nat : len = Len(s)
  BY LenProperties
<1>2. \A i \in n + 1 .. len : s[i] \in Byte
  BY <1>1, ElementOfSeq
<1>3. PICK t : t = SubSeq(s, n + 1, len)
  OBVIOUS
<1>4. /\ t \in Seq(Byte)
      /\ Len(t) = IF n + 1 <= len THEN len - (n + 1) + 1 ELSE 0
      /\ \A i \in 1 .. len - (n + 1) + 1 : t[i] = s[(n + 1) + i - 1]
  BY <1>2, <1>3, SubSeqProperties
<1>5. Len(t) = len - n
  BY <1>1, <1>4
<1>6. ASSUME NEW i \in 1 .. len - n  PROVE t[i] = s[n + i]
  <2>1. i \in 1 .. len - (n + 1) + 1 /\ (n + 1) + i - 1 = n + i
    OBVIOUS
  <2> QED
    BY <1>4, <2>1
<1> QED
  BY <1>1, <1>3, <1>4, <1>5, <1>6 DEF Drop

LEMMA TakeDrop ==
  ASSUME NEW s \in Seq(Byte), NEW n \in Nat, n <= Len(s)
  PROVE  Take(s, n) \o Drop(s, n) = s
<1>1. PICK len \in Nat : len = Len(s)
  BY LenProperties
<1>2. SubSeq(s, 0 + 1, n) \o SubSeq(s, n + 1, len) = SubSeq(s, 0 + 1, len)
  <2>1. 0 <= n /\ n <= len /\ len <= Len(s) /\ 0 \in Nat
    BY <1>1
  <2> QED
    BY <2>1, SubSeqJoin
<1>3. SubSeq(s, 1, len) = s
  BY <1>1, SubSeqFull
<1>4. 0 + 1 = 1
  OBVIOUS
<1>5. SubSeq(s, 1, n) \o SubSeq(s, n + 1, len) = s
  BY <1>2, <1>3, <1>4
<1> QED
  BY <1>1, <1>5 DEF Take, Drop

LEMMA AllTaken ==
  ASSUME NEW s \in Seq(Byte), NEW n \in Nat, n = Len(s)
  PROVE  Take(s, n) = s /\ Drop(s, n) = << >>
<1>1. Take(s, n) = s
  BY SubSeqFull DEF Take
<1>2. Drop(s, n) = << >>
  BY SubSeqEmpty DEF Drop
<1> QED
  BY <1>1, <1>2

(* Moving the first bytes of what is to come. *)
LEMMA Moved ==
  ASSUME NEW s \in Seq(Byte), NEW t \in Seq(Byte), NEW n \in Nat, n <= Len(t)
  PROVE  /\ s \o Take(t, n) \in Seq(Byte)
         /\ Drop(t, n) \in Seq(Byte)
         /\ Len(s \o Take(t, n)) = Len(s) + n
         /\ (s \o Take(t, n)) \o Drop(t, n) = s \o t
<1>1. PICK a \in Seq(Byte) : a = Take(t, n)
  BY TakeType
<1>2. Len(a) = n
  <2>1. SubSeq(t, 0 + 1, n) \in Seq(Byte) /\ Len(SubSeq(t, 0 + 1, n)) = n - 0
    BY SubSeqType
  <2> QED
    BY <1>1, <2>1 DEF Take
<1>3. PICK b \in Seq(Byte) : b = Drop(t, n)
  BY DropType
<1>4. s \o a \in Seq(Byte) /\ Len(s \o a) = Len(s) + Len(a)
  BY ConcatProperties, SMTT(30)
<1>5. (s \o a) \o b = s \o (a \o b)
  BY ConcatAssociative, SMTT(30)
<1>6. a \o b = t
  BY <1>1, <1>3, TakeDrop
<1> QED
  BY <1>1, <1>2, <1>3, <1>4, <1>5, <1>6

LEMMA SameFront ==
  ASSUME NEW s \in Seq(Byte), NEW t \in Seq(Byte), NEW w \in Seq(Byte), NEW b \in Seq(Byte),
         s \o t = w \o b, Len(w) <= Len(s)
  PROVE  Has(s, 0, w) /\ Drop(s, Len(w)) \o t = b
<1>1. PICK m \in Nat, n \in Nat, k \in Nat, l \in Nat :
             m = Len(s) /\ n = Len(t) /\ k = Len(w) /\ l = Len(b)
  BY LenProperties
<1>2. PICK whole : whole = s \o t
  OBVIOUS
<1>3. /\ Len(whole) = m + n
      /\ \A i \in 1 .. m + n : whole[i] = IF i <= m THEN s[i] ELSE t[i - m]
  BY <1>1, <1>2, ConcatProperties
<1>4. /\ Len(whole) = k + l
      /\ \A i \in 1 .. k + l : whole[i] = IF i <= k THEN w[i] ELSE b[i - k]
  BY <1>1, <1>2, ConcatProperties
<1>5. m + n = k + l /\ k <= m
  BY <1>1, <1>3, <1>4
<1>6. Has(s, 0, w)
  <2>1. ASSUME NEW i \in 1 .. k  PROVE s[0 + i] = w[i]
    <3>1. i \in 1 .. m + n /\ i \in 1 .. k + l /\ i <= m /\ i <= k /\ 0 + i = i
      BY <1>5
    <3> QED
      BY <1>3, <1>4, <3>1
  <2>2. 0 + k <= m
    BY <1>5
  <2> QED
    BY <1>1, <2>1, <2>2 DEF Has
<1>7. PICK r \in Seq(Byte) : r = Drop(s, k)
  BY DropType
<1>8. Len(r) = m - k /\ \A i \in 1 .. m - k : r[i] = s[k + i]
  <2>1. k <= Len(s)
    BY <1>1, <1>5
  <2>2. /\ Len(Drop(s, k)) = Len(s) - k
        /\ \A i \in 1 .. Len(s) - k : Drop(s, k)[i] = s[k + i]
    BY <2>1, DropProperties
  <2> QED
    BY <1>1, <1>7, <2>2
<1>9. PICK u : u = r \o t
  OBVIOUS
<1>10. /\ u \in Seq(Byte)
       /\ Len(u) = Len(r) + Len(t)
       /\ \A i \in 1 .. Len(r) + Len(t) : u[i] = IF i <= Len(r) THEN r[i] ELSE t[i - Len(r)]
  BY <1>9, ConcatProperties
<1>11. Len(u) = l
  BY <1>1, <1>5, <1>8, <1>10
<1>12. ASSUME NEW i \in 1 .. Len(u)  PROVE u[i] = b[i]
  <2>1. /\ i \in 1 .. l /\ k + i \in 1 .. k + l /\ k + i \in 1 .. m + n
        /\ ~(k + i <= k) /\ (k + i) - k = i
    BY <1>5, <1>11
  <2>2. whole[k + i] = b[i]
    BY <1>4, <2>1
  <2>3. i \in 1 .. Len(r) + Len(t)
    BY <1>10
  <2>4. CASE i <= m - k
    <3>1. k + i <= m /\ i \in 1 .. m - k
      BY <2>4
    <3> QED
      BY <1>3, <1>8, <1>10, <2>1, <2>2, <2>3, <2>4, <3>1
  <2>5. CASE ~(i <= m - k)
    <3>1. ~(k + i <= m) /\ (k + i) - m = i - (m - k)
      BY <1>5, <2>5
    <3> QED
      BY <1>3, <1>8, <1>10, <2>1, <2>2, <2>3, <2>5, <3>1
  <2> QED
    BY <2>4, <2>5
<1>13. u = b
  BY <1>1, <1>10, <1>11, <1>12, SeqEqual
<1>14. Drop(s, Len(w)) \o t = b
  BY <1>1, <1>7, <1>9, <1>13
<1> QED
  BY <1>6, <1>14

(* The first part of a frame, when it has the whole length field.          *)
LEMMA FrontOfFrame ==
  ASSUME NEW s \in Seq(Byte), NEW t \in Seq(Byte), NEW b \in Seq(Byte), Len(b) <= k_max_msg,
         s \o t = Sized(b), WordSize <= Len(s)
  PROVE  /\ Number(s, 0) = Len(b)
         /\ Drop(s, WordSize) \o t = b
<1>1. PICK n \in Nat : n = Len(b)
  BY LenProperties
<1>2. PICK w \in Seq(Byte) : w = Word(n) /\ Len(w) = WordSize
  BY WordType
<1>3. s \o t = w \o b
  BY <1>1, <1>2 DEF Sized
<1>4. Has(s, 0, w) /\ Drop(s, WordSize) \o t = b
  <2>1. Len(w) <= Len(s)
    BY <1>2
  <2>2. Has(s, 0, w) /\ Drop(s, Len(w)) \o t = b
    BY <1>3, <2>1, SameFront
  <2> QED
    BY <1>2, <2>2
<1>5. Number(s, 0) = n
  <2>1. Has(s, 0, Word(n)) /\ 0 \in Nat /\ n <= k_max_msg
    BY <1>1, <1>2, <1>4
  <2> QED
    BY <2>1, HasWord
<1> QED
  BY <1>1, <1>4, <1>5

LEMMA FrameLengths ==
  ASSUME NEW s \in Seq(Byte), NEW t \in Seq(Byte), NEW b \in Seq(Byte), s \o t = Sized(b)
  PROVE  Len(s) + Len(t) = WordSize + Len(b)
<1>1. Len(s \o t) = Len(s) + Len(t)
  BY ConcatProperties
<1>2. Len(Sized(b)) = WordSize + Len(b)
  BY SizedLength
<1> QED
  BY <1>1, <1>2

(* A part that has all the bytes the length field announces.               *)
LEMMA WholeFrame ==
  ASSUME NEW s \in Seq(Byte), NEW t \in Seq(Byte), NEW b \in Seq(Byte), Len(b) <= k_max_msg,
         s \o t = Sized(b), WordSize <= Len(s), Len(b) <= Len(s) - WordSize
  PROVE  /\ t = << >>
         /\ SubSeq(s, WordSize + 1, WordSize + Len(b)) = b
         /\ Drop(s, WordSize + Len(b)) = << >>
<1>1. PICK m \in Nat, n \in Nat, l \in Nat : m = Len(s) /\ n = Len(t) /\ l = Len(b)
  BY LenProperties
<1>2. WordSize \in Nat
  BY LimitAtLeast
<1>3. m + n = WordSize + l
  BY <1>1, FrameLengths
<1>4. n = 0 /\ m = WordSize + l
  BY <1>1, <1>2, <1>3
<1>5. t = << >>
  BY <1>1, <1>4, EmptySeq
<1>6. Drop(s, WordSize) \o t = b
  BY FrontOfFrame
<1>7. PICK r \in Seq(Byte) : r = Drop(s, WordSize)
  BY <1>2, DropType
<1>8. r = b
  BY <1>5, <1>6, <1>7, ConcatEmptySeq
<1>9. r = SubSeq(s, WordSize + 1, WordSize + l)
  BY <1>1, <1>4, <1>7 DEF Drop
<1>10. WordSize + l \in Nat /\ WordSize + l = Len(s)
  BY <1>1, <1>2, <1>4
<1>11. Drop(s, WordSize + l) = << >>
  BY <1>10, AllTaken
<1> QED
  BY <1>1, <1>5, <1>8, <1>9, <1>11

-----------------------------------------------------------------------------
(* Commands and their replies.                                             *)

LEMMA EmptyBytes == << >> \in Seq(Byte) /\ Len(<< >>) = 0
  BY EmptySeq

LEMMA RepliesAreReplies ==
  /\ NilReply # NoReply
  /\ \A v : StrReply(v) # NoReply
  /\ \A n : IntReply(n) # NoReply
  /\ \A code : ErrReply(code) # NoReply
  /\ \A n, items : ArrReply(n, items) # NoReply
<1>1. NoReply.tag = "none"
  BY DEF NoReply
<1>2. NilReply.tag = "nil"
  BY DEF NilReply
<1>3. \A v : StrReply(v).tag = "str"
  BY DEF StrReply
<1>4. \A n : IntReply(n).tag = "int"
  BY DEF IntReply
<1>5. \A code : ErrReply(code).tag = "err"
  BY DEF ErrReply
<1>6. \A n, items : ArrReply(n, items).tag = "arr"
  BY DEF ArrReply
<1> QED
  BY <1>1, <1>2, <1>3, <1>4, <1>5, <1>6

LEMMA ReadableIsPacked ==
  ASSUME NEW reply, Readable(reply)
  PROVE  Packed(reply) = reply
<1>1. WordSize \in Nat /\ k_max_msg \in Nat
  BY LimitAtLeast
<1>2. PICK n \in Nat : n = Len(Encoded(reply))
  BY LenProperties DEF Readable
<1>3. WordSize + n <= k_max_msg
  BY <1>2 DEF Readable
<1>4. ~(WordSize + n > k_max_msg)
  BY <1>1, <1>3
<1> QED
  BY <1>2, <1>4 DEF Packed

(* A listing is sent as it is, or does not fit.                            *)
LEMMA ListingPacked ==
  ASSUME NEW keys \in Seq(Seq(Byte)),
         NEW reply, reply = ArrReply(Len(keys), FirstReplies(keys, Len(keys)))
  PROVE  /\ Readable(Packed(reply))
         /\ Packed(reply) \in {reply, ErrReply("ERR_2BIG")}
<1>1. WordSize \in Nat /\ k_max_msg \in Nat
  BY LimitAtLeast
<1>2. PICK n \in Nat : n = Len(keys)
  BY LenProperties
<1>3. PICK flat \in Seq(Byte) : flat = FirstStrs(keys, n)
  BY <1>2, FirstStrsType
<1>4. PICK head \in Seq(Byte) : head = out_arr(n)
  <2>1. <<SER_ARR>> \in Seq(Byte) /\ Word(n) \in Seq(Byte)
    BY TagType, TagRange, WordType
  <2> QED
    BY <2>1, ConcatProperties DEF out_arr
<1>5. Encoded(reply) = head \o flat
  BY <1>2, <1>3, <1>4, ArrEncoded
<1>6. head \o flat \in Seq(Byte)
  BY ConcatProperties
<1>7. PICK m \in Nat : m = Len(Encoded(reply))
  BY <1>5, <1>6, LenProperties
<1>8. CASE WordSize + m <= k_max_msg
  <2>1. Readable(reply)
    BY <1>7, <1>8, ArrReadable
  <2> QED
    BY <2>1, ReadableIsPacked
<1>9. CASE WordSize + m > k_max_msg
  <2>1. Packed(reply) = ErrReply("ERR_2BIG")
    BY <1>7, <1>9 DEF Packed
  <2>2. "ERR_2BIG" \in DOMAIN ErrCode
    BY DEF ErrCode
  <2> QED
    BY <2>1, <2>2, ErrReadable
<1> QED
  BY <1>1, <1>8, <1>9

LEMMA OneCommand ==
  ASSUME NEW cmd, NEW name \in {"get", "set", "del", "keys"},
         NEW other \in {"get", "set", "del", "keys"}, name # other,
         NEW m, NEW n, Is(cmd, name, m)
  PROVE  ~Is(cmd, other, n)
<1>1. Spellings[name] \cap Spellings[other] = {}
  BY SpellingAssumption
<1> QED
  BY <1>1 DEF Is, cmd_is

LEMMA MeaningOfGet ==
  ASSUME NEW cmd, Is(cmd, "get", 2)
  PROVE  Meaning(cmd) = [op |-> "get", key |-> cmd[2]]
<1>1. ~Is(cmd, "set", 3) /\ ~Is(cmd, "del", 2) /\ ~Is(cmd, "keys", 1)
  BY OneCommand
<1> QED
  BY <1>1 DEF Meaning

LEMMA MeaningOfSet ==
  ASSUME NEW cmd, Is(cmd, "set", 3)
  PROVE  Meaning(cmd) = [op |-> "set", key |-> cmd[2], val |-> cmd[3]]
<1>1. ~Is(cmd, "get", 2) /\ ~Is(cmd, "del", 2) /\ ~Is(cmd, "keys", 1)
  BY OneCommand
<1> QED
  BY <1>1 DEF Meaning

LEMMA MeaningOfDel ==
  ASSUME NEW cmd, Is(cmd, "del", 2)
  PROVE  Meaning(cmd) = [op |-> "del", key |-> cmd[2]]
<1>1. ~Is(cmd, "get", 2) /\ ~Is(cmd, "set", 3) /\ ~Is(cmd, "keys", 1)
  BY OneCommand
<1> QED
  BY <1>1 DEF Meaning

LEMMA MeaningOfKeys ==
  ASSUME NEW cmd, Is(cmd, "keys", 1)
  PROVE  Meaning(cmd) = KeysCommand
<1>1. ~Is(cmd, "get", 2) /\ ~Is(cmd, "set", 3) /\ ~Is(cmd, "del", 2)
  BY OneCommand
<1> QED
  BY <1>1 DEF Meaning

LEMMA MeaningOfUnknown ==
  ASSUME NEW cmd, ~Recognised(cmd)
  PROVE  Meaning(cmd) = UnknownCommand
<1>1. ~Is(cmd, "get", 2) /\ ~Is(cmd, "set", 3) /\ ~Is(cmd, "del", 2) /\ ~Is(cmd, "keys", 1)
  BY DEF Recognised
<1> QED
  BY <1>1 DEF Meaning

(* A program that has not been given a command yet. *)
LEMMA MeaningOfNothing == Meaning(<< >>) = UnknownCommand
<1>1. ~Recognised(<< >>)
  BY EmptySeq DEF Recognised, Is
<1> QED
  BY <1>1, MeaningOfUnknown

(* The value of a set command leaves room in its request. *)
LEMMA SetLength ==
  ASSUME NEW cmd \in Seq(Seq(Byte)), Len(cmd) = 3
  PROVE  /\ cmd[2] \in Seq(Byte)
         /\ cmd[3] \in Seq(Byte)
         /\ 4 * WordSize + Len(cmd[3]) <= Len(Body(cmd))
<1>1. WordSize \in Nat
  BY LimitAtLeast
<1>2. PICK a \in Seq(Byte), r \in Seq(Seq(Byte)) : cmd = <<a>> \o r /\ Len(r) = 2
  <2>1. 2 \in Nat /\ Len(cmd) = 2 + 1
    OBVIOUS
  <2> QED
    BY <2>1, FirstOfStrings
<1>3. PICK b \in Seq(Byte), s \in Seq(Seq(Byte)) : r = <<b>> \o s /\ Len(s) = 1
  <2>1. 1 \in Nat /\ Len(r) = 1 + 1
    BY <1>2
  <2> QED
    BY <2>1, FirstOfStrings
<1>4. PICK v \in Seq(Byte), t \in Seq(Seq(Byte)) : s = <<v>> \o t /\ Len(t) = 0
  <2>1. 0 \in Nat /\ Len(s) = 0 + 1
    BY <1>3
  <2> QED
    BY <2>1, FirstOfStrings
<1>5. s[1] = v
  BY <1>4, OneBefore
<1>6. r[1] = b /\ r[2] = v
  <2>1. r[1] = b /\ \A i \in 1 .. Len(s) : r[i + 1] = s[i]
    BY <1>3, OneBefore
  <2>2. 1 \in 1 .. Len(s) /\ 1 + 1 = 2
    BY <1>3
  <2> QED
    BY <1>5, <2>1, <2>2
<1>7. cmd[2] = b /\ cmd[3] = v
  <2>1. \A i \in 1 .. Len(r) : cmd[i + 1] = r[i]
    BY <1>2, OneBefore
  <2>2. 1 \in 1 .. Len(r) /\ 2 \in 1 .. Len(r) /\ 1 + 1 = 2 /\ 2 + 1 = 3
    BY <1>2
  <2> QED
    BY <1>6, <2>1, <2>2
<1>8. PICK i \in Nat, j \in Nat, k \in Nat, l \in Nat :
        i = Len(a) /\ j = Len(b) /\ k = Len(v) /\ l = Len(Flat(t))
  <2>1. Flat(t) \in Seq(Byte)
    BY FlatType
  <2> QED
    BY <2>1, LenProperties
<1>9. Len(Flat(s)) = (WordSize + k) + l
  <2>1. Flat(s) = Sized(v) \o Flat(t)
    BY <1>4, FlatFirst
  <2>2. Sized(v) \in Seq(Byte) /\ Len(Sized(v)) = WordSize + k /\ Flat(t) \in Seq(Byte)
    BY <1>8, SizedLength, FlatType
  <2>3. Len(Sized(v) \o Flat(t)) = Len(Sized(v)) + Len(Flat(t))
    BY <2>2, ConcatProperties
  <2> QED
    BY <1>8, <2>1, <2>2, <2>3
<1>10. Len(Flat(r)) = (WordSize + j) + ((WordSize + k) + l)
  <2>1. Flat(r) = Sized(b) \o Flat(s)
    BY <1>3, FlatFirst
  <2>2. Sized(b) \in Seq(Byte) /\ Len(Sized(b)) = WordSize + j /\ Flat(s) \in Seq(Byte)
    BY <1>8, SizedLength, FlatType
  <2>3. Len(Sized(b) \o Flat(s)) = Len(Sized(b)) + Len(Flat(s))
    BY <2>2, ConcatProperties
  <2> QED
    BY <1>9, <2>1, <2>2, <2>3
<1>11. Len(Flat(cmd)) = (WordSize + i) + ((WordSize + j) + ((WordSize + k) + l))
  <2>1. Flat(cmd) = Sized(a) \o Flat(r)
    BY <1>2, FlatFirst
  <2>2. Sized(a) \in Seq(Byte) /\ Len(Sized(a)) = WordSize + i /\ Flat(r) \in Seq(Byte)
    BY <1>8, SizedLength, FlatType
  <2>3. Len(Sized(a) \o Flat(r)) = Len(Sized(a)) + Len(Flat(r))
    BY <2>2, ConcatProperties
  <2> QED
    BY <1>10, <2>1, <2>2, <2>3
<1>12. Len(Body(cmd)) = WordSize + ((WordSize + i) + ((WordSize + j) + ((WordSize + k) + l)))
  <2>1. Body(cmd) = Word(3) \o Flat(cmd)
    BY DEF Body, Flat, Pieces
  <2>2. Word(3) \in Seq(Byte) /\ Len(Word(3)) = WordSize /\ Flat(cmd) \in Seq(Byte)
    BY WordType, FlatType
  <2>3. Len(Word(3) \o Flat(cmd)) = Len(Word(3)) + Len(Flat(cmd))
    BY <2>2, ConcatProperties
  <2> QED
    BY <1>11, <2>1, <2>2, <2>3
<1>13. 4 * WordSize + k <= WordSize + ((WordSize + i) + ((WordSize + j) + ((WordSize + k) + l)))
  BY <1>1
<1> QED
  BY <1>7, <1>8, <1>12, <1>13

-----------------------------------------------------------------------------
(* The state of a run of the client.                                       *)

(* The key space holds bytes that fit in a reply. *)
StoreInv ==
  /\ IsFiniteSet(DOMAIN store)
  /\ DOMAIN store \subseteq Keys \cap Seq(Byte)
  /\ \A k \in DOMAIN store :
       store[k] \in Values \cap Seq(Byte) /\ 2 * WordSize + 1 + Len(store[k]) <= k_max_msg

(* A client that is not running. *)
Idle(c) ==
  /\ pc[c] = "end" /\ conn[c] = "none"
  /\ up[c] = << >> /\ down[c] = << >> /\ wbuf[c] = << >>
  /\ rbuf[c] \in Seq(Byte) /\ Len(rbuf[c]) <= WordSize + k_max_msg

(* Its request is on its way: what is written and what is not are the      *)
(* frame.                                                                  *)
Asking(c) ==
  /\ conn[c] = "open"
  /\ \/ pc[c] = "write" /\ wbuf[c] # << >>
     \/ pc[c] = "header" /\ wbuf[c] = << >>
  /\ meant[c] = NoReply
  /\ argv[c] \in Argvs /\ Len(Body(argv[c])) <= k_max_msg
  /\ up[c] \in Seq(Byte) /\ wbuf[c] \in Seq(Byte)
  /\ up[c] \o wbuf[c] = Sized(Body(argv[c]))
  /\ down[c] = << >> /\ rbuf[c] = << >>

(* Its reply is on its way: what is read and what is not are the frame.    *)
Answered(c) ==
  /\ conn[c] = "open"
  /\ \/ pc[c] = "header" /\ Len(rbuf[c]) < WordSize
     \/ pc[c] = "body" /\ Len(rbuf[c]) >= WordSize
  /\ meant[c] # NoReply /\ Readable(meant[c])
  /\ up[c] = << >> /\ wbuf[c] = << >>
  /\ rbuf[c] \in Seq(Byte) /\ down[c] \in Seq(Byte)
  /\ rbuf[c] \o down[c] = Sized(Encoded(meant[c]))

Phase(c) == Idle(c) \/ Asking(c) \/ Answered(c)

(* The variables are functions on the programs. *)
FunctionsInv ==
  /\ conn = [c \in Programs |-> conn[c]]
  /\ up = [c \in Programs |-> up[c]]
  /\ down = [c \in Programs |-> down[c]]
  /\ pc = [c \in Programs |-> pc[c]]
  /\ argv = [c \in Programs |-> argv[c]]
  /\ wbuf = [c \in Programs |-> wbuf[c]]
  /\ rbuf = [c \in Programs |-> rbuf[c]]
  /\ printed = [c \in Programs |-> printed[c]]
  /\ meant = [c \in Programs |-> meant[c]]

CallsInv ==
  /\ StoreInv
  /\ FunctionsInv
  /\ \A c \in Programs : Phase(c) /\ argv[c] \in Argvs \cup {<< >>}

(* A step of one program, that leaves the others as they are. *)
StepOf(c) ==
  /\ FunctionsInv'
  /\ \A d \in Programs \ {c} :
       /\ conn'[d] = conn[d] /\ up'[d] = up[d] /\ down'[d] = down[d]
       /\ pc'[d] = pc[d] /\ argv'[d] = argv[d] /\ wbuf'[d] = wbuf[d]
       /\ rbuf'[d] = rbuf[d] /\ meant'[d] = meant[d] /\ printed'[d] = printed[d]

LEMMA OthersKept ==
  ASSUME NEW c \in Programs, StepOf(c), NEW d \in Programs, d # c, Phase(d)
  PROVE  Phase(d)'
<1>1. /\ conn'[d] = conn[d] /\ up'[d] = up[d] /\ down'[d] = down[d]
      /\ pc'[d] = pc[d] /\ argv'[d] = argv[d] /\ wbuf'[d] = wbuf[d]
      /\ rbuf'[d] = rbuf[d] /\ meant'[d] = meant[d]
  BY DEF StepOf
<1>2. Idle(d) => Idle(d)'
  BY <1>1 DEF Idle
<1>3. Asking(d) => Asking(d)'
  BY <1>1 DEF Asking
<1>4. Answered(d) => Answered(d)'
  BY <1>1 DEF Answered
<1> QED
  BY <1>2, <1>3, <1>4 DEF Phase

LEMMA CallsKept ==
  ASSUME CallsInv, NEW c \in Programs, StepOf(c), StoreInv', Phase(c)',
         argv'[c] \in Argvs \cup {<< >>}
  PROVE  CallsInv'
<1>1. FunctionsInv'
  BY DEF StepOf
<1>2. ASSUME NEW d \in Programs
      PROVE  Phase(d)' /\ argv'[d] \in Argvs \cup {<< >>}
  <2>1. CASE d = c
    BY <2>1
  <2>2. CASE d # c
    <3>1. Phase(d) /\ argv[d] \in Argvs \cup {<< >>}
      BY DEF CallsInv
    <3>2. argv'[d] = argv[d]
      BY <2>2 DEF StepOf
    <3> QED
      BY <2>2, <3>1, <3>2, OthersKept
  <2> QED
    BY <2>1, <2>2
<1> QED
  BY <1>1, <1>2 DEF CallsInv

LEMMA StoreKept ==
  ASSUME StoreInv, UNCHANGED store
  PROVE  StoreInv'
  BY DEF StoreInv

LEMMA CallsInit == Init => CallsInv
<1> SUFFICES ASSUME Init PROVE CallsInv
  OBVIOUS
<1>1. StoreInv
  <2>1. store = << >> /\ DOMAIN store = {}
    BY EmptySeq DEF Init
  <2>2. IsFiniteSet({})
    BY FS_EmptySet
  <2> QED
    BY <2>1, <2>2 DEF StoreInv
<1>2. FunctionsInv
  BY DEF Init, FunctionsInv
<1>3. ASSUME NEW c \in Programs
      PROVE  Idle(c) /\ argv[c] = << >>
  <2>1. /\ conn[c] = "none" /\ up[c] = << >> /\ down[c] = << >> /\ pc[c] = "end"
        /\ argv[c] = << >> /\ wbuf[c] = << >> /\ rbuf[c] = << >>
    BY DEF Init
  <2>2. 0 <= WordSize + k_max_msg
    BY LimitAtLeast
  <2> QED
    BY <2>1, <2>2, EmptyBytes DEF Idle
<1> QED
  BY <1>1, <1>2, <1>3 DEF CallsInv, Phase

-----------------------------------------------------------------------------
(* The client starts.                                                      *)

LEMMA ArgvType ==
  ASSUME NEW cmd \in Argvs
  PROVE  cmd \in Seq(Seq(Byte)) /\ Body(cmd) \in Seq(Byte)
  BY ArgvAssumption, BodyType

LEMMA SizedNotEmpty ==
  ASSUME NEW s \in Seq(Byte)
  PROVE  Sized(s) # << >>
<1>1. PICK n \in Nat : n = Len(s)
  BY LenProperties
<1>2. Len(Sized(s)) = WordSize + n /\ WordSize + n # 0
  BY <1>1, SizedLength, LimitAtLeast
<1> QED
  BY <1>2, EmptyBytes

LEMMA SendStep ==
  ASSUME CallsInv, NEW c \in Programs, NEW cmd \in Argvs, send_req(c, cmd)
  PROVE  StepOf(c) /\ Asking(c)' /\ argv'[c] = cmd
<1>1. PICK s : s = Sized(Body(cmd))
  OBVIOUS
<1>2. s \in Seq(Byte) /\ s # << >> /\ << >> \in Seq(Byte)
  BY <1>1, ArgvType, SizedType, SizedNotEmpty, EmptyBytes
<1>3. /\ argv' = [argv EXCEPT ![c] = cmd]
      /\ rbuf' = [rbuf EXCEPT ![c] = << >>]
      /\ printed' = [printed EXCEPT ![c] = Nothing]
      /\ meant' = [meant EXCEPT ![c] = NoReply]
      /\ up' = [up EXCEPT ![c] = << >>]
      /\ down' = [down EXCEPT ![c] = << >>]
      /\ conn' = [conn EXCEPT ![c] = "open"]
      /\ wbuf' = [wbuf EXCEPT ![c] = s]
      /\ pc' = [pc EXCEPT ![c] = "write"]
  BY <1>1 DEF send_req, Begin, Open
<1>4. StepOf(c)
  BY <1>3 DEF StepOf, CallsInv, FunctionsInv
<1>5. /\ argv'[c] = cmd /\ rbuf'[c] = << >> /\ meant'[c] = NoReply /\ up'[c] = << >>
      /\ down'[c] = << >> /\ conn'[c] = "open" /\ wbuf'[c] = s /\ pc'[c] = "write"
  BY <1>3 DEF CallsInv, FunctionsInv
<1>6. << >> \o s = Sized(Body(cmd))
  BY <1>1, <1>2, ConcatEmptySeq
<1>7. Len(Body(cmd)) <= k_max_msg
  BY DEF send_req
<1> QED
  BY <1>2, <1>4, <1>5, <1>6, <1>7 DEF Asking

LEMMA RefusedStep ==
  ASSUME CallsInv, NEW c \in Programs, NEW cmd \in Argvs, SendTooLong(c, cmd)
  PROVE  StepOf(c) /\ Idle(c)' /\ argv'[c] = cmd
<1>1. /\ argv' = [argv EXCEPT ![c] = cmd]
      /\ rbuf' = [rbuf EXCEPT ![c] = << >>]
      /\ printed' = [printed EXCEPT ![c] = Nothing]
      /\ meant' = [meant EXCEPT ![c] = NoReply]
      /\ up' = [up EXCEPT ![c] = << >>]
      /\ down' = [down EXCEPT ![c] = << >>]
      /\ UNCHANGED <<conn, wbuf, pc>>
      /\ pc[c] = "end"
  BY DEF SendTooLong, Begin
<1>2. StepOf(c)
  BY <1>1 DEF StepOf, CallsInv, FunctionsInv
<1>3. /\ argv'[c] = cmd /\ rbuf'[c] = << >> /\ up'[c] = << >> /\ down'[c] = << >>
      /\ conn'[c] = conn[c] /\ wbuf'[c] = wbuf[c] /\ pc'[c] = "end"
  BY <1>1 DEF CallsInv, FunctionsInv
<1>4. conn[c] = "none" /\ wbuf[c] = << >>
  BY <1>1 DEF CallsInv, Phase, Idle, Asking, Answered
<1>5. 0 <= WordSize + k_max_msg
  BY LimitAtLeast
<1> QED
  BY <1>2, <1>3, <1>4, <1>5, EmptyBytes DEF Idle

-----------------------------------------------------------------------------
(* The client writes and reads.                                            *)

LEMMA WriteStep ==
  ASSUME CallsInv, NEW c \in Programs, NEW n \in 1 .. Len(wbuf[c]), write_all(c, n)
  PROVE  StepOf(c) /\ Asking(c) /\ Asking(c)' /\ argv'[c] = argv[c]
<1>1. Asking(c)
  <2>1. pc[c] = "write"
    BY DEF write_all
  <2> QED
    BY <2>1 DEF CallsInv, Phase, Idle, Answered
<1>2. PICK s \in Seq(Byte), t \in Seq(Byte), cmd \in Argvs :
        s = up[c] /\ t = wbuf[c] /\ cmd = argv[c]
  BY <1>1 DEF Asking
<1> DEFINE frame == Sized(Body(cmd))
<1> HIDE DEF frame
<1>3. PICK grown, left : grown = s \o Take(t, n) /\ left = Drop(t, n)
  OBVIOUS
<1>4. s \o t = frame /\ n \in Nat /\ n <= Len(t)
  <2>1. n \in 1 .. Len(t) /\ Len(t) \in Nat
    BY <1>2, LenProperties
  <2>2. n \in Nat /\ n <= Len(t)
    BY <2>1
  <2>3. s \o t = frame
    BY <1>1, <1>2 DEF Asking, frame
  <2> QED
    BY <2>2, <2>3
<1>5. grown \in Seq(Byte) /\ left \in Seq(Byte) /\ grown \o left = frame
  <2>1. /\ s \o Take(t, n) \in Seq(Byte)
        /\ Drop(t, n) \in Seq(Byte)
        /\ (s \o Take(t, n)) \o Drop(t, n) = s \o t
    BY <1>4, Moved
  <2> QED
    BY <1>3, <1>4, <2>1
<1>6. n = Len(t) <=> left = << >>
  <2>1. n \in Nat /\ n <= Len(t) /\ Len(t) \in Nat
    BY <1>2, LenProperties
  <2>2. Len(left) = Len(t) - n
    BY <1>3, <2>1, DropProperties
  <2>3. left = << >> <=> Len(left) = 0
    BY <1>5, EmptySeq
  <2> QED
    BY <2>1, <2>2, <2>3
<1>7. /\ up' = [up EXCEPT ![c] = grown]
      /\ wbuf' = [wbuf EXCEPT ![c] = left]
      /\ pc' = [pc EXCEPT ![c] = IF n = Len(t) THEN "header" ELSE "write"]
      /\ UNCHANGED <<conn, down, argv, rbuf, printed, meant>>
  <2>1. /\ up' = [up EXCEPT ![c] = @ \o Take(wbuf[c], n)]
        /\ wbuf' = [wbuf EXCEPT ![c] = Drop(@, n)]
    BY DEF write_all
  <2>2. up' = [up EXCEPT ![c] = grown]
    BY <1>2, <1>3, <2>1
  <2>3. wbuf' = [wbuf EXCEPT ![c] = left]
    BY <1>2, <1>3, <2>1
  <2> QED
    BY <1>2, <2>2, <2>3 DEF write_all
<1>8. StepOf(c)
  BY <1>7 DEF StepOf, CallsInv, FunctionsInv
<1>9. /\ up'[c] = grown /\ wbuf'[c] = left
      /\ pc'[c] = IF left = << >> THEN "header" ELSE "write"
      /\ conn'[c] = conn[c] /\ down'[c] = down[c] /\ argv'[c] = argv[c]
      /\ rbuf'[c] = rbuf[c] /\ meant'[c] = meant[c]
  BY <1>6, <1>7 DEF CallsInv, FunctionsInv
<1>10. /\ conn[c] = "open" /\ meant[c] = NoReply /\ argv[c] \in Argvs
       /\ Len(Body(argv[c])) <= k_max_msg /\ down[c] = << >> /\ rbuf[c] = << >>
  BY <1>1 DEF Asking
<1>11. Asking(c)'
  BY <1>2, <1>5, <1>9, <1>10 DEF Asking, frame
<1> QED
  BY <1>1, <1>8, <1>9, <1>11

LEMMA AnsweredType ==
  ASSUME NEW c, Answered(c)
  PROVE  /\ Encoded(meant[c]) \in Seq(Byte)
         /\ Len(Encoded(meant[c])) \in Nat
         /\ Len(Encoded(meant[c])) <= k_max_msg
         /\ WordSize + Len(Encoded(meant[c])) <= WordSize + k_max_msg
         /\ Len(rbuf[c]) \in Nat
         /\ Len(down[c]) \in Nat
         /\ Len(rbuf[c]) + Len(down[c]) = WordSize + Len(Encoded(meant[c]))
<1>1. PICK b \in Seq(Byte) : b = Encoded(meant[c]) /\ WordSize + Len(b) <= k_max_msg
  BY DEF Answered, Readable
<1>2. PICK s \in Seq(Byte), t \in Seq(Byte) : s = rbuf[c] /\ t = down[c] /\ s \o t = Sized(b)
  BY <1>1 DEF Answered
<1>3. Len(s) + Len(t) = WordSize + Len(b)
  BY <1>2, FrameLengths
<1>4. Len(b) \in Nat /\ Len(s) \in Nat /\ Len(t) \in Nat
  BY LenProperties
<1>5. Len(b) <= k_max_msg /\ WordSize + Len(b) <= WordSize + k_max_msg
  BY <1>1, <1>4, LimitAtLeast
<1> QED
  BY <1>1, <1>2, <1>3, <1>4, <1>5

(* A client that waits for a reply whose first bytes there are has been    *)
(* answered.                                                               *)
LEMMA ReaderAnswered ==
  ASSUME CallsInv, NEW c \in Programs, pc[c] \in {"header", "body"}, NEW n \in 1 .. Len(down[c])
  PROVE  Answered(c)
<1>1. ~Idle(c)
  BY DEF Idle
<1>2. down[c] # << >>
  BY EmptyBytes
<1>3. ~Asking(c)
  BY <1>2 DEF Asking
<1> QED
  BY <1>1, <1>3 DEF CallsInv, Phase

LEMMA ReadHeaderStep ==
  ASSUME CallsInv, NEW c \in Programs, NEW n \in 1 .. Len(down[c]), ReadHeader(c, n)
  PROVE  /\ StepOf(c) /\ Answered(c) /\ Answered(c)' /\ argv'[c] = argv[c]
         /\ UNCHANGED printed
<1>1. Answered(c)
  BY ReaderAnswered DEF ReadHeader
<1>2. PICK s \in Seq(Byte), t \in Seq(Byte), b \in Seq(Byte) :
        s = rbuf[c] /\ t = down[c] /\ b = Encoded(meant[c])
  BY <1>1, AnsweredType DEF Answered
<1>3. s \o t = Sized(b) /\ Len(b) <= k_max_msg /\ n \in Nat /\ n <= Len(t)
  <2>1. n \in 1 .. Len(t) /\ Len(t) \in Nat
    BY <1>2, LenProperties
  <2>2. n \in Nat /\ n <= Len(t)
    BY <2>1
  <2>3. s \o t = Sized(b) /\ Len(b) <= k_max_msg
    BY <1>1, <1>2, AnsweredType DEF Answered
  <2> QED
    BY <2>2, <2>3
<1>4. PICK grown, left : grown = s \o Take(t, n) /\ left = Drop(t, n)
  OBVIOUS
<1>5. /\ grown \in Seq(Byte) /\ left \in Seq(Byte) /\ grown \o left = Sized(b)
      /\ Len(grown) = Len(s) + n
  <2>1. /\ s \o Take(t, n) \in Seq(Byte)
        /\ Drop(t, n) \in Seq(Byte)
        /\ (s \o Take(t, n)) \o Drop(t, n) = s \o t
        /\ Len(s \o Take(t, n)) = Len(s) + n
    BY <1>3, Moved
  <2> QED
    BY <1>3, <1>4, <2>1
<1>6. PICK len \in Nat : len = Len(s)
  BY LenProperties
<1>7. Len(grown) \in Nat /\ Len(grown) <= WordSize
  <2>1. n \in 1 .. Smaller(WordSize - len, Len(t)) /\ Len(t) \in Nat
    BY <1>2, <1>6, LenProperties DEF ReadHeader
  <2>2. n <= WordSize - len
    BY <1>6, <2>1, LimitAtLeast DEF Smaller
  <2> QED
    BY <1>5, <1>6, <2>1, <2>2, LimitAtLeast
<1>8. Len(grown) = WordSize => ~(Number(grown, 0) > k_max_msg)
  <2> SUFFICES ASSUME Len(grown) = WordSize
               PROVE  ~(Number(grown, 0) > k_max_msg)
    OBVIOUS
  <2>1. WordSize <= Len(grown)
    BY LimitAtLeast
  <2>2. Number(grown, 0) = Len(b)
    BY <1>3, <1>5, <2>1, FrontOfFrame
  <2> QED
    BY <1>3, <2>2, LenProperties, LimitAtLeast
<1>9. /\ rbuf' = [rbuf EXCEPT ![c] = grown]
      /\ down' = [down EXCEPT ![c] = left]
      /\ UNCHANGED <<up, argv, wbuf, meant>>
  <2>1. ReadSome(c, n)
    BY DEF ReadHeader
  <2>2. /\ rbuf' = [rbuf EXCEPT ![c] = @ \o Take(down[c], n)]
        /\ down' = [down EXCEPT ![c] = Drop(@, n)]
    BY <2>1 DEF ReadSome
  <2>3. rbuf' = [rbuf EXCEPT ![c] = grown]
    BY <1>2, <1>4, <2>2
  <2>4. down' = [down EXCEPT ![c] = left]
    BY <1>2, <1>4, <2>2
  <2> QED
    BY <2>1, <2>3, <2>4 DEF ReadSome
<1>10. /\ pc' = [pc EXCEPT ![c] = IF Len(grown) = WordSize THEN "body" ELSE "header"]
       /\ UNCHANGED <<conn, printed>>
  BY <1>2, <1>4, <1>8 DEF ReadHeader
<1>11. StepOf(c)
  BY <1>9, <1>10 DEF StepOf, CallsInv, FunctionsInv
<1>12. /\ rbuf'[c] = grown /\ down'[c] = left /\ up'[c] = up[c] /\ argv'[c] = argv[c]
       /\ wbuf'[c] = wbuf[c] /\ meant'[c] = meant[c] /\ conn'[c] = conn[c]
       /\ pc'[c] = IF Len(grown) = WordSize THEN "body" ELSE "header"
  BY <1>9, <1>10 DEF CallsInv, FunctionsInv
<1>13. /\ conn[c] = "open" /\ meant[c] # NoReply /\ Readable(meant[c])
       /\ up[c] = << >> /\ wbuf[c] = << >>
  BY <1>1 DEF Answered
<1>14. \/ pc'[c] = "header" /\ Len(grown) < WordSize
       \/ pc'[c] = "body" /\ Len(grown) >= WordSize
  BY <1>7, <1>12, LimitAtLeast
<1>15. Answered(c)'
  BY <1>2, <1>5, <1>12, <1>13, <1>14 DEF Answered
<1> QED
  BY <1>1, <1>10, <1>11, <1>12, <1>15

(* What read_res prints, when the reply has been read. *)
Printed(c) ==
  \E outcome : printed' = [printed EXCEPT ![c] = outcome] /\ outcome.reply = meant[c]

LEMMA OutcomeShown ==
  ASSUME NEW reply, Readable(reply), NEW len,
         NEW outcome \in Outcomes(len, on_response(Encoded(reply)))
  PROVE  outcome.reply = reply
<1>1. PICK response : response = on_response(Encoded(reply))
  OBVIOUS
<1>2. response # {} /\ \A found \in response : found.shown = reply
  BY <1>1 DEF Readable
<1>3. PICK found \in response : outcome = Outcome(len, found)
  BY <1>1, <1>2 DEF Outcomes
<1>4. Outcome(len, found).reply = found.shown
  BY DEF Outcome
<1> QED
  BY <1>2, <1>3, <1>4

LEMMA ReadBodyStep ==
  ASSUME CallsInv, NEW c \in Programs, NEW n \in 1 .. Len(down[c]), ReadBody(c, n)
  PROVE  /\ StepOf(c) /\ Answered(c) /\ argv'[c] = argv[c]
         /\ \/ Answered(c)' /\ UNCHANGED printed
            \/ Idle(c)' /\ Printed(c)
<1>1. Answered(c) /\ pc[c] = "body"
  BY ReaderAnswered DEF ReadBody
<1>2. PICK s \in Seq(Byte), t \in Seq(Byte), b \in Seq(Byte) :
        s = rbuf[c] /\ t = down[c] /\ b = Encoded(meant[c])
  BY <1>1, AnsweredType DEF Answered
<1>3. PICK k \in Nat, l \in Nat, m \in Nat : k = Len(s) /\ l = Len(t) /\ m = Len(b)
  BY LenProperties
<1>4. s \o t = Sized(b) /\ m <= k_max_msg /\ WordSize <= k /\ k + l = WordSize + m
  BY <1>1, <1>2, <1>3, AnsweredType DEF Answered
<1>5. Number(s, 0) = m /\ Drop(s, WordSize) \o t = b
  BY <1>3, <1>4, FrontOfFrame
<1>6. n \in 1 .. l
  BY <1>2, <1>3
<1>7. PICK grown, left : grown = s \o Take(t, n) /\ left = Drop(t, n)
  OBVIOUS
<1>8. /\ grown \in Seq(Byte) /\ left \in Seq(Byte) /\ grown \o left = Sized(b)
      /\ Len(grown) = k + n
  <2>1. n \in Nat /\ n <= Len(t)
    BY <1>3, <1>6
  <2>2. /\ s \o Take(t, n) \in Seq(Byte)
        /\ Drop(t, n) \in Seq(Byte)
        /\ (s \o Take(t, n)) \o Drop(t, n) = s \o t
        /\ Len(s \o Take(t, n)) = Len(s) + n
    BY <2>1, Moved
  <2> QED
    BY <1>3, <1>4, <1>7, <2>2
<1>9. /\ rbuf' = [rbuf EXCEPT ![c] = grown]
      /\ down' = [down EXCEPT ![c] = left]
      /\ UNCHANGED <<up, argv, wbuf, meant>>
  <2>1. ReadSome(c, n)
    BY DEF ReadBody
  <2>2. /\ rbuf' = [rbuf EXCEPT ![c] = @ \o Take(down[c], n)]
        /\ down' = [down EXCEPT ![c] = Drop(@, n)]
    BY <2>1 DEF ReadSome
  <2>3. rbuf' = [rbuf EXCEPT ![c] = grown]
    BY <1>2, <1>7, <2>2
  <2>4. down' = [down EXCEPT ![c] = left]
    BY <1>2, <1>7, <2>2
  <2> QED
    BY <2>1, <2>3, <2>4 DEF ReadSome
<1>10. /\ rbuf'[c] = grown /\ down'[c] = left /\ up'[c] = up[c] /\ argv'[c] = argv[c]
       /\ wbuf'[c] = wbuf[c] /\ meant'[c] = meant[c]
  BY <1>9 DEF CallsInv, FunctionsInv
<1>11. /\ conn[c] = "open" /\ meant[c] # NoReply /\ Readable(meant[c])
       /\ up[c] = << >> /\ wbuf[c] = << >>
  BY <1>1 DEF Answered
<1>12. WordSize + m - k = l
  BY <1>3, <1>4, LimitAtLeast
<1>13. \/ n < l /\ UNCHANGED <<conn, pc, printed>>
       \/ /\ n = l
          /\ pc' = [pc EXCEPT ![c] = "end"]
          /\ conn' = [conn EXCEPT ![c] = "none"]
          /\ \E outcome \in Outcomes(m, on_response(Drop(s, WordSize) \o Take(t, n))) :
               printed' = [printed EXCEPT ![c] = outcome]
  BY <1>2, <1>3, <1>5, <1>12 DEF ReadBody
<1>14. CASE n < l
  <2>1. UNCHANGED <<conn, pc, printed>>
    BY <1>6, <1>13, <1>14
  <2>2. StepOf(c)
    BY <1>9, <2>1 DEF StepOf, CallsInv, FunctionsInv
  <2>3. pc'[c] = "body" /\ conn'[c] = conn[c]
    BY <1>1, <2>1
  <2>4. Len(grown) >= WordSize
    BY <1>3, <1>4, <1>6, <1>8, LimitAtLeast
  <2>5. Answered(c)'
    BY <1>2, <1>8, <1>10, <1>11, <2>3, <2>4 DEF Answered
  <2> QED
    BY <1>1, <1>10, <2>1, <2>2, <2>5
<1>15. CASE n = l
  <2>1. PICK outcome \in Outcomes(m, on_response(Drop(s, WordSize) \o Take(t, n))) :
          /\ pc' = [pc EXCEPT ![c] = "end"]
          /\ conn' = [conn EXCEPT ![c] = "none"]
          /\ printed' = [printed EXCEPT ![c] = outcome]
    BY <1>13, <1>15
  <2>2. StepOf(c)
    BY <1>9, <2>1 DEF StepOf, CallsInv, FunctionsInv
  <2>3. Take(t, n) = t /\ left = << >>
    BY <1>3, <1>7, <1>15, AllTaken
  <2>4. outcome.reply = meant[c]
    <3>1. outcome \in Outcomes(m, on_response(Encoded(meant[c])))
      BY <1>2, <1>5, <2>1, <2>3
    <3> QED
      BY <1>11, <3>1, OutcomeShown
  <2>5. pc'[c] = "end" /\ conn'[c] = "none"
    BY <2>1 DEF CallsInv, FunctionsInv
  <2>6. Len(grown) <= WordSize + k_max_msg
    BY <1>3, <1>4, <1>8, <1>15, LimitAtLeast
  <2>7. Idle(c)'
    BY <1>8, <1>10, <1>11, <2>3, <2>5, <2>6 DEF Idle
  <2> QED
    BY <1>1, <1>10, <2>1, <2>2, <2>4, <2>7 DEF Printed
<1> QED
  BY <1>6, <1>14, <1>15

(* The server drops no connection of a client. *)
LEMMA NeverClosed ==
  ASSUME CallsInv, NEW c \in Programs
  PROVE  conn[c] # "closed"
  BY DEF CallsInv, Phase, Idle, Asking, Answered

-----------------------------------------------------------------------------
(* The server takes a request.                                             *)

LEMMA HeaderIs ==
  ASSUME CallsInv, NEW c \in Programs, HasHeader(c)
  PROVE  Asking(c) /\ BodyLen(c) = Len(Body(argv[c])) /\ ~TooLong(c)
<1>1. WordSize \in Nat /\ 1 <= WordSize /\ k_max_msg \in Nat
  BY LimitAtLeast
<1>2. up[c] # << >>
  BY <1>1, EmptyBytes DEF HasHeader
<1>3. Asking(c)
  BY <1>2 DEF CallsInv, Phase, Idle, Answered
<1>4. PICK s \in Seq(Byte), t \in Seq(Byte), cmd \in Argvs :
        s = up[c] /\ t = wbuf[c] /\ cmd = argv[c]
  BY <1>3 DEF Asking
<1>5. PICK b \in Seq(Byte) : b = Body(cmd)
  BY ArgvType
<1>6. s \o t = Sized(b) /\ Len(b) <= k_max_msg
  BY <1>3, <1>4, <1>5 DEF Asking
<1>7. WordSize <= Len(s)
  BY <1>1, <1>4, LenProperties DEF HasHeader
<1>8. Number(s, 0) = Len(b)
  BY <1>6, <1>7, FrontOfFrame
<1>9. Len(b) \in Nat
  BY LenProperties
<1>10. ~(Len(b) > k_max_msg)
  BY <1>1, <1>6, <1>9
<1>11. BodyLen(c) = Len(b)
  BY <1>4, <1>8 DEF BodyLen
<1> QED
  BY <1>3, <1>4, <1>5, <1>10, <1>11 DEF TooLong

LEMMA RequestIs ==
  ASSUME CallsInv, NEW c \in Programs, HasFrame(c)
  PROVE  /\ Asking(c) /\ pc[c] = "header"
         /\ Request(c) = {argv[c]}
         /\ Drop(up[c], WordSize + BodyLen(c)) = << >>
<1>1. Asking(c) /\ BodyLen(c) = Len(Body(argv[c]))
  BY HeaderIs DEF HasFrame
<1>2. PICK s \in Seq(Byte), t \in Seq(Byte), cmd \in Argvs :
        s = up[c] /\ t = wbuf[c] /\ cmd = argv[c]
  BY <1>1 DEF Asking
<1>3. PICK b \in Seq(Byte) : b = Body(cmd)
  BY ArgvType
<1>4. PICK k \in Nat, m \in Nat : k = Len(s) /\ m = Len(b)
  BY LenProperties
<1>5. s \o t = Sized(b) /\ m <= k_max_msg
  BY <1>1, <1>2, <1>3, <1>4 DEF Asking
<1>6. WordSize <= k /\ m <= k - WordSize
  <2>1. k >= WordSize /\ k - WordSize >= m
    BY <1>1, <1>2, <1>3, <1>4 DEF HasFrame, HasHeader
  <2> QED
    BY <1>4, <2>1, LimitAtLeast
<1>7. /\ t = << >>
      /\ SubSeq(s, WordSize + 1, WordSize + Len(b)) = b
      /\ Drop(s, WordSize + Len(b)) = << >>
  BY <1>4, <1>5, <1>6, WholeFrame
<1>8. Payload(c) = b
  BY <1>1, <1>2, <1>3, <1>7 DEF Payload
<1>9. Request(c) = {cmd}
  <2>1. cmd \in Seq(Seq(Byte)) /\ Len(Body(cmd)) <= k_max_msg
    BY <1>3, <1>4, <1>5, ArgvType
  <2>2. parse_req(b) = {cmd}
    BY <1>3, <2>1, EncodedIsRead
  <2> QED
    BY <1>8, <2>2 DEF Request
<1>10. pc[c] = "header"
  BY <1>1, <1>2, <1>7 DEF Asking
<1> QED
  BY <1>1, <1>2, <1>3, <1>7, <1>9, <1>10

LEMMA AnswerStep ==
  ASSUME CallsInv, NEW c \in Programs, HasFrame(c), NEW reply,
         Readable(Packed(reply)), Packed(reply) # NoReply, Answer(c, reply)
  PROVE  /\ StepOf(c) /\ Answered(c)' /\ argv'[c] = argv[c]
         /\ meant' = [meant EXCEPT ![c] = Packed(reply)]
         /\ UNCHANGED <<pc, argv, printed>>
<1>1. PICK sent : sent = Packed(reply)
  OBVIOUS
<1>2. PICK frame : frame = Sized(Encoded(sent))
  OBVIOUS
<1>3. Asking(c) /\ pc[c] = "header" /\ Drop(up[c], WordSize + BodyLen(c)) = << >>
  BY RequestIs
<1>4. /\ wbuf[c] = << >> /\ down[c] = << >> /\ rbuf[c] = << >> /\ conn[c] = "open"
  BY <1>3 DEF Asking
<1>5. frame \in Seq(Byte)
  BY <1>1, <1>2, SizedType DEF Readable
<1>6. /\ meant' = [meant EXCEPT ![c] = sent]
      /\ down' = [down EXCEPT ![c] = down[c] \o frame]
      /\ up' = [up EXCEPT ![c] = Drop(up[c], WordSize + BodyLen(c))]
      /\ UNCHANGED <<conn, pc, argv, wbuf, rbuf, printed>>
  BY <1>1, <1>2 DEF Answer, clientVars
<1>7. StepOf(c)
  BY <1>6 DEF StepOf, CallsInv, FunctionsInv
<1>8. << >> \o frame = frame
  BY <1>5, ConcatEmptySeq
<1>9. /\ meant'[c] = sent /\ down'[c] = frame /\ up'[c] = << >>
      /\ conn'[c] = "open" /\ pc'[c] = "header" /\ argv'[c] = argv[c]
      /\ wbuf'[c] = << >> /\ rbuf'[c] = << >>
  BY <1>3, <1>4, <1>6, <1>8 DEF CallsInv, FunctionsInv
<1>10. 0 < WordSize
  BY LimitAtLeast
<1>11. Answered(c)'
  BY <1>1, <1>2, <1>5, <1>8, <1>9, <1>10, EmptyBytes DEF Answered
<1> QED
  BY <1>1, <1>6, <1>7, <1>9, <1>11

-----------------------------------------------------------------------------
(* What Service promises of each command.                                  *)

LEMMA SameReplies ==
  /\ S!NilReply = NilReply /\ S!NoReply = NoReply
  /\ \A v : S!StrReply(v) = StrReply(v)
  /\ \A n : S!IntReply(n) = IntReply(n)
  /\ \A code : S!ErrReply(code) = ErrReply(code)
  /\ \A n, items : S!ArrReply(n, items) = ArrReply(n, items)
  BY DEF S!NilReply, NilReply, S!NoReply, NoReply, S!StrReply, StrReply, S!IntReply, IntReply,
         S!ErrReply, ErrReply, S!ArrReply, ArrReply

LEMMA GetPromised ==
  ASSUME NEW key, NEW command, command = [op |-> "get", key |-> key]
  PROVE  /\ S!Answers(command) =
              {IF key \in DOMAIN store THEN StrReply(store[key]) ELSE NilReply}
         /\ S!Effect(command) = store
<1>1. command.op = "get" /\ command.key = key
  OBVIOUS
<1>2. S!Answers(command) =
        {IF S!Stored(key) THEN S!StrReply(store[key]) ELSE S!NilReply}
  BY <1>1 DEF S!Answers
<1>3. S!Effect(command) = store
  BY <1>1 DEF S!Effect
<1> QED
  BY <1>2, <1>3, SameReplies DEF S!Stored

LEMMA SetPromised ==
  ASSUME NEW key, NEW val, NEW command, command = [op |-> "set", key |-> key, val |-> val]
  PROVE  /\ S!Answers(command) = {NilReply}
         /\ S!Effect(command) =
              [k \in DOMAIN store \cup {key} |-> IF k = key THEN val ELSE store[k]]
<1>1. command.op = "set" /\ command.key = key /\ command.val = val
  OBVIOUS
<1>2. S!Answers(command) = {S!NilReply}
  BY <1>1 DEF S!Answers
<1>3. S!Effect(command) = S!With(key, val)
  BY <1>1 DEF S!Effect
<1> QED
  BY <1>2, <1>3, SameReplies DEF S!With

LEMMA DelPromised ==
  ASSUME NEW key, NEW command, command = [op |-> "del", key |-> key]
  PROVE  /\ S!Answers(command) = {IntReply(IF key \in DOMAIN store THEN 1 ELSE 0)}
         /\ S!Effect(command) = [k \in DOMAIN store \ {key} |-> store[k]]
<1>1. command.op = "del" /\ command.key = key
  OBVIOUS
<1>2. S!Answers(command) = {S!IntReply(IF S!Stored(key) THEN 1 ELSE 0)}
  BY <1>1 DEF S!Answers
<1>3. S!Effect(command) = S!Without(key)
  BY <1>1 DEF S!Effect
<1> QED
  BY <1>2, <1>3, SameReplies DEF S!Without, S!Stored

LEMMA SameOrders == S!SetToSeqs(DOMAIN store) = SetToSeqs(DOMAIN store)
<1>1. \A U : S!Cardinality(U) = Cardinality(U)
  BY DEF S!Cardinality, Cardinality
<1> QED
  BY <1>1 DEF S!SetToSeqs, SetToSeqs

LEMMA KeysPromised ==
  /\ \A order \in SetToSeqs(DOMAIN store) :
       ArrReply(Len(order), [i \in 1 .. Len(order) |-> StrReply(order[i])])
         \in S!Answers(KeysCommand)
  /\ ErrReply("ERR_2BIG") \in S!Answers(KeysCommand)
  /\ S!Effect(KeysCommand) = store
<1>1. KeysCommand.op = "keys"
  BY DEF KeysCommand
<1>2. S!Answers(KeysCommand) =
        {S!Listing(order) : order \in S!SetToSeqs(DOMAIN store)} \cup {S!ErrReply("ERR_2BIG")}
  BY <1>1 DEF S!Answers
<1>3. S!Effect(KeysCommand) = store
  BY <1>1 DEF S!Effect
<1>4. ASSUME NEW order
      PROVE  S!Listing(order) =
               ArrReply(Len(order), [i \in 1 .. Len(order) |-> StrReply(order[i])])
  BY SameReplies DEF S!Listing
<1> QED
  BY <1>2, <1>3, <1>4, SameOrders, SameReplies

LEMMA UnknownPromised ==
  /\ S!Answers(UnknownCommand) = {ErrReply("ERR_UNKNOWN")}
  /\ S!Effect(UnknownCommand) = store
<1>1. UnknownCommand.op = "unknown"
  BY DEF UnknownCommand
<1>2. S!Answers(UnknownCommand) = {S!ErrReply("ERR_UNKNOWN")}
  BY <1>1 DEF S!Answers
<1>3. S!Effect(UnknownCommand) = store
  BY <1>1 DEF S!Effect
<1> QED
  BY <1>2, <1>3, SameReplies

-----------------------------------------------------------------------------
(* The handlers.                                                           *)

(* A handler gives its command an answer that Service allows.              *)
Handled(c) ==
  /\ StepOf(c) /\ StoreInv' /\ Asking(c) /\ Answered(c)' /\ argv'[c] = argv[c]
  /\ UNCHANGED <<pc, argv, printed>>
  /\ store' = S!Effect(Meaning(argv[c]))
  /\ \E answer \in S!Answers(Meaning(argv[c])) :
       answer # NoReply /\ meant' = [meant EXCEPT ![c] = answer]

LEMMA AnswerHandled ==
  ASSUME CallsInv, NEW c \in Programs, HasFrame(c), StoreInv',
         NEW reply, Readable(Packed(reply)), Packed(reply) # NoReply, Answer(c, reply),
         store' = S!Effect(Meaning(argv[c])), Packed(reply) \in S!Answers(Meaning(argv[c]))
  PROVE  Handled(c)
<1>1. Asking(c)
  BY RequestIs
<1>2. /\ StepOf(c) /\ Answered(c)' /\ argv'[c] = argv[c]
      /\ meant' = [meant EXCEPT ![c] = Packed(reply)]
      /\ UNCHANGED <<pc, argv, printed>>
  BY AnswerStep
<1> QED
  BY <1>1, <1>2 DEF Handled

LEMMA RequestedIs ==
  ASSUME CallsInv, NEW c \in Programs, NEW cmd \in Request(c)
  PROVE  /\ HasFrame(c)
         /\ cmd = argv[c] /\ cmd \in Argvs /\ cmd \in Seq(Seq(Byte))
         /\ Len(Body(cmd)) <= k_max_msg
<1>1. HasFrame(c)
  BY DEF Request
<1>2. Asking(c) /\ cmd = argv[c]
  BY <1>1, RequestIs
<1> QED
  BY <1>1, <1>2, ArgvType DEF Asking

(* A stored value fits in a reply. *)
LEMMA StoredReadable ==
  ASSUME StoreInv, NEW k \in DOMAIN store
  PROVE  Readable(StrReply(store[k]))
<1>1. PICK val \in Seq(Byte) : val = store[k] /\ 2 * WordSize + 1 + Len(val) <= k_max_msg
  BY DEF StoreInv
<1>2. PICK n \in Nat : n = Len(val)
  BY LenProperties
<1>3. Encoded(StrReply(val)) = out_str(val)
  BY DEF Encoded, StrReply
<1>4. Len(Encoded(StrReply(val))) = 1 + WordSize + n
  BY <1>2, <1>3, StrType
<1>5. WordSize + (1 + WordSize + n) <= k_max_msg
  BY <1>1, <1>2, LimitAtLeast
<1>6. WordSize + Len(Encoded(StrReply(val))) <= k_max_msg
  BY <1>4, <1>5
<1> QED
  BY <1>1, <1>6, StrReadable

LEMMA GetHandled ==
  ASSUME CallsInv, NEW c \in Programs, do_get(c)
  PROVE  Handled(c)
<1>1. PICK cmd \in Requested(c, "get", 2) :
        \/ cmd[2] \notin DOMAIN store /\ Answer(c, NilReply)
        \/ cmd[2] \in DOMAIN store /\ Answer(c, StrReply(store[cmd[2]]))
  BY DEF do_get
<1>2. cmd \in Request(c) /\ Is(cmd, "get", 2)
  BY DEF Requested
<1>3. HasFrame(c) /\ cmd = argv[c]
  BY <1>2, RequestedIs
<1>4. Meaning(argv[c]) = [op |-> "get", key |-> cmd[2]]
  BY <1>2, <1>3, MeaningOfGet
<1>5. /\ S!Answers(Meaning(argv[c])) =
           {IF cmd[2] \in DOMAIN store THEN StrReply(store[cmd[2]]) ELSE NilReply}
      /\ S!Effect(Meaning(argv[c])) = store
  BY <1>4, GetPromised
<1>6. UNCHANGED store
  BY DEF do_get
<1>7. StoreInv /\ StoreInv'
  BY <1>6, StoreKept DEF CallsInv
<1>8. CASE cmd[2] \notin DOMAIN store
  <2>1. Answer(c, NilReply) /\ NilReply \in S!Answers(Meaning(argv[c]))
    BY <1>1, <1>5, <1>8
  <2>2. Packed(NilReply) = NilReply /\ Readable(NilReply)
    BY NilReadable, ReadableIsPacked
  <2> QED
    BY <1>3, <1>5, <1>6, <1>7, <2>1, <2>2, RepliesAreReplies, AnswerHandled
<1>9. CASE cmd[2] \in DOMAIN store
  <2>1. PICK reply : reply = StrReply(store[cmd[2]])
    OBVIOUS
  <2>2. Answer(c, reply) /\ reply \in S!Answers(Meaning(argv[c]))
    BY <1>1, <1>5, <1>9, <2>1
  <2>3. Readable(reply) /\ reply # NoReply
    BY <1>7, <1>9, <2>1, StoredReadable, RepliesAreReplies
  <2>4. Packed(reply) = reply
    BY <2>3, ReadableIsPacked
  <2> QED
    BY <1>3, <1>5, <1>6, <1>7, <2>2, <2>3, <2>4, AnswerHandled
<1> QED
  BY <1>8, <1>9

LEMMA SetCommandType ==
  ASSUME NEW key, NEW val, [op |-> "set", key |-> key, val |-> val] \in RequestCommands
  PROVE  key \in Keys /\ val \in Values
<1>1. PICK command : command = [op |-> "set", key |-> key, val |-> val]
  OBVIOUS
<1>2. command.op = "set" /\ command.key = key /\ command.val = val
  BY <1>1
<1>3. command \in [op : {"set"}, key : Keys, val : Values]
  <2>1. command \in RequestCommands
    BY <1>1
  <2>2. command \notin [op : {"get", "del"}, key : Keys]
    BY <1>2
  <2>3. command \notin {KeysCommand, UnknownCommand}
    BY <1>2 DEF KeysCommand, UnknownCommand
  <2> QED
    BY <2>1, <2>2, <2>3 DEF RequestCommands
<1> QED
  BY <1>2, <1>3

LEMMA SetKeepsStore ==
  ASSUME StoreInv, NEW key \in Keys \cap Seq(Byte), NEW val \in Values \cap Seq(Byte),
         2 * WordSize + 1 + Len(val) <= k_max_msg,
         store' = [k \in DOMAIN store \cup {key} |-> IF k = key THEN val ELSE store[k]]
  PROVE  StoreInv'
<1>1. DOMAIN store' = DOMAIN store \cup {key}
  OBVIOUS
<1>2. IsFiniteSet(DOMAIN store')
  BY <1>1, FS_AddElement DEF StoreInv
<1>3. DOMAIN store' \subseteq Keys \cap Seq(Byte)
  BY <1>1 DEF StoreInv
<1>4. ASSUME NEW k \in DOMAIN store'
      PROVE  /\ store'[k] \in Values \cap Seq(Byte)
             /\ 2 * WordSize + 1 + Len(store'[k]) <= k_max_msg
  <2>1. CASE k = key
    BY <2>1
  <2>2. CASE k # key
    <3>1. k \in DOMAIN store /\ store'[k] = store[k]
      BY <1>1, <2>2
    <3> QED
      BY <3>1 DEF StoreInv
  <2> QED
    BY <2>1, <2>2
<1> QED
  BY <1>2, <1>3, <1>4 DEF StoreInv

LEMMA SetHandled ==
  ASSUME CallsInv, NEW c \in Programs, do_set(c)
  PROVE  Handled(c)
<1>1. PICK cmd \in Requested(c, "set", 3) :
        /\ store' = [k \in DOMAIN store \cup {cmd[2]} |-> IF k = cmd[2] THEN cmd[3] ELSE store[k]]
        /\ Answer(c, NilReply)
  BY DEF do_set
<1>2. cmd \in Request(c) /\ Is(cmd, "set", 3)
  BY DEF Requested
<1>3. /\ HasFrame(c) /\ cmd = argv[c] /\ cmd \in Argvs /\ cmd \in Seq(Seq(Byte))
      /\ Len(Body(cmd)) <= k_max_msg
  BY <1>2, RequestedIs
<1>4. Meaning(cmd) = [op |-> "set", key |-> cmd[2], val |-> cmd[3]]
  BY <1>2, MeaningOfSet
<1>5. /\ S!Answers(Meaning(argv[c])) = {NilReply}
      /\ S!Effect(Meaning(argv[c])) = store'
  <2>1. /\ S!Answers(Meaning(cmd)) = {NilReply}
        /\ S!Effect(Meaning(cmd)) =
             [k \in DOMAIN store \cup {cmd[2]} |-> IF k = cmd[2] THEN cmd[3] ELSE store[k]]
    BY <1>4, SetPromised
  <2> QED
    BY <1>1, <1>3, <2>1
<1>6. cmd[2] \in Keys /\ cmd[3] \in Values
  <2>1. Meaning(cmd) \in RequestCommands
    BY <1>3, CommandAssumption
  <2> QED
    BY <1>4, <2>1, SetCommandType
<1>7. /\ cmd[2] \in Seq(Byte) /\ cmd[3] \in Seq(Byte)
      /\ 4 * WordSize + Len(cmd[3]) <= Len(Body(cmd))
  BY <1>2, <1>3, SetLength DEF Is
<1>8. 2 * WordSize + 1 + Len(cmd[3]) <= k_max_msg
  <2>1. PICK n \in Nat, m \in Nat : n = Len(cmd[3]) /\ m = Len(Body(cmd))
    BY <1>3, <1>7, ArgvType, LenProperties
  <2>2. m <= k_max_msg /\ 4 * WordSize + n <= m
    BY <1>3, <1>7, <2>1
  <2>3. 2 * WordSize + 1 + n <= k_max_msg
    BY <2>2, LimitAtLeast
  <2> QED
    BY <2>1, <2>3
<1>9. StoreInv'
  <2>1. StoreInv
    BY DEF CallsInv
  <2> QED
    BY <1>1, <1>6, <1>7, <1>8, <2>1, SetKeepsStore
<1>10. Packed(NilReply) = NilReply /\ Readable(NilReply)
  BY NilReadable, ReadableIsPacked
<1> QED
  BY <1>1, <1>3, <1>5, <1>9, <1>10, RepliesAreReplies, AnswerHandled

LEMMA DelKeepsStore ==
  ASSUME StoreInv, NEW key, store' = [k \in DOMAIN store \ {key} |-> store[k]]
  PROVE  StoreInv'
<1>1. DOMAIN store' = DOMAIN store \ {key} /\ \A k \in DOMAIN store' : store'[k] = store[k]
  OBVIOUS
<1>2. IsFiniteSet(DOMAIN store')
  BY <1>1, FS_RemoveElement DEF StoreInv
<1>3. DOMAIN store' \subseteq Keys \cap Seq(Byte)
  BY <1>1 DEF StoreInv
<1>4. ASSUME NEW k \in DOMAIN store'
      PROVE  /\ store'[k] \in Values \cap Seq(Byte)
             /\ 2 * WordSize + 1 + Len(store'[k]) <= k_max_msg
  <2>1. k \in DOMAIN store /\ store'[k] = store[k]
    BY <1>1
  <2> QED
    BY <2>1 DEF StoreInv
<1> QED
  BY <1>2, <1>3, <1>4 DEF StoreInv

LEMMA DelHandled ==
  ASSUME CallsInv, NEW c \in Programs, do_del(c)
  PROVE  Handled(c)
<1>1. PICK cmd \in Requested(c, "del", 2) :
        /\ store' = [k \in DOMAIN store \ {cmd[2]} |-> store[k]]
        /\ Answer(c, IntReply(IF cmd[2] \in DOMAIN store THEN 1 ELSE 0))
  BY DEF do_del
<1>2. cmd \in Request(c) /\ Is(cmd, "del", 2)
  BY DEF Requested
<1>3. HasFrame(c) /\ cmd = argv[c]
  BY <1>2, RequestedIs
<1>4. PICK n \in {0, 1} : n = IF cmd[2] \in DOMAIN store THEN 1 ELSE 0
  OBVIOUS
<1>5. /\ S!Answers(Meaning(argv[c])) = {IntReply(n)}
      /\ S!Effect(Meaning(argv[c])) = store'
  <2>1. Meaning(cmd) = [op |-> "del", key |-> cmd[2]]
    BY <1>2, MeaningOfDel
  <2>2. /\ S!Answers(Meaning(cmd)) = {IntReply(IF cmd[2] \in DOMAIN store THEN 1 ELSE 0)}
        /\ S!Effect(Meaning(cmd)) = [k \in DOMAIN store \ {cmd[2]} |-> store[k]]
    BY <2>1, DelPromised
  <2> QED
    BY <1>1, <1>3, <1>4, <2>2
<1>6. StoreInv'
  <2>1. StoreInv
    BY DEF CallsInv
  <2> QED
    BY <1>1, <2>1, DelKeepsStore
<1>7. Packed(IntReply(n)) = IntReply(n) /\ Readable(IntReply(n))
  BY IntReadable, ReadableIsPacked
<1>8. Answer(c, IntReply(n))
  BY <1>1, <1>4
<1> QED
  BY <1>3, <1>5, <1>6, <1>7, <1>8, RepliesAreReplies, AnswerHandled

(* A listing is a sequence of the keys.                                    *)
LEMMA ListingType ==
  ASSUME StoreInv, NEW order \in SetToSeqs(DOMAIN store)
  PROVE  order \in Seq(Seq(Byte))
<1>1. PICK n \in Nat : n = Cardinality(DOMAIN store)
  BY FS_CardinalityType DEF StoreInv
<1>2. order \in [1 .. n -> DOMAIN store]
  BY <1>1 DEF SetToSeqs
<1>3. order \in [1 .. n -> Seq(Byte)]
  BY <1>2 DEF StoreInv
<1> QED
  BY <1>3

LEMMA KeysHandled ==
  ASSUME CallsInv, NEW c \in Programs, do_keys(c)
  PROVE  Handled(c)
<1>1. PICK cmd : cmd \in Requested(c, "keys", 1)
  BY DEF do_keys
<1>2. cmd \in Request(c) /\ Is(cmd, "keys", 1)
  BY <1>1 DEF Requested
<1>3. HasFrame(c) /\ cmd = argv[c]
  BY <1>2, RequestedIs
<1>4. PICK order \in SetToSeqs(DOMAIN store) :
        Answer(c, ArrReply(Len(order), [i \in 1 .. Len(order) |-> StrReply(order[i])]))
  BY DEF do_keys
<1>5. UNCHANGED store
  BY DEF do_keys
<1>6. StoreInv /\ StoreInv'
  BY <1>5, StoreKept DEF CallsInv
<1>7. PICK reply : reply = ArrReply(Len(order), FirstReplies(order, Len(order)))
  OBVIOUS
<1>8. reply = ArrReply(Len(order), [i \in 1 .. Len(order) |-> StrReply(order[i])])
  BY <1>7 DEF FirstReplies
<1>9. Readable(Packed(reply)) /\ Packed(reply) \in {reply, ErrReply("ERR_2BIG")}
  <2>1. order \in Seq(Seq(Byte))
    BY <1>6, ListingType
  <2> QED
    BY <1>7, <2>1, ListingPacked
<1>10. Packed(reply) \in S!Answers(Meaning(argv[c])) /\ store' = S!Effect(Meaning(argv[c]))
  <2>1. Meaning(argv[c]) = KeysCommand
    BY <1>2, <1>3, MeaningOfKeys
  <2>2. reply \in S!Answers(KeysCommand)
    BY <1>8, KeysPromised
  <2> QED
    BY <1>5, <1>9, <2>1, <2>2, KeysPromised
<1>11. Packed(reply) # NoReply
  BY <1>8, <1>9, RepliesAreReplies
<1>12. Answer(c, reply)
  BY <1>4, <1>8
<1> QED
  BY <1>3, <1>6, <1>9, <1>10, <1>11, <1>12, AnswerHandled

LEMMA UnknownHandled ==
  ASSUME CallsInv, NEW c \in Programs, UnknownCmd(c)
  PROVE  Handled(c)
<1>1. PICK cmd \in Request(c) : ~Recognised(cmd)
  BY DEF UnknownCmd
<1>2. HasFrame(c) /\ cmd = argv[c]
  BY RequestedIs
<1>3. UNCHANGED store /\ Answer(c, ErrReply("ERR_UNKNOWN"))
  BY DEF UnknownCmd
<1>4. StoreInv'
  BY <1>3, StoreKept DEF CallsInv
<1>5. Meaning(argv[c]) = UnknownCommand
  BY <1>1, <1>2, MeaningOfUnknown
<1>6. /\ ErrReply("ERR_UNKNOWN") \in S!Answers(Meaning(argv[c]))
      /\ store' = S!Effect(Meaning(argv[c]))
  BY <1>3, <1>5, UnknownPromised
<1>7. /\ Readable(ErrReply("ERR_UNKNOWN"))
      /\ Packed(ErrReply("ERR_UNKNOWN")) = ErrReply("ERR_UNKNOWN")
  <2>1. "ERR_UNKNOWN" \in DOMAIN ErrCode
    BY DEF ErrCode
  <2> QED
    BY <2>1, ErrReadable, ReadableIsPacked
<1> QED
  BY <1>2, <1>3, <1>4, <1>6, <1>7, RepliesAreReplies, AnswerHandled

(* The server has no reason to drop a client's connection. *)
LEMMA NoneDropped ==
  ASSUME CallsInv, NEW c \in Programs
  PROVE  ~DropConnection(c)
<1>1. ~TooLong(c)
  BY HeaderIs DEF TooLong
<1>2. HasFrame(c) => Request(c) # {}
  BY RequestIs
<1> QED
  BY <1>1, <1>2 DEF DropConnection

LEMMA RequestHandled ==
  ASSUME CallsInv, NEW c \in Programs, try_one_request(c)
  PROVE  Handled(c)
  BY GetHandled, SetHandled, DelHandled, KeysHandled, UnknownHandled, NoneDropped
     DEF try_one_request

-----------------------------------------------------------------------------
(* The steps.                                                              *)

(* A step that the clients' calls do not notice. *)
Quiet(c) ==
  /\ StepOf(c) /\ UNCHANGED <<store, argv, printed, meant>>
  /\ (Asking(c) /\ Asking(c)') \/ (Answered(c) /\ Answered(c)')

(* The client has read its reply. *)
Returned(c) ==
  /\ StepOf(c) /\ UNCHANGED <<store, argv, meant>>
  /\ Answered(c) /\ Idle(c)' /\ Printed(c)

LEMMA ProgressKinds ==
  ASSUME CallsInv, NEW c \in Programs, Progress(c)
  PROVE  Quiet(c) \/ Returned(c)
<1>1. CASE \E n \in 1 .. Len(wbuf[c]) : write_all(c, n)
  <2>1. PICK n \in 1 .. Len(wbuf[c]) : write_all(c, n)
    BY <1>1
  <2>2. UNCHANGED <<store, argv, printed, meant>>
    BY <2>1 DEF write_all
  <2> QED
    BY <2>1, <2>2, WriteStep DEF Quiet
<1>2. CASE \E n \in 1 .. Len(down[c]) : ReadHeader(c, n)
  <2>1. PICK n \in 1 .. Len(down[c]) : ReadHeader(c, n)
    BY <1>2
  <2>2. UNCHANGED <<store, argv, meant>>
    BY <2>1 DEF ReadHeader, ReadSome
  <2> QED
    BY <2>1, <2>2, ReadHeaderStep DEF Quiet
<1>3. CASE \E n \in 1 .. Len(down[c]) : ReadBody(c, n)
  <2>1. PICK n \in 1 .. Len(down[c]) : ReadBody(c, n)
    BY <1>3
  <2>2. UNCHANGED <<store, argv, meant>>
    BY <2>1 DEF ReadBody, ReadSome
  <2> QED
    BY <2>1, <2>2, ReadBodyStep DEF Quiet, Returned
<1>4. ~WriteFails(c) /\ ~EndOfFile(c)
  BY NeverClosed DEF WriteFails, EndOfFile
<1> QED
  BY <1>1, <1>2, <1>3, <1>4 DEF Progress

LEMMA StepKinds ==
  ASSUME Peers = {}, CallsInv, Next
  PROVE  \E c \in Clients :
           \/ \E cmd \in Argvs : send_req(c, cmd) \/ SendTooLong(c, cmd)
           \/ Quiet(c) \/ Returned(c) \/ Handled(c)
<1>1. PICK c \in Programs : Start(c) \/ Progress(c) \/ try_one_request(c)
  BY DEF Next
<1>2. c \in Clients /\ c \notin Peers
  BY DEF Programs
<1>3. Start(c) => \E cmd \in Argvs : send_req(c, cmd) \/ SendTooLong(c, cmd)
  BY <1>2 DEF Start
<1> QED
  BY <1>1, <1>2, <1>3, ProgressKinds, RequestHandled

LEMMA CallsNext ==
  ASSUME Peers = {}, CallsInv, [Next]_vars
  PROVE  CallsInv'
<1>1. CASE UNCHANGED vars
  <2>1. UNCHANGED <<store, conn, up, down, pc, argv, wbuf, rbuf, printed, meant>>
    BY <1>1 DEF vars, clientVars
  <2>2. StoreInv' /\ FunctionsInv'
    BY <2>1, StoreKept DEF CallsInv, FunctionsInv
  <2>3. ASSUME NEW c \in Programs
        PROVE  Phase(c)' /\ argv'[c] \in Argvs \cup {<< >>}
    <3>1. Phase(c) /\ argv[c] \in Argvs \cup {<< >>}
      BY DEF CallsInv
    <3> QED
      BY <2>1, <3>1 DEF Phase, Idle, Asking, Answered
  <2> QED
    BY <2>2, <2>3 DEF CallsInv
<1>2. CASE Next
  <2>1. PICK c \in Clients :
          \/ \E cmd \in Argvs : send_req(c, cmd) \/ SendTooLong(c, cmd)
          \/ Quiet(c) \/ Returned(c) \/ Handled(c)
    BY <1>2, StepKinds
  <2>2. c \in Programs /\ StoreInv /\ argv[c] \in Argvs \cup {<< >>}
    BY DEF Programs, CallsInv
  <2>3. ASSUME NEW cmd \in Argvs, send_req(c, cmd)
        PROVE  CallsInv'
    <3>1. StepOf(c) /\ Asking(c)' /\ argv'[c] = cmd
      BY <2>2, <2>3, SendStep
    <3>2. StoreInv'
      BY <2>2, <2>3, StoreKept DEF send_req, Begin
    <3>3. Phase(c)'
      BY <3>1 DEF Phase
    <3> QED
      BY <2>2, <3>1, <3>2, <3>3, CallsKept
  <2>4. ASSUME NEW cmd \in Argvs, SendTooLong(c, cmd)
        PROVE  CallsInv'
    <3>1. StepOf(c) /\ Idle(c)' /\ argv'[c] = cmd
      BY <2>2, <2>4, RefusedStep
    <3>2. StoreInv'
      BY <2>2, <2>4, StoreKept DEF SendTooLong, Begin
    <3>3. Phase(c)'
      BY <3>1 DEF Phase
    <3> QED
      BY <2>2, <3>1, <3>2, <3>3, CallsKept
  <2>5. ASSUME Quiet(c) \/ Returned(c) \/ Handled(c)
        PROVE  CallsInv'
    <3>1. StepOf(c) /\ StoreInv' /\ argv'[c] = argv[c]
      BY <2>2, <2>5, StoreKept DEF Quiet, Returned, Handled
    <3>2. Phase(c)'
      BY <2>5 DEF Quiet, Returned, Handled, Phase
    <3> QED
      BY <2>2, <3>1, <3>2, CallsKept
  <2> QED
    BY <2>1, <2>3, <2>4, <2>5
<1> QED
  BY <1>1, <1>2

(* With no other program than client.cpp: the requests and replies stay    *)
(* whole, and the key space holds what fits in a reply.                    *)
THEOREM CallsStay ==
  ASSUME Peers = {}
  PROVE  Spec => []CallsInv
<1>1. Init => CallsInv
  BY CallsInit
<1>2. CallsInv /\ [Next]_vars => CallsInv'
  BY CallsNext
<1> QED
  BY <1>1, <1>2, PTL DEF Spec

-----------------------------------------------------------------------------
(* Types.                                                                  *)

LEMMA FrameFits ==
  ASSUME NEW s \in Seq(Byte), NEW t \in Seq(Byte), NEW b \in Seq(Byte), Len(b) <= k_max_msg,
         s \o t = Sized(b)
  PROVE  Len(s) <= WordSize + k_max_msg /\ Len(t) <= WordSize + k_max_msg
<1>1. PICK k \in Nat, l \in Nat, m \in Nat : k = Len(s) /\ l = Len(t) /\ m = Len(b)
  BY LenProperties
<1>2. k + l = WordSize + m
  BY <1>1, FrameLengths
<1>3. m <= k_max_msg
  BY <1>1
<1>4. k <= WordSize + k_max_msg /\ l <= WordSize + k_max_msg
  BY <1>2, <1>3, LimitAtLeast
<1> QED
  BY <1>1, <1>4

LEMMA ProgramTypes ==
  ASSUME NEW c \in Programs, Phase(c)
  PROVE  /\ conn[c] \in {"none", "open", "closed"}
         /\ pc[c] \in {"end", "write", "header", "body"}
         /\ \A s \in {up[c], down[c], wbuf[c], rbuf[c]} : s \in Seq(Byte)
         /\ Len(down[c]) <= WordSize + k_max_msg
         /\ Len(rbuf[c]) <= WordSize + k_max_msg
         /\ Len(up[c]) <= WordSize + k_max_msg
<1>1. 0 <= WordSize + k_max_msg
  BY LimitAtLeast
<1>2. CASE Idle(c)
  BY <1>1, <1>2, EmptyBytes DEF Idle
<1>3. CASE Asking(c)
  <2>1. PICK s \in Seq(Byte), t \in Seq(Byte), cmd \in Argvs :
          s = up[c] /\ t = wbuf[c] /\ cmd = argv[c]
    BY <1>3 DEF Asking
  <2>2. PICK b \in Seq(Byte) : b = Body(cmd)
    BY ArgvType
  <2>3. s \o t = Sized(b) /\ Len(b) <= k_max_msg
    BY <1>3, <2>1, <2>2 DEF Asking
  <2>4. Len(up[c]) <= WordSize + k_max_msg
    BY <2>1, <2>3, FrameFits
  <2> QED
    BY <1>1, <1>3, <2>4, EmptyBytes DEF Asking
<1>4. CASE Answered(c)
  <2>1. PICK s \in Seq(Byte), t \in Seq(Byte), b \in Seq(Byte) :
          s = rbuf[c] /\ t = down[c] /\ b = Encoded(meant[c])
    BY <1>4, AnsweredType DEF Answered
  <2>2. s \o t = Sized(b) /\ Len(b) <= k_max_msg
    BY <1>4, <2>1, AnsweredType DEF Answered
  <2>3. Len(rbuf[c]) <= WordSize + k_max_msg /\ Len(down[c]) <= WordSize + k_max_msg
    BY <2>1, <2>2, FrameFits
  <2> QED
    BY <1>1, <1>4, <2>3, EmptyBytes DEF Answered
<1> QED
  BY <1>2, <1>3, <1>4 DEF Phase

LEMMA TypesFromCalls == CallsInv => TypeOK
<1> SUFFICES ASSUME CallsInv PROVE TypeOK
  OBVIOUS
<1>1. DOMAIN store \subseteq Keys /\ \A k \in DOMAIN store : store[k] \in Values
  BY DEF CallsInv, StoreInv
<1>2. ASSUME NEW c \in Programs
      PROVE  /\ conn[c] \in {"none", "open", "closed"}
             /\ pc[c] \in {"end", "write", "header", "body"}
             /\ argv[c] \in Argvs \cup {<< >>}
             /\ \A s \in {up[c], down[c], wbuf[c], rbuf[c]} : s \in Seq(Byte)
             /\ Len(down[c]) <= WordSize + k_max_msg
             /\ Len(rbuf[c]) <= WordSize + k_max_msg
             /\ Len(up[c]) <= WordSize + k_max_msg
  BY ProgramTypes DEF CallsInv
<1> QED
  BY <1>1, <1>2 DEF TypeOK

(* With no other program than client.cpp, nothing outgrows its buffer.     *)
THEOREM BuffersSuffice ==
  ASSUME Peers = {}
  PROVE  Spec => []TypeOK
<1>1. CallsInv => TypeOK
  BY TypesFromCalls
<1>2. Spec => []CallsInv
  BY CallsStay
<1> QED
  BY <1>1, <1>2, PTL

-----------------------------------------------------------------------------
(* The refinement.  The variables of Service, as S maps them.              *)

Status  == [c \in Clients |->
              IF pc[c] = "end" THEN "idle"
              ELSE IF meant[c] = NoReply THEN "called" ELSE "taken"]
Calls   == [c \in Clients |-> Meaning(argv[c])]
Replies == [c \in Clients |-> meant[c]]
Results == [c \in Clients |-> printed[c].reply]

LEMMA OneChanged ==
  ASSUME NEW D, NEW f, f = [d \in D |-> f[d]], NEW g, g = [d \in D |-> g[d]],
         NEW c \in D, \A d \in D \ {c} : g[d] = f[d], NEW v, g[c] = v
  PROVE  g = [f EXCEPT ![c] = v]
  OBVIOUS

LEMMA MappedFunctions ==
  /\ Status = [c \in Clients |-> Status[c]] /\ Calls = [c \in Clients |-> Calls[c]]
  /\ Replies = [c \in Clients |-> Replies[c]] /\ Results = [c \in Clients |-> Results[c]]
  /\ Status' = [c \in Clients |-> Status'[c]] /\ Calls' = [c \in Clients |-> Calls'[c]]
  /\ Replies' = [c \in Clients |-> Replies'[c]] /\ Results' = [c \in Clients |-> Results'[c]]
  BY DEF Status, Calls, Replies, Results

LEMMA OthersUnchanged ==
  ASSUME NEW c \in Clients, StepOf(c), NEW d \in Clients \ {c}
  PROVE  /\ Status'[d] = Status[d] /\ Calls'[d] = Calls[d]
         /\ Replies'[d] = Replies[d] /\ Results'[d] = Results[d]
<1>1. /\ pc'[d] = pc[d] /\ argv'[d] = argv[d] /\ meant'[d] = meant[d]
      /\ printed'[d] = printed[d]
  BY DEF StepOf, Programs
<1>2. Status'[d] = Status[d]
  BY <1>1 DEF Status
<1>3. Calls'[d] = Calls[d]
  BY <1>1 DEF Calls
<1>4. Replies'[d] = Replies[d] /\ Results'[d] = Results[d]
  BY <1>1 DEF Replies, Results
<1> QED
  BY <1>2, <1>3, <1>4

(* What a step of one client does to the variables of Service. *)
LEMMA MappedStep ==
  ASSUME NEW c \in Clients, StepOf(c)
  PROVE  /\ Status' = [Status EXCEPT ![c] = Status'[c]]
         /\ Calls' = [Calls EXCEPT ![c] = Calls'[c]]
         /\ Replies' = [Replies EXCEPT ![c] = Replies'[c]]
         /\ Results' = [Results EXCEPT ![c] = Results'[c]]
<1>1. Status' = [Status EXCEPT ![c] = Status'[c]]
  BY MappedFunctions, OthersUnchanged, OneChanged
<1>2. Calls' = [Calls EXCEPT ![c] = Calls'[c]]
  BY MappedFunctions, OthersUnchanged, OneChanged
<1>3. Replies' = [Replies EXCEPT ![c] = Replies'[c]]
  BY MappedFunctions, OthersUnchanged, OneChanged
<1>4. Results' = [Results EXCEPT ![c] = Results'[c]]
  BY MappedFunctions, OthersUnchanged, OneChanged
<1> QED
  BY <1>1, <1>2, <1>3, <1>4

LEMMA StatusOf ==
  ASSUME NEW c \in Clients
  PROVE  /\ Idle(c) => Status[c] = "idle"
         /\ Asking(c) => Status[c] = "called"
         /\ Answered(c) => Status[c] = "taken"
  BY DEF Status, Idle, Asking, Answered

LEMMA NextStatusOf ==
  ASSUME NEW c \in Clients
  PROVE  /\ Idle(c)' => Status'[c] = "idle"
         /\ Asking(c)' => Status'[c] = "called"
         /\ Answered(c)' => Status'[c] = "taken"
  BY DEF Status, Idle, Asking, Answered

LEMMA BeginMapped ==
  ASSUME Peers = {}, CallsInv, NEW c \in Clients, NEW cmd \in Argvs, Begin(c, cmd)
  PROVE  /\ Status[c] = "idle"
         /\ Calls'[c] = Meaning(cmd) /\ Replies'[c] = NoReply /\ Results'[c] = NoReply
<1>1. c \in Programs
  BY DEF Programs
<1>2. Status[c] = "idle"
  BY DEF Begin, Status
<1>3. argv'[c] = cmd /\ meant'[c] = NoReply /\ printed'[c] = Nothing
  BY <1>1 DEF Begin, CallsInv, FunctionsInv
<1>4. Nothing.reply = NoReply
  BY DEF Nothing
<1> QED
  BY <1>2, <1>3, <1>4 DEF Calls, Replies, Results

LEMMA SendIsCall ==
  ASSUME Peers = {}, CallsInv, NEW c \in Clients, NEW cmd \in Argvs, send_req(c, cmd)
  PROVE  S!Call(c, Meaning(cmd))
<1>1. StepOf(c) /\ Asking(c)'
  BY SendStep DEF Programs
<1>2. Begin(c, cmd)
  BY DEF send_req
<1>3. /\ Status[c] = "idle" /\ Status'[c] = "called"
      /\ Calls'[c] = Meaning(cmd) /\ Replies'[c] = NoReply /\ Results'[c] = NoReply
  BY <1>1, <1>2, BeginMapped, NextStatusOf
<1>4. UNCHANGED store
  BY <1>2 DEF Begin
<1>5. /\ Status' = [Status EXCEPT ![c] = "called"]
      /\ Calls' = [Calls EXCEPT ![c] = Meaning(cmd)]
      /\ Replies' = [Replies EXCEPT ![c] = S!NoReply]
      /\ Results' = [Results EXCEPT ![c] = S!NoReply]
  BY <1>1, <1>3, MappedStep, SameReplies
<1> QED
  BY <1>3, <1>4, <1>5 DEF S!Call, Status, Calls, Replies, Results

LEMMA TooLongIsRefused ==
  ASSUME Peers = {}, CallsInv, NEW c \in Clients, NEW cmd \in Argvs, SendTooLong(c, cmd)
  PROVE  S!Refuse(c, Meaning(cmd))
<1>1. StepOf(c) /\ Idle(c)'
  BY RefusedStep DEF Programs
<1>2. Begin(c, cmd)
  BY DEF SendTooLong
<1>3. /\ Status[c] = "idle" /\ Status'[c] = "idle"
      /\ Calls'[c] = Meaning(cmd) /\ Replies'[c] = NoReply /\ Results'[c] = NoReply
  BY <1>1, <1>2, BeginMapped, NextStatusOf
<1>4. UNCHANGED store
  BY <1>2 DEF Begin
<1>5. /\ Status' = Status
      /\ Calls' = [Calls EXCEPT ![c] = Meaning(cmd)]
      /\ Replies' = [Replies EXCEPT ![c] = S!NoReply]
      /\ Results' = [Results EXCEPT ![c] = S!NoReply]
  <2>1. Status' = [Status EXCEPT ![c] = Status[c]]
    BY <1>1, <1>3, MappedStep
  <2>2. Status' = Status
    BY <2>1, MappedFunctions
  <2> QED
    BY <1>1, <1>3, <2>2, MappedStep, SameReplies
<1> QED
  BY <1>3, <1>4, <1>5 DEF S!Refuse, Status, Calls, Replies, Results

LEMMA HandledIsTake ==
  ASSUME NEW c \in Clients, Handled(c)
  PROVE  S!Take(c)
<1>1. StepOf(c) /\ Asking(c) /\ Answered(c)' /\ UNCHANGED <<pc, argv, printed>>
  BY DEF Handled
<1>2. Status[c] = "called" /\ Status'[c] = "taken"
  BY <1>1, StatusOf, NextStatusOf
<1>3. Status' = [Status EXCEPT ![c] = "taken"]
  BY <1>1, <1>2, MappedStep
<1>4. Calls' = Calls /\ Results' = Results
  BY <1>1 DEF Calls, Results
<1>5. Calls[c] = Meaning(argv[c])
  BY DEF Calls
<1>6. store' = S!Effect(Calls[c])
  BY <1>5 DEF Handled
<1>7. PICK answer \in S!Answers(Calls[c]) : meant' = [meant EXCEPT ![c] = answer]
  BY <1>5 DEF Handled
<1>8. Replies'[c] = answer
  BY <1>1, <1>7 DEF Replies, StepOf, FunctionsInv, Programs
<1>9. Replies' = [Replies EXCEPT ![c] = answer]
  BY <1>1, <1>8, MappedStep
<1> QED
  BY <1>2, <1>3, <1>4, <1>6, <1>9 DEF S!Take, Status, Calls, Replies, Results

LEMMA ReturnedIsReturn ==
  ASSUME CallsInv, NEW c \in Clients, Returned(c)
  PROVE  S!Return(c)
<1>1. StepOf(c) /\ Answered(c) /\ Idle(c)' /\ UNCHANGED <<store, argv, meant>>
  BY DEF Returned
<1>2. Status[c] = "taken" /\ Status'[c] = "idle"
  BY <1>1, StatusOf, NextStatusOf
<1>3. Status' = [Status EXCEPT ![c] = "idle"]
  BY <1>1, <1>2, MappedStep
<1>4. Calls' = Calls /\ Replies' = Replies
  BY <1>1 DEF Calls, Replies
<1>5. Results'[c] = Replies[c]
  <2>1. PICK outcome : printed' = [printed EXCEPT ![c] = outcome] /\ outcome.reply = meant[c]
    BY DEF Returned, Printed
  <2>2. printed'[c] = outcome
    BY <2>1 DEF CallsInv, FunctionsInv, Programs
  <2> QED
    BY <2>1, <2>2 DEF Results, Replies
<1>6. Results' = [Results EXCEPT ![c] = Replies[c]]
  BY <1>1, <1>5, MappedStep
<1> QED
  BY <1>1, <1>2, <1>3, <1>4, <1>6 DEF S!Return, Status, Calls, Replies, Results

LEMMA QuietIsStutter ==
  ASSUME NEW c \in Clients, Quiet(c)
  PROVE  UNCHANGED S!vars
<1>1. StepOf(c) /\ UNCHANGED <<store, argv, printed, meant>>
  BY DEF Quiet
<1>2. Status'[c] = Status[c]
  BY StatusOf, NextStatusOf DEF Quiet
<1>3. Status' = Status
  <2>1. Status' = [Status EXCEPT ![c] = Status[c]]
    BY <1>1, <1>2, MappedStep
  <2> QED
    BY <2>1, MappedFunctions
<1>4. Calls' = Calls /\ Replies' = Replies /\ Results' = Results
  BY <1>1 DEF Calls, Replies, Results
<1> QED
  BY <1>1, <1>3, <1>4 DEF S!vars, Status, Calls, Replies, Results

LEMMA SameCommands == S!RequestCommands = RequestCommands
  BY DEF S!RequestCommands, RequestCommands, S!KeysCommand, KeysCommand,
         S!UnknownCommand, UnknownCommand

LEMMA StepImplements ==
  ASSUME Peers = {}, CallsInv, [Next]_vars
  PROVE  [S!Next]_(S!vars)
<1>1. CASE UNCHANGED vars
  <2>1. UNCHANGED <<store, pc, argv, printed, meant>>
    BY <1>1 DEF vars, clientVars
  <2> QED
    BY <2>1 DEF S!vars
<1>2. CASE Next
  <2>1. PICK c \in Clients :
          \/ \E cmd \in Argvs : send_req(c, cmd) \/ SendTooLong(c, cmd)
          \/ Quiet(c) \/ Returned(c) \/ Handled(c)
    BY <1>2, StepKinds
  <2>2. ASSUME NEW cmd \in Argvs, send_req(c, cmd) \/ SendTooLong(c, cmd)
        PROVE  S!Next
    <3>1. Meaning(cmd) \in S!RequestCommands
      BY CommandAssumption, SameCommands
    <3>2. S!Call(c, Meaning(cmd)) \/ S!Refuse(c, Meaning(cmd))
      BY <2>2, SendIsCall, TooLongIsRefused
    <3> QED
      BY <3>1, <3>2 DEF S!Next
  <2>3. Quiet(c) => UNCHANGED S!vars
    BY QuietIsStutter
  <2>4. Returned(c) => S!Next
    BY ReturnedIsReturn DEF S!Next
  <2>5. Handled(c) => S!Next
    BY HandledIsTake DEF S!Next
  <2> QED
    BY <2>1, <2>2, <2>3, <2>4, <2>5
<1> QED
  BY <1>1, <1>2

LEMMA InitImplements ==
  ASSUME Init
  PROVE  S!Init
<1>1. store = << >>
  BY DEF Init
<1>2. ASSUME NEW c \in Clients
      PROVE  /\ pc[c] = "end" /\ argv[c] = << >> /\ meant[c] = NoReply
             /\ printed[c] = Nothing
  BY DEF Init, Programs
<1>3. Status = [c \in Clients |-> "idle"]
  BY <1>2 DEF Status
<1>4. Calls = [c \in Clients |-> S!UnknownCommand]
  BY <1>2, MeaningOfNothing DEF Calls, S!UnknownCommand, UnknownCommand
<1>5. Replies = [c \in Clients |-> S!NoReply]
  BY <1>2, SameReplies DEF Replies
<1>6. Results = [c \in Clients |-> S!NoReply]
  <2>1. Nothing.reply = NoReply
    BY DEF Nothing
  <2> QED
    BY <1>2, <2>1, SameReplies DEF Results
<1> QED
  BY <1>1, <1>3, <1>4, <1>5, <1>6 DEF S!Init, Status, Calls, Replies, Results

(* With no other program than client.cpp: through encoding, pieces of any  *)
(* size, parsing, handlers and decoding, every run of the client prints    *)
(* the answer its command had at one instant of the run.                   *)
THEOREM ClientsAreServed ==
  ASSUME Peers = {}
  PROVE  Spec => ImplementsService
<1>1. Init => S!Init
  BY InitImplements
<1>2. CallsInv /\ [Next]_vars => [S!Next]_(S!vars)
  BY StepImplements
<1>3. Spec => []CallsInv
  BY CallsStay
<1> QED
  BY <1>1, <1>2, <1>3, PTL DEF Spec, S!Spec, ImplementsService
=============================================================================
