--------------------------- MODULE LibraryProofs ---------------------------
(***************************************************************************)
(* What Min of FiniteSetsExt and FlattenSeq of SequencesExt return.  The   *)
(* hash table's choice of the smallest size that will do and the kernel's  *)
(* of the lowest descriptor rest on the one, the byte streams on the       *)
(* other.                                                                  *)
(***************************************************************************)
EXTENDS Naturals, FiniteSetsExt, SequencesExt, FiniteSetTheorems, SequenceTheorems,
        WellFoundedInduction, TLAPS

(* A nonempty set of natural numbers has a least element, which is what    *)
(* Min chooses.                                                            *)
LEMMA MinOfNaturals ==
  ASSUME NEW I \in SUBSET Nat, I # {}
  PROVE  Min(I) \in I /\ \A i \in I : Min(I) <= i
<1> DEFINE T == {0 .. m : m \in I}
<1>1. T \subseteq FiniteSubsetsOf(Nat) /\ T # {}
  <2>1. ASSUME NEW m \in I  PROVE 0 .. m \in FiniteSubsetsOf(Nat)
    <3>1. IsFiniteSet(0 .. m)
      BY FS_Interval
    <3>2. 0 .. m \subseteq Nat
      OBVIOUS
    <3> QED
      BY <3>1, <3>2 DEF FiniteSubsetsOf
  <2> QED
    BY <2>1
<1>2. PICK J \in T : \A K \in T : ~ (<<K, J>> \in StrictSubsetOrdering(Nat))
  BY <1>1, FS_StrictSubsetOrderingWellFounded, WFMin
<1>3. PICK m \in I : J = 0 .. m
  OBVIOUS
<1>4. ASSUME NEW i \in I, i < m  PROVE FALSE
  <2>1. 0 .. i \subseteq 0 .. m /\ 0 .. i # 0 .. m
    BY <1>4
  <2>2. <<0 .. i, J>> \in StrictSubsetOrdering(Nat)
    BY <2>1, <1>3 DEF StrictSubsetOrdering
  <2> QED
    BY <1>2, <2>2
<1>5. \A i \in I : m <= i
  BY <1>4
<1> QED
  BY <1>5 DEF Min

(* What holds of 0, and of n + 1 when it holds of n, holds of every natural *)
(* number: induction, for a set instead of an operator.                     *)
LEMMA NaturalsFromZero ==
  ASSUME NEW S, 0 \in S, \A n \in Nat : n \in S => n + 1 \in S
  PROVE  \A n \in Nat : n \in S
<1> DEFINE I == {n \in Nat : n \notin S}
<1>1. SUFFICES ASSUME I # {} PROVE FALSE
  OBVIOUS
<1>2. Min(I) \in I /\ \A i \in I : Min(I) <= i
  BY <1>1, MinOfNaturals
<1>3. PICK m \in Nat : m = Min(I)
  BY <1>2
<1>4. m \notin S /\ \A i \in Nat : i < m => i \in S
  BY <1>2, <1>3
<1>5. m # 0
  BY <1>4
<1>6. m - 1 \in Nat /\ m - 1 \in S
  BY <1>4, <1>5
<1> QED
  BY <1>4, <1>6

-----------------------------------------------------------------------------
(* FlattenSeq of SequencesExt.                                             *)

(* Concatenation, where only that it is an operator counts. *)
Joined(s, t) == s \o t

(* The function that its recursive definition chooses, on the first n      *)
(* sequences.                                                              *)
JoinedUpTo(flat, s, n) ==
  /\ flat = [i \in 1 .. n |-> flat[i]]
  /\ n >= 1 => flat[1] = s[1]
  /\ \A i \in 1 .. n : i # 1 => flat[i] = Joined(flat[i - 1], s[i])

LEMMA JoinedStep ==
  ASSUME NEW s, NEW n \in Nat, NEW flat, JoinedUpTo(flat, s, n),
         NEW i \in Nat, i # 0, i + 1 <= n
  PROVE  flat[i + 1] = Joined(flat[i], s[i + 1])
<1>1. i + 1 \in 1 .. n /\ i + 1 # 1 /\ (i + 1) - 1 = i
  OBVIOUS
<1>2. flat[i + 1] = Joined(flat[(i + 1) - 1], s[i + 1])
  BY <1>1 DEF JoinedUpTo
<1> QED
  BY <1>1, <1>2

LEMMA JoinedExists ==
  ASSUME NEW s
  PROVE  \A n \in Nat : \E flat : JoinedUpTo(flat, s, n)
<1> DEFINE S == {n \in Nat : \E flat : JoinedUpTo(flat, s, n)}
<1>1. 0 \in S
  <2>1. JoinedUpTo([i \in 1 .. 0 |-> 0], s, 0)
    BY DEF JoinedUpTo
  <2> QED
    BY <2>1
<1>2. ASSUME NEW n \in Nat, n \in S  PROVE n + 1 \in S
  <2>1. PICK flat : JoinedUpTo(flat, s, n)
    BY <1>2
  <2> DEFINE more == [i \in 1 .. n + 1 |->
                        IF i <= n THEN flat[i]
                        ELSE IF n = 0 THEN s[1] ELSE Joined(flat[n], s[n + 1])]
  <2>2. \A i \in 1 .. n : more[i] = flat[i]
    OBVIOUS
  <2>3. more[n + 1] = IF n = 0 THEN s[1] ELSE Joined(flat[n], s[n + 1])
    OBVIOUS
  <2>4. more = [i \in 1 .. n + 1 |-> more[i]]
    OBVIOUS
  <2> HIDE DEF more
  <2>5. more[1] = s[1]
    BY <2>1, <2>2, <2>3 DEF JoinedUpTo
  <2>6. ASSUME NEW i \in 1 .. n + 1, i # 1  PROVE more[i] = Joined(more[i - 1], s[i])
    <3>1. i - 1 \in 1 .. n /\ more[i - 1] = flat[i - 1]
      BY <2>2, <2>6
    <3>2. CASE i = n + 1
      <4>1. n # 0 /\ i - 1 = n
        BY <2>6, <3>2
      <4>2. more[i] = Joined(flat[n], s[n + 1])
        BY <2>3, <3>2, <4>1
      <4> QED
        BY <3>1, <3>2, <4>1, <4>2
    <3>3. CASE i # n + 1
      <4>1. i \in 1 .. n
        BY <3>3
      <4> QED
        BY <2>1, <2>2, <2>6, <3>1, <4>1 DEF JoinedUpTo
    <3> QED
      BY <3>2, <3>3
  <2>7. JoinedUpTo(more, s, n + 1)
    BY <2>4, <2>5, <2>6 DEF JoinedUpTo
  <2> QED
    BY <2>7
<1> HIDE DEF S
<1>3. \A n \in Nat : n \in S
  BY <1>1, <1>2, NaturalsFromZero
<1> QED
  BY <1>3 DEF S

LEMMA JoinedIs ==
  ASSUME NEW s, NEW n \in Nat, NEW flat
  PROVE  JoinedUpTo(flat, s, n) <=>
           flat = [i \in 1 .. n |-> IF i = 1 THEN s[i] ELSE Joined(flat[i - 1], s[i])]
<1>1. ASSUME JoinedUpTo(flat, s, n)
      PROVE  flat = [i \in 1 .. n |-> IF i = 1 THEN s[i] ELSE Joined(flat[i - 1], s[i])]
  <2>1. flat = [i \in 1 .. n |-> flat[i]]
    BY <1>1 DEF JoinedUpTo
  <2>2. ASSUME NEW i \in 1 .. n
        PROVE  flat[i] = IF i = 1 THEN s[i] ELSE Joined(flat[i - 1], s[i])
    <3>1. n >= 1 /\ flat[1] = s[1]
      BY <1>1 DEF JoinedUpTo
    <3>2. i # 1 => flat[i] = Joined(flat[i - 1], s[i])
      BY <1>1 DEF JoinedUpTo
    <3> QED
      BY <3>1, <3>2
  <2> QED
    BY <2>1, <2>2
<1>2. ASSUME flat = [i \in 1 .. n |-> IF i = 1 THEN s[i] ELSE Joined(flat[i - 1], s[i])]
      PROVE  JoinedUpTo(flat, s, n)
  <2>1. flat = [i \in 1 .. n |-> flat[i]]
    BY <1>2
  <2>2. ASSUME NEW i \in 1 .. n
        PROVE  flat[i] = IF i = 1 THEN s[i] ELSE Joined(flat[i - 1], s[i])
    BY <1>2
  <2>3. n >= 1 => flat[1] = s[1]
    BY <2>2
  <2>4. \A i \in 1 .. n : i # 1 => flat[i] = Joined(flat[i - 1], s[i])
    BY <2>2
  <2> QED
    BY <2>1, <2>3, <2>4 DEF JoinedUpTo
<1> QED
  BY <1>1, <1>2

LEMMA FlattenSeqJoins ==
  ASSUME NEW s, Len(s) \in Nat, Len(s) # 0
  PROVE  \E flat : JoinedUpTo(flat, s, Len(s)) /\ FlattenSeq(s) = flat[Len(s)]
<1> DEFINE flat == CHOOSE g : g = [i \in 1 .. Len(s) |-> IF i = 1 THEN s[i] ELSE Joined(g[i - 1], s[i])]
<1>1. PICK g : JoinedUpTo(g, s, Len(s))
  BY JoinedExists
<1>2. g = [i \in 1 .. Len(s) |-> IF i = 1 THEN s[i] ELSE Joined(g[i - 1], s[i])]
  BY <1>1, JoinedIs
<1>3. flat = [i \in 1 .. Len(s) |-> IF i = 1 THEN s[i] ELSE Joined(flat[i - 1], s[i])]
  BY <1>2
<1>4. FlattenSeq(s) = flat[Len(s)]
  BY DEF FlattenSeq, Joined
<1> HIDE DEF flat
<1>5. JoinedUpTo(flat, s, Len(s))
  BY <1>3, JoinedIs
<1> QED
  BY <1>4, <1>5

(* Two such functions agree as far as their sequences do. *)
LEMMA JoinedUnique ==
  ASSUME NEW s, NEW m \in Nat, NEW f, JoinedUpTo(f, s, m),
         NEW t, NEW n \in Nat, NEW g, JoinedUpTo(g, t, n),
         m <= n, \A i \in 1 .. m : s[i] = t[i]
  PROVE  \A i \in 1 .. m : f[i] = g[i]
<1> DEFINE S == {i \in Nat : i \in 1 .. m => f[i] = g[i]}
<1>1. 0 \in S
  OBVIOUS
<1>2. ASSUME NEW i \in Nat, i \in S, i + 1 \in 1 .. m  PROVE f[i + 1] = g[i + 1]
  <2>1. CASE i = 0
    BY <1>2, <2>1 DEF JoinedUpTo
  <2>2. CASE i # 0
    <3>1. f[i] = g[i] /\ i \in 1 .. m
      BY <1>2, <2>2
    <3>2. f[i + 1] = Joined(f[i], s[i + 1]) /\ g[i + 1] = Joined(g[i], t[i + 1])
      BY <1>2, <2>2, JoinedStep
    <3> QED
      BY <1>2, <3>1, <3>2
  <2> QED
    BY <2>1, <2>2
<1>3. \A i \in Nat : i \in S => i + 1 \in S
  BY <1>2
<1> HIDE DEF S
<1>4. \A i \in Nat : i \in S
  BY <1>1, <1>3, NaturalsFromZero
<1> QED
  BY <1>4 DEF S

LEMMA JoinedLast ==
  ASSUME NEW s, NEW t, NEW m \in Nat, m # 0, \A i \in 1 .. m : t[i] = s[i],
         NEW f, JoinedUpTo(f, s, m), NEW g, JoinedUpTo(g, t, m + 1)
  PROVE  g[m + 1] = Joined(f[m], t[m + 1])
<1>1. \A i \in 1 .. m : s[i] = t[i]
  OBVIOUS
<1>2. m + 1 \in Nat /\ m <= m + 1 /\ m \in 1 .. m
  OBVIOUS
<1>3. \A i \in 1 .. m : f[i] = g[i]
  BY <1>1, <1>2, JoinedUnique
<1>4. g[m + 1] = Joined(g[m], t[m + 1])
  BY <1>2, JoinedStep
<1> QED
  BY <1>2, <1>3, <1>4

(* Flattening one more sequence joins it to the rest. *)
LEMMA FlattenSeqLast ==
  ASSUME NEW S, NEW s \in Seq(Seq(S)), NEW t \in Seq(Seq(S)),
         Len(t) = Len(s) + 1, \A i \in 1 .. Len(s) : t[i] = s[i]
  PROVE  FlattenSeq(t) = FlattenSeq(s) \o t[Len(t)]
<1>1. Len(s) \in Nat /\ Len(t) \in Nat /\ Len(t) # 0 /\ t[Len(t)] \in Seq(S)
  BY LenProperties, ElementOfSeq
<1>2. PICK g : JoinedUpTo(g, t, Len(t)) /\ FlattenSeq(t) = g[Len(t)]
  BY <1>1, FlattenSeqJoins
<1>3. CASE Len(s) = 0
  <2>1. FlattenSeq(s) = << >>
    <3>1. s = << >>
      BY <1>1, <1>3, EmptySeq
    <3> QED
      BY <1>3, <3>1 DEF FlattenSeq
  <2>2. FlattenSeq(t) = t[1] /\ Len(t) = 1
    BY <1>2, <1>3 DEF JoinedUpTo
  <2> QED
    BY <1>1, <2>1, <2>2, ConcatEmptySeq
<1>4. CASE Len(s) # 0
  <2>1. PICK f : JoinedUpTo(f, s, Len(s)) /\ FlattenSeq(s) = f[Len(s)]
    BY <1>1, <1>4, FlattenSeqJoins
  <2>2. JoinedUpTo(g, t, Len(s) + 1)
    BY <1>2
  <2>3. g[Len(s) + 1] = Joined(f[Len(s)], t[Len(s) + 1])
    <3>1. Len(s) \in Nat /\ Len(s) # 0 /\ JoinedUpTo(f, s, Len(s))
      BY <1>1, <1>4, <2>1
    <3> QED
      BY <2>2, <3>1, JoinedLast, Zenon
  <2>4. FlattenSeq(t) = Joined(FlattenSeq(s), t[Len(t)])
    BY <1>2, <2>1, <2>3
  <2> QED
    BY <2>4 DEF Joined
<1> QED
  BY <1>3, <1>4

LEMMA FlattenSeqEmpty == FlattenSeq(<< >>) = << >>
  BY EmptySeq DEF FlattenSeq

(* Flattening gives a sequence of what the sequences are made of. *)
LEMMA FlattenSeqType ==
  ASSUME NEW S, NEW s \in Seq(Seq(S))
  PROVE  FlattenSeq(s) \in Seq(S)
<1>1. Len(s) \in Nat /\ \A i \in 1 .. Len(s) : s[i] \in Seq(S)
  BY LenProperties, ElementOfSeq
<1>2. CASE Len(s) = 0
  <2>1. s = << >>
    BY <1>1, <1>2, EmptySeq
  <2> QED
    BY <2>1, FlattenSeqEmpty, EmptySeq
<1>3. CASE Len(s) # 0
  <2>1. PICK f : JoinedUpTo(f, s, Len(s)) /\ FlattenSeq(s) = f[Len(s)]
    BY <1>1, <1>3, FlattenSeqJoins
  <2> DEFINE T == {i \in Nat : i \in 1 .. Len(s) => f[i] \in Seq(S)}
  <2>2. 0 \in T
    OBVIOUS
  <2>3. ASSUME NEW i \in Nat, i \in T, i + 1 \in 1 .. Len(s)  PROVE f[i + 1] \in Seq(S)
    <3>1. CASE i = 0
      BY <1>1, <2>1, <2>3, <3>1 DEF JoinedUpTo
    <3>2. CASE i # 0
      <4>1. f[i] \in Seq(S) /\ s[i + 1] \in Seq(S)
        BY <1>1, <2>3, <3>2
      <4>2. f[i + 1] = Joined(f[i], s[i + 1])
        BY <1>1, <2>1, <2>3, <3>2, JoinedStep
      <4>3. f[i + 1] = f[i] \o s[i + 1]
        BY <4>2 DEF Joined
      <4> QED
        BY <4>1, <4>3, ConcatProperties
    <3> QED
      BY <3>1, <3>2
  <2>4. \A i \in Nat : i \in T => i + 1 \in T
    <3> SUFFICES ASSUME NEW i \in Nat, i \in T PROVE i + 1 \in T
      OBVIOUS
    <3>1. i + 1 \in 1 .. Len(s) => f[i + 1] \in Seq(S)
      BY <2>3
    <3>2. i + 1 \in Nat
      OBVIOUS
    <3> QED
      BY <3>1, <3>2, Zenon
  <2> HIDE DEF T
  <2>5. \A i \in Nat : i \in T
    BY <2>2, <2>4, NaturalsFromZero
  <2>6. f[Len(s)] \in Seq(S)
    BY <1>1, <1>3, <2>5 DEF T
  <2> QED
    BY <2>1, <2>6
<1> QED
  BY <1>2, <1>3

(* The same of pieces that are numbered. *)
LEMMA FlattenSeqNext ==
  ASSUME NEW S, NEW n \in Nat,
         NEW s \in [1 .. n -> Seq(S)], NEW t \in [1 .. n + 1 -> Seq(S)],
         \A i \in 1 .. n : t[i] = s[i]
  PROVE  FlattenSeq(t) = FlattenSeq(s) \o t[n + 1]
<1>1. \A m \in Nat : \A r \in [1 .. m -> Seq(S)] : r \in Seq(Seq(S)) /\ Len(r) = m
  <2> SUFFICES ASSUME NEW m \in Nat, NEW r \in [1 .. m -> Seq(S)]
               PROVE  r \in Seq(Seq(S)) /\ Len(r) = m
    OBVIOUS
  <2>1. r \in Seq(Seq(S))
    BY SeqDef
  <2> QED
    BY <2>1, LenProperties
<1>2. s \in Seq(Seq(S)) /\ Len(s) = n
  BY <1>1, Zenon
<1>3. t \in Seq(Seq(S)) /\ Len(t) = n + 1
  <2>1. n + 1 \in Nat
    OBVIOUS
  <2> QED
    BY <1>1, <2>1, Zenon
<1>4. Len(t) = Len(s) + 1 /\ \A i \in 1 .. Len(s) : t[i] = s[i]
  BY <1>2, <1>3
<1>5. FlattenSeq(t) = FlattenSeq(s) \o t[Len(t)]
  BY <1>2, <1>3, <1>4, FlattenSeqLast
<1> QED
  BY <1>3, <1>5
=============================================================================
