---------------------------- MODULE ClassesProofs ---------------------------
(***************************************************************************)
(* Proofs about the classes: module Matrix, for member tables of any size, *)
(* and the objects of module MCClasses, for any callers.                   *)
(*                                                                         *)
(* TypeOK of Matrix is inductive: a write the application has checked      *)
(* names a cell of the table, however the grid changes before it is        *)
(* carried out.  ValueInv and DspInv say what holds of a single-value and  *)
(* of a multi-parameter object between two steps.                          *)
(***************************************************************************)
EXTENDS MCClasses, WellFoundedInduction, SequenceTheorems, FiniteSetTheorems, TLAPS

-----------------------------------------------------------------------------
(* Texts.                                                                  *)

(* Induction over the naturals, in a form without an operator: a set of    *)
(* naturals that has a member has a least one.                             *)
LEMMA LeastNatural ==
  ASSUME NEW T \in SUBSET Nat, T # {}
  PROVE  \E n \in T : \A m \in T : n <= m
  <1>1. IsWellFoundedOn(OpToRel(<, Nat), Nat)
    BY NatLessThanWellFounded
  <1>2. PICK n \in T : \A m \in T : <<m, n>> \notin OpToRel(<, Nat)
    BY <1>1, WFMin
  <1>3. \A m \in T : ~(m < n)
    BY <1>2 DEF OpToRel
  <1>4. QED
    BY <1>3

LEMMA Induction ==
  ASSUME NEW T \in SUBSET Nat, NEW n \in Nat, 0 \in T, \A k \in 0 .. n - 1 : k \in T => k + 1 \in T
  PROVE  0 .. n \subseteq T
  <1> DEFINE R == (0 .. n) \ T
  <1>1. SUFFICES ASSUME R # {}
                 PROVE  FALSE
    OBVIOUS
  <1>2. PICK k \in R : \A m \in R : k <= m
    <2>1. R \in SUBSET Nat
      OBVIOUS
    <2> HIDE DEF R
    <2>2. QED
      BY <1>1, <2>1, LeastNatural
  <1>3. k \in 0 .. n /\ k # 0 /\ k - 1 \in 0 .. n
    BY <1>2
  <1>4. k - 1 \in T
    BY <1>2, <1>3
  <1>5. QED
    BY <1>2, <1>3, <1>4

(* The walk of ocp1_rd_string, as far as c characters.                     *)
IsWalk(T, data, count) ==
  T = [c \in 0 .. count |->
         IF c = 0 THEN 0
         ELSE LET b == T[c - 1] IN
              IF b >= Len(data) THEN Len(data) + 1 ELSE b + S!Width[data[b + 1]]]

LEMMA WalkExists ==
  ASSUME NEW data, NEW count \in Nat
  PROVE  \E T : IsWalk(T, data, count)
  <1> DEFINE Good == {n \in Nat : \E T : IsWalk(T, data, n)}
  <1>1. 0 \in Good
    <2>1. IsWalk([c \in 0 .. 0 |-> 0], data, 0)
      BY DEF IsWalk
    <2>2. QED
      BY <2>1
  <1>2. ASSUME NEW n \in 0 .. count - 1, n \in Good
        PROVE  n + 1 \in Good
    <2>1. PICK T : IsWalk(T, data, n)
      BY <1>2
    <2> DEFINE next == IF T[n] >= Len(data) THEN Len(data) + 1
                       ELSE T[n] + S!Width[data[T[n] + 1]]
               U == [c \in 0 .. n + 1 |-> IF c = n + 1 THEN next ELSE T[c]]
    <2>2. \A c \in 0 .. n : U[c] = T[c]
      OBVIOUS
    <2>3. ASSUME NEW c \in 0 .. n + 1
          PROVE  U[c] = IF c = 0 THEN 0
                        ELSE LET b == U[c - 1] IN
                             IF b >= Len(data) THEN Len(data) + 1 ELSE b + S!Width[data[b + 1]]
      <3>1. CASE c = n + 1
        BY <2>2, <3>1
      <3>2. CASE c \in 1 .. n
        <4>1. U[c] = T[c] /\ U[c - 1] = T[c - 1]
          BY <2>2, <3>2
        <4>2. T[c] = LET b == T[c - 1] IN
                       IF b >= Len(data) THEN Len(data) + 1 ELSE b + S!Width[data[b + 1]]
          BY <2>1, <3>2 DEF IsWalk
        <4>3. c # 0
          BY <3>2
        <4>4. QED
          BY <4>1, <4>2, <4>3, Zenon
      <3>3. CASE c = 0
        <4>1. U[0] = T[0]
          BY <2>2
        <4>2. T[0] = 0
          BY <2>1 DEF IsWalk
        <4>3. QED
          BY <3>3, <4>1, <4>2, Zenon
      <3>4. QED
        BY <3>1, <3>2, <3>3
    <2>4. IsWalk(U, data, n + 1)
      BY <2>3 DEF IsWalk
    <2>5. QED
      BY <2>4
  <1>3. Good \in SUBSET Nat
    OBVIOUS
  <1> HIDE DEF Good
  <1>4. 0 .. count \subseteq Good
    BY <1>1, <1>2, <1>3, Induction
  <1>5. count \in Good
    BY <1>4
  <1>6. QED
    BY <1>5 DEF Good

LEMMA WalkIs ==
  ASSUME NEW data, NEW count \in Nat
  PROVE  \E T : IsWalk(T, data, count) /\ S!Walk(data, count) = T[count]
  BY WalkExists DEF S!Walk, IsWalk

LEMMA WalkSteps ==
  ASSUME NEW T, NEW data, NEW count \in Nat, IsWalk(T, data, count), NEW c \in 0 .. count - 1
  PROVE  T[c + 1] = IF T[c] >= Len(data) THEN Len(data) + 1
                    ELSE T[c] + S!Width[data[T[c] + 1]]
  <1>1. c + 1 \in 0 .. count /\ c + 1 # 0 /\ (c + 1) - 1 = c
    OBVIOUS
  <1>2. T[c + 1] = IF T[(c + 1) - 1] >= Len(data) THEN Len(data) + 1
                   ELSE T[(c + 1) - 1] + S!Width[data[T[(c + 1) - 1] + 1]]
    BY <1>1 DEF IsWalk
  <1>3. QED
    BY ONLY <1>1, <1>2

LEMMA WalkType ==
  ASSUME NEW data \in Seq(S!Byte), NEW count \in Nat
  PROVE  S!Walk(data, count) \in Nat
  <1>1. PICK T : IsWalk(T, data, count) /\ S!Walk(data, count) = T[count]
    BY WalkIs
  <1> DEFINE Good == {c \in Nat : c <= count => T[c] \in Nat}
  <1>2. 0 \in Good
    BY <1>1 DEF IsWalk
  <1>3. ASSUME NEW c \in 0 .. count - 1, c \in Good
        PROVE  c + 1 \in Good
    <2>1. T[c] \in Nat /\ c + 1 \in 1 .. count
      BY <1>3
    <2>2. T[c + 1] = IF T[c] >= Len(data) THEN Len(data) + 1
                     ELSE T[c] + S!Width[data[T[c] + 1]]
      BY <1>1, <2>1 DEF IsWalk
    <2>3. Len(data) \in Nat
      OBVIOUS
    <2>4. ASSUME T[c] < Len(data)
          PROVE  S!Width[data[T[c] + 1]] \in Nat
      <3>1. data[T[c] + 1] \in S!Byte
        BY <2>1, <2>3, <2>4
      <3>2. QED
        BY <3>1 DEF S!Byte, S!Width
    <2>5. T[c + 1] \in Nat
      BY <2>1, <2>2, <2>3, <2>4
    <2>6. QED
      BY <2>5
  <1>4. Good \in SUBSET Nat
    OBVIOUS
  <1> HIDE DEF Good
  <1>5. count \in Good
    <2>1. 0 .. count \subseteq Good
      BY <1>2, <1>3, <1>4, Induction
    <2>2. QED
      BY <2>1
  <1>6. QED
    BY <1>1, <1>5 DEF Good

(* A character is a lead byte that announces its length, and bytes that    *)
(* continue it.                                                            *)
LEMMA CharacterShape ==
  ASSUME NEW ch \in S!Character
  PROVE  /\ ch \in Seq(S!Byte) /\ Len(ch) \in 1 .. 3 /\ Len(ch) = S!Width[ch[1]]
         /\ ch[1] # "more" /\ \A i \in 2 .. Len(ch) : ch[i] = "more"
  <1>1. CASE ch = <<"one">>
    BY <1>1 DEF S!Byte, S!Width
  <1>2. CASE ch = <<"two", "more">>
    BY <1>2 DEF S!Byte, S!Width
  <1>3. CASE ch = <<"three", "more", "more">>
    BY <1>3 DEF S!Byte, S!Width
  <1>4. QED
    BY <1>1, <1>2, <1>3 DEF S!Character

(* The bytes of the first c characters of a text, for every c.             *)
IsPrefixes(G, t, n) == G[0] = <<>> /\ \A c \in 1 .. n : G[c] = G[c - 1] \o t[c]

LEMMA PrefixesExist ==
  ASSUME NEW t, NEW n \in Nat
  PROVE  \E G : IsPrefixes(G, t, n)
  <1> DEFINE Good == {m \in Nat : \E G : IsPrefixes(G, t, m)}
  <1>1. 0 \in Good
    <2>1. IsPrefixes([c \in 0 .. 0 |-> <<>>], t, 0)
      BY DEF IsPrefixes
    <2>2. QED
      BY <2>1
  <1>2. ASSUME NEW m \in 0 .. n - 1, m \in Good
        PROVE  m + 1 \in Good
    <2>1. PICK G : IsPrefixes(G, t, m)
      BY <1>2
    <2> DEFINE next == G[m] \o t[m + 1]
               H == [c \in 0 .. m + 1 |-> IF c = m + 1 THEN next ELSE G[c]]
    <2>2. (\A c \in 0 .. m : H[c] = G[c]) /\ H[m + 1] = next
      OBVIOUS
    <2> HIDE DEF H, Good, next
    <2>3. ASSUME NEW c \in 1 .. m + 1
          PROVE  H[c] = H[c - 1] \o t[c]
      <3>1. CASE c = m + 1
        <4>1. c - 1 = m /\ m \in 0 .. m
          BY <3>1
        <4>2. H[c - 1] = G[m] /\ H[c] = next
          BY <2>2, <3>1, <4>1
        <4>3. QED
          BY <3>1, <4>2 DEF next
      <3>2. CASE c \in 1 .. m
        <4>1. H[c] = G[c] /\ H[c - 1] = G[c - 1]
          BY <2>2, <3>2
        <4>2. G[c] = G[c - 1] \o t[c]
          BY <2>1, <3>2 DEF IsPrefixes
        <4>3. QED
          BY <4>1, <4>2
      <3>3. c = m + 1 \/ c \in 1 .. m
        OBVIOUS
      <3>4. QED
        BY ONLY <3>1, <3>2, <3>3
    <2>4. H[0] = <<>>
      BY <2>1, <2>2 DEF IsPrefixes
    <2>5. IsPrefixes(H, t, m + 1)
      BY <2>3, <2>4 DEF IsPrefixes
    <2>6. QED
      BY <2>5 DEF Good
  <1>3. Good \in SUBSET Nat
    OBVIOUS
  <1> HIDE DEF Good
  <1>4. 0 .. n \subseteq Good
    BY <1>1, <1>2, <1>3, Induction
  <1>5. n \in Good
    BY <1>4
  <1>6. QED
    BY <1>5 DEF Good

(* What FlattenSeq computes, and the equation it is chosen by.             *)
IsFlat(F, t) == F = [i \in 1 .. Len(t) |-> IF i = 1 THEN t[i] ELSE F[i - 1] \o t[i]]

LEMMA BytesAre ==
  ASSUME NEW t \in Seq(S!Character)
  PROVE  \E G : IsPrefixes(G, t, Len(t)) /\ S!Bytes(t) = G[Len(t)]
  <1> DEFINE n == Len(t)
  <1>0. n \in Nat /\ (\A i \in 1 .. n : t[i] \in Seq(S!Byte) /\ <<>> \o t[i] = t[i])
    <2>1. \A i \in 1 .. n : t[i] \in Seq(S!Byte)
      BY CharacterShape
    <2>2. QED
      BY <2>1, ConcatEmptySeq
  <1>1. PICK G : IsPrefixes(G, t, n)
    BY <1>0, PrefixesExist
  <1>2. CASE n = 0
    BY <1>1, <1>2 DEF S!Bytes, S!FlattenSeq, IsPrefixes
  <1>3. CASE n # 0
    <2>1. \E F : IsFlat(F, t)
      <3> DEFINE F == [i \in 1 .. n |-> G[i]]
      <3>1. \A i \in 1 .. n : F[i] = G[i]
        OBVIOUS
      <3>2. F = [i \in 1 .. n |-> F[i]]
        OBVIOUS
      <3> HIDE DEF F
      <3>3. ASSUME NEW i \in 1 .. n
            PROVE  F[i] = IF i = 1 THEN t[i] ELSE F[i - 1] \o t[i]
        <4>1. G[i] = G[i - 1] \o t[i] /\ G[0] = <<>> /\ F[i] = G[i]
          BY <1>1, <3>1 DEF IsPrefixes
        <4>2. CASE i = 1
          <5>1. G[i - 1] = <<>>
            BY <4>1, <4>2
          <5>2. QED
            BY <1>0, <4>1, <4>2, <5>1
        <4>3. CASE i # 1
          <5>1. F[i - 1] = G[i - 1]
            BY <1>0, <3>1, <4>3
          <5>2. QED
            BY <4>1, <4>3, <5>1
        <4>4. QED
          BY <4>2, <4>3
      <3>4. [i \in 1 .. n |-> F[i]]
              = [i \in 1 .. n |-> IF i = 1 THEN t[i] ELSE F[i - 1] \o t[i]]
        BY <3>3
      <3>5. IsFlat(F, t)
        BY <3>2, <3>4 DEF IsFlat
      <3>6. QED
        BY <3>5
    <2>2. PICK F : IsFlat(F, t) /\ S!Bytes(t) = F[n]
      BY <1>3, <2>1 DEF IsFlat, S!Bytes, S!FlattenSeq
    <2>3. \A i \in 1 .. n : F[i] = IF i = 1 THEN t[i] ELSE F[i - 1] \o t[i]
      <3> TAKE i \in 1 .. n
      <3> DEFINE R == [j \in 1 .. n |-> IF j = 1 THEN t[j] ELSE F[j - 1] \o t[j]]
      <3>1. R[i] = IF i = 1 THEN t[i] ELSE F[i - 1] \o t[i]
        OBVIOUS
      <3>2. F = R
        BY <2>2 DEF IsFlat
      <3> HIDE DEF R
      <3>3. F[i] = R[i]
        BY <3>2
      <3>4. QED
        BY <3>1, <3>3
    <2> DEFINE Same == {i \in Nat : i <= n => (i = 0 \/ F[i] = G[i])}
    <2>4. 0 \in Same
      OBVIOUS
    <2>5. ASSUME NEW i \in 0 .. n - 1, i \in Same
          PROVE  i + 1 \in Same
      <3>1. i + 1 \in 1 .. n /\ i \in Nat /\ (i + 1) - 1 = i
        BY <1>0
      <3>2. G[i + 1] = G[i] \o t[i + 1]
        BY <1>1, <3>1 DEF IsPrefixes
      <3>3. CASE i = 0
        <4>1. F[1] = t[1] /\ G[0] = <<>>
          BY <1>1, <2>3, <3>1, <3>3 DEF IsPrefixes
        <4>2. QED
          BY <1>0, <3>1, <3>2, <3>3, <4>1
      <3>4. CASE i # 0
        <4>1. F[i + 1] = F[(i + 1) - 1] \o t[i + 1]
          <5>1. i + 1 # 1
            BY <3>1, <3>4
          <5>2. QED
            BY ONLY <2>3, <3>1, <5>1
        <4>2. F[i] = G[i]
          BY <1>0, <2>5, <3>4
        <4>3. F[i + 1] = G[i + 1]
          BY ONLY <3>1, <3>2, <4>1, <4>2
        <4>4. QED
          BY <3>1, <4>3
      <3>5. QED
        BY <3>3, <3>4
    <2>6. n \in Same
      <3>1. Same \in SUBSET Nat
        OBVIOUS
      <3> HIDE DEF Same
      <3>2. 0 .. n \subseteq Same
        BY <1>0, <2>4, <2>5, <3>1, Induction
      <3>3. QED
        BY <1>0, <3>2
    <2>7. QED
      BY <1>0, <1>1, <1>3, <2>2, <2>6
  <1>4. QED
    BY <1>2, <1>3

(* The first characters of a text are whole characters of it.              *)
Begins(s, u) == Len(s) <= Len(u) /\ \A i \in 1 .. Len(s) : u[i] = s[i]

LEMMA ConcatParts ==
  ASSUME NEW s1 \in Seq(S!Byte), NEW s2 \in Seq(S!Byte)
  PROVE  /\ Len(s1) \in Nat /\ Len(s2) \in Nat
         /\ s1 \o s2 \in Seq(S!Byte) /\ Len(s1 \o s2) = Len(s1) + Len(s2)
         /\ \A i \in 1 .. Len(s1) : (s1 \o s2)[i] = s1[i]
         /\ \A i \in 1 .. Len(s2) : (s1 \o s2)[Len(s1) + i] = s2[i]
  <1>1. Len(s1) \in Nat /\ Len(s2) \in Nat
    OBVIOUS
  <1>2. /\ s1 \o s2 \in Seq(S!Byte) /\ Len(s1 \o s2) = Len(s1) + Len(s2)
        /\ \A i \in 1 .. Len(s1) + Len(s2) :
             (s1 \o s2)[i] = IF i <= Len(s1) THEN s1[i] ELSE s2[i - Len(s1)]
    BY ConcatProperties
  <1>3. ASSUME NEW i \in 1 .. Len(s2)
        PROVE  (s1 \o s2)[Len(s1) + i] = s2[i]
    <2>1. /\ Len(s1) + i \in 1 .. Len(s1) + Len(s2) /\ ~(Len(s1) + i <= Len(s1))
          /\ (Len(s1) + i) - Len(s1) = i
      BY <1>1
    <2>2. QED
      BY <1>2, <2>1
  <1>4. ASSUME NEW i \in 1 .. Len(s1)
        PROVE  (s1 \o s2)[i] = s1[i]
    <2>1. i \in 1 .. Len(s1) + Len(s2) /\ i <= Len(s1)
      BY <1>1
    <2>2. QED
      BY <1>2, <2>1
  <1>5. QED
    BY <1>1, <1>2, <1>3, <1>4

LEMMA PrefixesType ==
  ASSUME NEW t \in Seq(S!Character), NEW G, IsPrefixes(G, t, Len(t))
  PROVE  \A c \in 0 .. Len(t) : G[c] \in Seq(S!Byte)
  <1> DEFINE n == Len(t)
             Good == {c \in Nat : c <= n => G[c] \in Seq(S!Byte)}
  <1>0. n \in Nat /\ (\A c \in 1 .. n : t[c] \in Seq(S!Byte))
    BY CharacterShape
  <1>1. 0 \in Good
    <2>1. G[0] = <<>> /\ <<>> \in Seq(S!Byte)
      BY DEF IsPrefixes
    <2>2. QED
      BY <2>1
  <1>2. ASSUME NEW c \in 0 .. n - 1, c \in Good
        PROVE  c + 1 \in Good
    <2>1. c + 1 \in 1 .. n /\ (c + 1) - 1 = c /\ c <= n /\ c \in Nat
      BY <1>0
    <2>2. G[c + 1] = G[c] \o t[c + 1]
      BY <2>1 DEF IsPrefixes
    <2>3. G[c] \in Seq(S!Byte) /\ t[c + 1] \in Seq(S!Byte)
      BY <1>0, <1>2, <2>1
    <2>4. G[c + 1] \in Seq(S!Byte)
      BY <2>2, <2>3, ConcatProperties
    <2>5. QED
      BY <2>1, <2>4
  <1>3. Good \in SUBSET Nat
    OBVIOUS
  <1>4. 0 .. n \subseteq Good
    <2> HIDE DEF Good
    <2>1. QED
      BY <1>0, <1>1, <1>2, <1>3, Induction
  <1>5. QED
    BY <1>0, <1>4

LEMMA PrefixesGrow ==
  ASSUME NEW t \in Seq(S!Character), NEW G, IsPrefixes(G, t, Len(t)), NEW c \in 0 .. Len(t) - 1
  PROVE  /\ Len(G[c]) \in Nat /\ Len(G[c + 1]) = Len(G[c]) + Len(t[c + 1])
         /\ \A i \in 1 .. Len(G[c]) : G[c + 1][i] = G[c][i]
         /\ \A i \in 1 .. Len(t[c + 1]) : G[c + 1][Len(G[c]) + i] = t[c + 1][i]
  <1> DEFINE a == G[c]
             b == t[c + 1]
  <1>1. c \in 0 .. Len(t) /\ c + 1 \in 1 .. Len(t) /\ (c + 1) - 1 = c
    OBVIOUS
  <1>2. a \in Seq(S!Byte) /\ b \in Seq(S!Byte)
    BY <1>1, PrefixesType, CharacterShape
  <1>3. G[c + 1] = a \o b
    BY <1>1 DEF IsPrefixes
  <1> HIDE DEF a, b
  <1>4. /\ Len(a) \in Nat /\ Len(a \o b) = Len(a) + Len(b)
        /\ \A i \in 1 .. Len(a) : (a \o b)[i] = a[i]
        /\ \A i \in 1 .. Len(b) : (a \o b)[Len(a) + i] = b[i]
    BY <1>2, ConcatParts
  <1>5. QED
    BY ONLY <1>3, <1>4 DEF a, b

LEMMA PrefixesBegin ==
  ASSUME NEW t \in Seq(S!Character), NEW G, IsPrefixes(G, t, Len(t)), NEW c \in 0 .. Len(t)
  PROVE  Begins(G[c], G[Len(t)])
  <1> DEFINE n == Len(t)
             Good == {m \in Nat : m <= n => \A d \in 0 .. m : Begins(G[d], G[m])}
  <1>0. n \in Nat /\ (\A d \in 0 .. n : Len(G[d]) \in Nat)
    BY PrefixesType
  <1>1. 0 \in Good
    BY <1>0 DEF Begins
  <1>2. ASSUME NEW m \in 0 .. n - 1, m \in Good
        PROVE  m + 1 \in Good
    <2>1. m + 1 \in 1 .. n /\ (m + 1) - 1 = m /\ m <= n /\ m \in Nat /\ m \in 0 .. n
      BY <1>0
    <2>2. Begins(G[m], G[m + 1])
      <3>1. Len(t[m + 1]) \in Nat
        BY <2>1, CharacterShape
      <3>2. /\ Len(G[m]) \in Nat /\ Len(G[m + 1]) = Len(G[m]) + Len(t[m + 1])
            /\ \A i \in 1 .. Len(G[m]) : G[m + 1][i] = G[m][i]
            /\ \A i \in 1 .. Len(t[m + 1]) : G[m + 1][Len(G[m]) + i] = t[m + 1][i]
        <4> HIDE DEF n, Good
        <4>1. m \in 0 .. Len(t) - 1
          BY DEF n
        <4>2. QED
          BY <4>1, PrefixesGrow
      <3> DEFINE a == G[m]
                 b == G[m + 1]
      <3>3. Len(b) = Len(a) + Len(t[m + 1]) /\ Len(a) \in Nat /\ \A i \in 1 .. Len(a) : b[i] = a[i]
        BY <3>2
      <3> HIDE DEF a, b
      <3>4. Begins(a, b)
        BY <3>1, <3>3 DEF Begins
      <3>5. QED
        BY <3>4 DEF a, b
    <2>3. ASSUME NEW d \in 0 .. m + 1
          PROVE  Begins(G[d], G[m + 1])
      <3>1. CASE d = m + 1
        BY <1>0, <2>1, <3>1 DEF Begins
      <3>2. CASE d \in 0 .. m
        <4>1. Begins(G[d], G[m]) /\ Len(G[d]) \in Nat
          BY <1>0, <1>2, <2>1, <3>2
        <4>2. QED
          BY <1>0, <2>1, <2>2, <4>1 DEF Begins
      <3>3. d = m + 1 \/ d \in 0 .. m
        BY <2>1
      <3>4. QED
        BY ONLY <3>1, <3>2, <3>3
    <2>4. QED
      BY <2>1, <2>3
  <1>3. n \in Good
    <2>1. Good \in SUBSET Nat
      OBVIOUS
    <2> HIDE DEF Good
    <2>2. 0 .. n \subseteq Good
      BY <1>0, <1>1, <1>2, <2>1, Induction
    <2>3. QED
      BY <1>0, <2>2
  <1>4. QED
    BY <1>0, <1>3

(* The walk over the bytes of a text ends where the text does, whatever    *)
(* follows it.                                                             *)
LEMMA WalkOverText ==
  ASSUME NEW t \in Seq(S!Character), NEW tail \in Seq(S!Byte)
  PROVE  /\ S!Bytes(t) \in Seq(S!Byte)
         /\ S!Walk(S!Bytes(t) \o tail, Len(t)) = Len(S!Bytes(t))
  <1> DEFINE n == Len(t)
             data == S!Bytes(t) \o tail
  <1>1. PICK G : IsPrefixes(G, t, n) /\ S!Bytes(t) = G[n]
    BY BytesAre
  <1>2. n \in Nat /\ (\A c \in 0 .. n : G[c] \in Seq(S!Byte)) /\ G[n] \in Seq(S!Byte)
    <2>1. n \in Nat /\ \A c \in 0 .. n : G[c] \in Seq(S!Byte)
      BY <1>1, PrefixesType
    <2>2. QED
      BY <2>1
  <1>3. PICK T : IsWalk(T, data, n) /\ S!Walk(data, n) = T[n]
    BY <1>2, WalkIs
  <1>4. Len(data) = Len(G[n]) + Len(tail) /\ \A i \in 1 .. Len(G[n]) : data[i] = G[n][i]
    BY <1>1, <1>2, ConcatProperties
  <1> DEFINE Good == {c \in Nat : c <= n => T[c] = Len(G[c])}
  <1>5. 0 \in Good
    <2>1. T[0] = 0
      BY <1>2, <1>3 DEF IsWalk
    <2>2. G[0] = <<>>
      BY <1>1 DEF IsPrefixes
    <2>3. QED
      BY <2>1, <2>2
  <1>6. ASSUME NEW c \in 0 .. n - 1, c \in Good
        PROVE  c + 1 \in Good
    <2> DEFINE b == Len(G[c])
               ch == t[c + 1]
    <2>1. c + 1 \in 1 .. n /\ c + 1 \in 0 .. n /\ (c + 1) - 1 = c /\ c \in 0 .. n /\ c \in Nat
      BY <1>2
    <2>2. T[c] = b /\ b \in Nat /\ Len(G[n]) \in Nat /\ Len(tail) \in Nat
      BY <1>2, <1>6, <2>1
    <2>3. T[c + 1] = IF T[c] >= Len(data) THEN Len(data) + 1
                     ELSE T[c] + S!Width[data[T[c] + 1]]
      BY <1>2, <1>3, <2>1, WalkSteps
    <2>4. ch \in S!Character
      BY <2>1
    <2>5. Len(ch) \in 1 .. 3 /\ Len(ch) = S!Width[ch[1]]
      BY <2>4, CharacterShape
    <2>6. Len(G[c + 1]) = b + Len(ch) /\ G[c + 1][b + 1] = ch[1]
      <3>1. /\ Len(G[c]) \in Nat /\ Len(G[c + 1]) = Len(G[c]) + Len(t[c + 1])
            /\ \A i \in 1 .. Len(G[c]) : G[c + 1][i] = G[c][i]
            /\ \A i \in 1 .. Len(t[c + 1]) : G[c + 1][Len(G[c]) + i] = t[c + 1][i]
        BY <1>1, PrefixesGrow
      <3>2. 1 \in 1 .. Len(ch)
        BY <2>5
      <3>3. QED
        BY <3>1, <3>2
    <2>7. Begins(G[c + 1], G[n])
      BY <1>1, <2>1, PrefixesBegin
    <2>8. b + 1 \in 1 .. Len(G[n]) /\ G[n][b + 1] = ch[1]
      <3>1. b + 1 \in 1 .. Len(G[c + 1])
        BY <2>2, <2>5, <2>6
      <3>2. b + 1 \in 1 .. Len(G[n]) /\ G[n][b + 1] = G[c + 1][b + 1]
        <4> DEFINE p == G[c + 1]
                   q == G[n]
        <4>1. Begins(p, q) /\ b + 1 \in 1 .. Len(p) /\ Len(q) \in Nat
          BY <2>2, <2>7, <3>1
        <4> HIDE DEF p, q
        <4>2. b + 1 \in 1 .. Len(q) /\ q[b + 1] = p[b + 1]
          <5>1. q[b + 1] = p[b + 1] /\ Len(p) <= Len(q)
            BY <4>1 DEF Begins
          <5>2. QED
            BY <2>2, <4>1, <5>1
        <4>3. QED
          BY <4>2 DEF p, q
      <3>3. QED
        BY <2>6, <3>2
    <2>9. b < Len(data) /\ data[b + 1] = ch[1]
      BY <1>4, <2>2, <2>8
    <2>10. T[c + 1] = b + Len(ch)
      <3>1. Len(data) \in Nat
        BY <1>4, <2>2
      <3> HIDE DEF data, ch, b
      <3>2. QED
        BY <2>2, <2>3, <2>5, <2>9, <3>1
    <2>11. T[c + 1] = Len(G[c + 1]) /\ c + 1 \in Nat
      BY <2>1, <2>6, <2>10
    <2>12. QED
      BY <2>11
  <1>7. n \in Good
    <2>1. Good \in SUBSET Nat
      OBVIOUS
    <2> HIDE DEF Good
    <2>2. 0 .. n \subseteq Good
      BY <1>2, <1>5, <1>6, <2>1, Induction
    <2>3. QED
      BY <1>2, <2>2
  <1>8. QED
    BY <1>1, <1>2, <1>3, <1>7

(* The bytes of a text that do not continue a character are as many as its *)
(* characters.                                                             *)
Leads(s) == {i \in 1 .. Len(s) : s[i] # "more"}

LEMMA CodepointsAre ==
  ASSUME NEW s \in Seq(S!Byte)
  PROVE  S!Codepoints(s) = Cardinality(Leads(s)) /\ Cardinality(Leads(s)) \in Nat
  <1>1. S!Codepoints(s) = Cardinality({i \in DOMAIN s : s[i] # "more"})
    BY DEF S!Codepoints, S!Quantify, S!Cardinality, Cardinality
  <1>2. DOMAIN s = 1 .. Len(s) /\ Len(s) \in Nat
    OBVIOUS
  <1>3. IsFiniteSet(Leads(s))
    <2>1. IsFiniteSet(1 .. Len(s)) /\ Leads(s) \subseteq 1 .. Len(s)
      BY <1>2, FS_Interval DEF Leads
    <2>2. QED
      BY <2>1, FS_Subset
  <1>4. QED
    BY <1>1, <1>2, <1>3, FS_CardinalityType DEF Leads

LEMMA TextCodepoints ==
  ASSUME NEW t \in Seq(S!Character)
  PROVE  S!Codepoints(S!Bytes(t)) = Len(t)
  <1> DEFINE n == Len(t)
  <1>1. PICK G : IsPrefixes(G, t, n) /\ S!Bytes(t) = G[n]
    BY BytesAre
  <1>2. n \in Nat /\ \A c \in 0 .. n : G[c] \in Seq(S!Byte)
    <2>1. \A c \in 0 .. Len(t) : G[c] \in Seq(S!Byte)
      BY <1>1, PrefixesType
    <2>2. QED
      BY <2>1
  <1> DEFINE Good == {c \in Nat : c <= n =>
                        IsFiniteSet(Leads(G[c])) /\ Cardinality(Leads(G[c])) = c}
  <1>3. 0 \in Good
    <2>1. Leads(G[0]) = {}
      BY <1>1 DEF IsPrefixes, Leads
    <2>2. QED
      BY <2>1, FS_EmptySet
  <1>4. ASSUME NEW c \in 0 .. n - 1, c \in Good
        PROVE  c + 1 \in Good
    <2>1. c + 1 \in 1 .. n /\ c \in 0 .. n /\ c \in Nat
      BY <1>2
    <2>2. /\ Len(G[c]) \in Nat /\ Len(G[c + 1]) = Len(G[c]) + Len(t[c + 1])
          /\ \A i \in 1 .. Len(G[c]) : G[c + 1][i] = G[c][i]
          /\ \A i \in 1 .. Len(t[c + 1]) : G[c + 1][Len(G[c]) + i] = t[c + 1][i]
      BY <1>1, PrefixesGrow
    <2>3. t[c + 1] \in S!Character
      BY <2>1
    <2> DEFINE a == G[c]
               b == G[c + 1]
               ch == t[c + 1]
    <2>4. /\ Len(a) \in Nat /\ Len(b) = Len(a) + Len(ch)
          /\ \A i \in 1 .. Len(a) : b[i] = a[i]
          /\ \A i \in 1 .. Len(ch) : b[Len(a) + i] = ch[i]
      BY <2>2
    <2>5. Len(ch) \in 1 .. 3 /\ ch[1] # "more" /\ \A i \in 2 .. Len(ch) : ch[i] = "more"
      BY <2>3, CharacterShape
    <2>6. IsFiniteSet(Leads(a)) /\ Cardinality(Leads(a)) = c
      BY <1>2, <1>4, <2>1
    <2> HIDE DEF a, b, ch, Good
    <2>7. Leads(b) = Leads(a) \cup {Len(a) + 1}
      <3>1. ASSUME NEW i \in Leads(b)
            PROVE  i \in Leads(a) \cup {Len(a) + 1}
        <4>1. i \in 1 .. Len(a) + Len(ch) /\ b[i] # "more"
          BY <2>4, <3>1 DEF Leads
        <4>2. CASE i <= Len(a)
          BY <2>4, <4>1, <4>2 DEF Leads
        <4>3. CASE i > Len(a) + 1
          <5> DEFINE j == i - Len(a)
          <5>1. j \in 2 .. Len(ch) /\ j \in 1 .. Len(ch) /\ Len(a) + j = i
            BY <2>4, <2>5, <4>1, <4>3
          <5> HIDE DEF j
          <5>2. b[Len(a) + j] = "more"
            BY <2>4, <2>5, <5>1
          <5>3. QED
            BY <4>1, <5>1, <5>2
        <4>4. i <= Len(a) \/ i = Len(a) + 1 \/ i > Len(a) + 1
          BY <2>4, <4>1
        <4>5. QED
          BY <4>2, <4>3, <4>4
      <3>2. ASSUME NEW i \in Leads(a)
            PROVE  i \in Leads(b)
        <4>1. i \in 1 .. Len(a) /\ i \in 1 .. Len(b) /\ a[i] # "more"
          BY <2>4, <2>5, <3>2 DEF Leads
        <4>2. QED
          BY <2>4, <4>1 DEF Leads
      <3>3. Len(a) + 1 \in Leads(b)
        <4>1. 1 \in 1 .. Len(ch) /\ Len(a) + 1 \in 1 .. Len(b)
          BY <2>4, <2>5
        <4>2. b[Len(a) + 1] = ch[1]
          BY <2>4, <4>1
        <4>3. QED
          BY <2>5, <4>1, <4>2 DEF Leads
      <3>4. QED
        BY <3>1, <3>2, <3>3
    <2>8. Len(a) + 1 \notin Leads(a)
      BY <2>4 DEF Leads
    <2>9. IsFiniteSet(Leads(b)) /\ Cardinality(Leads(b)) = c + 1
      BY <2>1, <2>6, <2>7, <2>8, FS_AddElement
    <2>10. QED
      BY <2>1, <2>9 DEF Good, b
  <1>5. n \in Good
    <2>1. Good \in SUBSET Nat
      OBVIOUS
    <2> HIDE DEF Good
    <2>2. 0 .. n \subseteq Good
      BY <1>2, <1>3, <1>4, <2>1, Induction
    <2>3. QED
      BY <1>2, <2>2
  <1>6. S!Codepoints(G[n]) = Cardinality(Leads(G[n]))
    BY <1>2, CodepointsAre
  <1>7. QED
    BY <1>1, <1>2, <1>5, <1>6

-----------------------------------------------------------------------------
(* Reading and writing a text.                                             *)
LEMMA CutFacts ==
  ASSUME NEW s \in Seq(S!Byte)
  PROVE  /\ S!Cut(s) \in Seq(S!Byte) /\ Len(S!Cut(s)) < Cap
         /\ Len(s) < Cap => S!Cut(s) = s
  <1> DEFINE k == S!Shorter(Len(s), Cap - 1)
  <1>1. k \in 0 .. Len(s) /\ k < Cap /\ (Len(s) < Cap => k = Len(s))
    BY ClassesAssumption DEF ClassesAssumption, S!Shorter
  <1> HIDE DEF k
  <1>2. \A i \in 1 .. k : s[i] \in S!Byte
    BY <1>1
  <1>3. SubSeq(s, 1, k) \in Seq(S!Byte) /\ Len(SubSeq(s, 1, k)) = k
    BY <1>1, <1>2, SubSeqProperties
  <1>4. S!Cut(s) = SubSeq(s, 1, k)
    BY DEF S!Cut, k
  <1>5. SubSeq(s, 1, Len(s)) = s
    BY SubSeqFull
  <1>6. QED
    BY <1>1, <1>3, <1>4, <1>5

LEMMA ReadFacts ==
  ASSUME NEW data \in Seq(S!Byte), NEW count \in Nat
  PROVE  LET r == S!ReadString(data, count) IN
           /\ r.err \in BOOLEAN /\ r.text \in Seq(S!Byte) /\ Len(r.text) < Cap
           /\ r.consumed \in Nat /\ r.consumed <= Len(data)
  <1> DEFINE n == S!Walk(data, count)
             r == S!ReadString(data, count)
  <1>1. n \in Nat /\ Len(data) \in Nat
    BY WalkType
  <1>2. CASE n > Len(data)
    BY <1>1, <1>2, ClassesAssumption DEF ClassesAssumption, S!ReadString
  <1>3. CASE n <= Len(data)
    <2>1. r = [err |-> FALSE, text |-> S!Cut(SubSeq(data, 1, n)), consumed |-> n]
      BY <1>1, <1>3 DEF S!ReadString
    <2>2. SubSeq(data, 1, n) \in Seq(S!Byte)
      <3> HIDE DEF n
      <3>1. \A i \in 1 .. n : data[i] \in S!Byte
        BY <1>1, <1>3
      <3>2. QED
        BY <1>1, <3>1, SubSeqProperties
    <2> DEFINE cut == S!Cut(SubSeq(data, 1, n))
    <2>3. cut \in Seq(S!Byte) /\ Len(cut) < Cap
      BY <2>2, CutFacts
    <2>4. r.err = FALSE /\ r.text = cut /\ r.consumed = n
      <3> HIDE DEF n, r, cut
      <3>1. QED
        BY <2>1 DEF cut
    <2>5. QED
      <3> HIDE DEF n, r, cut
      <3>1. QED
        BY <1>1, <1>3, <2>3, <2>4 DEF r
  <1>4. QED
    BY <1>1, <1>2, <1>3

(* A text with the count of its characters is read whole.                  *)
LEMMA ReadWhole ==
  ASSUME NEW t \in Seq(S!Character), NEW tail \in Seq(S!Byte)
  PROVE  S!ReadString(S!Bytes(t) \o tail, Len(t))
           = [err |-> FALSE, text |-> S!Cut(S!Bytes(t)), consumed |-> Len(S!Bytes(t))]
  <1> DEFINE s == S!Bytes(t)
             data == s \o tail
  <1>1. s \in Seq(S!Byte) /\ S!Walk(data, Len(t)) = Len(s)
    BY WalkOverText
  <1> HIDE DEF s
  <1>2. /\ Len(s) \in Nat /\ Len(tail) \in Nat /\ Len(data) = Len(s) + Len(tail)
        /\ data \in Seq(S!Byte) /\ \A i \in 1 .. Len(s) : data[i] = s[i]
    BY <1>1, ConcatParts
  <1> HIDE DEF data
  <1>3. SubSeq(data, 1, Len(s)) = s
    <2>1. \A i \in 1 .. Len(s) : data[i] \in S!Byte
      BY <1>1, <1>2
    <2>2. /\ SubSeq(data, 1, Len(s)) \in Seq(S!Byte)
          /\ Len(SubSeq(data, 1, Len(s))) = Len(s)
          /\ \A i \in 1 .. Len(s) : SubSeq(data, 1, Len(s))[i] = s[i]
      BY <1>2, <2>1, SubSeqProperties
    <2>3. QED
      BY <1>1, <2>2
  <1>4. ~(Len(s) > Len(data))
    BY <1>2
  <1>5. S!ReadString(data, Len(t)) = [err |-> FALSE, text |-> S!Cut(s), consumed |-> Len(s)]
    <2>1. S!Walk(data, Len(t)) = Len(s)
      BY <1>1 DEF data, s
    <2>2. QED
      BY <1>3, <1>4, <2>1 DEF S!ReadString
  <1>6. QED
    BY <1>5 DEF s, data

LEMMA TextIsSeq ==
  ASSUME NEW t \in S!Texts
  PROVE  t \in Seq(S!Character) /\ Len(t) \in Nat
  <1>1. PICK n \in 0 .. MaxChars : t \in [1 .. n -> S!Character]
    BY DEF S!Texts
  <1>2. n \in Nat
    BY <1>1, ClassesAssumption DEF ClassesAssumption
  <1>3. QED
    BY <1>1, <1>2

LEMMA SentType ==
  ASSUME NEW r, r.text \in S!Texts
  PROVE  S!Sent(r) \in Seq(S!Byte)
  <1>1. S!Bytes(r.text) \in Seq(S!Byte)
    BY TextIsSeq, WalkOverText, EmptySeq
  <1>2. <<>> \in Seq(S!Byte) /\ <<"one", "one">> \in Seq(S!Byte)
    BY DEF S!Byte
  <1>3. QED
    BY <1>1, <1>2, ConcatProperties DEF S!Sent

(* What holds of a text property between two steps: its text leaves room   *)
(* for the terminator, the result is that of the request, the count of an  *)
(* answer is that of its bytes.                                            *)
TextInv ==
  /\ S!TypeOK
  /\ result = S!ReadString(S!Sent(request), request.count)
  /\ answer.count = S!Codepoints(answer.bytes) /\ Len(answer.bytes) < Cap

NothingAsked ==
  /\ request' = S!NoRequest /\ result' = S!NothingRead

LEMMA NothingIsRead ==
  /\ S!NoRequest.text \in S!Texts /\ S!NoRequest.count \in 0 .. MaxCount
  /\ S!NoRequest.more \in BOOLEAN
  /\ S!NothingRead = S!ReadString(S!Sent(S!NoRequest), S!NoRequest.count)
  /\ S!NothingRead.err \in BOOLEAN /\ S!NothingRead.consumed \in Nat
  <1>1. <<>> \in S!Texts
    <2>1. <<>> \in [1 .. 0 -> S!Character] /\ 0 \in 0 .. MaxChars
      BY ClassesAssumption DEF ClassesAssumption
    <2>2. QED
      BY <2>1 DEF S!Texts
  <1>2. S!Sent(S!NoRequest) = <<>>
    <2>1. S!Bytes(<<>>) = <<>>
      BY DEF S!Bytes, S!FlattenSeq
    <2>2. <<>> \o <<>> = <<>>
      BY ConcatEmptySeq, EmptySeq
    <2>3. QED
      BY <2>1, <2>2 DEF S!Sent, S!NoRequest
  <1>3. S!NothingRead.err \in BOOLEAN /\ S!NothingRead.consumed \in Nat
    BY ReadFacts, EmptySeq DEF S!NothingRead
  <1>4. QED
    BY <1>1, <1>2, <1>3, ClassesAssumption
       DEF S!NoRequest, S!NothingRead, ClassesAssumption

LEMMA NoAnswerFacts ==
  /\ S!NoAnswer.count \in Nat /\ S!NoAnswer.bytes \in Seq(S!Byte) /\ Len(S!NoAnswer.bytes) < Cap
  /\ S!NoAnswer.count = S!Codepoints(S!NoAnswer.bytes)
  <1>1. <<>> \in Seq(S!Byte) /\ Len(<<>>) = 0
    OBVIOUS
  <1>2. Leads(<<>>) = {}
    BY <1>1 DEF Leads
  <1>3. S!Codepoints(<<>>) = 0
    BY <1>1, <1>2, CodepointsAre, FS_EmptySet
  <1>4. QED
    BY <1>1, <1>3, ClassesAssumption DEF S!NoAnswer, ClassesAssumption

LEMMA TextStart == S!Init => TextInv
  BY NothingIsRead, NoAnswerFacts, ClassesAssumption
     DEF S!Init, TextInv, S!TypeOK, ClassesAssumption

LEMMA TextStep ==
  ASSUME TextInv, S!Next
  PROVE  TextInv'
  <1>0. S!TypeOK
    BY DEF TextInv
  <1>1. ASSUME NEW t \in S!Texts, NEW n \in 0 .. MaxCount, NEW b \in BOOLEAN,
               S!SetText([text |-> t, count |-> n, more |-> b])
        PROVE  TextInv'
    <2> DEFINE r == [text |-> t, count |-> n, more |-> b]
    <2>1. request' = r /\ result' = S!ReadString(S!Sent(r), r.count) /\ answer' = S!NoAnswer
      BY <1>1 DEF S!SetText
    <2>2. r.text \in S!Texts /\ r.count \in 0 .. MaxCount /\ r.more \in BOOLEAN
      OBVIOUS
    <2>3. n \in Nat /\ r.count = n
      BY ClassesAssumption DEF ClassesAssumption
    <2>4. stored' = IF result'.err THEN stored ELSE result'.text
      BY <1>1 DEF S!SetText
    <2> HIDE DEF r
    <2>5. S!Sent(r) \in Seq(S!Byte)
      BY <2>2, SentType
    <2>6. /\ result'.err \in BOOLEAN /\ result'.text \in Seq(S!Byte) /\ Len(result'.text) < Cap
          /\ result'.consumed \in Nat
      BY <2>1, <2>3, <2>5, ReadFacts
    <2>7. stored' \in Seq(S!Byte) /\ Len(stored') < Cap
      BY <1>0, <2>4, <2>6 DEF S!TypeOK
    <2>8. S!TypeOK'
      BY <2>1, <2>2, <2>6, <2>7, NoAnswerFacts DEF S!TypeOK
    <2>9. QED
      BY <2>1, <2>8, NoAnswerFacts DEF TextInv
  <1>2. ASSUME NEW t \in S!Texts, S!ApplicationSetText(t)
        PROVE  TextInv'
    <2>1. NothingAsked /\ answer' = S!NoAnswer /\ stored' = S!Cut(S!Bytes(t))
      BY <1>2 DEF S!ApplicationSetText, NothingAsked
    <2>2. stored' \in Seq(S!Byte) /\ Len(stored') < Cap
      BY <2>1, TextIsSeq, WalkOverText, EmptySeq, CutFacts
    <2>3. QED
      BY <2>1, <2>2, NothingIsRead, NoAnswerFacts DEF TextInv, S!TypeOK, NothingAsked
  <1>3. ASSUME S!GetText
        PROVE  TextInv'
    <2>1. NothingAsked /\ answer' = S!WriteString(stored) /\ stored' = stored
      BY <1>3 DEF S!GetText, NothingAsked
    <2>2. stored \in Seq(S!Byte) /\ Len(stored) < Cap
      BY <1>0 DEF S!TypeOK
    <2>3. answer'.count = S!Codepoints(stored) /\ answer'.bytes = stored
      BY <2>1 DEF S!WriteString
    <2>4. answer'.count \in Nat
      BY <2>2, <2>3, CodepointsAre
    <2>5. QED
      BY <2>1, <2>2, <2>3, <2>4, NothingIsRead DEF TextInv, S!TypeOK, NothingAsked
  <1>4. QED
    BY <1>1, <1>2, <1>3 DEF S!Next

LEMMA TextsAreIntact == TextInv => TextsIntact
  <1> SUFFICES ASSUME TextInv
               PROVE  TextsIntact
    OBVIOUS
  <1>0. S!TypeOK
    BY DEF TextInv
  <1>1. request.text \in S!Texts /\ request.count \in Nat
    BY <1>0, ClassesAssumption DEF S!TypeOK, ClassesAssumption
  <1>2. result = S!ReadString(S!Sent(request), request.count)
    BY DEF TextInv
  <1>3. S!WellFormedIsRead
    <2> SUFFICES ASSUME request.count = Len(request.text)
                 PROVE  /\ ~result.err
                        /\ result.consumed = Len(S!Bytes(request.text))
                        /\ result.text = S!Cut(S!Bytes(request.text))
      BY DEF S!WellFormedIsRead
    <2> DEFINE tail == IF request.more THEN <<"one", "one">> ELSE <<>>
    <2>1. tail \in Seq(S!Byte)
      <3>1. <<>> \in Seq(S!Byte) /\ <<"one", "one">> \in Seq(S!Byte)
        BY DEF S!Byte
      <3>2. QED
        BY <3>1
    <2>2. S!Sent(request) = S!Bytes(request.text) \o tail
      BY DEF S!Sent
    <2> HIDE DEF tail
    <2>3. result = [err |-> FALSE, text |-> S!Cut(S!Bytes(request.text)),
                    consumed |-> Len(S!Bytes(request.text))]
      BY <1>1, <1>2, <2>1, <2>2, TextIsSeq, ReadWhole
    <2>4. QED
      BY <2>3
  <1>4. S!StaysInside
    <2>1. S!Sent(request) \in Seq(S!Byte)
      BY <1>1, SentType
    <2>2. QED
      BY <1>1, <1>2, <2>1, ReadFacts DEF S!StaysInside
  <1>5. S!WholeTextsDecode
    <2> SUFFICES ASSUME NEW t \in S!Texts, S!Bytes(t) = answer.bytes
                 PROVE  S!Decodes
      BY DEF S!WholeTextsDecode, S!Whole
    <2>1. t \in Seq(S!Character)
      BY TextIsSeq
    <2>2. answer.count = Len(t) /\ Len(answer.bytes) < Cap
      BY <2>1, TextCodepoints DEF TextInv
    <2>3. <<"one", "one">> \in Seq(S!Byte)
      BY DEF S!Byte
    <2>4. S!ReadString(answer.bytes \o <<"one", "one">>, answer.count)
            = [err |-> FALSE, text |-> S!Cut(answer.bytes), consumed |-> Len(answer.bytes)]
      BY <2>1, <2>2, <2>3, ReadWhole
    <2>5. S!Cut(answer.bytes) = answer.bytes
      BY <1>0, <2>2, CutFacts DEF S!TypeOK
    <2>6. QED
      BY <2>4, <2>5 DEF S!Decodes
  <1>6. QED
    BY <1>3, <1>4, <1>5 DEF TextsIntact

-----------------------------------------------------------------------------
(* Member tables.                                                          *)
USE MatrixAssumption DEF MatrixAssumption

LEMMA SmallerType == ASSUME NEW a \in Ask PROVE Smaller(a, MX_MAX) \in Size
  BY DEF Ask, Size, Smaller

LEMMA InitType == Init => TypeOK
  <1> SUFFICES ASSUME Init PROVE TypeOK
    OBVIOUS
  <1>1. x_size \in Size /\ y_size \in Size
    BY SmallerType DEF Init
  <1>2. cur_x \in Size /\ cur_y \in Size /\ xy_locked \in BOOLEAN
    <2>1. 0 \in Size
      BY DEF Size
    <2>2. QED
      BY <2>1 DEF Init
  <1>3. members \in [Line -> [Line -> Cell]]
    <2>1. [x \in Line |-> 0] \in [Line -> Cell]
      BY DEF Cell
    <2>2. QED
      BY <2>1 DEF Init
  <1>4. settings \in [Setting -> Nat]
    BY DEF Init
  <1>5. app = NoCall
    BY DEF Init
  <1>6. QED
    BY <1>1, <1>2, <1>3, <1>4, <1>5 DEF TypeOK

(* What a list leaves in the table are members, or what was there.         *)
LEMMA MembersFromType ==
  ASSUME TypeOK, NEW rows \in Size, NEW cols \in Size,
         NEW sent \in Sendable(rows * cols)
  PROVE  MembersFrom(rows, cols, sent) \in [Line -> [Line -> Cell]]
  <1>1. PICK k \in 0 .. rows * cols : sent \in [1 .. k -> Cell]
    BY DEF Sendable
  <1>2. rows * cols \in Nat
    BY DEF Size
  <1>3. k \in Nat /\ Len(sent) = k
    BY <1>1, <1>2
  <1>4. ASSUME NEW y \in Line, NEW x \in Line, y <= rows, x <= cols,
               (y - 1) * cols + x <= Len(sent)
        PROVE  sent[(y - 1) * cols + x] \in Cell
    <2>1. (y - 1) * cols \in Nat
      <3>1. y - 1 \in Nat /\ cols \in Nat
        BY DEF Line, Size
      <3>2. QED
        BY <3>1
    <2>2. (y - 1) * cols + x \in 1 .. k
      BY <1>3, <1>4, <2>1 DEF Line
    <2>3. QED
      BY <1>1, <2>2
  <1>5. ASSUME NEW y \in Line, NEW x \in Line
        PROVE  MembersFrom(rows, cols, sent)[y][x] \in Cell
    <2>1. CASE y > rows \/ x > cols
      BY <2>1 DEF MembersFrom, TypeOK
    <2>2. CASE y <= rows /\ x <= cols
      <3>1. ~(y > rows \/ x > cols)
        BY <2>2 DEF Line, Size
      <3>2. MembersFrom(rows, cols, sent)[y][x] =
              IF (y - 1) * cols + x <= Len(sent) THEN sent[(y - 1) * cols + x] ELSE 0
        BY <3>1 DEF MembersFrom
      <3>3. QED
        BY <1>4, <2>2, <3>2 DEF Cell
    <2>3. QED
      BY <2>1, <2>2 DEF Line, Size
  <1>6. QED
    BY <1>5 DEF MembersFrom

(* Every step keeps the types.                                             *)
LEMMA NextType == TypeOK /\ [Next]_vars => TypeOK'
  <1> SUFFICES ASSUME TypeOK, [Next]_vars PROVE TypeOK'
    OBVIOUS
  <1> USE DEF TypeOK, grid, selection
  <1>1. ASSUME NEW x \in Ask, NEW y \in Ask, SetCurrentXY(x, y) \/ SetCurrentXYLock(x, y)
        PROVE  TypeOK'
    <2>1. x \in Size /\ y \in Size
      BY <1>1 DEF SetCurrentXY, SetCurrentXYLock, Selectable, Ask, Size
    <2>2. xy_locked' \in BOOLEAN
      BY <1>1 DEF SetCurrentXY, SetCurrentXYLock
    <2>3. UNCHANGED <<x_size, y_size, members, settings, app>> /\ cur_x' = x /\ cur_y' = y
      BY <1>1 DEF SetCurrentXY, SetCurrentXYLock
    <2>4. QED
      BY <2>1, <2>2, <2>3
  <1>2. ASSUME NEW x \in Ask, NEW y \in Ask, SetSize(x, y)
        PROVE  TypeOK'
    BY <1>2 DEF SetSize, SizeAllowed, SelectionAfter, Line, Size
  <1>3. CASE UnlockCurrent
    BY <1>3 DEF UnlockCurrent
  <1>4. ASSUME NEW rows \in Size, NEW cols \in Size, NEW sent \in Sendable(rows * cols),
               SetMembers(rows, cols, sent)
        PROVE  TypeOK'
    <2>1. members' \in [Line -> [Line -> Cell]]
      BY <1>4, MembersFromType DEF SetMembers
    <2>2. QED
      BY <1>4, <2>1 DEF SetMembers
  <1>5. ASSUME NEW x \in Ask, NEW y \in Ask, NEW ono \in Cell,
               SetMember(x, y, ono) \/ AppCheck(x, y, ono)
        PROVE  TypeOK'
    <2>1. x \in Line /\ y \in Line
      BY <1>5 DEF SetMember, AppCheck, InGrid, Line, Size
    <2>2. CASE SetMember(x, y, ono)
      <3>1. members' \in [Line -> [Line -> Cell]]
        BY <2>1, <2>2 DEF SetMember
      <3>2. QED
        BY <2>2, <3>1 DEF SetMember
    <2>3. CASE AppCheck(x, y, ono)
      <3>1. app'.x = x /\ app'.y = y /\ app'.ono = ono
        BY <2>3 DEF AppCheck
      <3>2. QED
        BY <2>1, <2>3, <3>1 DEF AppCheck
    <2>4. QED
      BY <1>5, <2>2, <2>3
  <1>6. ASSUME NEW s \in Setting, NEW v \in 0 .. 1, SetSetting(s, v)
        PROVE  TypeOK'
    BY <1>6 DEF SetSetting
  <1>7. CASE AppStore
    BY <1>7 DEF AppStore
  <1>8. CASE UNCHANGED vars
    BY <1>8 DEF vars
  <1>9. QED
    BY <1>1, <1>2, <1>3, <1>4, <1>5, <1>6, <1>7, <1>8 DEF Next

(* Sizes, selection and members keep their types, and no write of the      *)
(* application leaves the table (aes70_matrix.c).                          *)
THEOREM MatrixTypeCorrect == Spec => []TypeOK
  BY InitType, NextType, PTL DEF Spec

-----------------------------------------------------------------------------
(* A step that takes the selection out of the grid is a SetMembers.        *)
LEMMA StrandingStep ==
  ASSUME TypeOK, [Next]_vars, CurrentInsideGrid, ~CurrentInsideGrid'
  PROVE  method' = "SetMembers" /\ UNCHANGED selection
  <1> USE DEF CurrentInsideGrid, grid, selection
  <1>1. ASSUME NEW x \in Ask, NEW y \in Ask, SetCurrentXY(x, y) \/ SetCurrentXYLock(x, y)
        PROVE  FALSE
    BY <1>1 DEF SetCurrentXY, SetCurrentXYLock, Selectable
  <1>2. ASSUME NEW x \in Ask, NEW y \in Ask, SetSize(x, y)
        PROVE  FALSE
    BY <1>2 DEF SetSize, SizeAllowed, SelectionAfter, Line, Size, TypeOK
  <1>3. ASSUME NEW rows \in Size, NEW cols \in Size, NEW sent \in Sendable(rows * cols),
               SetMembers(rows, cols, sent)
        PROVE  method' = "SetMembers" /\ UNCHANGED selection
    BY <1>3 DEF SetMembers
  <1>4. ASSUME NEW x \in Ask, NEW y \in Ask, NEW ono \in Cell,
               SetMember(x, y, ono) \/ AppCheck(x, y, ono)
        PROVE  FALSE
    BY <1>4 DEF SetMember, AppCheck
  <1>5. ASSUME NEW s \in Setting, NEW v \in 0 .. 1, SetSetting(s, v)
        PROVE  FALSE
    BY <1>5 DEF SetSetting
  <1>6. CASE UnlockCurrent \/ AppStore \/ UNCHANGED vars
    BY <1>6 DEF UnlockCurrent, AppStore, vars
  <1>7. QED
    BY <1>1, <1>2, <1>3, <1>4, <1>5, <1>6 DEF Next

(* A selection comes to lie outside the grid by a SetMembers, and by       *)
(* nothing else, on a table of any size.                                   *)
THEOREM StrandedBySetMembersOnly == Spec => OnlySetMembersStrands
  <1>1. TypeOK /\ [Next]_vars =>
          [CurrentInsideGrid /\ ~CurrentInsideGrid' =>
             method' = "SetMembers" /\ UNCHANGED selection]_vars
    BY StrandingStep
  <1>2. QED
    BY <1>1, MatrixTypeCorrect, PTL DEF Spec, OnlySetMembersStrands

-----------------------------------------------------------------------------
(* A step that moves a locked selection locks it anew, or makes the grid   *)
(* too small for it.                                                       *)
LEMMA MovingStep ==
  ASSUME TypeOK, [Next]_vars, xy_locked, selection' # selection
  PROVE  \/ method' = "SetCurrentXYLock"
         \/ method' = "SetSize" /\ (x_size' < cur_x \/ y_size' < cur_y)
  <1> USE DEF grid, selection
  <1>1. ASSUME NEW x \in Ask, NEW y \in Ask, SetCurrentXY(x, y)
        PROVE  FALSE
    BY <1>1 DEF SetCurrentXY
  <1>2. ASSUME NEW x \in Ask, NEW y \in Ask, SetCurrentXYLock(x, y)
        PROVE  method' = "SetCurrentXYLock"
    BY <1>2 DEF SetCurrentXYLock
  <1>3. ASSUME NEW x \in Ask, NEW y \in Ask, SetSize(x, y)
        PROVE  method' = "SetSize" /\ (x_size' < cur_x \/ y_size' < cur_y)
    BY <1>3 DEF SetSize, SizeAllowed, SelectionAfter, Line, Size, TypeOK
  <1>4. ASSUME NEW rows \in Size, NEW cols \in Size, NEW sent \in Sendable(rows * cols),
               SetMembers(rows, cols, sent)
        PROVE  FALSE
    BY <1>4 DEF SetMembers
  <1>5. ASSUME NEW x \in Ask, NEW y \in Ask, NEW ono \in Cell,
               SetMember(x, y, ono) \/ AppCheck(x, y, ono)
        PROVE  FALSE
    BY <1>5 DEF SetMember, AppCheck
  <1>6. ASSUME NEW s \in Setting, NEW v \in 0 .. 1, SetSetting(s, v)
        PROVE  FALSE
    BY <1>6 DEF SetSetting
  <1>7. CASE UnlockCurrent \/ AppStore \/ UNCHANGED vars
    BY <1>7 DEF UnlockCurrent, AppStore, vars
  <1>8. QED
    BY <1>1, <1>2, <1>3, <1>4, <1>5, <1>6, <1>7 DEF Next

(* A locked selection is moved by another SetCurrentXYLock, or by a        *)
(* SetSize that leaves no place for it, and by nothing else.               *)
THEOREM LockHoldsSelection == Spec => LockedSelectionHeld
  <1>1. TypeOK /\ [Next]_vars =>
          [xy_locked /\ selection' # selection =>
             \/ method' = "SetCurrentXYLock"
             \/ method' = "SetSize" /\ (x_size' < cur_x \/ y_size' < cur_y)]_vars
    BY MovingStep
  <1>2. QED
    BY <1>1, MatrixTypeCorrect, PTL DEF Spec, LockedSelectionHeld

-----------------------------------------------------------------------------
(* The cells of a grid, one row after the other: the place of each, and    *)
(* the cell at each place.                                                 *)
LEMMA RowAndColumn ==
  ASSUME NEW rows \in Line, NEW cols \in Line, NEW i \in 1 .. rows * cols
  PROVE  /\ (i - 1) \div cols \in 0 .. rows - 1
         /\ (i - 1) % cols \in 0 .. cols - 1
         /\ ((i - 1) \div cols) * cols + ((i - 1) % cols) = i - 1
  <1> DEFINE q == (i - 1) \div cols
             r == (i - 1) % cols
  <1>1. i - 1 \in Nat /\ cols \in Nat \ {0} /\ rows \in Nat \ {0} /\ rows * cols \in Nat
    BY DEF Line
  <1>2. q \in Int /\ r \in 0 .. cols - 1 /\ i - 1 = cols * q + r
    BY <1>1
  <1> HIDE DEF q, r
  <1>3. q >= 0
    <2>1. SUFFICES ASSUME q <= -1 PROVE FALSE
      BY <1>2
    <2>2. cols * q <= -cols
      BY <1>1, <1>2, <2>1
    <2>3. QED
      BY <1>1, <1>2, <2>2
  <1>4. q <= rows - 1
    <2>1. SUFFICES ASSUME q >= rows PROVE FALSE
      BY <1>1, <1>2
    <2>2. cols * q >= cols * rows
      BY <1>1, <1>2, <2>1
    <2>3. i - 1 < rows * cols
      BY <1>1
    <2>4. QED
      BY <1>1, <1>2, <2>2, <2>3
  <1>5. q * cols = cols * q
    BY <1>1, <1>2
  <1>6. QED
    BY <1>1, <1>2, <1>3, <1>4, <1>5 DEF q, r

LEMMA PlaceInList ==
  ASSUME NEW rows \in Line, NEW cols \in Line, NEW y \in 1 .. rows, NEW x \in 1 .. cols
  PROVE  (y - 1) * cols + x \in 1 .. rows * cols
  <1>1. y - 1 \in Nat /\ cols \in Nat /\ rows \in Nat /\ y - 1 <= rows - 1
    BY DEF Line
  <1>2. (y - 1) * cols \in Nat /\ (y - 1) * cols <= (rows - 1) * cols
    BY <1>1
  <1>3. (rows - 1) * cols = rows * cols - cols /\ rows * cols \in Nat
    BY <1>1
  <1>4. QED
    BY <1>1, <1>2, <1>3

LEMMA CarriedIsRead ==
  ASSUME NEW rows \in Line, NEW cols \in Line, NEW sent \in [1 .. rows * cols -> Cell],
         SetMembers(rows, cols, sent)
  PROVE  /\ GetMembers' = sent
         /\ \A y \in 1 .. rows, x \in 1 .. cols : members'[y][x] = sent[(y - 1) * cols + x]
  <1>0. rows * cols \in Nat /\ Len(sent) = rows * cols
    <2>1. rows * cols \in Nat
      BY DEF Line
    <2>2. QED
      BY <2>1
  <1>1. ASSUME NEW y \in 1 .. rows, NEW x \in 1 .. cols
        PROVE  members'[y][x] = sent[(y - 1) * cols + x]
    <2>1. y \in Line /\ x \in Line /\ ~(y > rows \/ x > cols)
      BY DEF Line
    <2>2. (y - 1) * cols + x <= Len(sent)
      BY <1>0, PlaceInList
    <2>3. members'[y][x] = MembersFrom(rows, cols, sent)[y][x]
      BY DEF SetMembers
    <2>4. QED
      BY <2>1, <2>2, <2>3 DEF MembersFrom
  <1>2. x_size' = cols /\ y_size' = rows
    BY DEF SetMembers
  <1>3. x_size' * y_size' = rows * cols
    BY <1>2 DEF Line
  <1>4. ASSUME NEW i \in 1 .. rows * cols
        PROVE  members'[((i - 1) \div cols) + 1][((i - 1) % cols) + 1] = sent[i]
    <2> DEFINE y == ((i - 1) \div cols) + 1
               x == ((i - 1) % cols) + 1
    <2>1. y \in 1 .. rows /\ x \in 1 .. cols /\ (y - 1) * cols + x = i
      <3>1. /\ (i - 1) \div cols \in 0 .. rows - 1
            /\ (i - 1) % cols \in 0 .. cols - 1
            /\ ((i - 1) \div cols) * cols + ((i - 1) % cols) = i - 1
        BY RowAndColumn
      <3>2. i \in Nat
        BY <1>0
      <3> DEFINE q == (i - 1) \div cols
                 r == (i - 1) % cols
      <3> HIDE DEF q, r
      <3>3. q \in Int /\ r \in Int /\ q * cols \in Int
        BY <3>1 DEF q, r, Line
      <3>4. q \in 0 .. rows - 1 /\ r \in 0 .. cols - 1 /\ q * cols + r = i - 1
        BY <3>1 DEF q, r
      <3>5. y = q + 1 /\ x = r + 1
        BY DEF q, r
      <3> HIDE DEF y, x
      <3>6. y \in 1 .. rows /\ x \in 1 .. cols /\ y - 1 = q
        BY <3>3, <3>4, <3>5 DEF Line
      <3>7. (y - 1) * cols = q * cols
        BY <3>6
      <3>8. (y - 1) * cols + x = i
        BY <3>2, <3>3, <3>4, <3>5, <3>7
      <3>9. QED
        BY <3>6, <3>8
    <2> HIDE DEF y, x
    <2>2. members'[y][x] = sent[i]
      BY <1>1, <2>1
    <2>3. QED
      BY <2>2 DEF y, x
  <1>5. GetMembers' = [i \in 1 .. rows * cols |-> sent[i]]
    BY <1>2, <1>3, <1>4 DEF GetMembers
  <1>6. QED
    BY <1>1, <1>5

(* The list a SetMembers carries, for a table of any size, comes back from *)
(* GetMembers in its order, and each of its members from the row and the   *)
(* column it was sent for.                                                 *)
THEOREM ListsComeBack == Spec => MembersReadBack
  <1>1. [Next]_vars =>
          [method' = "SetMembers" =>
             \A rows, cols \in Line : \A sent \in [1 .. rows * cols -> Cell] :
               SetMembers(rows, cols, sent) =>
                 /\ GetMembers' = sent
                 /\ \A y \in 1 .. rows, x \in 1 .. cols :
                      members'[y][x] = sent[(y - 1) * cols + x]]_vars
    BY CarriedIsRead
  <1>2. QED
    BY <1>1, PTL DEF Spec, MembersReadBack

-----------------------------------------------------------------------------
(* The single-value classes.                                               *)

(* The gate of aes70_object_dispatch is before every method that writes,   *)
(* but for those of the device manager.                                    *)
LEMMA ValueGate ==
  ASSUME V!TypeOK, V!Next, NEW s \in V!Controller, by' = s, kind # "manager",
         owner \notin {Nobody, s} \/ (secured /\ s = Unprivileged)
  PROVE  UNCHANGED <<field, owner>>
  <1> USE ClassesAssumption DEF ClassesAssumption, V!Controller
  <1>1. ASSUME NEW t \in V!Controller, NEW m, V!Permitted(t, m), V!IsWrite(kind, m), t = s
        PROVE  FALSE
    BY <1>1 DEF V!Permitted
  <1>2. ASSUME NEW t \in V!Controller, NEW v \in V!Input(kind), V!ControllerSet(t, v)
        PROVE  FALSE
    BY <1>1, <1>2 DEF V!ControllerSet, V!IsWrite, V!Setter, V!Actuator, V!Basic, V!Integer
  <1>3. ASSUME NEW t \in V!Controller, NEW b \in BOOLEAN, V!SetEnabled(t, b)
        PROVE  FALSE
    BY <1>1, <1>3 DEF V!SetEnabled, V!IsWrite
  <1>4. ASSUME NEW t \in V!Controller, NEW x \in V!Text, V!SetLabel(t, x) \/ V!SetAgentLabel(t, x)
        PROVE  FALSE
    BY <1>1, <1>4 DEF V!SetLabel, V!SetAgentLabel, V!IsWrite
  <1>5. ASSUME NEW t \in V!Controller, NEW x \in V!Text,
               V!SetDeviceName(t, x) \/ V!SetDeviceRole(t, x)
        PROVE  FALSE
    BY <1>5 DEF V!SetDeviceName, V!SetDeviceRole, V!SetIdentity
  <1>6. ASSUME NEW t \in V!Controller, NEW o, V!SetLock(t, o)
        PROVE  FALSE
    BY <1>1, <1>6 DEF V!SetLock, V!IsWrite
  <1>7. ASSUME NEW v, V!ApplyParameter(v) \/ V!ApplicationSet(v)
        PROVE  FALSE
    BY <1>7 DEF V!ApplyParameter, V!ApplicationSet
  <1>8. ASSUME NEW x, V!ApplicationSetLabel(x) \/ V!SetSecured(x)
        PROVE  FALSE
    BY <1>8 DEF V!ApplicationSetLabel, V!SetSecured
  <1>9. QED
    BY <1>2, <1>3, <1>4, <1>5, <1>6, <1>7, <1>8 DEF V!Next

(* What the constructors make of a range.                                  *)
LEMMA RangeFacts ==
  ASSUME V!TypeOK
  PROVE  /\ range.min \in 0 .. 1 /\ range.max \in 0 .. 2 /\ range.count \in 0 .. 2
         /\ kind \in V!TwoState => range.min = 1 /\ range.max = 2
         /\ kind \in V!Truth => range.min = 0 /\ range.max = 1
         /\ kind = "switch" =>
              /\ range.min = 0 /\ range.max \in 0 .. 1
              /\ range.count > 0 => range.max = range.count - 1
         /\ kind = "string" => range.min = 0 /\ range.max = 0
         /\ kind \in V!Real \cup V!Integer =>
              range.min = 1 /\ range.max \in 1 .. 2 /\ range.count = 0
  <1> USE DEF V!TypeOK, V!TwoState, V!Truth, V!Real, V!Sensor, V!Integer
  <1>1. range \in V!Range(kind) /\ kind \in V!Kind
    OBVIOUS
  <1>2. QED
    BY <1>1 DEF V!Range, V!Kind, V!Worker, V!Valued

Storable == V!Number \cup {V!NaN}
Record == [enabled : BOOLEAN, label : V!Text, name : V!Text, role : V!Text, value : Storable]

(* A value may be the object's: it is a number, a flag a truth value, and  *)
(* it is in the range, as far as its setter who sees to that.              *)
MayHold(who, v) ==
  /\ v \in Storable
  /\ kind \in V!Truth => v \in {0, 1}
  /\ \/ v = V!NaN /\ kind \in V!Real
     \/ /\ kind = "switch" => v <= (IF range.count > 0 THEN range.count - 1 ELSE 0)
        /\ kind = "string" => (range.count # 0 => v <= range.count)
        /\ kind \in V!Valued \ {"switch", "string"} => range.min <= v /\ v <= range.max
     \/ who = Recall /\ (range.min = range.max \/ (kind = "switch" /\ range.count = 0))
     \/ who = Application /\ (kind = "string" \/ (kind = "switch" /\ range.count = 0))

LEMMA KindSplit ==
  ASSUME V!TypeOK, kind \in V!Valued
  PROVE  \/ kind \in V!TwoState \/ kind \in V!Truth \/ kind = "switch" \/ kind = "string"
         \/ kind \in V!Real \cup V!Integer
  BY DEF V!Valued

LEMMA SetterStores ==
  ASSUME V!TypeOK, kind \in V!Actuator, NEW v \in V!Input(kind), ~V!Refused(kind, v), NEW who
  PROVE  MayHold(who, V!Stored(kind, v))
  <1> USE RangeFacts DEF V!TwoState, V!Truth, V!Real, V!Sensor, V!Integer, V!Number, V!NaN,
                         MayHold, Storable, V!Stored, V!Refused, V!Input
  <1>1. kind \in V!Valued
    BY DEF V!Actuator
  <1>2. CASE kind \in V!TwoState
    BY <1>1, <1>2
  <1>3. CASE kind \in V!Truth
    BY <1>1, <1>3
  <1>4. CASE kind = "switch"
    BY <1>1, <1>4 DEF V!LastPosition
  <1>5. CASE kind = "string"
    BY <1>1, <1>5
  <1>6. CASE kind \in V!Real \cup V!Integer
    BY <1>1, <1>6 DEF V!Below, V!Above, V!Less
  <1>7. QED
    BY <1>1, <1>2, <1>3, <1>4, <1>5, <1>6, KindSplit

LEMMA RecallStores ==
  ASSUME V!TypeOK, kind \in V!Actuator \ {"identify", "string"}, NEW v \in V!Input(kind)
  PROVE  MayHold(Recall, IF range.min < range.max THEN V!Clamp(v) ELSE v)
  <1> USE RangeFacts DEF V!TwoState, V!Truth, V!Real, V!Sensor, V!Integer, V!Number, V!NaN,
                         MayHold, Storable, V!Clamp, V!Below, V!Above, V!Less, V!Input
  <1>1. kind \in V!Valued
    BY DEF V!Actuator
  <1>2. CASE kind \in V!TwoState
    BY <1>1, <1>2
  <1>3. CASE kind \in V!Truth
    BY <1>1, <1>3
  <1>4. CASE kind = "switch"
    BY <1>1, <1>4
  <1>5. CASE kind \in V!Real \cup V!Integer
    BY <1>1, <1>5
  <1>6. QED
    BY <1>1, <1>2, <1>3, <1>4, <1>5, KindSplit

LEMMA ApplicationStores ==
  ASSUME V!TypeOK, kind \in V!Valued, NEW v \in V!ApplicationInput(kind)
  PROVE  MayHold(Application, V!Applied(kind, v))
  <1> USE RangeFacts DEF V!TwoState, V!Truth, V!Real, V!Sensor, V!Integer, V!Number, V!NaN,
                         MayHold, Storable, V!Clamp, V!Below, V!Above, V!Less, V!Input,
                         V!ApplicationInput, V!Applied, V!LastPosition
  <1>2. CASE kind \in V!TwoState
    BY <1>2
  <1>3. CASE kind \in V!Truth
    BY <1>3
  <1>4. CASE kind = "switch"
    BY <1>4
  <1>5. CASE kind = "string"
    BY <1>5
  <1>6. CASE kind \in V!Real \cup V!Integer
    BY <1>6
  <1>7. QED
    BY <1>2, <1>3, <1>4, <1>5, <1>6, KindSplit

(* A property is read from the field its setter writes.                    *)
LEMMA Announced ==
  /\ kind \in V!Valued => V!Encoded(kind, V!Primary(kind)) = "value"
  /\ V!SetterAnnounces(kind) = V!Primary(kind)
  /\ V!Encoded(kind, <<2, 1>>) = "enabled" /\ V!Encoded(kind, <<2, 3>>) = "label"
  /\ kind = "manager" => /\ V!Encoded(kind, <<3, 4>>) = "name"
                         /\ V!Encoded(kind, <<3, 6>>) = "role"
  <1>1. V!SetterAnnounces(kind) = V!Primary(kind)
    BY DEF V!SetterAnnounces, V!Primary
  <1>2. V!Primary(kind) \in {<<5, 1>>, <<4, 1>>}
    BY DEF V!Primary
  <1>3. /\ V!Primary(kind) # <<2, 1>> /\ V!Primary(kind) # <<2, 3>>
        /\ V!Primary(kind) # <<3, 4>> /\ V!Primary(kind) # <<3, 6>>
    BY <1>2
  <1>4. kind \in V!Valued => kind # "manager"
    BY DEF V!Valued, V!Real, V!Sensor, V!Integer, V!TwoState, V!Truth
  <1>5. V!Encoded(kind, <<2, 1>>) = "enabled"
    BY <1>3 DEF V!Encoded
  <1>6. V!Encoded(kind, <<2, 3>>) = "label"
    BY <1>3 DEF V!Encoded
  <1>7. kind = "manager" => V!Encoded(kind, <<3, 4>>) = "name"
    BY <1>3, <1>4 DEF V!Encoded
  <1>8. kind = "manager" => V!Encoded(kind, <<3, 6>>) = "role"
    BY <1>3, <1>4 DEF V!Encoded
  <1>9. kind \in V!Valued => V!Encoded(kind, V!Primary(kind)) = "value"
    BY <1>3, <1>4 DEF V!Encoded
  <1>10. QED
    BY <1>1, <1>5, <1>6, <1>7, <1>8, <1>9

(* What holds of a single-value object between two steps.                  *)
ValueInv == V!TypeOK /\ V!SubscriberUpToDate /\ MayHold(setBy, field.value)

(* The value is written by somebody who may, and announced.                *)
LEMMA ValueWritten ==
  ASSUME ValueInv, kind \in V!Valued, NEW who \in V!Controller \cup {Application, Recall},
         NEW w, MayHold(who, w),
         V!Set("value", w), V!Announce(V!Primary(kind)), by' = who, setBy' = who,
         UNCHANGED <<kind, range, secured, owner, relabelled>>
  PROVE  ValueInv'
  <1>1. field' = [field EXCEPT !.value = w]
    BY DEF V!Set
  <1>2. known' = [known EXCEPT !.value = V!Shown(kind, field'.value)]
    BY Announced DEF V!Announce, V!Field
  <1>3. field'.value = w /\ field \in Record /\ known \in Record
    BY <1>1 DEF ValueInv, V!TypeOK, Record, Storable
  <1>4. w \in Storable /\ V!Shown(kind, w) \in Storable /\ (kind \in V!Truth => w \in {0, 1})
    BY DEF MayHold, V!Shown, Storable, V!Number
  <1>5. field' \in Record /\ known' \in Record
    BY <1>1, <1>2, <1>3, <1>4 DEF Record
  <1>6. V!TypeOK'
    BY <1>3, <1>4, <1>5 DEF ValueInv, V!TypeOK, Record, Storable
  <1>7. V!SubscriberUpToDate'
    BY <1>1, <1>2, <1>3 DEF ValueInv, V!SubscriberUpToDate, Record, V!Shown
  <1>8. MayHold(setBy, field.value)'
    BY <1>3 DEF MayHold
  <1>9. QED
    BY <1>6, <1>7, <1>8 DEF ValueInv

(* One of the other properties is written, and announced or not.           *)
LEMMA OtherWritten ==
  ASSUME ValueInv, NEW f \in {"enabled", "label", "name", "role"}, NEW w,
         w \in (IF f = "enabled" THEN BOOLEAN ELSE V!Text),
         V!Set(f, w), by' \in V!Controller \cup {Application, Recall},
         UNCHANGED <<kind, range, secured, owner, setBy>>,
         relabelled' \in BOOLEAN,
         \/ known' = [known EXCEPT ![f] = field'[f]] /\ (f = "label" \/ UNCHANGED relabelled)
         \/ f = "label" /\ UNCHANGED known /\ (kind = "grouper" \/ relabelled')
  PROVE  ValueInv'
  <1>1. field' = [field EXCEPT ![f] = w]
    BY DEF V!Set
  <1>2. field \in Record /\ known \in Record
    BY DEF ValueInv, V!TypeOK, Record, Storable
  <1>3. field' \in Record /\ field'.value = field.value /\ field'[f] = w
    BY <1>1, <1>2 DEF Record
  <1>4. known' \in Record /\ known'.value = known.value
    BY <1>2, <1>3 DEF Record
  <1>5. V!TypeOK'
    BY <1>3, <1>4 DEF ValueInv, V!TypeOK, Record, Storable
  <1>6. V!SubscriberUpToDate'
    BY <1>1, <1>2, <1>3, <1>4 DEF ValueInv, V!SubscriberUpToDate, Record, V!Shown
  <1>7. MayHold(setBy, field.value)'
    BY <1>3 DEF ValueInv, MayHold
  <1>8. QED
    BY <1>5, <1>6, <1>7 DEF ValueInv

LEMMA NothingWritten ==
  ASSUME ValueInv, UNCHANGED <<kind, range, field, known, setBy, relabelled>>,
         by' \in V!Controller \cup {Application, Recall},
         secured' \in BOOLEAN, owner' \in V!Controller \cup {Nobody}
  PROVE  ValueInv'
  BY DEF ValueInv, V!TypeOK, V!SubscriberUpToDate, V!Shown, MayHold

LEMMA ValueStep ==
  ASSUME ValueInv, V!Next
  PROVE  ValueInv'
  <1>0. V!TypeOK
    BY DEF ValueInv
  <1>1. ASSUME NEW s \in V!Controller, NEW v \in V!Input(kind), V!ControllerSet(s, v)
        PROVE  ValueInv'
    <2>1. kind \in V!Actuator /\ kind \in V!Valued /\ ~V!Refused(kind, v)
      BY <1>1 DEF V!ControllerSet, V!Actuator
    <2>2. MayHold(s, V!Stored(kind, v))
      BY <1>0, <2>1, SetterStores
    <2>3. QED
      BY <1>1, <2>1, <2>2, ValueWritten, Announced DEF V!ControllerSet
  <1>2. ASSUME NEW v \in V!Input(kind), V!ApplyParameter(v)
        PROVE  ValueInv'
    <2>1. kind \in V!Actuator \ {"identify", "string"} /\ kind \in V!Valued
      BY <1>2 DEF V!ApplyParameter, V!Actuator
    <2>2. MayHold(Recall, IF range.min < range.max THEN V!Clamp(v) ELSE v)
      BY <1>0, <2>1, RecallStores
    <2>3. QED
      BY <1>2, <2>1, <2>2, ValueWritten DEF V!ApplyParameter
  <1>3. ASSUME NEW v \in V!ApplicationInput(kind), V!ApplicationSet(v)
        PROVE  ValueInv'
    <2>1. kind \in V!Valued
      BY <1>3 DEF V!ApplicationSet
    <2>2. MayHold(Application, V!Applied(kind, v))
      BY <1>0, <2>1, ApplicationStores
    <2>3. QED
      BY <1>3, <2>1, <2>2, ValueWritten DEF V!ApplicationSet
  <1>4. ASSUME NEW s \in V!Controller, NEW b \in BOOLEAN, V!SetEnabled(s, b)
        PROVE  ValueInv'
    <2>1. known' = [known EXCEPT !["enabled"] = field'["enabled"]]
      BY <1>4, Announced DEF V!SetEnabled, V!Announce, V!Field
    <2>2. QED
      BY <1>0, <1>4, <2>1, OtherWritten DEF V!SetEnabled, V!TypeOK
  <1>5. ASSUME NEW s \in V!Controller, NEW t \in V!Text, V!SetLabel(s, t)
        PROVE  ValueInv'
    <2>1. known' = [known EXCEPT !["label"] = field'["label"]]
      BY <1>5, Announced DEF V!SetLabel, V!Announce, V!Field
    <2>2. QED
      BY <1>0, <1>5, <2>1, OtherWritten DEF V!SetLabel, V!TypeOK
  <1>6. ASSUME NEW s \in V!Controller, NEW t \in V!Text, V!SetAgentLabel(s, t)
        PROVE  ValueInv'
    BY <1>0, <1>6, OtherWritten DEF V!SetAgentLabel, V!TypeOK
  <1>7. ASSUME NEW s \in V!Controller, NEW t \in V!Text, V!SetDeviceName(s, t)
        PROVE  ValueInv'
    <2>1. known' = [known EXCEPT !["name"] = field'["name"]]
      BY <1>7, Announced DEF V!SetDeviceName, V!SetIdentity, V!Announce, V!Field
    <2>2. QED
      BY <1>0, <1>7, <2>1, OtherWritten DEF V!SetDeviceName, V!SetIdentity, V!TypeOK
  <1>8. ASSUME NEW s \in V!Controller, NEW t \in V!Text, V!SetDeviceRole(s, t)
        PROVE  ValueInv'
    <2>1. known' = [known EXCEPT !["role"] = field'["role"]]
      BY <1>8, Announced DEF V!SetDeviceRole, V!SetIdentity, V!Announce, V!Field
    <2>2. QED
      BY <1>0, <1>8, <2>1, OtherWritten DEF V!SetDeviceRole, V!SetIdentity, V!TypeOK
  <1>9. ASSUME NEW t \in V!Text, V!ApplicationSetLabel(t)
        PROVE  ValueInv'
    BY <1>0, <1>9, OtherWritten DEF V!ApplicationSetLabel, V!TypeOK
  <1>10. ASSUME NEW s \in V!Controller, NEW o \in {s, Nobody}, V!SetLock(s, o)
         PROVE  ValueInv'
    BY <1>0, <1>10, NothingWritten DEF V!SetLock, V!TypeOK
  <1>11. ASSUME NEW b \in BOOLEAN, V!SetSecured(b)
         PROVE  ValueInv'
    BY <1>0, <1>11, NothingWritten DEF V!SetSecured, V!TypeOK
  <1>12. QED
    BY <1>1, <1>2, <1>3, <1>4, <1>5, <1>6, <1>7, <1>8, <1>9, <1>10, <1>11 DEF V!Next

LEMMA ValueStart == V!Init => ValueInv
  <1> SUFFICES ASSUME V!Init
               PROVE  ValueInv
    OBVIOUS
  <1>1. range \in V!Range(kind) /\ kind \in V!Kind
    BY DEF V!Init
  <1>2. range.min \in 0 .. 1
    BY <1>1 DEF V!Range
  <1>3. V!TypeOK
    <2>1. kind \in V!Truth => range.min = 0
      BY <1>1 DEF V!Range
    <2>2. field \in Record
      <3>1. range.min \in Storable /\ "" \in V!Text
        BY <1>2 DEF Storable, V!Number, V!Text
      <3>2. QED
        BY <3>1 DEF V!Init, Record
    <2>3. QED
      BY <1>1, <1>2, <2>1, <2>2 DEF V!Init, V!TypeOK, Record, Storable
  <1>4. V!SubscriberUpToDate
    BY <1>2, <1>3, RangeFacts DEF V!Init, V!SubscriberUpToDate, V!Shown
  <1>5. MayHold(setBy, field.value)
    <2>1. field.value = range.min /\ range.min \in Storable
      <3>1. field.value = range.min
        BY DEF V!Init
      <3>2. QED
        BY <1>2, <3>1 DEF Storable, V!Number
    <2>2. kind \in V!Valued \ {"switch", "string"} =>
            range.min <= range.max /\ range.min <= range.min
      BY <1>3, RangeFacts, KindSplit
    <2>3. QED
      BY <1>3, <2>1, <2>2, RangeFacts DEF MayHold
  <1>6. QED
    BY <1>3, <1>4, <1>5 DEF ValueInv

LEMMA ValueKnownWays == ValueInv => V!OutsideOnlyKnownWays
  BY DEF ValueInv, MayHold, V!OutsideOnlyKnownWays, V!InRange, V!LastPosition

-----------------------------------------------------------------------------
(* The multi-parameter classes.                                            *)

(* The tables agree: the property a selector announces is read from the    *)
(* field it writes, a flag is written as one, and every setter but those   *)
(* of a generator's Generating is known for a write.                       *)
TablesAgreeOn(k) ==
  /\ \A sel \in P!Selector(k) :
       /\ P!Announced(k, sel) \in P!Property(k)
       /\ P!Encoded[k][P!Announced(k, sel)] = P!FieldOf(sel)
       /\ P!FieldOf(sel) \in P!Flags => sel \in P!Flags
  /\ \A sel \in P!Settable(k) : \A v \in P!Value :
       sel # "generating" => P!IsWrite(k, P!Method(k, sel, v))

LEMMA TablesAgree == \A k \in P!Kind : TablesAgreeOn(k)
  <1> USE DEF TablesAgreeOn, P!Selector, P!PropertyTable, P!Announced, P!Property, P!Encoded,
              P!FieldOf, P!Flags, P!Settable, P!SetterTable, P!Method, P!IsWrite
  <1>1. TablesAgreeOn("dynamics")
    OBVIOUS
  <1>2. TablesAgreeOn("filter")
    OBVIOUS
  <1>3. TablesAgreeOn("peq")
    OBVIOUS
  <1>4. TablesAgreeOn("pan")
    OBVIOUS
  <1>5. TablesAgreeOn("siggen")
    OBVIOUS
  <1> HIDE DEF TablesAgreeOn
  <1>6. QED
    BY ONLY <1>1, <1>2, <1>3, <1>4, <1>5 DEF P!Kind

(* What holds of a multi-parameter object between two steps.               *)
DspInv == P!TypeOK /\ P!SubscriberUpToDate

LEMMA DspWritten ==
  ASSUME DspInv, NEW sel \in P!Selector(dspKind), NEW v \in P!Value,
         P!ParamWrite(sel, v), dspBy' \in P!Controller \cup {Application}
  PROVE  DspInv'
  <1> DEFINE f == P!FieldOf(sel)
             p == P!Announced(dspKind, sel)
             w == P!Stored(sel, v)
  <1>1. P!TypeOK /\ P!SubscriberUpToDate
    BY DEF DspInv
  <1>2. /\ p \in P!Property(dspKind) /\ P!Encoded[dspKind][p] = f
        /\ f \in P!Flags => sel \in P!Flags
    BY <1>1, TablesAgree DEF TablesAgreeOn, P!TypeOK
  <1>3. f \in P!Field(dspKind)
    BY <1>2 DEF P!Field
  <1>4. w \in P!Value /\ (sel \in P!Flags => w \in {0, 1})
    BY DEF P!Stored, P!Value
  <1>5. /\ val' = [val EXCEPT ![f] = w]
        /\ mirror' = [mirror EXCEPT ![p] = val'[P!Encoded[dspKind][p]]]
        /\ UNCHANGED <<dspKind, dspSecured>> /\ touched' = touched \cup {sel}
    BY DEF P!ParamWrite
  <1> HIDE DEF f, p, w
  <1>6. val \in [P!Field(dspKind) -> P!Value] /\ mirror \in [P!Property(dspKind) -> P!Value]
    BY <1>1 DEF P!TypeOK
  <1>7. val'[f] = w /\ mirror' = [mirror EXCEPT ![p] = w]
    BY <1>2, <1>3, <1>5, <1>6
  <1>8. P!TypeOK'
    BY <1>1, <1>2, <1>3, <1>4, <1>5, <1>6, <1>7 DEF P!TypeOK
  <1>9. ASSUME NEW g \in P!Field(dspKind)
        PROVE  \E q \in P!Property(dspKind) :
                 P!Encoded[dspKind][q] = g /\ mirror'[q] = val'[g]
    <2>1. CASE g = f
      BY <1>2, <1>6, <1>7, <2>1
    <2>2. CASE g # f
      <3>1. PICK q \in P!Property(dspKind) :
              P!Encoded[dspKind][q] = g /\ mirror[q] = val[g]
        BY <1>1 DEF P!SubscriberUpToDate
      <3>2. q # p
        BY <1>2, <2>2, <3>1
      <3>3. mirror'[q] = mirror[q] /\ val'[g] = val[g]
        BY <1>5, <1>6, <1>7, <2>2, <3>1, <3>2
      <3>4. QED
        BY <3>1, <3>3
    <2>3. QED
      BY <2>1, <2>2
  <1>10. P!SubscriberUpToDate'
    BY <1>5, <1>9 DEF P!SubscriberUpToDate
  <1>11. QED
    BY <1>8, <1>10 DEF DspInv

LEMMA DspStep ==
  ASSUME DspInv, P!Next
  PROVE  DspInv'
  <1>1. ASSUME NEW sel \in P!Selector(dspKind), NEW v \in P!Value,
               NEW s \in P!Controller, P!ControllerSet(s, sel, v)
        PROVE  DspInv'
    BY <1>1, DspWritten DEF P!ControllerSet
  <1>2. ASSUME NEW sel \in P!Selector(dspKind), NEW v \in P!Value,
               P!ApplicationSet(sel, v)
        PROVE  DspInv'
    BY <1>2, DspWritten DEF P!ApplicationSet
  <1>3. ASSUME NEW b \in BOOLEAN, P!SetSecured(b)
        PROVE  DspInv'
    BY <1>3 DEF P!SetSecured, DspInv, P!TypeOK, P!SubscriberUpToDate
  <1>4. QED
    BY <1>1, <1>2, <1>3 DEF P!Next

LEMMA DspStart == P!Init => DspInv
  <1> SUFFICES ASSUME P!Init
               PROVE  DspInv
    OBVIOUS
  <1>1. P!TypeOK
    <2>1. dspKind \in P!Kind /\ dspSecured \in BOOLEAN
      BY DEF P!Init
    <2>2. 0 \in P!Value
      BY DEF P!Value
    <2>3. val = [f \in P!Field(dspKind) |-> 0]
      BY DEF P!Init
    <2>4. mirror = [p \in P!Property(dspKind) |-> 0]
      BY DEF P!Init
    <2>5. dspBy \in P!Controller \cup {Application} /\ touched \subseteq P!Selector(dspKind)
      BY DEF P!Init
    <2>6. QED
      BY <2>1, <2>2, <2>3, <2>4, <2>5 DEF P!TypeOK
  <1>2. P!SubscriberUpToDate
    BY DEF P!Init, P!SubscriberUpToDate, P!Field
  <1>3. QED
    BY <1>1, <1>2 DEF DspInv

LEMMA DspGate ==
  ASSUME P!TypeOK, P!Next
  PROVE  P!SecuredKept
  <1> SUFFICES ASSUME dspSecured, dspBy' = Unprivileged,
                      NEW f \in P!Field(dspKind) \ {"generating"}
               PROVE  val'[f] = val[f]
    BY DEF P!SecuredKept
  <1>1. ASSUME NEW sel \in P!Selector(dspKind), NEW v \in P!Value,
               NEW s \in P!Controller, P!ControllerSet(s, sel, v)
        PROVE  val'[f] = val[f]
    <2>1. s = Unprivileged /\ sel \in P!Settable(dspKind)
      BY <1>1 DEF P!ControllerSet
    <2>2. ~P!IsWrite(dspKind, P!Method(dspKind, sel, v))
      BY <1>1, <2>1, ClassesAssumption DEF P!ControllerSet, ClassesAssumption
    <2>3. sel = "generating"
      BY <2>1, <2>2, TablesAgree DEF TablesAgreeOn, P!TypeOK
    <2>4. P!FieldOf(sel) = "generating"
      BY <2>3 DEF P!FieldOf
    <2>5. QED
      BY <1>1, <2>4 DEF P!ControllerSet, P!ParamWrite, P!TypeOK
  <1>2. ASSUME NEW sel \in P!Selector(dspKind), NEW v \in P!Value,
               P!ApplicationSet(sel, v)
        PROVE  FALSE
    BY <1>2, ClassesAssumption DEF P!ApplicationSet, ClassesAssumption
  <1>3. ASSUME NEW b \in BOOLEAN, P!SetSecured(b)
        PROVE  FALSE
    BY <1>3, ClassesAssumption DEF P!SetSecured, ClassesAssumption
  <1>4. QED
    BY <1>1, <1>2, <1>3 DEF P!Next

-----------------------------------------------------------------------------
(* The objects side by side.                                               *)
ClassesInv == TypeOK /\ ValueInv /\ DspInv /\ TextInv

LEMMA ClassesStart == ClassesInit => ClassesInv
  BY InitType, ValueStart, DspStart, TextStart
     DEF ClassesInit, MatrixInit, ValueInit, DspInit, ClassesInv

LEMMA ClassesStep ==
  ASSUME ClassesInv, [ClassesNext]_<<family, vars, valueVars, dspVars, textVars>>
  PROVE  ClassesInv'
  <1>1. ASSUME UNCHANGED vars
        PROVE  TypeOK'
    BY <1>1, NextType DEF ClassesInv
  <1>2. ASSUME UNCHANGED valueVars
        PROVE  ValueInv'
    BY <1>2 DEF ClassesInv, ValueInv, valueVars, V!TypeOK, V!SubscriberUpToDate, V!Shown, MayHold
  <1>3. ASSUME UNCHANGED dspVars
        PROVE  DspInv'
    BY <1>3 DEF ClassesInv, DspInv, dspVars, P!TypeOK, P!SubscriberUpToDate
  <1>4. ASSUME Next
        PROVE  TypeOK'
    BY <1>4, NextType DEF ClassesInv
  <1>5. ASSUME V!Next
        PROVE  ValueInv'
    BY <1>5, ValueStep DEF ClassesInv
  <1>6. ASSUME P!Next
        PROVE  DspInv'
    BY <1>6, DspStep DEF ClassesInv
  <1>7. ASSUME UNCHANGED textVars
        PROVE  TextInv'
    BY <1>7 DEF ClassesInv, TextInv, textVars, S!TypeOK
  <1>8. ASSUME S!Next
        PROVE  TextInv'
    BY <1>8, TextStep DEF ClassesInv
  <1>9. QED
    BY <1>1, <1>2, <1>3, <1>4, <1>5, <1>6, <1>7, <1>8 DEF ClassesNext, ClassesInv

LEMMA ClassesInvariant == ClassesSpec => []ClassesInv
  BY ClassesStart, ClassesStep, PTL DEF ClassesSpec

(* The values of a class have their types: a flag is a truth value, a text *)
(* fits its buffer, whoever wrote it.                                      *)
THEOREM ClassesTypeCorrect == ClassesSpec => []ClassesTypeOK
  <1>1. ClassesInv => ClassesTypeOK
    BY DEF ClassesInv, ValueInv, DspInv, TextInv, ClassesTypeOK
  <1>2. QED
    BY <1>1, ClassesInvariant, PTL

(* Texts of any length: one with the right count is read whole, none is    *)
(* read from beyond the request, and one of whole characters is answered   *)
(* so that its reader finds it and the field behind it.                    *)
THEOREM TextsSurvive == ClassesSpec => []TextsIntact
  <1>1. ClassesInv => TextsIntact
    BY TextsAreIntact DEF ClassesInv
  <1>2. QED
    BY <1>1, ClassesInvariant, PTL

(* What a subscriber was told is what the getters answer: the value of a   *)
(* single-value object, each parameter of a multi-parameter object.        *)
THEOREM SubscriberHearsEveryChange == ClassesSpec => []SubscribersKnow
  <1>1. ClassesInv => SubscribersKnow
    BY DEF ClassesInv, ValueInv, DspInv, SubscribersKnow
  <1>2. QED
    BY <1>1, ClassesInvariant, PTL

(* A value leaves its range in the known ways only: every setter of every  *)
(* class sees to its range, but for those named there.                     *)
THEOREM ValuesStayInRange == ClassesSpec => []ValueOutsideOnlyKnownWays
  <1>1. ClassesInv => ValueOutsideOnlyKnownWays
    BY ValueKnownWays DEF ClassesInv, ValueOutsideOnlyKnownWays
  <1>2. QED
    BY <1>1, ClassesInvariant, PTL

(* No session gets past the lock or the secured flag of an object, by any  *)
(* method of any class but those the list of write methods leaves out.     *)
THEOREM GateHoldsForEveryClass == ClassesSpec => GateHolds
  <1>1. ASSUME ClassesInv, ClassesNext
        PROVE  V!GateHeld /\ P!SecuredKept
    <2>1. ASSUME UNCHANGED valueVars
          PROVE  V!GateHeld
      BY <2>1 DEF V!GateHeld, valueVars
    <2>2. ASSUME UNCHANGED dspVars
          PROVE  P!SecuredKept
      BY <2>2 DEF P!SecuredKept, dspVars
    <2>3. ASSUME V!Next
          PROVE  V!GateHeld
      BY <1>1, <2>3, ValueGate DEF V!GateHeld, ClassesInv, ValueInv
    <2>4. ASSUME P!Next
          PROVE  P!SecuredKept
      BY <1>1, <2>4, DspGate DEF ClassesInv, DspInv
    <2>5. QED
      BY <1>1, <2>1, <2>2, <2>3, <2>4 DEF ClassesNext
  <1>2. ClassesInv /\ [ClassesNext]_<<family, vars, valueVars, dspVars, textVars>>
          => [V!GateHeld /\ P!SecuredKept]_<<valueVars, dspVars>>
    BY <1>1 DEF valueVars, dspVars
  <1>3. QED
    BY <1>2, ClassesInvariant, PTL DEF ClassesSpec, GateHolds
=============================================================================
