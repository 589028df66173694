---------------------------- MODULE KeepingProofs ----------------------------
(***************************************************************************)
(* Induction over the naturals for a set, which unlike a property may be the *)
(* parameter of a lemma, and with it what Keep returns for every sequence.   *)
(***************************************************************************)
EXTENDS Keeping, SequenceTheorems, WellFoundedInduction, TLAPS

(* Every set of naturals that is not empty has a least member.              *)
LEMMA LeastMember ==
    ASSUME NEW T, T \subseteq Nat, T # {}
    PROVE  \E x \in T : \A y \in T : x <= y
<1> DEFINE R == {ss \in Nat \X Nat : ss[1] < ss[2]}
<1>1. IsWellFoundedOn(R, Nat)
  BY NatLessThanWellFounded, Zenon DEF OpToRel
<1>2. PICK x \in T : \A y \in T : ~ (<<y, x>> \in R)
  <2> HIDE DEF R
  <2> QED BY <1>1, WFMin, Zenon
<1>3. ASSUME NEW y \in T PROVE x <= y
  <2>1. <<y, x>> \in R <=> y < x BY SMT
  <2> QED BY <1>2, <2>1
<1> QED BY <1>3

(* A set with 0 and with every successor has all naturals.                  *)
LEMMA SetInduction ==
    ASSUME NEW T, T \subseteq Nat, 0 \in T, \A n \in T : n + 1 \in T
    PROVE  T = Nat
<1> SUFFICES ASSUME Nat \ T # {} PROVE FALSE OBVIOUS
<1>1. PICK x \in Nat \ T : \A y \in Nat \ T : x <= y
  BY LeastMember
<1>2. x # 0 /\ x - 1 \in Nat BY <1>1
<1>3. x - 1 \in T BY <1>1, <1>2
<1> QED BY <1>1, <1>2, <1>3

(* The same up to a bound.                                                  *)
LEMMA BoundedInduction ==
    ASSUME NEW m \in Nat, NEW T, 0 \in T,
           \A n \in 0 .. m : n \in T /\ n < m => n + 1 \in T
    PROVE  0 .. m \subseteq T
<1> DEFINE U == {n \in Nat : n <= m => n \in T}
<1>1. 0 \in U OBVIOUS
<1>2. ASSUME NEW n \in U PROVE n + 1 \in U
  <2>1. n \in Nat /\ (n <= m => n \in T) OBVIOUS
  <2>2. n + 1 <= m => n \in 0 .. m /\ n < m BY <2>1
  <2> QED BY <2>1, <2>2
<1>3. U = Nat
  <2>1. U \subseteq Nat OBVIOUS
  <2> HIDE DEF U
  <2> QED BY <1>1, <1>2, <2>1, SetInduction
<1>4. ASSUME NEW n \in 0 .. m PROVE n \in T
  <2>1. n \in U BY <1>3
  <2> QED BY <2>1
<1> QED BY <1>4

-----------------------------------------------------------------------------
(* The recursion of Kept has a solution, so that Kept is one.               *)
LEMMA KeptDefined ==
    ASSUME NEW X, NEW s \in Seq(X), NEW S
    PROVE  Kept(s, S) = [i \in 0 .. Len(s) |->
              IF i = 0 THEN <<>>
              ELSE IF s[i] \in S THEN Append(Kept(s, S)[i - 1], s[i])
              ELSE Kept(s, S)[i - 1]]
<1> DEFINE Next(g, i) == IF i = 0 THEN <<>>
                         ELSE IF s[i] \in S THEN Append(g[i - 1], s[i])
                         ELSE g[i - 1]
           Solves(g, n) == g = [i \in 0 .. n |-> Next(g, i)]
           T == {n \in Nat : \E g : Solves(g, n)}
<1>1. 0 \in T
  <2>1. Solves([i \in {0} |-> <<>>], 0) OBVIOUS
  <2> HIDE DEF Solves
  <2> QED BY <2>1
<1>2. ASSUME NEW n \in T PROVE n + 1 \in T
  <2>1. n \in Nat /\ n + 1 \in Nat OBVIOUS
  <2>2. PICK g : Solves(g, n) OBVIOUS
  <2> DEFINE h == [i \in 0 .. n + 1 |-> Next(g, i)]
  <2>3. ASSUME NEW i \in 0 .. n PROVE h[i] = g[i]
    <3>1. i \in 0 .. n + 1 BY <2>1
    <3>2. h[i] = Next(g, i) BY <3>1
    <3>3. g = [j \in 0 .. n |-> Next(g, j)] BY <2>2
    <3> HIDE DEF h, Next
    <3>4. g[i] = Next(g, i) BY <3>3, Zenon
    <3> QED BY <3>2, <3>4
  <2>4. ASSUME NEW i \in 0 .. n + 1 PROVE Next(h, i) = Next(g, i)
    <3>1. i # 0 => i - 1 \in 0 .. n BY <2>1
    <3> HIDE DEF h
    <3> QED BY <2>3, <3>1
  <2>5. Solves(h, n + 1)
    <3> HIDE DEF Next
    <3> QED BY <2>4, Zenon
  <2> HIDE DEF Solves, h
  <2> QED BY <2>1, <2>5
<1>3. Len(s) \in T
  <2>1. T \subseteq Nat /\ Len(s) \in Nat OBVIOUS
  <2> HIDE DEF T
  <2> QED BY <1>1, <1>2, <2>1, SetInduction
<1>4. Kept(s, S) = CHOOSE g : Solves(g, Len(s)) BY DEF Kept
<1> HIDE DEF Solves
<1>5. Solves(Kept(s, S), Len(s)) BY <1>3, <1>4
<1> QED BY <1>5 DEF Solves

(* One turn of the loop.                                                    *)
LEMMA KeptTurn ==
    ASSUME NEW X, NEW s \in Seq(X), NEW S
    PROVE  /\ Kept(s, S)[0] = <<>>
           /\ \A i \in 1 .. Len(s) :
                 Kept(s, S)[i] = IF s[i] \in S THEN Append(Kept(s, S)[i - 1], s[i])
                                               ELSE Kept(s, S)[i - 1]
<1> DEFINE K == Kept(s, S)
<1>1. K = [i \in 0 .. Len(s) |->
              IF i = 0 THEN <<>>
              ELSE IF s[i] \in S THEN Append(K[i - 1], s[i]) ELSE K[i - 1]]
  BY KeptDefined
<1>2. Len(s) \in Nat /\ 0 \in 0 .. Len(s) OBVIOUS
<1> HIDE DEF K
<1>3. ASSUME NEW i \in 0 .. Len(s)
      PROVE  K[i] = IF i = 0 THEN <<>>
                    ELSE IF s[i] \in S THEN Append(K[i - 1], s[i]) ELSE K[i - 1]
  BY <1>1, Zenon
<1>4. K[0] = <<>> BY <1>2, <1>3
<1>5. ASSUME NEW i \in 1 .. Len(s)
      PROVE  K[i] = IF s[i] \in S THEN Append(K[i - 1], s[i]) ELSE K[i - 1]
  <2>1. i \in 0 .. Len(s) /\ i # 0 BY <1>2
  <2> QED BY <1>3, <2>1
<1> QED BY <1>4, <1>5 DEF K

(* Nothing is kept of nothing.                                              *)
LEMMA KeepNothing ==
    ASSUME NEW X, NEW s \in Seq(X), NEW S
    PROVE  Len(s) = 0 => Keep(s, S) = <<>>
<1>1. Kept(s, S)[0] = <<>> BY KeptTurn
<1> QED BY <1>1 DEF Keep

(* What is kept consists of members.                                        *)
LEMMA KeptType ==
    ASSUME NEW X, NEW s \in Seq(X), NEW S, NEW n \in 0 .. Len(s)
    PROVE  Kept(s, S)[n] \in Seq(X)
<1> DEFINE T == {i \in 0 .. Len(s) : Kept(s, S)[i] \in Seq(X)}
<1>1. Len(s) \in Nat OBVIOUS
<1>2. 0 \in T
  <2>1. Kept(s, S)[0] = <<>> BY KeptTurn
  <2>2. <<>> \in Seq(X) /\ 0 \in 0 .. Len(s) BY <1>1
  <2> QED BY <2>1, <2>2
<1>3. ASSUME NEW i \in 0 .. Len(s), i \in T, i < Len(s) PROVE i + 1 \in T
  <2>1. i + 1 \in 1 .. Len(s) /\ (i + 1) - 1 = i /\ i + 1 \in 0 .. Len(s) BY <1>1, <1>3
  <2>2. Kept(s, S)[i + 1] = IF s[i + 1] \in S THEN Append(Kept(s, S)[i], s[i + 1])
                                             ELSE Kept(s, S)[i]
    BY <2>1, KeptTurn
  <2>3. s[i + 1] \in X /\ Kept(s, S)[i] \in Seq(X) BY <1>3, <2>1
  <2>4. Kept(s, S)[i + 1] \in Seq(X) BY <2>2, <2>3, AppendProperties
  <2> QED BY <2>1, <2>4
<1>4. n \in T
  <2> HIDE DEF T
  <2> QED BY <1>1, <1>2, <1>3, BoundedInduction
<1> QED BY <1>4

(* Where the kept members come from: in order, all of S, none left out.     *)
KeptFrom(h, s, S, n) ==
    LET kept == Kept(s, S)[n] IN
    /\ h \in [1 .. Len(kept) -> 1 .. n]
    /\ \A i, j \in 1 .. Len(kept) : i < j => h[i] < h[j]
    /\ \A j \in 1 .. Len(kept) : kept[j] = s[h[j]] /\ s[h[j]] \in S
    /\ \A i \in 1 .. n : s[i] \in S => \E j \in 1 .. Len(kept) : h[j] = i

LEMMA KeptPlaces ==
    ASSUME NEW X, NEW s \in Seq(X), NEW S, NEW n \in 0 .. Len(s)
    PROVE  \E h : KeptFrom(h, s, S, n)
<1> DEFINE T == {i \in 0 .. Len(s) : \E h : KeptFrom(h, s, S, i)}
<1>1. Len(s) \in Nat OBVIOUS
<1>2. 0 \in T
  <2>1. Kept(s, S)[0] = <<>> BY KeptTurn
  <2>2. KeptFrom(<<>>, s, S, 0) BY <2>1 DEF KeptFrom
  <2> QED BY <1>1, <2>2
<1>3. ASSUME NEW i \in 0 .. Len(s), i \in T, i < Len(s) PROVE i + 1 \in T
  <2> DEFINE old == Kept(s, S)[i]
             new == Kept(s, S)[i + 1]
  <2>1. i + 1 \in 1 .. Len(s) /\ (i + 1) - 1 = i /\ i + 1 \in 0 .. Len(s) /\ i \in Nat
    BY <1>1, <1>3
  <2>2. new = IF s[i + 1] \in S THEN Append(old, s[i + 1]) ELSE old
    BY <2>1, KeptTurn
  <2>3. old \in Seq(X) /\ Len(old) \in Nat BY KeptType
  <2>4. PICK h : KeptFrom(h, s, S, i) BY <1>3
  <2> HIDE DEF old, new
  <2>5. CASE s[i + 1] \notin S
    <3>1. new = old BY <2>2, <2>5
    <3>2. KeptFrom(h, s, S, i + 1)
      BY <2>1, <2>3, <2>4, <2>5, <3>1 DEF KeptFrom, old, new
    <3> QED BY <2>1, <3>2
  <2>6. CASE s[i + 1] \in S
    <3> DEFINE m == Len(old) + 1
               g == [j \in 1 .. m |-> IF j = m THEN i + 1 ELSE h[j]]
    <3>1. new = Append(old, s[i + 1]) BY <2>2, <2>6
    <3>2. /\ Len(new) = m /\ m \in Nat /\ m >= 1
          /\ \A j \in 1 .. Len(old) : new[j] = old[j] /\ new[m] = s[i + 1]
      BY <2>3, <3>1
    <3>3. new[m] = s[i + 1] BY <2>3, <3>1
    <3>4. h \in [1 .. Len(old) -> 1 .. i] BY <2>4 DEF KeptFrom, old
    <3>5. g \in [1 .. m -> 1 .. i + 1] BY <2>1, <2>3, <3>4
    <3>6. ASSUME NEW a \in 1 .. m, NEW b \in 1 .. m, a < b PROVE g[a] < g[b]
      <4>1. a \in 1 .. Len(old) /\ g[a] = h[a] /\ h[a] \in 1 .. i BY <2>3, <3>4, <3>6
      <4>2. CASE b = m BY <2>1, <4>1, <4>2
      <4>3. CASE b # m
        <5>1. b \in 1 .. Len(old) /\ g[b] = h[b] BY <2>3, <4>3
        <5>2. h[a] < h[b] BY <2>4, <3>6, <4>1, <5>1 DEF KeptFrom, old
        <5> QED BY <4>1, <5>1, <5>2
      <4> QED BY <4>2, <4>3
    <3>7. \A j \in 1 .. m : new[j] = s[g[j]] /\ s[g[j]] \in S
      <4>1. \A j \in 1 .. Len(old) : old[j] = s[h[j]] /\ s[h[j]] \in S
        BY <2>4 DEF KeptFrom, old
      <4> QED BY <2>3, <2>6, <3>2, <3>3, <4>1
    <3>8. ASSUME NEW k \in 1 .. i + 1, s[k] \in S PROVE \E j \in 1 .. m : g[j] = k
      <4>1. CASE k = i + 1
        <5>1. m \in 1 .. m /\ g[m] = k BY <3>2, <4>1
        <5> QED BY <5>1
      <4>2. CASE k # i + 1
        <5>1. k \in 1 .. i BY <2>1, <4>2
        <5>2. PICK j \in 1 .. Len(old) : h[j] = k BY <2>4, <3>8, <5>1 DEF KeptFrom, old
        <5>3. j \in 1 .. m /\ g[j] = k BY <2>3, <5>2
        <5> QED BY <5>3
      <4> QED BY <4>1, <4>2
    <3> HIDE DEF g, m
    <3>9. KeptFrom(g, s, S, i + 1) BY <3>2, <3>5, <3>6, <3>7, <3>8 DEF KeptFrom, new
    <3> QED BY <2>1, <3>9
  <2> QED BY <2>5, <2>6
<1>4. n \in T
  <2> HIDE DEF T
  <2> QED BY <1>1, <1>2, <1>3, BoundedInduction
<1> QED BY <1>4

(* What is kept: the members in S, in the order they had.                    *)
LEMMA KeepMembers ==
    ASSUME NEW X, NEW s \in Seq(X), NEW S
    PROVE  /\ Keep(s, S) \in Seq(X)
           /\ \A i \in 1 .. Len(s) : s[i] \in S => \E j \in 1 .. Len(Keep(s, S)) : Keep(s, S)[j] = s[i]
           /\ \A j \in 1 .. Len(Keep(s, S)) :
                 Keep(s, S)[j] \in S /\ \E i \in 1 .. Len(s) : Keep(s, S)[j] = s[i]
           /\ \A i, j \in 1 .. Len(Keep(s, S)) : i < j =>
                 \E a, b \in 1 .. Len(s) : a < b /\ Keep(s, S)[i] = s[a] /\ Keep(s, S)[j] = s[b]
<1>1. Len(s) \in 0 .. Len(s) OBVIOUS
<1>2. Keep(s, S) \in Seq(X) BY <1>1, KeptType DEF Keep
<1>3. PICK h : KeptFrom(h, s, S, Len(s)) BY <1>1, KeptPlaces
<1> DEFINE kept == Keep(s, S)
<1>4. /\ h \in [1 .. Len(kept) -> 1 .. Len(s)]
      /\ \A i, j \in 1 .. Len(kept) : i < j => h[i] < h[j]
      /\ \A j \in 1 .. Len(kept) : kept[j] = s[h[j]] /\ s[h[j]] \in S
      /\ \A i \in 1 .. Len(s) : s[i] \in S => \E j \in 1 .. Len(kept) : h[j] = i
  BY <1>3, Zenon DEF KeptFrom, Keep
<1> HIDE DEF kept
<1>5. \A j \in 1 .. Len(kept) : h[j] \in 1 .. Len(s) BY <1>4
<1>6. \A i \in 1 .. Len(s) : s[i] \in S => \E j \in 1 .. Len(kept) : kept[j] = s[i]
  BY <1>4
<1>7. \A j \in 1 .. Len(kept) : kept[j] \in S /\ \E i \in 1 .. Len(s) : kept[j] = s[i]
  BY <1>4, <1>5
<1>8. \A i, j \in 1 .. Len(kept) : i < j =>
         \E a, b \in 1 .. Len(s) : a < b /\ kept[i] = s[a] /\ kept[j] = s[b]
  BY <1>4, <1>5
<1> QED BY <1>2, <1>6, <1>7, <1>8, Zenon DEF kept

(* Two loops that keep the same at each place keep the same.                *)
LEMMA KeepAlike ==
    ASSUME NEW X, NEW s \in Seq(X), NEW S, NEW Y, NEW t \in Seq(Y), NEW U,
           Len(s) = Len(t),
           \A i \in 1 .. Len(s) : /\ s[i] \in S <=> t[i] \in U
                                  /\ s[i] \in S => s[i] = t[i]
    PROVE  Keep(s, S) = Keep(t, U)
<1> DEFINE T == {i \in 0 .. Len(s) : Kept(s, S)[i] = Kept(t, U)[i]}
<1>1. Len(s) \in Nat OBVIOUS
<1>2. 0 \in T
  <2>1. Kept(s, S)[0] = <<>> /\ Kept(t, U)[0] = <<>> BY KeptTurn
  <2> QED BY <1>1, <2>1
<1>3. ASSUME NEW i \in 0 .. Len(s), i \in T, i < Len(s) PROVE i + 1 \in T
  <2>1. i + 1 \in 1 .. Len(s) /\ (i + 1) - 1 = i /\ i + 1 \in 0 .. Len(s) BY <1>1, <1>3
  <2>2. Kept(s, S)[i + 1] = IF s[i + 1] \in S THEN Append(Kept(s, S)[i], s[i + 1])
                                             ELSE Kept(s, S)[i]
    BY <2>1, KeptTurn
  <2>3. Kept(t, U)[i + 1] = IF t[i + 1] \in U THEN Append(Kept(t, U)[i], t[i + 1])
                                             ELSE Kept(t, U)[i]
    BY <2>1, KeptTurn
  <2>4. Kept(s, S)[i + 1] = Kept(t, U)[i + 1] BY <1>3, <2>1, <2>2, <2>3
  <2> QED BY <2>1, <2>4
<1>4. Len(s) \in T
  <2>1. Len(s) \in 0 .. Len(s) BY <1>1
  <2> HIDE DEF T
  <2> QED BY <1>1, <1>2, <1>3, <2>1, BoundedInduction
<1> QED BY <1>4 DEF Keep

(* Appending to a sequence that stands behind another.                      *)
LEMMA AppendBehind ==
    ASSUME NEW X, NEW a \in Seq(X), NEW b \in Seq(X), NEW e \in X
    PROVE  a \o Append(b, e) = Append(a \o b, e)
<1>1. Append(b, e) = b \o <<e>> BY AppendIsConcat
<1>2. a \o b \in Seq(X) BY ConcatProperties
<1>3. Append(a \o b, e) = (a \o b) \o <<e>> BY <1>2, AppendIsConcat
<1>4. <<e>> \in Seq(X) OBVIOUS
<1> QED BY <1>1, <1>3, <1>4, ConcatAssociative

(* What is kept of one sequence and then of another.                        *)
LEMMA KeepConcat ==
    ASSUME NEW X, NEW s \in Seq(X), NEW t \in Seq(X), NEW S
    PROVE  Keep(s \o t, S) = Keep(s, S) \o Keep(t, S)
<1> DEFINE st == s \o t
           n == Len(s)
           T == {i \in 0 .. n : Kept(st, S)[i] = Kept(s, S)[i]}
           U == {j \in 0 .. Len(t) : Kept(st, S)[n + j] = Keep(s, S) \o Kept(t, S)[j]}
<1>1. /\ n \in Nat /\ Len(t) \in Nat
      /\ st \in Seq(X) /\ Len(st) = n + Len(t)
      /\ \A i \in 1 .. n : st[i] = s[i]
      /\ \A j \in 1 .. Len(t) : st[n + j] = t[j]
  BY ConcatProperties
<1> HIDE DEF st
<1>turn. \A k \in 1 .. Len(st) :
         Kept(st, S)[k] = IF st[k] \in S THEN Append(Kept(st, S)[k - 1], st[k])
                                         ELSE Kept(st, S)[k - 1]
  <2>1. st \in Seq(X) BY <1>1
  <2> HIDE DEF n, T, U
  <2> QED BY <2>1, KeptTurn
<1>2. n \in T
  <2>1. 0 \in T
    <3>1. Kept(s, S)[0] = <<>> /\ Kept(st, S)[0] = <<>> BY <1>1, KeptTurn
    <3> QED BY <1>1, <3>1
  <2>2. ASSUME NEW i \in 0 .. n, i \in T, i < n PROVE i + 1 \in T
    <3>1. i + 1 \in 1 .. n /\ (i + 1) - 1 = i /\ i + 1 \in 0 .. n /\ i + 1 \in 1 .. Len(st)
      BY <1>1, <2>2
    <3>2. Kept(s, S)[i + 1] = IF s[i + 1] \in S THEN Append(Kept(s, S)[i], s[i + 1])
                                               ELSE Kept(s, S)[i]
      BY <3>1, KeptTurn
    <3>3. Kept(st, S)[i + 1] = IF st[i + 1] \in S THEN Append(Kept(st, S)[i], st[i + 1])
                                                 ELSE Kept(st, S)[i]
      BY <1>turn, <3>1
    <3>4. Kept(st, S)[i + 1] = Kept(s, S)[i + 1] BY <1>1, <2>2, <3>1, <3>2, <3>3
    <3> QED BY <3>1, <3>4
  <2>3. n \in 0 .. n BY <1>1
  <2> HIDE DEF T, n
  <2> QED BY <1>1, <2>1, <2>2, <2>3, BoundedInduction
<1>3. Kept(st, S)[n] = Keep(s, S) BY <1>2 DEF Keep
<1>4. Keep(s, S) \in Seq(X)
  <2>1. n \in 0 .. Len(s) BY <1>1
  <2> QED BY <2>1, KeptType DEF Keep
<1> HIDE DEF T
<1>5. Len(t) \in U
  <2>1. 0 \in U
    <3>1. Kept(t, S)[0] = <<>> BY KeptTurn
    <3>2. Keep(s, S) \o <<>> = Keep(s, S) BY <1>4
    <3>3. n + 0 = n /\ 0 \in 0 .. Len(t) BY <1>1
    <3>4. Kept(st, S)[n + 0] = Keep(s, S) \o Kept(t, S)[0] BY <1>3, <3>1, <3>2, <3>3
    <3> QED BY <3>3, <3>4
  <2>2. ASSUME NEW j \in 0 .. Len(t), j \in U, j < Len(t) PROVE j + 1 \in U
    <3>1. /\ j + 1 \in 1 .. Len(t) /\ (j + 1) - 1 = j /\ j + 1 \in 0 .. Len(t)
          /\ n + (j + 1) \in 1 .. Len(st) /\ (n + (j + 1)) - 1 = n + j
      BY <1>1, <2>2
    <3>2. Kept(t, S)[j + 1] = IF t[j + 1] \in S THEN Append(Kept(t, S)[j], t[j + 1])
                                               ELSE Kept(t, S)[j]
      BY <3>1, KeptTurn
    <3>3. Kept(st, S)[n + (j + 1)] =
             IF st[n + (j + 1)] \in S THEN Append(Kept(st, S)[n + j], st[n + (j + 1)])
                                      ELSE Kept(st, S)[n + j]
      BY <1>turn, <3>1
    <3>4. st[n + (j + 1)] = t[j + 1] /\ t[j + 1] \in X BY <1>1, <3>1
    <3>5. Kept(t, S)[j] \in Seq(X) BY KeptType
    <3>6. Keep(s, S) \o Append(Kept(t, S)[j], t[j + 1])
             = Append(Keep(s, S) \o Kept(t, S)[j], t[j + 1])
      <4>1. t[j + 1] \in X BY <3>4
      <4> QED BY <1>4, <3>5, <4>1, AppendBehind, SMTT(30), ZenonT(30)
    <3>7. Kept(st, S)[n + (j + 1)] = Keep(s, S) \o Kept(t, S)[j + 1]
      BY <2>2, <3>2, <3>3, <3>4, <3>6
    <3> QED BY <3>1, <3>7
  <2>3. Len(t) \in 0 .. Len(t) BY <1>1
  <2> HIDE DEF U, n
  <2> QED BY <1>1, <2>1, <2>2, <2>3, BoundedInduction
<1>6. Kept(st, S)[Len(st)] = Keep(s, S) \o Kept(t, S)[Len(t)] BY <1>1, <1>5
<1> QED BY <1>6 DEF Keep, st

=============================================================================
