----------------------------- MODULE CodecProofs -----------------------------
(***************************************************************************)
(* The readers and writers of text, for names, keys, addresses, tables and *)
(* reports of any length: an inductive invariant for each, which says how  *)
(* far into the text it is and what it has made of it.  The encodings join *)
(* pieces (FlattenSeq, a fold); what they are is found by induction, here  *)
(* as a least element of a set of numbers.                                 *)
(***************************************************************************)
EXTENDS Codec, FiniteSetTheorems, TLAPS

\* From the well-foundedness of strict inclusion: of 1..n, n in S, one is least.
LEMMA LeastElement ==
  ASSUME NEW S \in SUBSET Nat, S # {}
  PROVE  \E n \in S : \A m \in S : n <= m
<1> DEFINE upto == {1..n : n \in S}
<1>1. \A n \in Nat : 1..n \in FiniteSubsetsOf(Nat)
  <2> TAKE n \in Nat
  <2>1. IsFiniteSet(1..n)
    BY FS_Interval, SMT
  <2> QED BY <2>1 DEF FiniteSubsetsOf
<1>2. upto \subseteq FiniteSubsetsOf(Nat) /\ upto # {}
  BY <1>1
<1>3. IsWellFoundedOn(StrictSubsetOrdering(Nat), FiniteSubsetsOf(Nat))
  BY FS_StrictSubsetOrderingWellFounded
<1>4. PICK x \in upto : \A y \in upto : <<y, x>> \notin StrictSubsetOrdering(Nat)
  <2> HIDE DEF upto
  <2> QED BY <1>2, <1>3, WFMin
<1>5. PICK n \in S : x = 1..n
  BY <1>4
<1>6. \A m \in S : n <= m
  <2> SUFFICES ASSUME NEW m \in S, ~(n <= m) PROVE FALSE
    OBVIOUS
  <2>1. m < n /\ n \in 1..n /\ n \notin 1..m /\ 1..m \subseteq 1..n
    OBVIOUS
  <2>2. <<1..m, 1..n>> \in StrictSubsetOrdering(Nat)
    BY <2>1 DEF StrictSubsetOrdering
  <2> QED BY <2>2, <1>4, <1>5
<1> QED BY <1>6

\* Induction: a counterexample that is least has a predecessor.
LEMMA SetInduction ==
  ASSUME NEW S, 0 \in S, \A n \in Nat : n \in S => n + 1 \in S
  PROVE  Nat \subseteq S
<1> SUFFICES ASSUME Nat \ S # {} PROVE FALSE
  OBVIOUS
<1>1. PICK n \in Nat \ S : \A m \in Nat \ S : n <= m
  BY LeastElement
<1>2. n # 0 /\ n - 1 \in Nat /\ n - 1 \in S
  BY <1>1
<1>3. (n - 1) + 1 \in S
  BY <1>2
<1> QED BY <1>1, <1>2, <1>3

\* Where the elements of s and t are in s \o t.
LEMMA ConcatPlaces ==
  ASSUME NEW S, NEW s \in Seq(S), NEW t \in Seq(S), NEW r, r = s \o t
  PROVE  /\ r \in Seq(S)
         /\ Len(s) \in Nat /\ Len(t) \in Nat /\ Len(r) = Len(s) + Len(t)
         /\ \A j \in 1..Len(s) : r[j] = s[j]
         /\ \A j \in 1..Len(t) : r[Len(s) + j] = t[j]
  OBVIOUS

-----------------------------------------------------------------------------
(* The pieces of a text that is put together: piece i + 1 begins behind      *)
(* start[i].                                                                 *)

IsStarts(start, pieces) ==
  /\ start \in [0..Len(pieces) -> Nat]
  /\ start[0] = 0
  /\ \A i \in 0..(Len(pieces) - 1) : start[i + 1] = start[i] + Len(pieces[i + 1])

\* t is the pieces, each where it begins.
Places(start, pieces, t, S) ==
  /\ IsStarts(start, pieces) /\ t \in Seq(S) /\ Len(t) = start[Len(pieces)]
  /\ \A i \in 0..(Len(pieces) - 1) : \A j \in 1..Len(pieces[i + 1]) :
       start[i] + j \in 1..Len(t) /\ t[start[i] + j] = pieces[i + 1][j]

\* The first n pieces put together, in steps.
IsJoin(join, pieces, n) ==
  /\ n > 0 => join[1] = pieces[1]
  /\ \A i \in 1..(n - 1) : join[i + 1] = join[i] \o pieces[i + 1]

\* They can be put together, one after another.
LEMMA JoinExists ==
  ASSUME NEW S, NEW pieces \in Seq(Seq(S)), NEW n \in 0..Len(pieces)
  PROVE  \E join \in [1..n -> Seq(S)] : IsJoin(join, pieces, n)
<1> DEFINE T == {m \in Nat : m <= Len(pieces) =>
                    \E join \in [1..m -> Seq(S)] : IsJoin(join, pieces, m)}
<1>1. 0 \in T
  <2>1. [i \in 1..0 |-> <<>>] \in [1..0 -> Seq(S)]
    OBVIOUS
  <2>2. IsJoin([i \in 1..0 |-> <<>>], pieces, 0)
    BY DEF IsJoin
  <2> QED BY <2>1, <2>2
<1>2. ASSUME NEW m \in Nat, m \in T PROVE m + 1 \in T
  <2> SUFFICES ASSUME m + 1 <= Len(pieces)
               PROVE  \E join \in [1..(m + 1) -> Seq(S)] : IsJoin(join, pieces, m + 1)
    OBVIOUS
  <2>1. PICK join \in [1..m -> Seq(S)] : IsJoin(join, pieces, m)
    BY <1>2
  <2> DEFINE last == IF m = 0 THEN pieces[1] ELSE join[m] \o pieces[m + 1]
             longer == [i \in 1..(m + 1) |-> IF i <= m THEN join[i] ELSE last]
  <2>2. m + 1 \in 1..Len(pieces) /\ pieces[m + 1] \in Seq(S)
    OBVIOUS
  <2>3. last \in Seq(S)
    <3>1. CASE m = 0
      BY <2>2, <3>1
    <3>2. CASE m # 0
      <4>1. join[m] \in Seq(S)
        BY <3>2
      <4> QED BY <4>1, <2>2, <3>2
    <3> QED BY <3>1, <3>2
  <2>4. longer \in [1..(m + 1) -> Seq(S)]
    <3> HIDE DEF last
    <3> QED BY <2>3
  <2>5. /\ \A i \in 1..m : longer[i] = join[i]
        /\ longer[m + 1] = last
        /\ last = IF m = 0 THEN pieces[1] ELSE join[m] \o pieces[m + 1]
    <3>1. last = IF m = 0 THEN pieces[1] ELSE join[m] \o pieces[m + 1]
      OBVIOUS
    <3> HIDE DEF last
    <3>2. \A i \in 1..m : i \in 1..(m + 1) /\ i <= m
      OBVIOUS
    <3>3. m + 1 \in 1..(m + 1) /\ ~(m + 1 <= m)
      OBVIOUS
    <3>4. \A i \in 1..(m + 1) : longer[i] = IF i <= m THEN join[i] ELSE last
      OBVIOUS
    <3> QED BY <3>1, <3>2, <3>3, <3>4
  <2> HIDE DEF longer, last
  <2>6. longer[1] = pieces[1]
    <3>1. CASE m = 0
      BY <3>1, <2>5
    <3>2. CASE m # 0
      BY <3>2, <2>1, <2>5 DEF IsJoin
    <3> QED BY <3>1, <3>2
  <2>7. ASSUME NEW i \in 1..m PROVE longer[i + 1] = longer[i] \o pieces[i + 1]
    <3>1. CASE i < m
      <4>1. longer[i + 1] = join[i + 1] /\ longer[i] = join[i] /\ i \in 1..(m - 1)
        BY <3>1, <2>5
      <4> QED BY <4>1, <2>1 DEF IsJoin
    <3>2. CASE i = m
      <4>1. m # 0 /\ longer[m] = join[m]
        BY <3>2, <2>5
      <4>2. longer[m + 1] = join[m] \o pieces[m + 1]
        BY <4>1, <2>5
      <4>3. i + 1 = m + 1
        BY <3>2
      <4>4. longer[i] = longer[m] /\ longer[i + 1] = longer[m + 1] /\ pieces[i + 1] = pieces[m + 1]
        BY <4>3, <3>2
      <4> QED BY <4>1, <4>2, <4>4
    <3>3. i < m \/ i = m
      OBVIOUS
    <3> QED BY <3>1, <3>2, <3>3, Zenon
  <2>8. (m + 1) - 1 = m
    OBVIOUS
  <2> QED BY <2>4, <2>6, <2>7, <2>8 DEF IsJoin
<1> HIDE DEF T
<1>3. Nat \subseteq T
  BY <1>1, <1>2, SetInduction
<1>4. n \in Nat
  OBVIOUS
<1> QED BY <1>3, <1>4 DEF T

\* FlattenSeq is the last of its joins.
LEMMA FlattenJoins ==
  ASSUME NEW S, NEW pieces \in Seq(Seq(S)), pieces # <<>>
  PROVE  \E join \in [1..Len(pieces) -> Seq(S)] :
           IsJoin(join, pieces, Len(pieces)) /\ FlattenSeq(pieces) = join[Len(pieces)]
<1> DEFINE step(f) == [i \in 1..Len(pieces) |->
                         IF i = 1 THEN pieces[i] ELSE f[i - 1] \o pieces[i]]
           flat == CHOOSE f : f = step(f)
<1>1. PICK join \in [1..Len(pieces) -> Seq(S)] : IsJoin(join, pieces, Len(pieces))
  BY JoinExists
<1>2. join = step(join)
  <2>1. ASSUME NEW i \in 1..Len(pieces)
        PROVE  join[i] = IF i = 1 THEN pieces[i] ELSE join[i - 1] \o pieces[i]
    <3>1. CASE i = 1
      BY <3>1, <1>1 DEF IsJoin
    <3>2. CASE i # 1
      <4>1. i - 1 \in 1..(Len(pieces) - 1) /\ (i - 1) + 1 = i
        BY <3>2
      <4>2. join[(i - 1) + 1] = join[i - 1] \o pieces[(i - 1) + 1]
        BY <4>1, <1>1 DEF IsJoin
      <4> QED BY <4>1, <4>2, <3>2
    <3> QED BY <3>1, <3>2
  <2> QED BY <2>1
<1>3. flat = step(flat)
  BY <1>2
<1>4. Len(pieces) # 0
  OBVIOUS
<1>5. FlattenSeq(pieces) = flat[Len(pieces)]
  BY <1>4 DEF FlattenSeq
<1> HIDE DEF flat
<1>6. flat = [i \in 1..Len(pieces) |-> flat[i]] /\ IsJoin(flat, pieces, Len(pieces))
  <2>1. \A i \in 1..Len(pieces) :
          flat[i] = IF i = 1 THEN pieces[i] ELSE flat[i - 1] \o pieces[i]
    BY <1>3
  <2>2. flat[1] = pieces[1]
    BY <2>1, <1>4
  <2>3. ASSUME NEW i \in 1..(Len(pieces) - 1)
        PROVE  flat[i + 1] = flat[i] \o pieces[i + 1]
    <3>1. i + 1 \in 1..Len(pieces) /\ i + 1 # 1 /\ (i + 1) - 1 = i
      BY <1>4
    <3>2. flat[i + 1] = flat[(i + 1) - 1] \o pieces[i + 1]
      BY <2>1, <3>1
    <3> QED BY <3>1, <3>2
  <2> QED BY <2>2, <2>3, <1>3 DEF IsJoin
<1> DEFINE T == {m \in Nat : m + 1 \in 1..Len(pieces) => flat[m + 1] \in Seq(S)}
<1>7. 0 \in T
  <2>1. Len(pieces) > 0 /\ pieces[1] \in Seq(S)
    BY <1>4
  <2>2. flat[1] = pieces[1]
    BY <2>1, <1>6 DEF IsJoin
  <2> QED BY <2>1, <2>2
<1>8. ASSUME NEW m \in Nat, m \in T PROVE m + 1 \in T
  <2> SUFFICES ASSUME m + 2 \in 1..Len(pieces) PROVE flat[m + 2] \in Seq(S)
    OBVIOUS
  <2>0. m + 1 \in 1..(Len(pieces) - 1) /\ (m + 1) + 1 = m + 2
    BY <1>4
  <2>1. flat[m + 1] \in Seq(S) /\ pieces[m + 2] \in Seq(S)
    BY <1>8, <2>0
  <2>2. flat[m + 2] = flat[m + 1] \o pieces[m + 2]
    <3>1. flat[(m + 1) + 1] = flat[m + 1] \o pieces[(m + 1) + 1]
      BY <1>6, <2>0 DEF IsJoin
    <3> QED BY <3>1, <2>0
  <2> QED BY <2>1, <2>2
<1>9. Nat \subseteq T
  <2> HIDE DEF T
  <2> QED BY <1>7, <1>8, SetInduction
<1>10. ASSUME NEW i \in 1..Len(pieces) PROVE flat[i] \in Seq(S)
  <2>1. i - 1 \in Nat /\ (i - 1) + 1 = i
    OBVIOUS
  <2>2. i - 1 \in T
    BY <1>9, <2>1
  <2> QED BY <2>1, <2>2
<1>11. flat \in [1..Len(pieces) -> Seq(S)]
  BY <1>6, <1>10
<1> QED BY <1>5, <1>6, <1>11

\* What is put together is its pieces, each where it begins.
LEMMA FlattenStarts ==
  ASSUME NEW S, NEW pieces \in Seq(Seq(S))
  PROVE  \E start : Places(start, pieces, FlattenSeq(pieces), S)
<1>1. CASE pieces = <<>>
  <2> DEFINE none == [i \in 0..0 |-> 0]
  <2>1. FlattenSeq(pieces) = <<>> /\ Len(pieces) = 0
    BY <1>1 DEF FlattenSeq
  <2>2. IsStarts(none, pieces)
    BY <2>1 DEF IsStarts
  <2>3. <<>> \in Seq(S) /\ Len(<<>>) = none[0]
    OBVIOUS
  <2> HIDE DEF none
  <2> QED BY <2>1, <2>2, <2>3 DEF Places
<1>2. CASE pieces # <<>>
  <2> DEFINE n == Len(pieces)
             flat == FlattenSeq(pieces)
  <2>0. n \in Nat /\ n > 0 /\ \A i \in 1..n : pieces[i] \in Seq(S)
    BY <1>2
  <2>1. PICK join \in [1..n -> Seq(S)] : IsJoin(join, pieces, n) /\ flat = join[n]
    BY <1>2, FlattenJoins
  <2> DEFINE start == [i \in 0..n |-> IF i = 0 THEN 0 ELSE Len(join[i])]
  <2> HIDE DEF n, flat
  <2>2. ASSUME NEW i \in 0..(n - 1)
        PROVE  /\ start[i + 1] = start[i] + Len(pieces[i + 1])
               /\ \A j \in 1..Len(pieces[i + 1]) : join[i + 1][start[i] + j] = pieces[i + 1][j]
               /\ \A j \in 1..start[i] : join[i + 1][j] = join[i][j]
    <3>0. i + 1 \in 1..n /\ i \in Nat /\ pieces[i + 1] \in Seq(S) /\ join[i + 1] \in Seq(S)
      BY <2>0, <2>1
    <3>1. CASE i = 0
      <4>1. join[1] = pieces[1]
        BY <2>0, <2>1 DEF IsJoin
      <4>2. start[0] = 0 /\ start[1] = Len(join[1])
        BY <2>0
      <4> HIDE DEF start
      <4>3. i + 1 = 1
        BY <3>1
      <4>4. Len(join[1]) = Len(pieces[1]) /\ Len(pieces[1]) \in Nat
        BY <4>1, <4>3, <3>0
      <4>5. start[i + 1] = start[i] + Len(pieces[i + 1])
        BY <4>2, <4>3, <4>4, <3>1
      <4>6. ASSUME NEW j \in 1..Len(pieces[i + 1])
            PROVE  join[i + 1][start[i] + j] = pieces[i + 1][j]
        <5>1. start[i] + j = j
          BY <4>2, <3>1, <4>4
        <5> QED BY <5>1, <4>1, <4>3
      <4>7. 1..start[i] = {}
        BY <4>2, <3>1
      <4> QED BY <4>5, <4>6, <4>7
    <3>2. CASE i # 0
      <4>0. i \in 1..(n - 1) /\ i \in 1..n /\ i \in 0..n /\ i + 1 \in 0..n
        BY <3>0, <3>2, <2>0
      <4>1. join[i + 1] = join[i] \o pieces[i + 1] /\ join[i] \in Seq(S)
        BY <4>0, <2>1 DEF IsJoin
      <4>2. start[i] = Len(join[i]) /\ start[i + 1] = Len(join[i + 1])
        BY <4>0
      <4> HIDE DEF start
      <4> DEFINE a == join[i]
                 b == pieces[i + 1]
                 r == join[i + 1]
      <4>3. a \in Seq(S) /\ b \in Seq(S) /\ r = a \o b
        BY <4>1, <3>0
      <4> HIDE DEF a, b, r
      <4>4. /\ Len(r) = Len(a) + Len(b)
            /\ \A j \in 1..Len(b) : r[Len(a) + j] = b[j]
            /\ \A j \in 1..Len(a) : r[j] = a[j]
        BY <4>3, ConcatPlaces
      <4>5. /\ Len(join[i + 1]) = Len(join[i]) + Len(pieces[i + 1])
            /\ \A j \in 1..Len(pieces[i + 1]) : join[i + 1][Len(join[i]) + j] = pieces[i + 1][j]
            /\ \A j \in 1..Len(join[i]) : join[i + 1][j] = join[i][j]
        BY <4>4 DEF a, b, r
      <4> QED BY <4>2, <4>5
    <3> QED BY <3>1, <3>2
  <2>3. start \in [0..n -> Nat] /\ start[0] = 0 /\ Len(flat) = start[n] /\ flat \in Seq(S)
    <3>1. ASSUME NEW i \in 1..n PROVE Len(join[i]) \in Nat
      BY <2>1
    <3> QED BY <3>1, <2>0, <2>1
  <2> HIDE DEF start
  <2>4. IsStarts(start, pieces)
    BY <2>2, <2>3 DEF IsStarts, n
  <2> DEFINE Placed(m) == \A i \in 0..(m - 1) : \A j \in 1..Len(pieces[i + 1]) :
                            /\ start[i] + j \in 1..start[m]
                            /\ join[m][start[i] + j] = pieces[i + 1][j]
             T == {m \in Nat : m <= n => Placed(m)}
  <2>5. 0 \in T
    OBVIOUS
  <2> HIDE DEF Placed
  <2>6. ASSUME NEW m \in Nat, m \in T PROVE m + 1 \in T
    <3> SUFFICES ASSUME m + 1 <= n PROVE Placed(m + 1)
      OBVIOUS
    <3> SUFFICES ASSUME NEW i \in 0..((m + 1) - 1), NEW j \in 1..Len(pieces[i + 1])
                 PROVE  /\ start[i] + j \in 1..start[m + 1]
                        /\ join[m + 1][start[i] + j] = pieces[i + 1][j]
      BY Zenon DEF Placed
    <3>0. /\ m \in 0..(n - 1) /\ m \in 0..n /\ m + 1 \in 0..n /\ i \in 0..n
          /\ i + 1 \in 1..n /\ m + 1 \in 1..n
      <4>1. n \in Nat /\ m + 1 <= n /\ i \in 0..((m + 1) - 1)
        BY <2>0
      <4> QED BY <4>1
    <3>1. /\ m \in 0..(n - 1) /\ start[m] \in Nat /\ start[m + 1] \in Nat /\ start[i] \in Nat
          /\ Len(pieces[i + 1]) \in Nat /\ Len(pieces[m + 1]) \in Nat
      <4>1. pieces[i + 1] \in Seq(S) /\ pieces[m + 1] \in Seq(S)
        BY <2>0, <3>0
      <4>2. Len(pieces[i + 1]) \in Nat /\ Len(pieces[m + 1]) \in Nat
        BY <4>1
      <4>3. start[m] \in Nat /\ start[m + 1] \in Nat /\ start[i] \in Nat
        BY <2>3, <3>0
      <4> QED BY <4>2, <4>3, <3>0
    <3>2. start[m + 1] = start[m] + Len(pieces[m + 1])
      BY <3>1, <2>2
    <3>3. CASE i = m
      <4>1. join[m + 1][start[i] + j] = pieces[i + 1][j]
        BY <3>1, <3>3, <2>2
      <4>2. \A a, b \in Nat : \A l \in 1..b : a + l \in 1..(a + b)
        OBVIOUS
      <4> QED BY <4>1, <4>2, <3>1, <3>2, <3>3, Zenon
    <3>4. CASE i # m
      <4>1. i \in 0..(m - 1) /\ Placed(m)
        BY <3>0, <3>4, <2>6
      <4>2. start[i] + j \in 1..start[m] /\ join[m][start[i] + j] = pieces[i + 1][j]
        BY <4>1 DEF Placed
      <4>3. join[m + 1][start[i] + j] = join[m][start[i] + j]
        <5>1. \A l \in 1..start[m] : join[m + 1][l] = join[m][l]
          BY <3>0, <2>2
        <5> QED BY <4>2, <5>1, Zenon
      <4>4. j \in Nat /\ start[m] <= start[m + 1]
        BY <3>1, <3>2
      <4>5. start[i] + j \in 1..start[m + 1]
        <5>1. /\ start[i] + j \in 1..start[m] /\ start[m] <= start[m + 1]
              /\ start[m] \in Nat /\ start[m + 1] \in Nat
          BY <4>2, <4>4, <3>1
        <5>2. \A a, b \in Nat : a <= b => 1..a \subseteq 1..b
          OBVIOUS
        <5> QED BY <5>1, <5>2, Zenon
      <4> QED BY <4>2, <4>3, <4>5
    <3> QED BY <3>3, <3>4
  <2>7. Nat \subseteq T
    <3> HIDE DEF T
    <3> QED BY <2>5, <2>6, SetInduction
  <2>8. Placed(n)
    BY <2>7, <2>0
  <2> QED BY <2>1, <2>3, <2>4, <2>8 DEF n, flat, Placed, Places
<1> QED BY <1>1, <1>2

\* Pieces of two bytes: piece i is where its number says.
LEMMA FlattenPairs ==
  ASSUME NEW S, NEW pieces \in Seq(Seq(S)),
         \A i \in 1..Len(pieces) : Len(pieces[i]) = 2
  PROVE  /\ FlattenSeq(pieces) \in Seq(S)
         /\ Len(FlattenSeq(pieces)) = 2 * Len(pieces)
         /\ \A i \in 1..Len(pieces) : /\ FlattenSeq(pieces)[2 * i - 1] = pieces[i][1]
                                      /\ FlattenSeq(pieces)[2 * i] = pieces[i][2]
<1> DEFINE n == Len(pieces)
           flat == FlattenSeq(pieces)
<1>0. n \in Nat
  OBVIOUS
<1>1. PICK start : Places(start, pieces, flat, S)
  BY FlattenStarts
<1> HIDE DEF n, flat
<1> DEFINE T == {m \in Nat : m <= n => start[m] = 2 * m}
<1>2. 0 \in T
  BY <1>1 DEF Places, IsStarts
<1>3. ASSUME NEW m \in Nat, m \in T PROVE m + 1 \in T
  <2> SUFFICES ASSUME m + 1 <= n PROVE start[m + 1] = 2 * (m + 1)
    OBVIOUS
  <2>1. m \in 0..(n - 1) /\ m + 1 \in 1..n
    BY <1>0
  <2>2. start[m] = 2 * m
    BY <1>0, <1>3
  <2>3. start[m + 1] = start[m] + Len(pieces[m + 1]) /\ Len(pieces[m + 1]) = 2
    BY <1>1, <2>1 DEF Places, IsStarts, n
  <2> QED BY <2>2, <2>3
<1>4. Nat \subseteq T
  <2> HIDE DEF T
  <2> QED BY <1>2, <1>3, SetInduction
<1>5. ASSUME NEW i \in 1..n
      PROVE  flat[2 * i - 1] = pieces[i][1] /\ flat[2 * i] = pieces[i][2]
  <2>1. i - 1 \in 0..(n - 1) /\ (i - 1) + 1 = i /\ i - 1 <= n /\ i - 1 \in Nat
    BY <1>0
  <2>2. start[i - 1] = 2 * (i - 1)
    BY <1>4, <2>1
  <2>3. \A j \in 1..2 : flat[start[i - 1] + j] = pieces[i][j]
    <3>1. \A j \in 1..Len(pieces[(i - 1) + 1]) :
             flat[start[i - 1] + j] = pieces[(i - 1) + 1][j]
      BY <1>1, <2>1 DEF Places, n
    <3>2. Len(pieces[i]) = 2
      BY DEF n
    <3> QED BY <3>1, <3>2, <2>1
  <2>4. 2 * (i - 1) + 1 = 2 * i - 1 /\ 2 * (i - 1) + 2 = 2 * i
    OBVIOUS
  <2> QED BY <2>2, <2>3, <2>4
<1>6. start[n] = 2 * n
  BY <1>0, <1>4
<1> QED BY <1>1, <1>5, <1>6 DEF Places, n, flat

-----------------------------------------------------------------------------
(* Hex, conf_escape (sta/mod.rs:312), what the daemon makes of its result,   *)
(* and the quotes taken off a value (sta/types.rs:77).                       *)

Byte == 0..255

LEMMA HexDigits ==
  /\ \A d \in 0..15 : HexChar(d) \in HexDigit /\ HexValue(HexChar(d)) = d
  /\ \A c \in HexDigit : HexValue(c) \in 0..15 /\ c \in Byte /\ c # Quote
  BY DEF Byte, HexChar, HexDigit, HexValue, Quote

LEMMA ByteHalves ==
  ASSUME NEW b \in Byte
  PROVE  b \div 16 \in 0..15 /\ b % 16 \in 0..15 /\ 16 * (b \div 16) + (b % 16) = b
  BY DEF Byte

\* A byte becomes the digits of its halves.
LEMMA HexEncodeIs ==
  ASSUME NEW s \in Seq(Byte)
  PROVE  /\ HexEncode(s) \in Seq(HexDigit) /\ Len(HexEncode(s)) = 2 * Len(s)
         /\ \A i \in 1..Len(s) : /\ HexEncode(s)[2 * i - 1] = HexChar(s[i] \div 16)
                                 /\ HexEncode(s)[2 * i] = HexChar(s[i] % 16)
<1> DEFINE pieces == [i \in DOMAIN s |-> HexOf(s[i])]
<1>1. \A i \in 1..Len(s) : /\ HexOf(s[i]) \in Seq(HexDigit) /\ Len(HexOf(s[i])) = 2
                           /\ HexOf(s[i])[1] = HexChar(s[i] \div 16)
                           /\ HexOf(s[i])[2] = HexChar(s[i] % 16)
  <2> TAKE i \in 1..Len(s)
  <2>1. s[i] \in Byte
    OBVIOUS
  <2>2. HexChar(s[i] \div 16) \in HexDigit /\ HexChar(s[i] % 16) \in HexDigit
    BY <2>1, ByteHalves, HexDigits
  <2> QED BY <2>2 DEF HexOf
<1>2. /\ pieces \in Seq(Seq(HexDigit)) /\ Len(pieces) = Len(s)
      /\ \A i \in 1..Len(pieces) : pieces[i] = HexOf(s[i])
  BY <1>1
<1>3. HexEncode(s) = FlattenSeq(pieces)
  BY DEF HexEncode
<1> HIDE DEF pieces
<1>4. \A i \in 1..Len(pieces) : Len(pieces[i]) = 2
  BY <1>1, <1>2
<1>5. /\ FlattenSeq(pieces) \in Seq(HexDigit) /\ Len(FlattenSeq(pieces)) = 2 * Len(s)
      /\ \A i \in 1..Len(s) : /\ FlattenSeq(pieces)[2 * i - 1] = HexOf(s[i])[1]
                              /\ FlattenSeq(pieces)[2 * i] = HexOf(s[i])[2]
  <2>1. /\ FlattenSeq(pieces) \in Seq(HexDigit)
        /\ Len(FlattenSeq(pieces)) = 2 * Len(pieces)
        /\ \A i \in 1..Len(pieces) : /\ FlattenSeq(pieces)[2 * i - 1] = pieces[i][1]
                                     /\ FlattenSeq(pieces)[2 * i] = pieces[i][2]
    BY <1>2, <1>4, FlattenPairs
  <2> QED BY <1>2, <2>1, Zenon
<1> QED BY <1>1, <1>3, <1>5, Zenon

\* hex::decode undoes hex::encode.
LEMMA HexRoundTrip ==
  ASSUME NEW s \in Seq(Byte)
  PROVE  HexDecode(HexEncode(s)) = s
<1> DEFINE h == HexEncode(s)
<1>1. /\ Len(h) = 2 * Len(s)
      /\ \A i \in 1..Len(s) : /\ h[2 * i - 1] = HexChar(s[i] \div 16)
                              /\ h[2 * i] = HexChar(s[i] % 16)
  BY HexEncodeIs
<1> HIDE DEF h
<1>2. Len(h) \div 2 = Len(s)
  BY <1>1
<1>3. ASSUME NEW i \in 1..Len(s)
      PROVE  16 * HexValue(h[2 * i - 1]) + HexValue(h[2 * i]) = s[i]
  <2>1. s[i] \in Byte
    OBVIOUS
  <2>2. /\ HexValue(h[2 * i - 1]) = s[i] \div 16
        /\ HexValue(h[2 * i]) = s[i] % 16
    BY <1>1, <2>1, ByteHalves, HexDigits
  <2> QED BY <2>1, <2>2, ByteHalves
<1>4. HexDecode(h) = [i \in 1..Len(s) |-> s[i]]
  BY <1>2, <1>3 DEF HexDecode
<1> QED BY <1>4 DEF h

Special == {Quote, Backslash, 27, 10, 13, 9}

LEMMA EscapesAre ==
  /\ DOMAIN Escapes = Special
  /\ Escapes[Quote] = Quote /\ Escapes[Backslash] = Backslash
  /\ Escapes[27] = 101 /\ Escapes[10] = 110 /\ Escapes[13] = 114 /\ Escapes[9] = 116
  BY SMT DEF Escapes, Special, Quote, Backslash

\* A byte is escaped with a letter, left as it is, or escaped in hex.
LEMMA EscapedIs ==
  ASSUME NEW b \in Byte
  PROVE  /\ Escaped(b) \in Seq(Byte) /\ Len(Escaped(b)) \in {1, 2, 4}
         /\ Len(Escaped(b)) = 1 => b \notin Special /\ Escaped(b)[1] = b
         /\ Len(Escaped(b)) = 2 =>
              /\ b \in Special /\ Escaped(b)[1] = Backslash /\ Escaped(b)[2] = Escapes[b]
              /\ Escapes[b] # LowX
              /\ {x \in DOMAIN Escapes : Escapes[x] = Escapes[b]} = {b}
              /\ Escapes[b] = Quote => b = Quote
         /\ Len(Escaped(b)) = 4 =>
              /\ Escaped(b)[1] = Backslash /\ Escaped(b)[2] = LowX
              /\ Escaped(b)[3] = HexChar(b \div 16) /\ Escaped(b)[4] = HexChar(b % 16)
              /\ Escaped(b)[3] \in HexDigit /\ Escaped(b)[4] \in HexDigit
              /\ 16 * HexValue(Escaped(b)[3]) + HexValue(Escaped(b)[4]) = b
         /\ b = Quote => Len(Escaped(b)) = 2
<1>1. CASE b \in Special
  <2>1. Escaped(b) = <<Backslash, Escapes[b]>>
    BY <1>1, EscapesAre DEF Escaped
  <2>2. Escapes[b] \in Byte /\ Backslash \in Byte /\ Escapes[b] # LowX
        /\ (Escapes[b] = Quote => b = Quote)
    BY <1>1, EscapesAre DEF Special, Byte, Quote, Backslash, LowX
  <2>3. ASSUME NEW x \in Special, Escapes[x] = Escapes[b] PROVE x = b
    BY <1>1, <2>3, EscapesAre DEF Special, Quote, Backslash
  <2>4. {x \in DOMAIN Escapes : Escapes[x] = Escapes[b]} = {b}
    BY <1>1, <2>3, EscapesAre
  <2> QED BY <1>1, <2>1, <2>2, <2>4
<1>2. CASE b \notin Special /\ b \in 32..126
  <2>1. Escaped(b) = <<b>>
    BY <1>2, EscapesAre DEF Escaped
  <2>2. b # Quote
    BY <1>2 DEF Special
  <2> QED BY <1>2, <2>1, <2>2
<1>3. CASE b \notin Special /\ b \notin 32..126
  <2>1. Escaped(b) = <<Backslash, LowX, HexChar(b \div 16), HexChar(b % 16)>>
    BY <1>3, EscapesAre DEF Escaped
  <2>2. HexChar(b \div 16) \in HexDigit /\ HexChar(b % 16) \in HexDigit
    BY ByteHalves, HexDigits
  <2>3. HexChar(b \div 16) \in Byte /\ HexChar(b % 16) \in Byte
        /\ Backslash \in Byte /\ LowX \in Byte
    BY <2>2, HexDigits DEF Byte, Backslash, LowX
  <2>4. 16 * HexValue(HexChar(b \div 16)) + HexValue(HexChar(b % 16)) = b
    BY ByteHalves, HexDigits
  <2>5. b # Quote
    BY <1>3 DEF Special
  <2> QED BY <2>1, <2>2, <2>3, <2>4, <2>5
<1> QED BY <1>1, <1>2, <1>3

\* The encoding t of s: the encoding of its byte i + 1 begins behind start[i].
Encodes(start, s, t) ==
  /\ start \in [0..Len(s) -> Nat] /\ start[0] = 0
  /\ t \in Seq(Byte) /\ Len(t) = start[Len(s)]
  /\ \A i \in 0..(Len(s) - 1) :
       /\ start[i + 1] = start[i] + Len(Escaped(s[i + 1]))
       /\ \A j \in 1..Len(Escaped(s[i + 1])) :
            start[i] + j \in 1..Len(t) /\ t[start[i] + j] = Escaped(s[i + 1])[j]

\* printf_encode writes each byte of a name in turn.
LEMMA PrintfStarts ==
  ASSUME NEW s \in Seq(Byte)
  PROVE  \E start : Encodes(start, s, PrintfEncode(s))
<1> DEFINE pieces == [i \in DOMAIN s |-> Escaped(s[i])]
<1>1. \A i \in 1..Len(s) : s[i] \in Byte /\ Escaped(s[i]) \in Seq(Byte)
  BY EscapedIs
<1>2. pieces \in Seq(Seq(Byte))
  BY <1>1
<1>3. Len(pieces) = Len(s) /\ \A i \in 1..Len(s) : pieces[i] = Escaped(s[i])
  OBVIOUS
<1> DEFINE flat == FlattenSeq(pieces)
<1>4. PrintfEncode(s) = flat
  BY DEF PrintfEncode
<1> HIDE DEF pieces
<1>5. PICK start : Places(start, pieces, flat, Byte)
  BY <1>2, FlattenStarts
<1> HIDE DEF flat
<1>6. \A i \in 0..(Len(s) - 1) : pieces[i + 1] = Escaped(s[i + 1])
  BY <1>3
<1>7. Encodes(start, s, flat)
  <2>1. /\ start \in [0..Len(s) -> Nat] /\ start[0] = 0
        /\ flat \in Seq(Byte) /\ Len(flat) = start[Len(s)]
    BY <1>3, <1>5, Zenon DEF Places, IsStarts
  <2>2. ASSUME NEW i \in 0..(Len(s) - 1)
        PROVE  /\ start[i + 1] = start[i] + Len(Escaped(s[i + 1]))
               /\ \A j \in 1..Len(Escaped(s[i + 1])) :
                    start[i] + j \in 1..Len(flat) /\ flat[start[i] + j] = Escaped(s[i + 1])[j]
    <3>1. i \in 0..(Len(pieces) - 1) /\ pieces[i + 1] = Escaped(s[i + 1])
      BY <1>3, <1>6, Zenon
    <3>2. /\ start[i + 1] = start[i] + Len(pieces[i + 1])
          /\ \A j \in 1..Len(pieces[i + 1]) :
               start[i] + j \in 1..Len(flat) /\ flat[start[i] + j] = pieces[i + 1][j]
      BY <1>5, <3>1, Zenon DEF Places, IsStarts
    <3> QED BY <3>1, <3>2, Zenon
  <2> QED BY <2>1, <2>2, Zenon DEF Encodes
<1> QED BY <1>4, <1>7

\* What follows from where the bytes of s begin in its encoding t.
LEMMA EncodingEnds ==
  ASSUME NEW s \in Seq(Byte), NEW t, NEW start, Encodes(start, s, t)
  PROVE  /\ \A k \in 0..(Len(s) - 1) :
              /\ start[k] \in Nat /\ start[k + 1] \in Nat /\ s[k + 1] \in Byte
              /\ Escaped(s[k + 1]) \in Seq(Byte) /\ Len(Escaped(s[k + 1])) \in {1, 2, 4}
              /\ start[k + 1] = start[k] + Len(Escaped(s[k + 1]))
              /\ start[k] < start[k + 1] /\ start[k + 1] <= Len(t)
         /\ Len(t) \in Nat /\ Len(s) \in Nat
         /\ (s = <<>>) <=> (t = <<>>)
<1>1. ASSUME NEW k \in 0..(Len(s) - 1)
      PROVE  /\ start[k] \in Nat /\ start[k + 1] \in Nat /\ s[k + 1] \in Byte
             /\ Escaped(s[k + 1]) \in Seq(Byte) /\ Len(Escaped(s[k + 1])) \in {1, 2, 4}
             /\ start[k + 1] = start[k] + Len(Escaped(s[k + 1]))
             /\ start[k] < start[k + 1] /\ start[k + 1] <= Len(t)
  <2>1. k \in 0..Len(s) /\ k + 1 \in 0..Len(s) /\ k + 1 \in 1..Len(s) /\ s[k + 1] \in Byte
    OBVIOUS
  <2>2. start[k] \in Nat /\ start[k + 1] \in Nat
    BY <2>1 DEF Encodes
  <2> DEFINE piece == Escaped(s[k + 1])
             l == Len(piece)
  <2>3. piece \in Seq(Byte) /\ l \in {1, 2, 4}
    BY <2>1, EscapedIs
  <2>4. /\ start[k + 1] = start[k] + l
        /\ \A j \in 1..l : start[k] + j \in 1..Len(t)
    BY DEF Encodes
  <2>5. Len(t) \in Nat
    BY DEF Encodes
  <2>6. start[k] < start[k + 1] /\ start[k + 1] <= Len(t)
    <3> HIDE DEF l
    <3>1. l \in 1..l /\ l > 0
      BY <2>3
    <3>2. start[k] + l \in 1..Len(t)
      BY <3>1, <2>4
    <3> QED BY <3>1, <3>2, <2>2, <2>4, <2>5
  <2> HIDE DEF l
  <2>7. start[k + 1] = start[k] + l
    BY <2>4
  <2> QED BY <2>1, <2>2, <2>3, <2>6, <2>7 DEF l
<1>2. Len(t) \in Nat /\ Len(s) \in Nat /\ t \in Seq(Byte)
  BY DEF Encodes
<1>3. s = <<>> => t = <<>>
  BY <1>2 DEF Encodes
<1>4. s # <<>> => t # <<>>
  <2> SUFFICES ASSUME s # <<>> PROVE Len(t) > 0
    BY <1>2
  <2>1. 0 \in 0..(Len(s) - 1)
    BY <1>2
  <2> QED BY <2>1, <1>1, <1>2
<1> QED BY <1>1, <1>2, <1>3, <1>4

\* What is between the quotes, and the quotes.
LEMMA QuotedIs ==
  ASSUME NEW s \in Seq(Byte)
  PROVE  /\ Quoted(s) \in Seq(Byte) /\ Len(Quoted(s)) = Len(s) + 2 /\ Len(s) \in Nat
         /\ Quoted(s)[1] = Quote /\ Quoted(s)[Len(s) + 2] = Quote
         /\ \A i \in 2..(Len(s) + 1) : Quoted(s)[i] = s[i - 1]
         /\ FieldBytes(Quoted(s)) = s
<1> DEFINE f == Quoted(s)
<1>1. Quote \in Byte
  BY DEF Quote, Byte
<1>2. f = <<Quote>> \o s \o <<Quote>>
  BY DEF Quoted
<1>3. /\ f \in Seq(Byte) /\ Len(f) = Len(s) + 2 /\ Len(s) \in Nat
      /\ f[1] = Quote /\ f[Len(s) + 2] = Quote
      /\ \A i \in 2..(Len(s) + 1) : f[i] = s[i - 1]
  BY <1>1, <1>2
<1> HIDE DEF f
<1>4. FieldBytes(f) = SubSeq(f, 2, Len(f) - 1)
  BY <1>3 DEF FieldBytes
<1>5. SubSeq(f, 2, Len(f) - 1) = s
  <2> DEFINE n == Len(s)
             g == SubSeq(f, 2, n + 1)
  <2>1. n \in Nat /\ Len(f) - 1 = n + 1
    BY <1>3
  <2>2. s = [i \in 1..n |-> s[i]]
    OBVIOUS
  <2>3. \A i \in 1..n : f[2 + i - 1] = s[i]
    <3> TAKE i \in 1..n
    <3>1. i + 1 \in 2..(n + 1) /\ (i + 1) - 1 = i /\ 2 + i - 1 = i + 1
      BY <2>1
    <3> QED BY <1>3, <3>1
  <2> HIDE DEF n
  <2>4. (n + 1) - 2 + 1 = n
    BY <2>1
  <2>5. g = [i \in 1..n |-> f[2 + i - 1]]
    BY <2>1, <2>4
  <2> HIDE DEF g
  <2>6. g = s
    BY <2>2, <2>3, <2>5
  <2> QED BY <2>1, <2>6 DEF g
<1> QED BY <1>3, <1>4, <1>5 DEF f

\* conf_escape, read by the daemon, is the name as it was given.
LEMMA ConfRoundTrip ==
  ASSUME NEW s \in Seq(Byte)
  PROVE  FieldBytes(ConfEscape(s)) = s
<1>1. CASE Every(s, (33..126) \ {Quote})
  BY <1>1, QuotedIs DEF ConfEscape
<1>2. CASE ~Every(s, (33..126) \ {Quote})
  <2> DEFINE h == HexEncode(s)
  <2>1. h \in Seq(HexDigit)
    BY HexEncodeIs
  <2>2. ConfEscape(s) = h
    BY <1>2 DEF ConfEscape
  <2> HIDE DEF h
  <2>3. Len(h) >= 2 => h[1] # Quote
    <3>1. Len(h) >= 2 => h[1] \in HexDigit
      BY <2>1
    <3> QED BY <3>1, HexDigits
  <2>4. FieldBytes(h) = HexDecode(h)
    BY <2>3 DEF FieldBytes
  <2> QED BY <2>2, <2>4, HexRoundTrip DEF h
<1> QED BY <1>1, <1>2

\* The quotes come off up to the first and the last byte that is none.
LEMMA TrimmedIs ==
  ASSUME NEW f \in Seq(Byte), NEW low \in DOMAIN f, NEW high \in DOMAIN f,
         f[low] # Quote, f[high] # Quote,
         \A i \in DOMAIN f : f[i] # Quote => low <= i /\ i <= high
  PROVE  TrimQuotes(f) = SubSeq(f, low, high)
<1> DEFINE kept == {i \in DOMAIN f : f[i] # Quote}
           least == CHOOSE i \in kept : \A j \in kept : i <= j
           greatest == CHOOSE i \in kept : \A j \in kept : i >= j
<1>1. /\ low \in kept /\ high \in kept /\ kept \subseteq Nat
      /\ \A i \in kept : low <= i /\ high >= i
  OBVIOUS
<1>2. TrimQuotes(f) = SubSeq(f, least, greatest)
  BY <1>1 DEF TrimQuotes
<1> HIDE DEF kept
<1>3. least = low
  <2>1. least \in kept /\ \A j \in kept : least <= j
    BY <1>1
  <2> HIDE DEF least
  <2> QED BY <1>1, <2>1
<1>4. greatest = high
  <2>1. greatest \in kept /\ \A j \in kept : greatest >= j
    BY <1>1
  <2> HIDE DEF greatest
  <2> QED BY <1>1, <2>1
<1> QED BY <1>2, <1>3, <1>4

LEMMA TrimmedNothing ==
  ASSUME NEW f \in Seq(Byte), \A i \in DOMAIN f : f[i] = Quote
  PROVE  TrimQuotes(f) = <<>>
  BY DEF TrimQuotes

\* Off a text without quotes at its ends come the quotes it was put in, or none.
LEMMA TrimQuotesIs ==
  ASSUME NEW s \in Seq(Byte), s # <<>> => s[1] # Quote /\ s[Len(s)] # Quote
  PROVE  TrimQuotes(s) = s /\ TrimQuotes(Quoted(s)) = s
<1> DEFINE n == Len(s)
           f == Quoted(s)
<1>1. /\ f \in Seq(Byte) /\ Len(f) = n + 2 /\ n \in Nat /\ f[1] = Quote /\ f[n + 2] = Quote
      /\ \A i \in 2..(n + 1) : f[i] = s[i - 1]
      /\ FieldBytes(f) = s
  BY QuotedIs
<1>2. DOMAIN f = 1..(n + 2) /\ DOMAIN s = 1..n /\ (s = <<>> <=> n = 0)
  BY <1>1
<1>3. SubSeq(f, 2, n + 1) = s /\ SubSeq(s, 1, n) = s
  <2>1. (n + 2) - 1 = n + 1 /\ n + 2 >= 2
    BY <1>1
  <2>2. SubSeq(f, 2, n + 1) = s
    BY <1>1, <2>1 DEF FieldBytes
  <2> QED BY <2>2
<1> HIDE DEF f, n
<1>4. CASE n = 0
  <2>1. \A i \in DOMAIN f : i = 1 \/ i = n + 2
    BY <1>2, <1>4
  <2>2. TrimQuotes(f) = <<>>
    BY <1>1, <2>1, TrimmedNothing
  <2>3. s = <<>> /\ TrimQuotes(s) = <<>>
    <3>1. s = <<>> /\ DOMAIN s = {}
      BY <1>2, <1>4
    <3>2. \A i \in DOMAIN s : s[i] = Quote
      BY <3>1
    <3> QED BY <3>1, <3>2, TrimmedNothing
  <2> QED BY <2>2, <2>3 DEF f
<1>5. CASE n # 0
  <2>1. s[1] # Quote /\ s[n] # Quote /\ 1 \in DOMAIN s /\ n \in DOMAIN s
        /\ \A i \in DOMAIN s : 1 <= i /\ i <= n
    BY <1>1, <1>2, <1>5 DEF n
  <2>2. TrimQuotes(s) = SubSeq(s, 1, n)
    BY <2>1, TrimmedIs
  <2>3. /\ 2 \in DOMAIN f /\ n + 1 \in DOMAIN f /\ 2 \in 2..(n + 1) /\ n + 1 \in 2..(n + 1)
        /\ 2 - 1 = 1 /\ (n + 1) - 1 = n
        /\ \A i \in DOMAIN f : (2 <= i /\ i <= n + 1) \/ i = 1 \/ i = n + 2
    BY <1>1, <1>2, <1>5
  <2>4. f[2] # Quote /\ f[n + 1] # Quote
    BY <1>1, <2>1, <2>3
  <2>5. \A i \in DOMAIN f : f[i] # Quote => 2 <= i /\ i <= n + 1
    BY <1>1, <2>3
  <2>6. TrimQuotes(f) = SubSeq(f, 2, n + 1)
    BY <1>1, <2>3, <2>4, <2>5, TrimmedIs
  <2> QED BY <1>3, <2>2, <2>6 DEF f
<1> QED BY <1>4, <1>5

\* A text of ASCII is UTF-8.
LEMMA AsciiIsUtf8 ==
  ASSUME NEW s \in Seq(Byte), Every(s, 0..127)
  PROVE  Utf8(s)
<1> DEFINE single(b) == b \in (0..127) \cup (194..244) /\ b \notin 128..191 /\ Follow(b) = 0
<1>1. \A b \in 0..127 : single(b)
  BY DEF Follow
<1>2. \A i \in DOMAIN s : s[i] \in 0..127
  BY DEF Every
<1> HIDE DEF single
<1>3. \A i \in DOMAIN s : single(s[i])
  BY <1>1, <1>2, Zenon
<1>4. ASSUME NEW i \in DOMAIN s
      PROVE  s[i] \in (0..127) \cup (194..244) /\ s[i] \notin 128..191 /\ Inside(s, i) = {}
  <2>1. single(s[i]) /\ i \in Nat
    <3>1. single(s[i])
      BY <1>3, Zenon
    <3>2. i \in 1..Len(s)
      OBVIOUS
    <3> QED BY <3>1, <3>2
  <2>2. s[i] \in (0..127) \cup (194..244) /\ s[i] \notin 128..191 /\ Follow(s[i]) = 0
    BY <2>1, Zenon DEF single
  <2>3. Inside(s, i) = (i + 1)..(i + 0)
    BY <2>2, Zenon DEF Inside
  <2>4. (i + 1)..(i + 0) = {}
    BY <2>1
  <2>5. Inside(s, i) = {}
    BY <2>3, <2>4
  <2> QED BY <2>2, <2>5
<1>5. Begins(s) = DOMAIN s
  <2>1. \A i \in DOMAIN s : s[i] \notin 128..191
    BY <1>4
  <2> QED BY <2>1, Zenon DEF Begins
<1>6. \A i \in Begins(s) : IsCharacter(s, i)
  <2> TAKE i \in Begins(s)
  <2>1. s[i] \in (0..127) \cup (194..244) /\ Inside(s, i) = {}
    BY <1>4, <1>5
  <2> QED BY <2>1, Zenon DEF IsCharacter
<1>7. DOMAIN s \ Begins(s) = {}
  BY <1>5
<1>8. \A i \in DOMAIN s \ Begins(s) : \E j \in Begins(s) : i \in Inside(s, j)
  BY <1>7, Zenon
<1> QED BY <1>6, <1>8, Zenon DEF Utf8

-----------------------------------------------------------------------------
(* unprintf. *)

\* What unprintf is given is the first m bytes of the encoding of the name: all
\* of it, but for what the buffer has cut off.
Within(start, m, s, c, t) ==
  /\ Encodes(start, s, PrintfEncode(s))
  /\ m \in 0..Len(PrintfEncode(s))
  /\ t = SubSeq(PrintfEncode(s), 1, m)
  /\ ~c => m = Len(PrintfEncode(s))

\* It has read the first k bytes of the name and is where the next one begins;
\* it refuses the text only where that is not all there, or for what it has read.
ReadTo(start, m, k, s, u, at_, v) ==
  /\ k \in 0..Len(s) /\ u = SubSeq(s, 1, k) /\ at_ = start[k] + 1 /\ start[k] <= m
  /\ v \in {"going", "Ok", "NonUtf8Escape", "IncompleteEscape"}
  /\ v = "Ok" => start[k] = m
  /\ v = "NonUtf8Escape" => start[k] = m /\ ~Utf8(u)
  /\ v = "IncompleteEscape" => k < Len(s) /\ start[k] < m /\ m < start[k + 1]

\* What a name that was set is listed as, and the names that can be said of.
Listed(s) == IF Every(s, 32..126) THEN s ELSE HexEncode(s)
Listable(s) == Every(s, 32..126) => SurvivesUnprintf(s)

\* A text of ASCII without escapes is read as it is, to its end.
ReadPlain(listed, t, u, at_, v) ==
  /\ t = listed /\ t \in Seq(Byte) /\ Every(t, (0..127) \ {Backslash})
  /\ at_ \in 1..(Len(t) + 1) /\ u = SubSeq(t, 1, at_ - 1)
  /\ v \in {"going", "Ok"} /\ (v = "Ok" => at_ = Len(t) + 1)

\* The result of a scan or its beginning is being read, or a name that was set.
SsidInv ==
  /\ ssid \in Seq(Byte) /\ path \in {"get", "scan", "any"} /\ cut \in BOOLEAN
  /\ path # "scan" => ~cut
  /\ path = "scan" => \E start, m, k : /\ Within(start, m, ssid, cut, text)
                                      /\ ReadTo(start, m, k, ssid, unescaped, pos, verdict)
  /\ path = "get" /\ Listable(ssid) => ReadPlain(Listed(ssid), text, unescaped, pos, verdict)

LEMMA NamesAreBytes == Names \subseteq Seq(Byte)
<1>1. ASSUME NEW n \in 0..MaxLen PROVE [1..n -> Bytes] \subseteq Seq(Byte)
  <2>1. n \in Nat /\ Bytes \subseteq Byte
    BY SsidAssumption DEF Byte
  <2> QED BY <2>1
<1> QED BY <1>1 DEF Names, BoundedSeq, SeqOf

\* The daemon's text of a name that was set, without its quotes.
LEMMA GivenIs ==
  ASSUME NEW s \in Seq(Byte), Listable(s)
  PROVE  /\ Given("get", Reply("get", s)) = Listed(s)
         /\ Listed(s) \in Seq(Byte) /\ Every(Listed(s), (0..127) \ {Backslash})
<1>1. Given("get", Reply("get", s)) = TrimQuotes(FieldText(s))
  BY ConfRoundTrip DEF Given, Reply
<1>2. CASE Every(s, 32..126)
  <2>1. Listed(s) = s /\ FieldText(s) = Quoted(s)
    BY <1>2 DEF Listed, FieldText
  <2>2. /\ s # <<>> => s[1] # Quote /\ s[Len(s)] # Quote
        /\ Every(s, (0..255) \ {Backslash})
    BY <1>2 DEF Listable, SurvivesUnprintf
  <2>3. Every(s, (0..127) \ {Backslash})
    BY <1>2, <2>2 DEF Every
  <2> QED BY <1>1, <2>1, <2>2, <2>3, TrimQuotesIs
<1>3. CASE ~Every(s, 32..126)
  <2> DEFINE h == HexEncode(s)
  <2>1. Listed(s) = h /\ FieldText(s) = h
    BY <1>3 DEF Listed, FieldText
  <2>2. h \in Seq(HexDigit)
    BY HexEncodeIs
  <2> HIDE DEF h
  <2>3. \A c \in HexDigit : c \in (0..127) \ {Backslash} /\ c \in Byte /\ c # Quote
    BY DEF HexDigit, Backslash, Byte, Quote
  <2>4. \A i \in DOMAIN h : h[i] \in HexDigit
    BY <2>2
  <2>5. h \in Seq(Byte) /\ Every(h, (0..127) \ {Backslash})
    <3>1. HexDigit \subseteq Byte
      BY <2>3
    <3>2. h \in Seq(Byte)
      BY <2>2, <3>1
    <3> QED BY <2>3, <2>4, <3>2 DEF Every
  <2>6. h # <<>> => h[1] # Quote /\ h[Len(h)] # Quote
    <3>1. h # <<>> => 1 \in DOMAIN h /\ Len(h) \in DOMAIN h
      BY <2>2
    <3> QED BY <2>3, <2>4, <3>1
  <2> QED BY <1>1, <2>1, <2>5, <2>6, TrimQuotesIs
<1> QED BY <1>2, <1>3

LEMMA SsidBegins == SsidInit => SsidInv
<1> SUFFICES ASSUME SsidInit PROVE SsidInv
  OBVIOUS
<1>1. /\ ssid \in Seq(Byte) /\ path \in {"get", "scan", "any"} /\ cut \in BOOLEAN
      /\ path # "scan" => ~cut
      /\ pos = 1 /\ unescaped = <<>> /\ verdict = "going"
  BY NamesAreBytes DEF SsidInit
<1>2. ASSUME path = "scan"
      PROVE  \E start, m, k : /\ Within(start, m, ssid, cut, text)
                              /\ ReadTo(start, m, k, ssid, unescaped, pos, verdict)
  <2> DEFINE t == PrintfEncode(ssid)
  <2>1. PICK start : Encodes(start, ssid, t)
    BY <1>1, PrintfStarts
  <2>2. /\ start \in [0..Len(ssid) -> Nat] /\ start[0] = 0 /\ Len(ssid) \in Nat
        /\ t \in Seq(Byte) /\ Len(t) \in Nat
    BY <1>1, <2>1 DEF Encodes
  <2>3. \/ ~cut /\ text = t
        \/ cut /\ \E n \in 0..(Len(t) - 1) : text = SubSeq(t, 1, n)
    BY <1>2 DEF SsidInit, Reply, Given
  <2> HIDE DEF t
  <2>4. PICK m \in 0..Len(t) : text = SubSeq(t, 1, m) /\ (~cut => m = Len(t))
    <3>1. CASE ~cut
      <4>1. t = SubSeq(t, 1, Len(t)) /\ Len(t) \in 0..Len(t)
        BY <2>2
      <4> QED BY <3>1, <4>1, <2>3, Zenon
    <3>2. CASE cut
      <4>1. \A n \in 0..(Len(t) - 1) : n \in 0..Len(t)
        BY <2>2
      <4> QED BY <3>2, <4>1, <2>3, Zenon
    <3> QED BY <3>1, <3>2
  <2>5. Within(start, m, ssid, cut, text)
    BY <2>1, <2>4 DEF Within, t
  <2>6. SubSeq(ssid, 1, 0) = <<>> /\ 0 \in 0..Len(ssid) /\ start[0] = 0 /\ 0 <= m
    BY <1>1, <2>2, <2>4
  <2>7. ReadTo(start, m, 0, ssid, unescaped, pos, verdict)
    BY <1>1, <2>6 DEF ReadTo
  <2> QED BY <2>5, <2>7
<1>3. ASSUME path = "get", Listable(ssid)
      PROVE  ReadPlain(Listed(ssid), text, unescaped, pos, verdict)
  <2>1. text = Given("get", Reply("get", ssid))
    BY <1>1, <1>3 DEF SsidInit
  <2>2. text = Listed(ssid) /\ text \in Seq(Byte) /\ Every(text, (0..127) \ {Backslash})
    BY <1>1, <1>3, <2>1, GivenIs
  <2>3. Len(text) \in Nat /\ SubSeq(text, 1, 0) = <<>>
    BY <2>2
  <2>4. 1 \in 1..(Len(text) + 1) /\ 1 - 1 = 0
    BY <2>3
  <2> QED BY <1>1, <2>2, <2>3, <2>4 DEF ReadPlain
<1> QED BY <1>1, <1>2, <1>3 DEF SsidInv

\* Where it is between two bytes of the name, what comes next is the escaped
\* form of the next byte, as far as it has not been cut off.
LEMMA NextPiece ==
  ASSUME NEW s \in Seq(Byte), NEW c, NEW t, NEW start, NEW m, NEW k \in 0..Len(s),
         Within(start, m, s, c, t), start[k] < m
  PROVE  /\ k < Len(s) /\ k + 1 \in 0..Len(s) /\ s[k + 1] \in Byte
         /\ start[k] \in Nat /\ m \in Nat /\ Len(t) = m
         /\ Len(Escaped(s[k + 1])) \in {1, 2, 4}
         /\ start[k + 1] = start[k] + Len(Escaped(s[k + 1]))
         /\ \A j \in 1..Len(Escaped(s[k + 1])) :
              start[k] + j <= m => t[start[k] + j] = Escaped(s[k + 1])[j]
<1> DEFINE e == PrintfEncode(s)
<1>1. /\ Encodes(start, s, e) /\ e \in Seq(Byte) /\ Len(e) = start[Len(s)]
      /\ m \in 0..Len(e) /\ t = SubSeq(e, 1, m)
  BY DEF Within, Encodes
<1>2. Len(s) \in Nat /\ Len(e) \in Nat
  BY <1>1
<1> HIDE DEF e
<1>3. k < Len(s)
  <2> SUFFICES ASSUME k = Len(s) PROVE FALSE
    BY <1>2
  <2> QED BY <1>1, <1>2
<1>4. k \in 0..(Len(s) - 1) /\ k + 1 \in 0..Len(s) /\ m \in Nat
  BY <1>1, <1>2, <1>3
<1>5. /\ start[k] \in Nat /\ s[k + 1] \in Byte /\ Len(Escaped(s[k + 1])) \in {1, 2, 4}
      /\ start[k + 1] = start[k] + Len(Escaped(s[k + 1]))
  BY <1>1, <1>4, EncodingEnds
<1>6. \A j \in 1..Len(Escaped(s[k + 1])) : e[start[k] + j] = Escaped(s[k + 1])[j]
  BY <1>1, <1>4 DEF Encodes
<1>7. Len(t) = m /\ \A i \in 1..m : t[i] = e[i]
  BY <1>1, <1>2
<1>8. ASSUME NEW j \in 1..Len(Escaped(s[k + 1])), start[k] + j <= m
      PROVE  t[start[k] + j] = Escaped(s[k + 1])[j]
  <2>1. j \in Nat /\ j >= 1
    BY <1>5
  <2>2. start[k] + j \in 1..m
    BY <1>4, <1>5, <1>8, <2>1
  <2> QED BY <1>6, <1>7, <2>2
<1> QED BY <1>3, <1>4, <1>5, <1>7, <1>8

\* A step that reads the next byte b of the name, all of whose escaped form is there.
LEMMA PushReads ==
  ASSUME NEW s \in Seq(Byte), NEW start, NEW m, NEW k, NEW u, NEW at_,
         ReadTo(start, m, k, s, u, at_, "going"), k < Len(s), m \in Nat,
         start[k] \in Nat, NEW l \in Nat, start[k + 1] = start[k] + l, start[k] + l <= m
  PROVE  ReadTo(start, m, k + 1, s, Append(u, s[k + 1]), at_ + l, "going")
<1>1. k \in 0..Len(s) /\ u = SubSeq(s, 1, k) /\ at_ = start[k] + 1 /\ Len(s) \in Nat
  BY DEF ReadTo
<1>2. Append(SubSeq(s, 1, k), s[k + 1]) = SubSeq(s, 1, k + 1)
  BY <1>1
<1>3. k + 1 \in 0..Len(s)
  BY <1>1
<1>4. (start[k] + 1) + l = (start[k] + l) + 1
  OBVIOUS
<1>5. at_ + l = start[k + 1] + 1 /\ start[k + 1] <= m
  BY <1>1, <1>4
<1> QED BY <1>1, <1>2, <1>3, <1>5 DEF ReadTo

\* A text without escapes is read byte by byte.
LEMMA PlainMoves ==
  ASSUME NEW listed, ReadPlain(listed, text, unescaped, pos, verdict), SsidNext
  PROVE  ReadPlain(listed, text', unescaped', pos', verdict')
<1>1. /\ text = listed /\ text \in Seq(Byte) /\ Every(text, (0..127) \ {Backslash})
      /\ pos \in 1..(Len(text) + 1) /\ unescaped = SubSeq(text, 1, pos - 1)
      /\ Len(text) \in Nat
  BY DEF ReadPlain
<1>2. ~AtEscape
  <2>1. pos <= Len(text) => pos \in DOMAIN text
    BY <1>1
  <2> QED BY <1>1, <2>1 DEF AtEscape, Going, Every
<1>3. Plain \/ End
  BY <1>2 DEF SsidNext, Escape, HexEscape, Incomplete
<1>4. CASE Plain
  <2>1. /\ unescaped' = Append(unescaped, text[pos]) /\ pos' = pos + 1
        /\ text' = text /\ verdict' = verdict /\ verdict = "going" /\ pos <= Len(text)
    BY <1>4 DEF Plain, Going, Push
  <2>2. Append(SubSeq(text, 1, pos - 1), text[pos]) = SubSeq(text, 1, pos)
    BY <1>1, <2>1
  <2>3. pos + 1 \in 1..(Len(text) + 1) /\ (pos + 1) - 1 = pos
    BY <1>1, <2>1
  <2> QED BY <1>1, <2>1, <2>2, <2>3 DEF ReadPlain
<1>5. CASE End
  <2>1. /\ pos > Len(text) /\ UNCHANGED <<text, unescaped, pos>>
        /\ verdict' = IF Utf8(unescaped) THEN "Ok" ELSE "NonUtf8Escape"
    BY <1>5 DEF End, Give
  <2>2. pos = Len(text) + 1 /\ unescaped = text
    <3>1. pos = Len(text) + 1 /\ (Len(text) + 1) - 1 = Len(text)
      BY <1>1, <2>1
    <3>2. SubSeq(text, 1, Len(text)) = text
      BY <1>1
    <3> QED BY <1>1, <3>1, <3>2
  <2>3. Every(text, 0..127)
    BY <1>1 DEF Every
  <2>4. Utf8(unescaped)
    BY <1>1, <2>2, <2>3, AsciiIsUtf8
  <2> QED BY <1>1, <2>1, <2>2, <2>4 DEF ReadPlain
<1> QED BY <1>3, <1>4, <1>5

\* Whatever comes next is the next piece, the end, or what is left of a piece.
LEMMA SsidMoves == SsidInv /\ [SsidNext]_ssidVars => SsidInv'
<1> SUFFICES ASSUME SsidInv, [SsidNext]_ssidVars PROVE SsidInv'
  OBVIOUS
<1>1. CASE UNCHANGED ssidVars
  BY <1>1 DEF SsidInv, ssidVars
<1>2. CASE SsidNext
  <2>1. UNCHANGED <<ssid, path, cut, text>>
    BY <1>2 DEF SsidNext, Plain, Escape, HexEscape, Incomplete, End, Push, Give
  <2>2. CASE path = "any"
    BY <2>1, <2>2 DEF SsidInv
  <2>4. CASE path = "get"
    <3>1. ASSUME Listable(ssid)
          PROVE  ReadPlain(Listed(ssid), text', unescaped', pos', verdict')
      <4>1. ReadPlain(Listed(ssid), text, unescaped, pos, verdict)
        BY <2>4, <3>1 DEF SsidInv
      <4> DEFINE listed == Listed(ssid)
      <4> HIDE DEF listed
      <4>2. ReadPlain(listed, text', unescaped', pos', verdict')
        BY <1>2, <4>1, PlainMoves DEF listed
      <4> QED BY <4>2 DEF listed
    <3>2. ssid' = ssid /\ path' = path /\ cut' = cut
      BY <2>1
    <3> QED BY <2>4, <3>1, <3>2 DEF SsidInv
  <2>3. CASE path = "scan"
    <3>1. PICK start, m, k : /\ Within(start, m, ssid, cut, text)
                             /\ ReadTo(start, m, k, ssid, unescaped, pos, verdict)
      BY <2>3 DEF SsidInv
    <3>2. ssid \in Seq(Byte) /\ Len(ssid) \in Nat
      BY DEF SsidInv
    <3>3. /\ k \in 0..Len(ssid) /\ pos = start[k] + 1 /\ start[k] <= m
          /\ unescaped = SubSeq(ssid, 1, k)
      BY <3>1 DEF ReadTo
    <3>4. m \in Nat /\ Len(text) = m /\ start[k] \in Nat
      <4>1. /\ PrintfEncode(ssid) \in Seq(Byte) /\ m \in 0..Len(PrintfEncode(ssid))
            /\ text = SubSeq(PrintfEncode(ssid), 1, m)
            /\ start \in [0..Len(ssid) -> Nat]
        BY <3>1 DEF Within, Encodes
      <4> QED BY <4>1, <3>3
    <3>5. Going => verdict = "going" /\ start[k] < m
      BY <3>3, <3>4 DEF Going
    <3> DEFINE b == ssid[k + 1]
               l == Len(Escaped(b))
    <3>6. ASSUME start[k] < m
          PROVE  /\ k < Len(ssid) /\ k + 1 \in 0..Len(ssid) /\ b \in Byte /\ l \in {1, 2, 4}
                 /\ start[k + 1] = start[k] + l
                 /\ \A j \in 1..l : start[k] + j <= m => text[start[k] + j] = Escaped(b)[j]
      BY <3>1, <3>2, <3>3, <3>6, NextPiece
    <3> HIDE DEF b, l
    <3>7. ASSUME start[k] < m
          PROVE  /\ text[pos] = Escaped(b)[1]
                 /\ l > 1 /\ m >= start[k] + 2 => text[pos + 1] = Escaped(b)[2]
                 /\ l = 4 /\ m >= start[k] + 4 => /\ text[pos + 2] = Escaped(b)[3]
                                                  /\ text[pos + 3] = Escaped(b)[4]
      <4>1. l \in {1, 2, 4} /\ \A j \in 1..l : start[k] + j <= m => text[start[k] + j] = Escaped(b)[j]
        BY <3>6, <3>7
      <4>2. text[start[k] + 1] = Escaped(b)[1]
        BY <4>1, <3>4, <3>7
      <4>3. l > 1 /\ m >= start[k] + 2 => text[start[k] + 2] = Escaped(b)[2]
        BY <4>1, <3>4
      <4>4. l = 4 /\ m >= start[k] + 4 => /\ text[start[k] + 3] = Escaped(b)[3]
                                          /\ text[start[k] + 4] = Escaped(b)[4]
        BY <4>1, <3>4
      <4>5. pos + 1 = start[k] + 2 /\ pos + 2 = start[k] + 3 /\ pos + 3 = start[k] + 4
        BY <3>3, <3>4
      <4> QED BY <4>2, <4>3, <4>4, <4>5, <3>3
    <3>8. Left = m - start[k] - 1
      BY <3>3, <3>4 DEF Left
    <3>9. ASSUME Going, unescaped' = Append(unescaped, b), pos' = pos + l, verdict' = verdict,
                 start[k] + l <= m
          PROVE  ReadTo(start, m, k + 1, ssid, unescaped', pos', verdict')
      <4>1. verdict = "going" /\ k < Len(ssid) /\ l \in Nat /\ start[k + 1] = start[k] + l
        BY <3>5, <3>6, <3>9
      <4> QED BY <3>1, <3>2, <3>4, <3>9, <4>1, PushReads DEF b
    <3>10. \E k2 : ReadTo(start, m, k2, ssid, unescaped', pos', verdict')
      <4>1. CASE Plain
        <5>1. Going /\ start[k] < m /\ text[pos] # Backslash
          BY <4>1, <3>5 DEF Plain
        <5>2. l = 1 /\ text[pos] = b
          BY <5>1, <3>6, <3>7, EscapedIs DEF l
        <5>3. unescaped' = Append(unescaped, b) /\ pos' = pos + 1 /\ verdict' = verdict
          BY <4>1, <5>2 DEF Plain, Push
        <5> QED BY <3>4, <3>9, <5>1, <5>2, <5>3
      <4>2. CASE Escape
        <5>1. Going /\ start[k] < m /\ text[pos] = Backslash /\ Left >= 1 /\ text[pos + 1] # LowX
          BY <4>2, <3>5 DEF Escape, AtEscape, IsHex
        <5>2. l = 2 /\ b \in Byte
          <6>1. m >= start[k] + 2 /\ l \in {1, 2, 4} /\ b \in Byte
            BY <5>1, <3>4, <3>6, <3>8
          <6>2. l # 1
            BY <5>1, <6>1, <3>7, EscapedIs DEF l, Special
          <6>3. l # 4
            BY <5>1, <6>1, <3>7, EscapedIs DEF l
          <6> QED BY <6>1, <6>2, <6>3
        <5>3. /\ text[pos + 1] = Escapes[b]
              /\ {x \in DOMAIN Escapes : Escapes[x] = Escapes[b]} = {b}
          BY <5>1, <5>2, <3>4, <3>7, <3>8, EscapedIs DEF l
        <5>4. Push(b, 2)
          BY <4>2, <5>3 DEF Escape
        <5> QED BY <5>1, <5>2, <5>4, <3>4, <3>8, <3>9 DEF Push
      <4>3. CASE HexEscape
        <5>1. Going /\ start[k] < m /\ text[pos] = Backslash /\ Left >= 3 /\ text[pos + 1] = LowX
          BY <4>3, <3>5 DEF HexEscape, AtEscape, IsHex
        <5>2. l = 4 /\ b \in Byte
          <6>1. m >= start[k] + 4 /\ m >= start[k] + 2 /\ l \in {1, 2, 4} /\ b \in Byte
            BY <5>1, <3>4, <3>6, <3>8
          <6>2. l # 1
            BY <5>1, <6>1, <3>7, EscapedIs DEF l, Special
          <6>3. l # 2
            BY <5>1, <6>1, <3>7, EscapedIs DEF l
          <6> QED BY <6>1, <6>2, <6>3
        <5>3. m >= start[k] + 4
          BY <5>1, <3>4, <3>8
        <5>4. /\ text[pos + 2] \in HexDigit /\ text[pos + 3] \in HexDigit
              /\ 16 * HexValue(text[pos + 2]) + HexValue(text[pos + 3]) = b
          BY <5>1, <5>2, <5>3, <3>7, EscapedIs DEF l
        <5>5. Plus \notin HexDigit
          BY DEF Plus, HexDigit
        <5>6. Push(b, 4)
          BY <4>3, <5>4, <5>5 DEF HexEscape
        <5> QED BY <5>1, <5>2, <5>3, <5>6, <3>9 DEF Push
      <4>4. CASE Incomplete
        <5>1. /\ Going /\ start[k] < m /\ text[pos] = Backslash
              /\ Left < (IF Left >= 1 /\ text[pos + 1] = LowX THEN 3 ELSE 1)
              /\ verdict' = "IncompleteEscape" /\ UNCHANGED <<unescaped, pos>>
          BY <4>4, <3>5 DEF Incomplete, AtEscape, IsHex, Give
        <5>2. m < start[k + 1]
          <6>1. l \in {1, 2, 4} /\ b \in Byte /\ start[k + 1] = start[k] + l
            BY <5>1, <3>6
          <6>2. l # 1
            BY <5>1, <6>1, <3>7, EscapedIs DEF l, Special
          <6>3. CASE l = 2
            <7>1. m >= start[k] + 2 => text[pos + 1] # LowX
              BY <5>1, <6>1, <6>3, <3>7, EscapedIs DEF l
            <7> QED BY <5>1, <6>1, <6>3, <7>1, <3>4, <3>8
          <6>4. CASE l = 4
            BY <5>1, <6>1, <6>4, <3>4, <3>8
          <6> QED BY <6>1, <6>2, <6>3, <6>4
        <5>3. k < Len(ssid)
          BY <5>1, <3>6
        <5> QED BY <5>1, <5>2, <5>3, <3>3 DEF ReadTo
      <4>5. CASE End
        <5>1. /\ start[k] = m /\ UNCHANGED <<unescaped, pos>>
              /\ verdict' = IF Utf8(unescaped) THEN "Ok" ELSE "NonUtf8Escape"
          BY <4>5, <3>3, <3>4 DEF End, Give
        <5> QED BY <5>1, <3>3 DEF ReadTo
      <4> QED BY <1>2, <4>1, <4>2, <4>3, <4>4, <4>5 DEF SsidNext
    <3>11. PICK k2 : ReadTo(start, m, k2, ssid, unescaped', pos', verdict')
      BY <3>10
    <3> QED BY <3>1, <3>11, <2>1, <2>3 DEF SsidInv
  <2>5. path \in {"get", "scan", "any"}
    BY DEF SsidInv
  <2> QED BY <2>2, <2>3, <2>4, <2>5
<1> QED BY <1>1, <1>2

\* The name read to its end, or to where it was cut off.
LEMMA SsidReads == SsidInv => SsidComesBack /\ CutNeverMisleads
<1> SUFFICES ASSUME SsidInv PROVE SsidComesBack /\ CutNeverMisleads
  OBVIOUS
<1>1. CASE path = "any"
  BY <1>1 DEF SsidInv, SsidComesBack, CutNeverMisleads
<1>3. CASE path = "get"
  <2>1. ~cut
    BY <1>3 DEF SsidInv
  <2>2. CutNeverMisleads
    BY <2>1 DEF CutNeverMisleads
  <2>3. SsidComesBack
    <3> SUFFICES ASSUME verdict # "going", Listable(ssid)
                 PROVE  \/ verdict = "Ok" /\ unescaped = ssid
                        \/ ~Every(ssid, 32..126) /\ verdict = "Ok" /\ unescaped = HexEncode(ssid)
      BY <1>3, Zenon DEF SsidComesBack, Listable
    <3>1. ReadPlain(Listed(ssid), text, unescaped, pos, verdict)
      BY <1>3 DEF SsidInv
    <3> DEFINE listed == Listed(ssid)
    <3> HIDE DEF listed
    <3>2. /\ verdict = "Ok" /\ pos = Len(text) + 1 /\ text = listed /\ text \in Seq(Byte)
          /\ unescaped = SubSeq(text, 1, pos - 1)
      BY <3>1 DEF ReadPlain, listed
    <3>3. unescaped = listed
      <4>1. Len(text) \in Nat /\ SubSeq(text, 1, Len(text)) = text
        BY <3>2
      <4>2. (Len(text) + 1) - 1 = Len(text)
        BY <4>1
      <4> QED BY <3>2, <4>1, <4>2
    <3> QED BY <3>2, <3>3 DEF listed, Listed
  <2> QED BY <2>2, <2>3
<1>2. CASE path = "scan"
  <2> DEFINE t == PrintfEncode(ssid)
  <2>1. PICK start, m, k : /\ Within(start, m, ssid, cut, text)
                           /\ ReadTo(start, m, k, ssid, unescaped, pos, verdict)
    BY <1>2 DEF SsidInv
  <2>2. ssid \in Seq(Byte) /\ Len(ssid) \in Nat /\ Encodes(start, ssid, t)
    BY <2>1 DEF SsidInv, Within
  <2>3. /\ k \in 0..Len(ssid) /\ unescaped = SubSeq(ssid, 1, k) /\ start[k] <= m
        /\ verdict = "Ok" => start[k] = m
        /\ verdict = "NonUtf8Escape" => start[k] = m /\ ~Utf8(unescaped)
        /\ verdict = "IncompleteEscape" => k < Len(ssid) /\ start[k] < m /\ m < start[k + 1]
        /\ verdict \in {"going", "Ok", "NonUtf8Escape", "IncompleteEscape"}
    BY <2>1 DEF ReadTo
  <2>4. /\ m \in 0..Len(t)
        /\ ~cut => m = Len(t)
    BY <2>1 DEF Within
  <2> HIDE DEF t
  <2>5. Len(t) \in Nat /\ Len(t) = start[Len(ssid)] /\ start[k] \in Nat
    BY <2>2, <2>3 DEF Encodes
  <2>6. \A i \in 0..(Len(ssid) - 1) :
          /\ start[i] \in Nat /\ start[i + 1] \in Nat
          /\ start[i] < start[i + 1] /\ start[i + 1] <= Len(t)
    BY <2>2, EncodingEnds
  <2>7. CutNeverMisleads
    <3>1. Len(unescaped) = k /\ SubSeq(unescaped, 1, k) = SubSeq(ssid, 1, k) /\ k <= Len(ssid)
      BY <2>2, <2>3
    <3> QED BY <3>1 DEF CutNeverMisleads, IsPrefix
  <2>8. start[k] = Len(t) => k = Len(ssid) /\ unescaped = ssid
    <3> SUFFICES ASSUME start[k] = Len(t) PROVE k = Len(ssid) /\ unescaped = ssid
      OBVIOUS
    <3>1. k = Len(ssid)
      <4> SUFFICES ASSUME k # Len(ssid) PROVE FALSE
        OBVIOUS
      <4>1. k \in 0..(Len(ssid) - 1)
        BY <2>2, <2>3
      <4> QED BY <4>1, <2>5, <2>6
    <3>2. SubSeq(ssid, 1, Len(ssid)) = ssid
      BY <2>2
    <3> QED BY <3>1, <3>2, <2>3
  <2>9. SsidComesBack
    <3> SUFFICES ASSUME ~cut, verdict # "going"
                 PROVE  \/ verdict = "Ok" /\ unescaped = ssid
                        \/ verdict = "NonUtf8Escape" /\ ~Utf8(ssid)
      BY <1>2, Zenon DEF SsidComesBack
    <3>1. m = Len(t)
      BY <2>4
    <3>2. verdict # "IncompleteEscape"
      <4> SUFFICES ASSUME verdict = "IncompleteEscape" PROVE FALSE
        OBVIOUS
      <4>1. k \in 0..(Len(ssid) - 1) /\ m < start[k + 1]
        BY <2>2, <2>3
      <4> QED BY <4>1, <3>1, <2>5, <2>6
    <3>3. start[k] = m /\ verdict \in {"Ok", "NonUtf8Escape"}
      BY <2>3, <3>2
    <3>4. unescaped = ssid
      BY <3>1, <3>3, <2>8
    <3> QED BY <2>3, <3>3, <3>4
  <2> QED BY <2>7, <2>9
<1>4. path \in {"get", "scan", "any"}
  BY DEF SsidInv
<1> QED BY <1>1, <1>2, <1>3, <1>4

\* An SSID found by a scan reads as it is on the air, of whatever bytes and however
\* long, and one that was set reads back as it was set unless it has a backslash,
\* a quote at an end, or bytes outside ASCII (sta/mod.rs:314, config.rs:170).
THEOREM NamesComeBack == SsidSpec => []SsidComesBack
<1>1. SsidInv => SsidComesBack
  BY SsidReads
<1> QED BY <1>1, SsidBegins, SsidMoves, PTL DEF SsidSpec

\* Wherever a reply is cut off, what is read is the beginning of the name or an
\* error (socket_handle.rs:87, config.rs:172).
THEOREM CutNamesNeverMislead == SsidSpec => []CutNeverMisleads
<1>1. SsidInv => CutNeverMisleads
  BY SsidReads
<1> QED BY <1>1, SsidBegins, SsidMoves, PTL DEF SsidSpec

-----------------------------------------------------------------------------
(* Psk and Bssid. *)

IsOctet(o) == Len(o) = 2 /\ Every(o, HexDigit)

\* The octets of a BSSID read so far.
OctetsOf(texts, n) == [i \in 1..n |-> HexDecode(texts[i])[1]]

\* Every octet read has two hex digits, and is the next byte of the address.
BssidInv ==
  /\ given \in Seq(Seq(Byte))
  /\ phase \in {"made from", "held", "sent"} =>
       /\ next \in 1..(Octets + 1) /\ next - 1 <= Len(given)
       /\ \A i \in 1..(next - 1) : IsOctet(given[i])
       /\ value.bytes = OctetsOf(given, next - 1)
       /\ value = IF next = 1 THEN Value("none", <<>>) ELSE Value("bssid", value.bytes)
  /\ phase \in {"held", "sent"} => next = Octets + 1 /\ Len(given) = Octets
  /\ phase = "sent" => field = BssidField(value)

\* A text of the right length and alphabet stays a passphrase, and only what the
\* caller gave as a key, in bytes or as so many hex digits, becomes one.
PskInv ==
  /\ given \in Seq(Byte)
  /\ how = "raw" => Len(given) = KeyBytes
  /\ phase \in {"held", "sent"} =>
       \/ /\ how \in {"passphrase", "parse"} /\ IsPassphrase(given)
          /\ value = Value("passphrase", given)
       \/ /\ how \in {"raw", "parse"} /\ (how = "parse" => IsKey(given))
          /\ value = Value("raw", value.bytes)
          /\ value.bytes \in Seq(Byte) /\ Len(value.bytes) = KeyBytes
  /\ phase = "sent" => field = ToField(value)

\* A BSSID made of bytes is these bytes.
OctetsInv ==
  /\ given \in Seq(Byte)
  /\ phase \in {"held", "sent"} => value = Value("bssid", given)
  /\ phase = "sent" => field = BssidField(value)

ParamsInv ==
  /\ how \in {"passphrase", "raw", "parse", "bssid", "octets"}
  /\ phase \in {"made from", "refused", "held", "sent"}
  /\ how = "bssid" => BssidInv
  /\ how = "octets" => OctetsInv
  /\ how \in {"passphrase", "raw", "parse"} => PskInv

LEMMA HexDecodeIs ==
  ASSUME NEW s \in Seq(Byte), Every(s, HexDigit)
  PROVE  /\ HexDecode(s) \in Seq(Byte)
         /\ \A n \in Nat : Len(s) = 2 * n => Len(HexDecode(s)) = n
<1>1. Len(s) \in Nat /\ Len(s) \div 2 \in Nat /\ 2 * (Len(s) \div 2) <= Len(s)
  OBVIOUS
<1>2. ASSUME NEW i \in 1..(Len(s) \div 2)
      PROVE  16 * HexValue(s[2 * i - 1]) + HexValue(s[2 * i]) \in Byte
  <2>1. 2 * i - 1 \in 1..Len(s) /\ 2 * i \in 1..Len(s)
    BY <1>1
  <2>2. s[2 * i - 1] \in HexDigit /\ s[2 * i] \in HexDigit
    BY <2>1 DEF Every
  <2>3. HexValue(s[2 * i - 1]) \in 0..15 /\ HexValue(s[2 * i]) \in 0..15
    BY <2>2, HexDigits
  <2>4. \A x, y \in 0..15 : 16 * x + y \in Byte
    BY DEF Byte
  <2> QED BY <2>3, <2>4
<1>3. HexDecode(s) \in Seq(Byte) /\ Len(HexDecode(s)) = Len(s) \div 2
  BY <1>1, <1>2 DEF HexDecode
<1> QED BY <1>3

LEMMA ParamsBegins == ParamsInit => ParamsInv
<1> SUFFICES ASSUME ParamsInit PROVE ParamsInv
  OBVIOUS
<1>0. /\ GivenTexts \subseteq Seq(Byte) /\ RawKeys \subseteq Seq(Byte) /\ Pieces \subseteq Seq(Byte)
      /\ RawMacs \subseteq Seq(Byte) /\ Octets \in Nat \ {0}
  BY ParamsAssumption DEF Byte
<1>1. phase = "made from" /\ next = 1 /\ value = Value("none", <<>>)
  BY DEF ParamsInit
<1>2. CASE how = "bssid"
  <2>1. PICK n \in 1..(Octets + 1) : given \in [1..n -> Pieces]
    BY <1>2 DEF ParamsInit
  <2>2. given \in Seq(Seq(Byte)) /\ Len(given) = n
    BY <1>0, <2>1
  <2>3. OctetsOf(given, 1 - 1) = <<>>
    BY DEF OctetsOf
  <2>4. value.bytes = <<>>
    BY <1>1 DEF Value
  <2>5. next \in 1..(Octets + 1) /\ next - 1 <= Len(given) /\ 1..(next - 1) = {}
    <3>1. next = 1
      BY <1>1
    <3>2. Octets \in Nat
      BY <1>0
    <3>3. n \in Nat
      BY <3>2
    <3> QED BY <2>2, <3>1, <3>2, <3>3
  <2>6. BssidInv
    BY <1>1, <2>2, <2>3, <2>4, <2>5 DEF BssidInv
  <2> QED BY <1>1, <1>2, <2>6 DEF ParamsInv
<1>3. CASE how = "octets"
  <2>1. given \in Seq(Byte)
    BY <1>0, <1>3 DEF ParamsInit
  <2> QED BY <1>1, <1>3, <2>1 DEF ParamsInv, OctetsInv
<1>4. CASE how \notin {"bssid", "octets"}
  <2>1. how \in {"passphrase", "raw", "parse"} /\ given \in Seq(Byte)
        /\ (how = "raw" => Len(given) = KeyBytes)
    BY <1>0, <1>4 DEF ParamsInit
  <2> QED BY <1>1, <1>4, <2>1 DEF ParamsInv, PskInv
<1> QED BY <1>2, <1>3, <1>4

\* The first of the octets read, and one more.
LEMMA OctetsGrow ==
  ASSUME NEW texts \in Seq(Seq(Byte)), NEW n \in Nat, n < Len(texts), IsOctet(texts[n + 1])
  PROVE  /\ OctetsOf(texts, n + 1) = Append(OctetsOf(texts, n), HexDecode(texts[n + 1])[1])
<1> DEFINE o == HexDecode(texts[n + 1])[1]
           f == OctetsOf(texts, n)
           g == OctetsOf(texts, n + 1)
<1>1. /\ f = [i \in 1..n |-> HexDecode(texts[i])[1]]
      /\ g = [i \in 1..(n + 1) |-> HexDecode(texts[i])[1]]
  BY DEF OctetsOf
<1>2. Append(f, o) = [i \in 1..(n + 1) |-> IF i = n + 1 THEN o ELSE f[i]]
  <2>1. Len(f) = n
    BY <1>1
  <2> QED BY <2>1
<1>3. \A i \in 1..(n + 1) : g[i] = IF i = n + 1 THEN o ELSE f[i]
  BY <1>1
<1> QED BY <1>1, <1>2, <1>3

LEMMA ValueIs ==
  \A k, x : Value(k, x).kind = k /\ Value(k, x).bytes = x
  BY DEF Value

\* The steps of Bssid::from_str.
LEMMA BssidMoves ==
  ASSUME ParamsInv, Octet \/ OctetMissing \/ OctetsRead
  PROVE  ParamsInv'
<1>1. /\ how = "bssid" /\ phase = "made from" /\ BssidInv /\ UNCHANGED <<how, given, field>>
  BY DEF ParamsInv, Octet, OctetMissing, OctetsRead, ReadingOctets, Refuse, Hold
<1>2. Octets \in Nat /\ Octets > 0
  BY ParamsAssumption
<1>3. /\ given \in Seq(Seq(Byte)) /\ next \in 1..(Octets + 1) /\ next - 1 <= Len(given)
      /\ \A i \in 1..(next - 1) : IsOctet(given[i])
      /\ value.bytes = OctetsOf(given, next - 1)
      /\ value = IF next = 1 THEN Value("none", <<>>) ELSE Value("bssid", value.bytes)
  BY <1>1 DEF BssidInv
<1>4. CASE phase' = "refused"
  BY <1>1, <1>3, <1>4 DEF ParamsInv, BssidInv
<1>5. CASE phase' # "refused" /\ Octet
  <2>1. /\ next <= Octets /\ next <= Len(given) /\ IsOctet(given[next])
        /\ value' = Value("bssid", Append(value.bytes, HexDecode(given[next])[1]))
        /\ next' = next + 1 /\ phase' = phase
    BY <1>5 DEF Octet, Refuse, IsOctet
  <2> DEFINE n == next - 1
  <2>2. n \in Nat /\ n < Len(given) /\ n + 1 = next /\ next' - 1 = next
    BY <1>2, <1>3, <2>1
  <2>3. OctetsOf(given, next) = Append(OctetsOf(given, n), HexDecode(given[next])[1])
    <3>1. IsOctet(given[n + 1])
      BY <2>1, <2>2
    <3> HIDE DEF n
    <3>2. OctetsOf(given, n + 1) = Append(OctetsOf(given, n), HexDecode(given[n + 1])[1])
      BY <1>3, <2>2, <3>1, OctetsGrow
    <3> QED BY <2>2, <3>2
  <2>4. value' = Value("bssid", OctetsOf(given, next))
    BY <1>3, <2>1, <2>3
  <2>5. value'.bytes = OctetsOf(given, next)
    BY <2>4, ValueIs
  <2>6. \A i \in 1..next : IsOctet(given[i])
    <3> TAKE i \in 1..next
    <3>1. i \in 1..(next - 1) \/ i = next
      BY <1>2, <1>3
    <3> QED BY <1>3, <2>1, <3>1
  <2>7. next' \in 1..(Octets + 1) /\ next' # 1 /\ next' - 1 <= Len(given)
    <3>1. next \in Nat /\ next >= 1
      BY <1>2, <1>3
    <3>2. next + 1 \in 1..(Octets + 1) /\ next + 1 # 1
      BY <1>2, <2>1, <3>1
    <3> QED BY <2>1, <2>2, <3>2
  <2>8. BssidInv'
    BY <1>1, <1>3, <2>1, <2>2, <2>4, <2>5, <2>6, <2>7 DEF BssidInv
  <2> QED BY <1>1, <2>1, <2>8 DEF ParamsInv
<1>6. CASE phase' # "refused" /\ ~Octet
  <2>1. OctetsRead /\ phase' = "held" /\ next > Octets /\ ~(next <= Len(given))
        /\ UNCHANGED <<value, next>>
    BY <1>6 DEF OctetMissing, OctetsRead, Refuse, Hold
  <2>2. next = Octets + 1 /\ Len(given) = Octets
    <3>1. Len(given) \in Nat
      BY <1>3
    <3> QED BY <1>2, <1>3, <2>1, <3>1
  <2>3. BssidInv'
    BY <1>1, <1>3, <2>1, <2>2 DEF BssidInv
  <2> QED BY <1>1, <2>1, <2>3 DEF ParamsInv
<1> QED BY <1>4, <1>5, <1>6

\* The constructors of Psk.
LEMMA PskMoves ==
  ASSUME ParamsInv, Passphrase \/ Raw \/ Parse
  PROVE  ParamsInv'
<1>1. /\ how \in {"passphrase", "raw", "parse"} /\ phase = "made from" /\ PskInv
      /\ UNCHANGED <<how, given, next, field>>
  BY DEF ParamsInv, Passphrase, Raw, Parse, Refuse, Hold
<1>2. given \in Seq(Byte) /\ (how = "raw" => Len(given) = KeyBytes)
  BY <1>1 DEF PskInv
<1>3. CASE phase' = "refused"
  BY <1>1, <1>2, <1>3 DEF ParamsInv, PskInv
<1>4. CASE phase' # "refused" /\ Passphrase
  BY <1>1, <1>2, <1>4 DEF Passphrase, Hold, Refuse, ParamsInv, PskInv
<1>5. CASE phase' # "refused" /\ Raw
  <2>1. value' = Value("raw", given) /\ phase' = "held" /\ how = "raw"
    BY <1>5 DEF Raw, Hold
  <2>2. value'.bytes = given
    BY <2>1, ValueIs
  <2> QED BY <1>1, <1>2, <2>1, <2>2 DEF ParamsInv, PskInv
<1>6. CASE phase' # "refused" /\ Parse
  <2>1. how = "parse" /\ phase' = "held"
    BY <1>6 DEF Parse, Hold, Refuse
  <2>2. CASE IsKey(given)
    <3>1. value' = Value("raw", HexDecode(given))
      BY <1>6, <2>2 DEF Parse, Hold, Refuse
    <3>2. HexDecode(given) \in Seq(Byte) /\ Len(HexDecode(given)) = KeyBytes
      <4>1. Every(given, HexDigit) /\ Len(given) = 2 * KeyBytes /\ KeyBytes \in Nat
        BY <2>2, ParamsAssumption DEF IsKey
      <4> QED BY <1>2, <4>1, HexDecodeIs
    <3>3. value'.bytes = HexDecode(given)
      BY <3>1, ValueIs
    <3> QED BY <1>1, <1>2, <2>1, <2>2, <3>1, <3>2, <3>3 DEF ParamsInv, PskInv
  <2>3. CASE ~IsKey(given)
    <3>1. IsPassphrase(given) /\ value' = Value("passphrase", given)
      BY <1>6, <2>3 DEF Parse, Hold, Refuse
    <3> QED BY <1>1, <1>2, <2>1, <3>1 DEF ParamsInv, PskInv
  <2> QED BY <2>2, <2>3
<1> QED BY <1>3, <1>4, <1>5, <1>6

\* From<[u8; 6]> for Bssid.
LEMMA FromOctetsMoves ==
  ASSUME ParamsInv, FromOctets
  PROVE  ParamsInv'
<1>1. /\ how = "octets" /\ OctetsInv /\ phase' = "held" /\ value' = Value("bssid", given)
      /\ UNCHANGED <<how, given, next, field>>
  BY DEF ParamsInv, FromOctets, Hold
<1> QED BY <1>1 DEF ParamsInv, OctetsInv

LEMMA ParamsMoves == ParamsInv /\ [ParamsNext]_paramsVars => ParamsInv'
<1> SUFFICES ASSUME ParamsInv, [ParamsNext]_paramsVars PROVE ParamsInv'
  OBVIOUS
<1>1. CASE Passphrase \/ Raw \/ Parse
  BY <1>1, PskMoves
<1>2. CASE Octet \/ OctetMissing \/ OctetsRead
  BY <1>2, BssidMoves
<1>3. CASE SetNetwork
  <2>1. /\ phase = "held" /\ phase' = "sent" /\ field' = ToField(value)
        /\ UNCHANGED <<how, given, value, next>>
    BY <1>3 DEF SetNetwork
  <2>2. CASE how = "bssid"
    <3>1. BssidInv /\ next = Octets + 1 /\ Octets \in Nat /\ Octets > 0
      BY <2>1, <2>2, ParamsAssumption DEF ParamsInv, BssidInv
    <3>2. value = Value("bssid", value.bytes)
      BY <2>1, <3>1 DEF BssidInv
    <3>3. field' = BssidField(value)
      BY <2>1, <3>2, ValueIs DEF ToField
    <3>4. BssidInv'
      BY <2>1, <3>1, <3>3 DEF BssidInv, BssidField
    <3> QED BY <2>1, <2>2, <3>4 DEF ParamsInv
  <2>3. CASE how = "octets"
    <3>1. given \in Seq(Byte) /\ value = Value("bssid", given)
      BY <2>1, <2>3 DEF ParamsInv, OctetsInv
    <3>2. field' = BssidField(value)
      BY <2>1, <3>1, ValueIs DEF ToField
    <3> QED BY <2>1, <2>3, <3>1, <3>2 DEF ParamsInv, OctetsInv, BssidField
  <2>4. CASE how \in {"passphrase", "raw", "parse"}
    BY <2>1, <2>4 DEF ParamsInv, PskInv, ToField, BssidField
  <2>5. how \in {"passphrase", "raw", "parse", "bssid", "octets"}
    BY DEF ParamsInv
  <2> QED BY <2>2, <2>3, <2>4, <2>5
<1>4. CASE UNCHANGED paramsVars
  BY <1>4 DEF paramsVars, ParamsInv, BssidInv, OctetsInv, PskInv, BssidField, ToField
<1>5. CASE FromOctets
  BY <1>5, FromOctetsMoves
<1> QED BY <1>1, <1>2, <1>3, <1>4, <1>5 DEF ParamsNext

\* A lower case digit for the value of one.
LEMMA LowerDigits ==
  /\ \A c \in HexDigit : HexChar(HexValue(c)) = IF c \in 65..90 THEN c + 32 ELSE c
  /\ \A x, y \in 0..15 : /\ 16 * x + y \in Byte
                         /\ (16 * x + y) \div 16 = x /\ (16 * x + y) % 16 = y
<1>1. ASSUME NEW c \in HexDigit
      PROVE  HexChar(HexValue(c)) = IF c \in 65..90 THEN c + 32 ELSE c
  BY DEF HexDigit, HexChar, HexValue
<1>2. ASSUME NEW x \in 0..15, NEW y \in 0..15
      PROVE  16 * x + y \in Byte /\ (16 * x + y) \div 16 = x /\ (16 * x + y) % 16 = y
  BY DEF Byte
<1> QED BY <1>1, <1>2

\* The octets of a BSSID, written in lower case as they were read.
LEMMA OctetsWritten ==
  ASSUME NEW texts \in Seq(Seq(Byte)), \A i \in 1..Len(texts) : IsOctet(texts[i])
  PROVE  /\ OctetsOf(texts, Len(texts)) \in Seq(Byte)
         /\ HexEncode(OctetsOf(texts, Len(texts))) = Lower(FlattenSeq(texts))
<1> DEFINE n == Len(texts)
           bytes == OctetsOf(texts, n)
           flat == FlattenSeq(texts)
           x(i) == HexValue(texts[i][1])
           y(i) == HexValue(texts[i][2])
<1>1. n \in Nat
  OBVIOUS
<1>2. ASSUME NEW i \in 1..n
      PROVE  /\ texts[i][1] \in HexDigit /\ texts[i][2] \in HexDigit /\ Len(texts[i]) = 2
             /\ x(i) \in 0..15 /\ y(i) \in 0..15
             /\ HexDecode(texts[i])[1] = 16 * x(i) + y(i)
  <2>1. texts[i] \in Seq(Byte) /\ Len(texts[i]) = 2 /\ Every(texts[i], HexDigit)
    BY DEF IsOctet
  <2>2. texts[i][1] \in HexDigit /\ texts[i][2] \in HexDigit
    BY <2>1 DEF Every
  <2>3. HexDecode(texts[i])[1] = 16 * x(i) + y(i)
    BY <2>1 DEF HexDecode
  <2> QED BY <2>1, <2>2, <2>3, HexDigits
<1> HIDE DEF x, y
<1>3. /\ bytes \in Seq(Byte) /\ Len(bytes) = n
      /\ \A i \in 1..n : bytes[i] = 16 * x(i) + y(i)
  <2>0. \A v, w \in 0..15 : 16 * v + w \in Byte
    BY DEF Byte
  <2>1. \A i \in 1..n : HexDecode(texts[i])[1] \in Byte
    BY <1>2, <2>0, Zenon
  <2>2. bytes = [i \in 1..n |-> HexDecode(texts[i])[1]]
    BY DEF OctetsOf
  <2> HIDE DEF bytes, n
  <2>3. bytes \in Seq(Byte) /\ Len(bytes) = n
    BY <1>1, <2>1, <2>2
  <2>4. \A i \in 1..n : bytes[i] = HexDecode(texts[i])[1]
    BY <2>2, Zenon
  <2> QED BY <1>2, <2>3, <2>4, Zenon
<1>4. /\ flat \in Seq(Byte) /\ Len(flat) = 2 * n
      /\ \A i \in 1..n : flat[2 * i - 1] = texts[i][1] /\ flat[2 * i] = texts[i][2]
  BY <1>2, FlattenPairs
<1> DEFINE h == HexEncode(bytes)
           w == Lower(flat)
<1>5. /\ h \in Seq(HexDigit) /\ Len(h) = 2 * n
      /\ \A i \in 1..n : /\ h[2 * i - 1] = HexChar(bytes[i] \div 16)
                         /\ h[2 * i] = HexChar(bytes[i] % 16)
  <2> HIDE DEF bytes, n
  <2> QED BY <1>3, HexEncodeIs
<1> HIDE DEF bytes, flat, n, h
<1>6. w = [i \in 1..(2 * n) |-> IF flat[i] \in 65..90 THEN flat[i] + 32 ELSE flat[i]]
  BY <1>1, <1>4 DEF Lower
<1> HIDE DEF w
<1>7. ASSUME NEW i \in 1..n PROVE h[2 * i - 1] = w[2 * i - 1] /\ h[2 * i] = w[2 * i]
  <2>1. 2 * i - 1 \in 1..(2 * n) /\ 2 * i \in 1..(2 * n)
    BY <1>1
  <2>2. bytes[i] \div 16 = x(i) /\ bytes[i] % 16 = y(i)
    <3>1. bytes[i] = 16 * x(i) + y(i) /\ x(i) \in 0..15 /\ y(i) \in 0..15
      BY <1>2, <1>3
    <3>2. (16 * x(i) + y(i)) \div 16 = x(i) /\ (16 * x(i) + y(i)) % 16 = y(i)
      BY <3>1, LowerDigits
    <3> QED BY <3>1, <3>2
  <2>3. h[2 * i - 1] = HexChar(HexValue(texts[i][1])) /\ h[2 * i] = HexChar(HexValue(texts[i][2]))
    BY <1>5, <2>2 DEF x, y
  <2>4. /\ w[2 * i - 1] = IF texts[i][1] \in 65..90 THEN texts[i][1] + 32 ELSE texts[i][1]
        /\ w[2 * i] = IF texts[i][2] \in 65..90 THEN texts[i][2] + 32 ELSE texts[i][2]
    BY <1>4, <1>6, <2>1
  <2> DEFINE c == texts[i][1]
             d == texts[i][2]
  <2>5. c \in HexDigit /\ d \in HexDigit
    BY <1>2
  <2> HIDE DEF c, d
  <2>6. /\ HexChar(HexValue(c)) = IF c \in 65..90 THEN c + 32 ELSE c
        /\ HexChar(HexValue(d)) = IF d \in 65..90 THEN d + 32 ELSE d
    BY <2>5, LowerDigits
  <2> QED BY <2>3, <2>4, <2>6 DEF c, d
<1>8. ASSUME NEW p \in 1..(2 * n) PROVE h[p] = w[p]
  <2>1. \E i \in 1..n : p = 2 * i - 1 \/ p = 2 * i
    <3>1. (p + 1) \div 2 \in 1..n
      BY <1>1
    <3>2. p = 2 * ((p + 1) \div 2) - 1 \/ p = 2 * ((p + 1) \div 2)
      BY <1>1
    <3> QED BY <3>1, <3>2
  <2> QED BY <1>7, <2>1
<1>9. h = w
  <2>1. h = [p \in 1..(2 * n) |-> h[p]]
    BY <1>1, <1>5
  <2>2. w = [p \in 1..(2 * n) |-> w[p]]
    BY <1>6
  <2> QED BY <1>8, <2>1, <2>2
<1> QED BY <1>3, <1>9 DEF bytes, flat, n, h, w

\* What is sent has quotes or is hex, and the daemon tells one from the other.
LEMMA ParamsRead == ParamsInv /\ phase = "sent" => DaemonReads(field) = value
<1> SUFFICES ASSUME ParamsInv, phase = "sent" PROVE DaemonReads(field) = value
  OBVIOUS
<1>1. CASE how = "bssid"
  <2>1. /\ given \in Seq(Seq(Byte)) /\ Len(given) = Octets /\ next = Octets + 1
        /\ Octets \in Nat /\ Octets > 0 /\ next - 1 = Len(given)
        /\ \A i \in 1..(next - 1) : IsOctet(given[i])
        /\ value.bytes = OctetsOf(given, next - 1)
        /\ field = HexEncode(value.bytes)
    BY <1>1, ParamsAssumption DEF ParamsInv, BssidInv, BssidField
  <2>2. value = Value("bssid", value.bytes)
    BY <1>1, <2>1 DEF ParamsInv, BssidInv
  <2>3. value.bytes \in Seq(Byte)
    BY <2>1, OctetsWritten
  <2>4. HexDecode(field) = value.bytes
    BY <2>1, <2>3, HexRoundTrip
  <2> QED BY <1>1, <2>2, <2>4 DEF DaemonReads
<1>3. CASE how = "octets"
  <2>1. given \in Seq(Byte) /\ value = Value("bssid", given) /\ field = HexEncode(value.bytes)
    BY <1>3 DEF ParamsInv, OctetsInv, BssidField
  <2>2. HexDecode(field) = given
    BY <2>1, ValueIs, HexRoundTrip
  <2> QED BY <1>3, <2>1, <2>2 DEF DaemonReads
<1>2. CASE how \notin {"bssid", "octets"}
  <2>1. PskInv /\ field = ToField(value)
    BY <1>2 DEF ParamsInv, PskInv
  <2>2. CASE value = Value("passphrase", given)
    <3>1. given \in Seq(Byte) /\ field = Quoted(given)
      BY <2>1, <2>2, ValueIs DEF PskInv, ToField
    <3>2. field # <<>> /\ field[1] = Quote /\ FieldBytes(field) = given
      BY <3>1, QuotedIs
    <3> QED BY <1>2, <2>2, <3>2 DEF DaemonReads
  <2>3. CASE value # Value("passphrase", given)
    <3> DEFINE key == value.bytes
    <3>1. value = Value("raw", key) /\ key \in Seq(Byte) /\ Len(key) = KeyBytes
      BY <2>1, <2>3 DEF PskInv
    <3>2. field = HexEncode(key)
      BY <2>1, <3>1, ValueIs DEF ToField
    <3> HIDE DEF key
    <3>3. field \in Seq(HexDigit) /\ Len(field) = 2 * KeyBytes /\ HexDecode(field) = key
      BY <3>1, <3>2, HexEncodeIs, HexRoundTrip
    <3>4. Every(field, HexDigit)
      BY <3>3 DEF Every
    <3>5. field # <<>> => field[1] # Quote
      <4>1. field # <<>> => field[1] \in HexDigit
        BY <3>3
      <4> QED BY <4>1, HexDigits
    <3>6. IsKey(field)
      BY <3>3, <3>4 DEF IsKey
    <3> QED BY <1>2, <3>1, <3>3, <3>5, <3>6 DEF DaemonReads
  <2> QED BY <2>2, <2>3
<1> QED BY <1>1, <1>2, <1>3

\* No text is both a passphrase and a key.
LEMMA ParamsParse ==
  ParamsInv /\ how = "parse" /\ phase = "sent" /\ IsPassphrase(given)
    => value = Value("passphrase", given)
<1> SUFFICES ASSUME ParamsInv, how = "parse", phase = "sent", IsPassphrase(given)
             PROVE  value = Value("passphrase", given)
  OBVIOUS
<1>1. ~IsKey(given)
  <2>1. Len(given) \in MinPass..MaxPass /\ MaxPass < 2 * KeyBytes
        /\ MinPass \in Nat /\ MaxPass \in Nat /\ KeyBytes \in Nat
    BY ParamsAssumption DEF IsPassphrase
  <2>2. Len(given) # 2 * KeyBytes
    BY <2>1
  <2> QED BY <2>2 DEF IsKey
<1> QED BY <1>1 DEF ParamsInv, PskInv

LEMMA ParamsReadBack == ParamsInv => ReadBack
BY ParamsRead, ParamsParse DEF ReadBack

\* What is sent are the digits that were given, in lower case.
LEMMA ParamsWrite == ParamsInv => BssidCanonical
<1> SUFFICES ASSUME ParamsInv, how = "bssid", phase = "sent"
             PROVE  field = Lower(FlattenSeq(given)) /\ Len(given) = Octets
  BY DEF BssidCanonical
<1>1. /\ given \in Seq(Seq(Byte)) /\ Len(given) = Octets /\ next = Octets + 1
      /\ Octets \in Nat /\ next - 1 = Len(given)
      /\ \A i \in 1..(next - 1) : IsOctet(given[i])
      /\ value.bytes = OctetsOf(given, next - 1)
      /\ field = HexEncode(value.bytes)
  BY ParamsAssumption DEF ParamsInv, BssidInv, BssidField
<1> QED BY <1>1, OctetsWritten

\* A key or a BSSID reaches the daemon as the caller built it, and as a value of
\* the kind it was built as (sta/types.rs:265, sta/mod.rs:239); a text that is a
\* passphrase is parsed as one (sta/types.rs:201), for any lengths of passphrases
\* and keys that cannot be the same.
THEOREM ValuesReadBack == ParamsSpec => []ReadBack
BY ParamsBegins, ParamsMoves, ParamsReadBack, PTL DEF ParamsSpec

\* A BSSID goes out as it was given, in lower case (sta/types.rs:297, 329).
THEOREM BssidsStay == ParamsSpec => []BssidCanonical
BY ParamsBegins, ParamsMoves, ParamsWrite, PTL DEF ParamsSpec

-----------------------------------------------------------------------------
(* from_str. *)

\* The type invariant, and with it where the lines read so far have gone
\* (config.rs:60-79).
IInv == ConfigTypeOK /\ Aligned

LEMMA InitAligned == Init => IInv
  BY ReplyAssumption DEF Init, IInv, ConfigTypeOK, Aligned

\* The steps that leave the map alone.
LEMMA QuietAligned ==
  ASSUME IInv, UNCHANGED <<lines, at, map>>,
         result' \in {"going", "Ok", "MissingDelimiterEqual", "SerdeError", "BrokenEscape"}
  PROVE  IInv'
  BY DEF IInv, ConfigTypeOK, Aligned, Index

\* TakeLine puts line `at` behind the values of its key, at the place its index
\* names, and moves nothing.
LEMMA TakeLineAligned ==
  ASSUME IInv, TakeLine
  PROVE  IInv'
<1> DEFINE k == lines[at].key
           x == Index(lines[at])
           grown == Append(map[k], at)
<1>1. /\ lines \in Seq(Line) /\ at \in 1..Len(lines) /\ map \in [Keys -> Seq(1..Len(lines))]
      /\ Len(map[k]) = x
      /\ map' = [map EXCEPT ![k] = grown] /\ lines' = lines /\ at' = at + 1
      /\ result' = result
  BY DEF IInv, ConfigTypeOK, TakeLine, Reading
<1>2. \A m \in 1..Len(lines) : lines[m].key \in Keys /\ Index(lines[m]) \in Nat
  <2> TAKE m \in 1..Len(lines)
  <2>1. lines[m] \in Line
    BY <1>1
  <2>2. lines[m].key \in Keys /\ lines[m].index \in Nat
    BY <2>1 DEF Line
  <2> QED BY <2>2 DEF Index
<1>3. k \in Keys /\ x \in Nat
  BY <1>1, <1>2
<1> HIDE DEF k, x
<1>4. map[k] \in Seq(1..Len(lines)) /\ Len(lines) \in Nat
  BY <1>1, <1>3
<1>5. /\ grown \in Seq(1..Len(lines)) /\ Len(grown) = x + 1 /\ grown[x + 1] = at
      /\ \A i \in 1..x : grown[i] = map[k][i]
  BY <1>1, <1>3, <1>4
<1>6. /\ DOMAIN map[k] = 1..x /\ DOMAIN grown = 1..(x + 1)
  BY <1>1, <1>3, <1>4, <1>5
<1> HIDE DEF grown
<1>7. map'[k] = grown /\ \A j \in Keys : j # k => map'[j] = map[j]
  BY <1>1, <1>3
<1>8. ConfigTypeOK'
  <2>1. map' \in [Keys -> Seq(1..Len(lines))]
    BY <1>1, <1>3, <1>5
  <2>2. at' \in 1..(Len(lines) + 1)
    BY <1>1, <1>4
  <2> QED BY <2>1, <2>2, <1>1 DEF IInv, ConfigTypeOK
<1>9. \A j \in Keys : \A i \in DOMAIN map'[j] :
        map'[j][i] < at' /\ lines[map'[j][i]].key = j /\ Index(lines[map'[j][i]]) + 1 = i
  <2> TAKE j \in Keys
  <2> TAKE i \in DOMAIN map'[j]
  <2>1. CASE j = k /\ i = x + 1
    <3>1. map'[j][i] = at
      BY <2>1, <1>5, <1>7
    <3>2. lines[at].key = k /\ Index(lines[at]) = x
      BY DEF k, x
    <3>3. at < at'
      BY <1>1, <1>4
    <3> QED BY <3>1, <3>2, <3>3, <2>1
  <2>2. CASE ~(j = k /\ i = x + 1)
    <3>1. i \in DOMAIN map[j] /\ map'[j][i] = map[j][i]
      <4>1. CASE j = k
        BY <4>1, <2>2, <1>3, <1>5, <1>6, <1>7
      <4>2. CASE j # k
        BY <4>2, <1>7
      <4> QED BY <4>1, <4>2
    <3>2. map[j][i] < at /\ lines[map[j][i]].key = j /\ Index(lines[map[j][i]]) + 1 = i
      BY <3>1 DEF IInv, Aligned
    <3>3. map[j] \in Seq(1..Len(lines))
      BY <1>1
    <3>4. map[j][i] \in 1..Len(lines)
      BY <3>1, <3>3
    <3>5. map[j][i] < at'
      BY <3>2, <3>4, <1>1, <1>4
    <3> QED BY <3>1, <3>2, <3>5
  <2> QED BY <2>1, <2>2
<1>10. \A m \in 1..(at' - 1) :
         /\ Index(lines[m]) + 1 \in DOMAIN map'[lines[m].key]
         /\ map'[lines[m].key][Index(lines[m]) + 1] = m
  <2> TAKE m \in 1..(at' - 1)
  <2>1. CASE m = at
    <3>1. lines[m].key = k /\ Index(lines[m]) = x
      BY <2>1 DEF k, x
    <3>2. x + 1 \in DOMAIN map'[k] /\ map'[k][x + 1] = m
      BY <2>1, <1>3, <1>5, <1>6, <1>7
    <3> QED BY <3>1, <3>2
  <2>2. CASE m # at
    <3>1. m \in 1..(at - 1) /\ m \in 1..Len(lines)
      BY <2>2, <1>1, <1>4
    <3>2. lines[m].key \in Keys
      BY <3>1, <1>2
    <3>3. /\ Index(lines[m]) + 1 \in DOMAIN map[lines[m].key]
          /\ map[lines[m].key][Index(lines[m]) + 1] = m
      BY <3>1 DEF IInv, Aligned
    <3>4. CASE lines[m].key = k
      BY <3>3, <3>4, <1>3, <1>5, <1>6, <1>7
    <3>5. CASE lines[m].key # k
      BY <3>2, <3>3, <3>5, <1>7
    <3> QED BY <3>4, <3>5
  <2> QED BY <2>1, <2>2
<1>11. Aligned'
  BY <1>1, <1>9, <1>10 DEF Aligned, Index
<1> QED BY <1>8, <1>11 DEF IInv

LEMMA StepAligned == IInv /\ [Next]_vars => IInv'
<1> SUFFICES ASSUME IInv, [Next]_vars PROVE IInv'
  OBVIOUS
<1>1. CASE TakeLine
  BY <1>1, TakeLineAligned
<1>2. CASE RejectLine
  BY <1>2, QuietAligned DEF RejectLine
<1>3. CASE Deserialize
  BY <1>3, QuietAligned DEF Deserialize
<1>4. CASE UNCHANGED vars
  BY <1>4, QuietAligned DEF vars, IInv, ConfigTypeOK
<1> QED BY <1>1, <1>2, <1>3, <1>4 DEF Next

\* Whatever lines a reply has, element i of a list is what was reported as
\* key[i], and no line read is lost or moved.
THEOREM ListsAligned == Spec => []Aligned
<1>1. Spec => []IInv
  BY InitAligned, StepAligned, PTL DEF Spec
<1>2. IInv => Aligned
  BY DEF IInv
<1> QED BY <1>1, <1>2, PTL

\* As many values are collected under a key as lines with it have been read.
LEMMA Collected ==
  ASSUME IInv, NEW k \in Keys
  PROVE  Cardinality(LinesOf(lines, k, at - 1)) = Len(map[k])
<1> DEFINE n == Len(map[k])
           S == LinesOf(lines, k, at - 1)
<1>1. map[k] \in Seq(1..Len(lines)) /\ n \in Nat /\ DOMAIN map[k] = 1..n
      /\ at \in 1..(Len(lines) + 1) /\ Len(lines) \in Nat
  BY DEF IInv, ConfigTypeOK
<1>2. ASSUME NEW i \in 1..n
      PROVE  map[k][i] \in S /\ Index(lines[map[k][i]]) + 1 = i
  <2>1. /\ map[k][i] < at /\ lines[map[k][i]].key = k
        /\ Index(lines[map[k][i]]) + 1 = i
    BY <1>1 DEF IInv, Aligned
  <2>2. map[k][i] \in 1..Len(lines)
    BY <1>1
  <2>3. map[k][i] \in 1..(at - 1)
    BY <1>1, <2>1, <2>2
  <2> QED BY <2>1, <2>3 DEF LinesOf
<1>3. ASSUME NEW m \in S PROVE \E i \in 1..n : map[k][i] = m
  <2>1. m \in 1..(at - 1) /\ lines[m].key = k
    BY DEF LinesOf
  <2> QED BY <1>1, <2>1 DEF IInv, Aligned
<1>4. map[k] = [i \in 1..n |-> map[k][i]]
  BY <1>1
<1> HIDE DEF n, S
<1>5. map[k] \in [1..n -> S]
  BY <1>2, <1>4
<1>6. \A i, j \in 1..n : map[k][i] = map[k][j] => i = j
  BY <1>2
<1>7. map[k] \in Bijection(1..n, S)
  BY <1>3, <1>5, <1>6 DEF Bijection, Injection, Surjection, IsInjective
<1>8. ExistsBijection(1..n, S)
  BY <1>7 DEF ExistsBijection
<1>9. Cardinality(S) = n
  BY <1>1, <1>8, FS_CountingElements
<1> QED BY <1>9 DEF n, S

\* The lines of a key that is there once at most are one line.
LEMMA OneLine ==
  ASSUME NEW r \in Seq(Line), NEW n \in DOMAIN r, NEW m \in DOMAIN r, r[m].key = r[n].key,
         ~(Cardinality(LinesOf(r, r[n].key, Len(r))) > 1)
  PROVE  m = n
<1> DEFINE S == LinesOf(r, r[n].key, Len(r))
<1>1. Len(r) \in Nat /\ DOMAIN r = 1..Len(r)
  OBVIOUS
<1>2. IsFiniteSet(1..Len(r)) /\ S \subseteq 1..Len(r)
  BY <1>1, FS_Interval DEF LinesOf
<1>3. IsFiniteSet(S)
  BY <1>2, FS_Subset
<1>4. n \in S /\ m \in S
  BY <1>1 DEF LinesOf
<1> HIDE DEF S
<1>5. Cardinality(S) \in Nat
  BY <1>3, FS_CardinalityType
<1>6. Cardinality(S) <= 1
  BY <1>5 DEF S
<1> SUFFICES ASSUME m # n PROVE FALSE
  OBVIOUS
<1>7. {m, n} \subseteq S /\ Cardinality({m, n}) <= Cardinality(S)
  BY <1>3, <1>4, FS_Subset
<1>8. IsFiniteSet({n}) /\ Cardinality({n}) = 1
  BY FS_Singleton
<1>9. Cardinality({n} \cup {m}) = Cardinality({n}) + 1
  BY <1>8, FS_AddElement
<1>10. {n} \cup {m} = {m, n}
  OBVIOUS
<1>11. 2 <= Cardinality(S)
  BY <1>7, <1>8, <1>9, <1>10
<1> QED BY <1>5, <1>6, <1>11

\* The lines of a report are taken, unless a new key is there twice or begins
\* with an index that is not zero.
LEMMA ReportTaken ==
  ASSUME IInv, lines \in Reports, ~NewKeyUnreadable(lines)
  PROVE  ~RejectLine
<1> SUFFICES ASSUME RejectLine PROVE FALSE
  OBVIOUS
<1>1. at \in 1..Len(lines) /\ lines \in Seq(Line) /\ IsReport(lines)
  BY ReplyAssumption DEF RejectLine, Reading, IInv, ConfigTypeOK
<1>2. at \in DOMAIN lines /\ lines[at].key \in Keys
  <2>1. lines[at] \in Line
    BY <1>1
  <2> QED BY <1>1, <2>1 DEF Line
<1>3. /\ lines[at].form # "malformed"
      /\ Class[lines[at].key] # "unknown" =>
           Index(lines[at]) = Cardinality(LinesOf(lines, lines[at].key, at - 1))
  BY <1>1, <1>2 DEF IsReport
<1>4. CASE Class[lines[at].key] # "unknown"
  <2>1. Len(map[lines[at].key]) = Index(lines[at])
    BY <1>2, <1>3, <1>4, Collected
  <2> QED BY <1>3, <2>1 DEF RejectLine
<1>5. CASE Class[lines[at].key] = "unknown"
  <2> DEFINE k == lines[at].key
  <2>1. Index(lines[at]) = 0 /\ ~(Cardinality(LinesOf(lines, k, Len(lines))) > 1)
    BY <1>2, <1>5 DEF NewKeyUnreadable
  <2>2. map[k] \in Seq(1..Len(lines)) /\ Len(map[k]) \in Nat
    BY <1>2 DEF IInv, ConfigTypeOK
  <2>3. Len(map[k]) # 0
    BY <1>3, <2>1 DEF RejectLine
  <2>4. 1 \in DOMAIN map[k] /\ map[k][1] \in 1..Len(lines)
    BY <2>2, <2>3
  <2>5. map[k][1] < at /\ lines[map[k][1]].key = k
    BY <1>2, <2>4 DEF IInv, Aligned
  <2>6. map[k][1] \in DOMAIN lines
    BY <1>1, <2>4
  <2>7. map[k][1] = at
    BY <1>1, <1>2, <2>1, <2>5, <2>6, OneLine
  <2> QED BY <1>1, <2>5, <2>7
<1> QED BY <1>4, <1>5

\* What has been collected of a report can be read, unless a new key is there
\* twice or is not escaped.
LEMMA ReportFits ==
  ASSUME IInv, lines \in Reports, ~NewKeyUnreadable(lines), at > Len(lines), NEW k \in Keys
  PROVE  Fits(k)
<1> DEFINE n == Len(map[k])
<1>1. /\ lines \in Seq(Line) /\ IsReport(lines) /\ at - 1 = Len(lines)
      /\ map[k] \in Seq(1..Len(lines)) /\ n \in Nat /\ DOMAIN map[k] = 1..n
  BY ReplyAssumption DEF IInv, ConfigTypeOK
<1>2. n = Cardinality(LinesOf(lines, k, Len(lines)))
  BY <1>1, Collected
<1>3. /\ Class[k] \notin {"strings", "u32s", "unknown"} => n <= 1
      /\ Class[k] \in {"string", "u32"} => n = 1
  BY <1>1, <1>2 DEF IsReport
<1>4. ASSUME NEW i \in 1..n PROVE TextsOf(k)[i] \in Written(Class[k])
  <2>1. map[k][i] \in DOMAIN lines /\ lines[map[k][i]].key = k
    BY <1>1 DEF IInv, Aligned
  <2>2. lines[map[k][i]].text \in Written(Class[k])
    BY <1>1, <2>1 DEF IsReport
  <2>3. TextsOf(k)[i] = lines[map[k][i]].text
    BY <1>1 DEF TextsOf
  <2> QED BY <2>2, <2>3
<1>5. n = 0 => map[k] = <<>>
  BY <1>1
<1>6. Class[k] \in Classes /\ n \in Nat
  BY <1>1, ReplyAssumption
<1> HIDE DEF n
<1>7. CASE Class[k] = "string"
  <2>1. n = 1 /\ TextsOf(k)[1] \in Strings
    BY <1>3, <1>4, <1>7 DEF Written, Strings
  <2> QED BY <2>1, <1>7 DEF Fits, Only, n
<1>8. CASE Class[k] = "u32"
  <2>1. n = 1 /\ TextsOf(k)[1] \in {"number"}
    BY <1>3, <1>4, <1>8 DEF Written
  <2> QED BY <2>1, <1>8 DEF Fits, Only, n
<1>9. CASE Class[k] = "option"
  <2>1. n = 0 \/ (n = 1 /\ TextsOf(k)[1] \in OptionTexts)
    BY <1>3, <1>4, <1>6, <1>9 DEF Written, OptionTexts
  <2> QED BY <2>1, <1>5, <1>9 DEF Fits, Only, n
<1>12. CASE Class[k] = "i32"
  <2>1. n = 0 \/ (n = 1 /\ TextsOf(k)[1] \in {"number"})
    BY <1>3, <1>4, <1>6, <1>12 DEF Written
  <2>2. map[k] = <<>> \/ Only(k, {"number"})
    BY <1>5, <2>1 DEF Only, n
  <2> QED BY <1>12, <2>2 DEF Fits
<1>13. CASE Class[k] = "unknown"
  <2>1. ASSUME n # 0 PROVE n = 1 /\ TextsOf(k)[1] \in Strings
    <3> DEFINE m == map[k][1]
    <3>1. 1 \in DOMAIN map[k] /\ m \in DOMAIN lines /\ lines[m].key = k
      <4>1. 1 \in DOMAIN map[k]
        BY <1>1, <2>1 DEF n
      <4>2. lines[m].key = k /\ m \in 1..Len(lines)
        BY <1>1, <4>1 DEF IInv, Aligned
      <4> QED BY <1>1, <4>1, <4>2
    <3>2. ~(Cardinality(LinesOf(lines, k, Len(lines))) > 1) /\ lines[m].text # "broken"
      BY <1>13, <3>1 DEF NewKeyUnreadable
    <3>3. n = 1
      BY <1>2, <1>6, <2>1, <3>2
    <3>4. TextsOf(k)[1] = lines[m].text
      BY <3>1 DEF TextsOf
    <3>5. TextsOf(k)[1] \in ValueTexts
      BY <1>4, <1>13, <3>3 DEF Written
    <3> QED BY <3>2, <3>3, <3>4, <3>5 DEF Strings
  <2> QED BY <1>5, <1>13, <2>1 DEF Fits, Only, n
<1>10. CASE Class[k] = "default"
  <2>1. n = 0 \/ (n = 1 /\ TextsOf(k)[1] \in Strings)
    BY <1>3, <1>4, <1>6, <1>10 DEF Written, Strings
  <2> QED BY <2>1, <1>5, <1>10 DEF Fits, Only, n
<1>11. CASE Class[k] \in {"strings", "u32s"}
  <2>1. \A i \in DOMAIN map[k] : TextsOf(k)[i] \in Written(Class[k])
    BY <1>1, <1>4 DEF n
  <2> QED BY <2>1, <1>11 DEF Fits, AllIn, Written, Strings
<1> QED BY <1>6, <1>7, <1>8, <1>9, <1>10, <1>11, <1>12, <1>13 DEF Classes

ReportInv == IInv /\ ReportsParse

LEMMA ReportBegins == Init => ReportInv
  BY InitAligned DEF ReportInv, Init, ReportsParse

LEMMA ReportMoves == ReportInv /\ [Next]_vars => ReportInv'
<1> SUFFICES ASSUME IInv, ReportsParse, [Next]_vars PROVE ReportsParse'
  BY StepAligned DEF ReportInv
<1>1. CASE TakeLine
  BY <1>1 DEF TakeLine, ReportsParse
<1>2. CASE RejectLine
  BY <1>2, ReportTaken DEF RejectLine, ReportsParse
<1>3. CASE Deserialize
  BY <1>3, ReportFits DEF Deserialize, ReportsParse, IInv, ConfigTypeOK
<1>4. CASE UNCHANGED vars
  BY <1>4 DEF vars, ReportsParse
<1> QED BY <1>1, <1>2, <1>3, <1>4 DEF Next

\* A report of any daemon is read to its end, whatever of the optional keys it
\* has and however many BSSs; a report that is refused has a new key that is
\* there more than once, has an index other than zero or is not escaped
\* (ap/types.rs:10, config.rs:38, 98, 132, 138).
THEOREM ReportsAreRead == Spec => []ReportsParse
<1>1. ReportInv => ReportsParse
  BY DEF ReportInv
<1> QED BY <1>1, ReportBegins, ReportMoves, PTL DEF Spec

-----------------------------------------------------------------------------
(* vec_from_str. *)

TableLines == [form : LineForms, signal : Int]

Entries == {n \in 2..Len(table) : n < row /\ table[n].form = "entry"}

\* Each entry of the lines read so far is a result once, and nothing else is.
ScanInv ==
  /\ table \in Seq(TableLines)
  /\ row \in Nat /\ row >= 2 /\ sorting \in {"lines", "done"}
  /\ results \in Seq(Entries)
  /\ \A i, j \in 1..Len(results) : results[i] = results[j] => i = j
  /\ \A n \in Entries : \E i \in 1..Len(results) : results[i] = n
  /\ sorting = "done" =>
       /\ row > Len(table)
       /\ \A i, j \in 1..Len(results) :
            i < j => table[results[i]].signal <= table[results[j]].signal

\* Behind fewer results is the one that comes before.
LEMMA PlacesInOrder ==
  ASSUME NEW found \in SUBSET Nat, IsFiniteSet(found),
         \A n \in found : table[n].signal \in Int
  PROVE  /\ \A n \in found : Place(n, found) \in 1..Cardinality(found)
         /\ \A m, n \in found : Before(m, n) => Place(m, found) < Place(n, found)
         /\ \A m, n \in found : m # n => Before(m, n) \/ Before(n, m)
<1> DEFINE less(n) == {m \in found : Before(m, n)}
<1>1. ASSUME NEW n \in found
      PROVE  /\ IsFiniteSet(less(n)) /\ Cardinality(less(n)) \in Nat
             /\ Cardinality(less(n)) < Cardinality(found) /\ Cardinality(found) \in Nat
  <2>1. n \notin less(n) /\ less(n) \subseteq found
    BY DEF Before
  <2> HIDE DEF less
  <2>2. /\ IsFiniteSet(less(n)) /\ Cardinality(less(n)) <= Cardinality(found)
        /\ Cardinality(found) = Cardinality(less(n)) => found = less(n)
    BY <2>1, FS_Subset
  <2>3. Cardinality(less(n)) \in Nat /\ Cardinality(found) \in Nat
    BY <2>2, FS_CardinalityType
  <2> QED BY <2>1, <2>2, <2>3
<1>2. ASSUME NEW m \in found, NEW n \in found, Before(m, n)
      PROVE  Cardinality(less(m)) < Cardinality(less(n))
  <2>1. less(m) \subseteq less(n) /\ m \in less(n) /\ m \notin less(m)
    <3>1. ASSUME NEW l \in found, Before(l, m) PROVE Before(l, n)
      BY <1>2, <3>1 DEF Before
    <3>2. ~Before(m, m)
      BY DEF Before
    <3> QED BY <1>2, <3>1, <3>2
  <2> HIDE DEF less
  <2>2. /\ Cardinality(less(m)) <= Cardinality(less(n))
        /\ Cardinality(less(n)) = Cardinality(less(m)) => less(n) = less(m)
    BY <1>1, <2>1, FS_Subset
  <2> QED BY <1>1, <2>1, <2>2
<1>3. ASSUME NEW m \in found, NEW n \in found, m # n PROVE Before(m, n) \/ Before(n, m)
  BY <1>3 DEF Before
<1>4. \A n \in found : Place(n, found) = Cardinality(less(n)) + 1
  BY DEF Place
<1> HIDE DEF less
<1>5. ASSUME NEW n \in found PROVE Place(n, found) \in 1..Cardinality(found)
  <2>1. Place(n, found) = Cardinality(less(n)) + 1
    BY <1>4
  <2>2. /\ Cardinality(less(n)) \in Nat /\ Cardinality(found) \in Nat
        /\ Cardinality(less(n)) < Cardinality(found)
    BY <1>1
  <2> QED BY <2>1, <2>2
<1>6. \A m, n \in found : Before(m, n) => Place(m, found) < Place(n, found)
  BY <1>1, <1>2, <1>4
<1> QED BY <1>3, <1>5, <1>6

\* The sorted results are the results, and in order.
LEMMA SortIsWhole ==
  ASSUME ScanInv, Sort
  PROVE  ScanInv'
<1> DEFINE N == Len(results)
           found == Range(results)
           place == [n \in found |-> Place(n, found)]
           sorted == [i \in 1..N |-> CHOOSE n \in found : Place(n, found) = i]
<1>1. /\ table \in Seq(TableLines) /\ N \in Nat
      /\ results \in [1..N -> Entries] /\ DOMAIN results = 1..N
      /\ row > Len(table) /\ UNCHANGED <<table, row>> /\ sorting' = "done"
      /\ results' = sorted
  BY DEF ScanInv, Sort
<1>2. found = Entries /\ Entries \subseteq Nat
  <2>1. Entries \subseteq Nat
    <3>1. 2..Len(table) \subseteq Nat
      BY <1>1
    <3> QED BY <3>1 DEF Entries
  <2>2. found = {results[i] : i \in 1..N}
    BY <1>1 DEF Range
  <2>3. \A i \in 1..N : results[i] \in Entries
    BY <1>1
  <2>4. \A n \in Entries : \E i \in 1..N : results[i] = n
    BY DEF ScanInv
  <2> HIDE DEF found, N
  <2> QED BY <2>1, <2>2, <2>3, <2>4
<1>3. Cardinality(found) = N /\ IsFiniteSet(found)
  <2>1. results \in [1..N -> found]
    BY <1>1, <1>2
  <2>2. results \in Bijection(1..N, found)
    BY <2>1, <1>1, <1>2 DEF ScanInv, Bijection, Injection, Surjection, IsInjective
  <2>3. ExistsBijection(1..N, found)
    BY <2>2 DEF ExistsBijection
  <2> HIDE DEF found, N
  <2>4. Cardinality(found) = N
    BY <1>1, <2>3, FS_CountingElements
  <2>5. IsFiniteSet(found)
    BY <1>1, <2>3, FS_NatBijection
  <2> QED BY <2>4, <2>5
<1>4. \A n \in found : table[n].signal \in Int
  <2> TAKE n \in found
  <2>1. table \in Seq(TableLines)
    BY <1>1
  <2>2. n \in 2..Len(table)
    BY <1>2 DEF Entries
  <2>3. Len(table) \in Nat /\ \A i \in 1..Len(table) : table[i] \in TableLines
    BY <2>1
  <2>4. n \in 1..Len(table)
    BY <2>2, <2>3
  <2>5. table[n] \in TableLines
    BY <2>3, <2>4
  <2> QED BY <2>5 DEF TableLines
<1> HIDE DEF found, N
<1>5. /\ \A n \in found : Place(n, found) \in 1..N
      /\ \A m, n \in found : Before(m, n) => Place(m, found) < Place(n, found)
      /\ \A m, n \in found : m # n => Before(m, n) \/ Before(n, m)
  BY <1>2, <1>3, <1>4, PlacesInOrder
<1>6. \A m, n \in found : Place(m, found) = Place(n, found) => m = n
  BY <1>1, <1>5
<1>7. \A i \in 1..N : \E n \in found : Place(n, found) = i
  <2>1. place \in Injection(found, 1..N)
    BY <1>5, <1>6 DEF Injection, IsInjective
  <2>2. IsFiniteSet(1..N) /\ Cardinality(1..N) = N
    BY <1>1, FS_Interval
  <2> HIDE DEF place
  <2>3. place \in Surjection(found, 1..N)
    BY <1>3, <2>1, <2>2, FS_Injection
  <2> QED BY <2>3 DEF Surjection, place
<1>8. \A i \in 1..N : sorted[i] \in found /\ Place(sorted[i], found) = i
  BY <1>7
<1> HIDE DEF sorted
<1>9. sorted = [i \in 1..N |-> sorted[i]]
  BY DEF sorted
<1>10. sorted \in Seq(Entries) /\ Len(sorted) = N
  <2>1. N \in Nat /\ \A i \in 1..N : sorted[i] \in Entries
    BY <1>1, <1>2, <1>8
  <2> QED BY <2>1, <1>9
<1>11. \A i, j \in 1..N : sorted[i] = sorted[j] => i = j
  BY <1>8
<1>12. \A n \in Entries : \E i \in 1..N : sorted[i] = n
  BY <1>2, <1>5, <1>6, <1>8
<1>13. ASSUME NEW i \in 1..N, NEW j \in 1..N, i < j
       PROVE  table[sorted[i]].signal <= table[sorted[j]].signal
  <2>1. ~Before(sorted[j], sorted[i])
    BY <1>1, <1>5, <1>8, <1>13
  <2>2. sorted[i] \in found /\ sorted[j] \in found
    BY <1>8
  <2> QED BY <1>4, <2>1, <2>2 DEF Before
<1>14. Entries' = Entries
  BY <1>1 DEF Entries
<1> QED BY <1>1, <1>10, <1>11, <1>12, <1>13, <1>14 DEF ScanInv

LEMMA ScanBegins == ScanInit => ScanInv
<1> SUFFICES ASSUME ScanInit PROVE ScanInv
  OBVIOUS
<1>1. table \in Seq(TableLines)
  BY TableAssumption DEF ScanInit, TableLines
<1>2. row = 2 /\ results = <<>> /\ sorting = "lines"
  BY DEF ScanInit
<1>3. Entries = {}
  <2>1. Len(table) \in Nat
    BY <1>1
  <2>2. \A n \in 2..Len(table) : ~(n < row)
    BY <1>2, <2>1
  <2> QED BY <2>2 DEF Entries
<1>4. results \in Seq(Entries) /\ Len(results) = 0
  BY <1>2
<1> QED BY <1>1, <1>2, <1>3, <1>4 DEF ScanInv

\* An entry that is read is one more of the entries and of the results.
LEMMA EntryTaken ==
  ASSUME ScanInv, TakeEntry
  PROVE  ScanInv'
<1> DEFINE N == Len(results)
<1>1. /\ table \in Seq(TableLines) /\ table' = table
      /\ row \in Nat /\ row >= 2 /\ row <= Len(table) /\ row' = row + 1
      /\ table[row].form = "entry"
      /\ sorting = "lines" /\ sorting' = "lines" /\ results' = Append(results, row)
      /\ results \in Seq(Entries) /\ N \in Nat
  BY DEF ScanInv, TakeEntry, AtLine
<1>2. Entries' = Entries \union {row} /\ row \notin Entries
  <2>1. Len(table) \in Nat /\ row \in Nat /\ row' = row + 1
    BY <1>1
  <2>2. \A n \in 2..Len(table) : (n < row') <=> (n < row \/ n = row)
    BY <2>1
  <2>3. row \in 2..Len(table)
    BY <1>1, <2>1
  <2> QED BY <1>1, <2>2, <2>3 DEF Entries
<1> DEFINE E == Entries
           F == Entries'
<1>3. E \subseteq F /\ row \in F /\ row \notin E /\ \A n \in F : n \in E \/ n = row
  BY <1>2
<1>4. results \in Seq(E)
  BY <1>1
<1>5. /\ \A i, j \in 1..N : results[i] = results[j] => i = j
      /\ \A n \in E : \E i \in 1..N : results[i] = n
  BY DEF ScanInv
<1> HIDE DEF E, F
<1>6. /\ \A i \in 1..N : results[i] \in E /\ results'[i] = results[i]
      /\ results'[N + 1] = row /\ Len(results') = N + 1
  BY <1>1, <1>4
<1> HIDE DEF N
<1>7. results' \in Seq(F)
  <2>1. results \in Seq(F)
    BY <1>3, <1>4
  <2> QED BY <1>1, <1>3, <2>1
<1>8. \A i \in 1..(N + 1) : i \in 1..N \/ i = N + 1
  BY <1>1
<1>9. \A i \in 1..N : i \in 1..(N + 1)
  BY <1>1
<1>10. N + 1 \in 1..(N + 1)
  BY <1>1
<1>11. \A i, j \in 1..(N + 1) : results'[i] = results'[j] => i = j
  BY <1>3, <1>5, <1>6, <1>8
<1>12. \A n \in F : \E i \in 1..(N + 1) : results'[i] = n
  BY <1>3, <1>5, <1>6, <1>9, <1>10
<1>13. row' \in Nat /\ row' >= 2
  <2>1. row \in Nat /\ row >= 2 /\ row' = row + 1
    BY <1>1
  <2> QED BY <2>1
<1>14. /\ \A i, j \in 1..Len(results') : results'[i] = results'[j] => i = j
       /\ \A n \in F : \E i \in 1..Len(results') : results'[i] = n
  BY <1>6, <1>11, <1>12
<1>15. table' \in Seq(TableLines) /\ sorting' \in {"lines", "done"} /\ sorting' # "done"
  BY <1>1, Zenon
<1> QED BY <1>7, <1>13, <1>14, <1>15, Zenon DEF ScanInv, F

LEMMA ScanMoves == ScanInv /\ [ScanNext]_scanVars => ScanInv'
<1> SUFFICES ASSUME ScanInv, [ScanNext]_scanVars PROVE ScanInv'
  OBVIOUS
<1>1. CASE TakeEntry
  BY <1>1, EntryTaken
<1>2. CASE SkipLine
  <2>1. /\ table \in Seq(TableLines) /\ table' = table
        /\ row \in Nat /\ row >= 2 /\ row' = row + 1 /\ table[row].form # "entry"
        /\ sorting = "lines" /\ sorting' = "lines" /\ results' = results
    BY <1>2 DEF ScanInv, SkipLine, AtLine
  <2>2. Entries' = Entries
    <3>1. Len(table) \in Nat /\ row \in Nat /\ row' = row + 1
      BY <2>1
    <3>2. \A n \in 2..Len(table) : (n < row') <=> (n < row \/ n = row)
      BY <3>1
    <3> QED BY <2>1, <3>2 DEF Entries
  <2>3. row' \in Nat /\ row' >= 2
    <3>1. row \in Nat /\ row >= 2 /\ row' = row + 1
      BY <2>1
    <3> QED BY <3>1
  <2> QED BY <2>1, <2>2, <2>3 DEF ScanInv
<1>3. CASE Sort
  BY <1>3, SortIsWhole
<1>4. CASE UNCHANGED scanVars
  <2>1. UNCHANGED <<table, row, results, sorting>>
    BY <1>4 DEF scanVars
  <2>2. Entries' = Entries
    BY <2>1 DEF Entries
  <2> QED BY <2>1, <2>2 DEF ScanInv
<1> QED BY <1>1, <1>2, <1>3, <1>4 DEF ScanNext

LEMMA ScanKeeps == ScanInv => ScanIsWhole
<1> SUFFICES ASSUME ScanInv, sorting = "done" PROVE ScanIsWhole
  BY DEF ScanIsWhole
<1> DEFINE N == Len(results)
           places(n) == {i \in DOMAIN results : results[i] = n}
<1>1. /\ N \in Nat /\ DOMAIN results = 1..N
      /\ \A i \in 1..N : results[i] \in Entries
      /\ Len(table) \in Nat /\ row \in Nat /\ row > Len(table)
  BY DEF ScanInv
<1>2. ASSUME NEW n \in 2..Len(table)
      PROVE  Cardinality(places(n)) = IF table[n].form = "entry" THEN 1 ELSE 0
  <2>1. CASE table[n].form = "entry"
    <3>1. n \in Entries
      BY <1>1, <2>1 DEF Entries
    <3>2. PICK i \in 1..N : results[i] = n
      BY <3>1 DEF ScanInv
    <3>3. places(n) = {i}
      BY <1>1, <3>2 DEF ScanInv
    <3>4. Cardinality({i}) = 1
      BY FS_Singleton
    <3> QED BY <2>1, <3>3, <3>4
  <2>2. CASE table[n].form # "entry"
    <3>1. n \notin Entries
      BY <2>2 DEF Entries
    <3>2. places(n) = {}
      BY <1>1, <3>1
    <3>3. Cardinality({}) = 0
      BY FS_EmptySet
    <3> QED BY <2>2, <3>2, <3>3
  <2> QED BY <2>1, <2>2
<1>3. \A i, j \in DOMAIN results :
        i < j => table[results[i]].signal <= table[results[j]].signal
  BY <1>1 DEF ScanInv
<1> QED BY <1>2, <1>3 DEF ScanIsWhole

\* However many lines are odd, wherever they are, and however many signals are
\* equal, a table of any length is listed whole and in order (sta/types.rs:55).
THEOREM ScansAreWhole == ScanSpec => []ScanIsWhole
<1>1. ScanInv /\ [ScanNext]_scanVars => ScanInv'
  BY ScanMoves
<1> QED BY <1>1, ScanBegins, ScanKeeps, PTL DEF ScanSpec

-----------------------------------------------------------------------------
(* The readers together. *)

CodecInv == SsidInv /\ ParamsInv /\ ScanInv /\ ReportInv

\* A reader with nothing to do satisfies its invariant as well.
LEMMA IdleReaders ==
  /\ SsidIdle => SsidInv
  /\ ParamsIdle => ParamsInv
  /\ ScanIdle => ScanInv
  /\ ConfigIdle => ReportInv
<1>1. ASSUME SsidIdle PROVE SsidInv
  <2>1. ssid \in Seq(Byte) /\ Len(ssid) = 0
    BY <1>1 DEF SsidIdle
  <2> QED BY <1>1, <2>1 DEF SsidIdle, SsidInv
<1>2. ASSUME ParamsIdle PROVE ParamsInv
  <2>1. given \in Seq(Byte)
    BY <1>2 DEF ParamsIdle
  <2> QED BY <1>2, <2>1 DEF ParamsIdle, ParamsInv, PskInv
<1>3. ASSUME ScanIdle PROVE ScanInv
  <2>1. table \in Seq(TableLines) /\ Len(table) = 0 /\ row = 2
        /\ results = <<>> /\ sorting = "done"
    BY <1>3 DEF ScanIdle
  <2>2. Entries = {}
    BY <2>1 DEF Entries
  <2>3. results \in Seq(Entries) /\ Len(results) = 0 /\ 1..0 = {}
    BY <2>1
  <2> QED BY <2>1, <2>2, <2>3 DEF ScanInv
<1>4. ASSUME ConfigIdle PROVE ReportInv
  <2>1. lines = <<>> /\ at = 1 /\ map = [k \in Keys |-> <<>>] /\ result = "Ok"
    BY <1>4 DEF ConfigIdle
  <2>2. lines \in Seq(Line) /\ Len(lines) = 0
    BY <2>1
  <2>3. ConfigTypeOK
    BY <2>1, <2>2 DEF ConfigTypeOK
  <2>4. Aligned
    BY <2>1 DEF Aligned
  <2> QED BY <2>1, <2>3, <2>4 DEF ReportInv, IInv, ReportsParse
<1> QED BY <1>1, <1>2, <1>3, <1>4

\* Whichever reader takes the text, the library's answers are the promised
\* ones: names, keys and addresses come through, tables, lists and reports are
\* whole (config.rs:170, sta/types.rs:50, 265).
THEOREM ReadersKeepTheirWord ==
  CodecSpec => [](/\ SsidComesBack /\ CutNeverMisleads
                  /\ ReadBack /\ BssidCanonical
                  /\ ScanIsWhole /\ Aligned /\ ReportsParse)
<1>1. CodecInit => CodecInv
  BY IdleReaders, SsidBegins, ParamsBegins, ScanBegins, ReportBegins
  DEF CodecInit, CodecInv
<1>2. CodecInv /\ [CodecNext]_codecVars => CodecInv'
  <2> SUFFICES ASSUME CodecInv, [CodecNext]_codecVars PROVE CodecInv'
    OBVIOUS
  <2>1. /\ [SsidNext]_ssidVars /\ [ParamsNext]_paramsVars
        /\ [ScanNext]_scanVars /\ [Next]_vars
    BY DEF CodecNext, codecVars
  <2> QED BY <2>1, SsidMoves, ParamsMoves, ScanMoves, ReportMoves DEF CodecInv
<1>3. CodecInv => /\ SsidComesBack /\ CutNeverMisleads
                  /\ ReadBack /\ BssidCanonical
                  /\ ScanIsWhole /\ Aligned /\ ReportsParse
  BY SsidReads, ParamsReadBack, ParamsWrite, ScanKeeps
  DEF CodecInv, ReportInv, IInv
<1> QED BY <1>1, <1>2, <1>3, PTL DEF CodecSpec
=============================================================================
