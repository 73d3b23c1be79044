------------------------------ MODULE CanvasProofs ------------------------------
(***************************************************************************)
(* What is put on a canvas and taken off it again: the elements of a       *)
(* whiteboard's scene, by the commands of a batch and by a refusal, and    *)
(* the lines and merged cells of a table on a slide.                       *)
(*                                                                         *)
(* The whiteboard has no copy of its scene to go back to: a refused batch  *)
(* relies on the mutations of the commands before.  The proof shows of     *)
(* every command that its mutation takes it back, the order of painting    *)
(* and a parent's children included, so that the mutations of a batch      *)
(* taken back in reverse give the scene of the last revision               *)
(* (BatchCanBeTakenBack): the scene's ids must not repeat for that, and a  *)
(* deletion must have found every element of its subtree.                  *)
(*                                                                         *)
(* Every operation on a table leaves a table whose cells cover every place *)
(* of the grid exactly once, for tables of every size.                     *)
(***************************************************************************)
EXTENDS WhiteboardEngine, TableNode, TLAPS, NaturalsInduction, WellFoundedInduction,
        FiniteSetTheorems

--------------------------------------------------------------------------------
(* Numbers.                                                                     *)

\* A set of naturals with 0 and every successor is all of them.
LEMMA SetInduction ==
  ASSUME NEW S \in SUBSET Nat, 0 \in S, \A n \in S : n + 1 \in S
  PROVE  S = Nat
  <1> DEFINE R == {ss \in Nat \X Nat : ss[1] < ss[2]}
             T == Nat \ S
  <1>1. IsWellFoundedOn(R, Nat)
    BY NatLessThanWellFounded DEF OpToRel
  <1>2. ASSUME T # {} PROVE FALSE
    <2>1. T \subseteq Nat
      OBVIOUS
    <2> HIDE DEF R, T
    <2>2. PICK m \in T : \A k \in T : <<k, m>> \notin R
      BY <1>1, <1>2, <2>1, WFMin
    <2>3. m \in Nat /\ m # 0 /\ m \notin S
      BY <2>2 DEF T
    <2>4. m - 1 \in Nat /\ m - 1 \notin S
      BY <2>3
    <2>5. <<m - 1, m>> \in R /\ m - 1 \in T
      BY <2>3, <2>4 DEF R, T
    <2> QED
      BY <2>2, <2>5
  <1> QED
    BY <1>2

--------------------------------------------------------------------------------
(* FoldLeft is a recursion over the subsets of a sequence's domain, each        *)
(* without its largest element.  op is the function of a step.                  *)

Largest(s)   == CHOOSE x \in s : \A y \in s : x >= y

\* A nonempty set of numbers up to n has a largest one.
LEMMA LargestExists ==
  ASSUME NEW n \in Nat
  PROVE  \A s \in SUBSET (1 .. n) : s # {} => Largest(s) \in s /\ \A y \in s : y <= Largest(s)
  <1> DEFINE P == {k \in Nat : \A s \in SUBSET (1 .. k) : s # {} =>
                                  \E x \in s : \A y \in s : x >= y}
  <1>1. 0 \in P
    <2>1. \A s \in SUBSET (1 .. 0) : s = {}
      OBVIOUS
    <2> QED
      BY <2>1
  <1>2. ASSUME NEW k \in P PROVE k + 1 \in P
    <2>1. ASSUME NEW s \in SUBSET (1 .. k + 1), s # {}
          PROVE  \E x \in s : \A y \in s : x >= y
      <3>1. CASE k + 1 \in s
        BY <3>1
      <3>2. CASE k + 1 \notin s
        <4>1. s \in SUBSET (1 .. k)
          BY <3>2
        <4> QED
          BY <4>1, <2>1
      <3> QED
        BY <3>1, <3>2
    <2> QED
      BY <2>1
  <1>3. P = Nat
    <2> HIDE DEF P
    <2>1. P \in SUBSET Nat
      BY DEF P
    <2> QED
      BY <1>1, <1>2, <2>1, SetInduction
  <1>4. ASSUME NEW s \in SUBSET (1 .. n), s # {}
        PROVE  Largest(s) \in s /\ \A y \in s : y <= Largest(s)
    <2>1. \E x \in s : \A y \in s : x >= y
      BY <1>3, <1>4
    <2>2. Largest(s) \in s /\ \A y \in s : Largest(s) >= y
      BY <2>1 DEF Largest
    <2>3. \A y \in s : y \in Int
      OBVIOUS
    <2> QED
      BY <2>2, <2>3
  <1> QED
    BY <1>4

\* The numbers to k + 1 without the largest are the numbers to k.
LEMMA OneMore ==
  ASSUME NEW k \in Nat
  PROVE  /\ (1 .. k + 1) \ {k + 1} = 1 .. k
         /\ k + 1 \in 1 .. k + 1
         /\ \A s \in SUBSET (1 .. k + 1) :
               /\ s \ {k + 1} \in SUBSET (1 .. k)
               /\ s \notin SUBSET (1 .. k) => k + 1 \in s
         /\ \A n \in Nat : k + 1 <= n => 1 .. k + 1 \in SUBSET (1 .. n) /\ k + 1 \in 1 .. n
  <1>1. (1 .. k + 1) \ {k + 1} = 1 .. k /\ k + 1 \in 1 .. k + 1
    OBVIOUS
  <1>2. ASSUME NEW s \in SUBSET (1 .. k + 1)
        PROVE  /\ s \ {k + 1} \in SUBSET (1 .. k)
               /\ s \notin SUBSET (1 .. k) => k + 1 \in s
    BY <1>1, Zenon
  <1>3. ASSUME NEW n \in Nat, k + 1 <= n
        PROVE  1 .. k + 1 \in SUBSET (1 .. n) /\ k + 1 \in 1 .. n
    <2>1. \A x \in 1 .. k + 1 : x \in 1 .. n
      BY <1>3
    <2> QED
      BY <1>1, <2>1, Zenon
  <1> QED
    BY <1>1, <1>2, <1>3, Zenon

\* What bounds a set of indices up to k + 1 that has k + 1 is k + 1.
LEMMA TopIs ==
  ASSUME NEW k \in Nat, NEW s \in SUBSET (1 .. k + 1), k + 1 \in s,
         NEW m, m \in s, \A y \in s : y <= m
  PROVE  m = k + 1
  OBVIOUS

--------------------------------------------------------------------------------
(* Lists.                                                                       *)

List(s) == s \in Seq({s[i] : i \in DOMAIN s})

\* A list, and what is at every place of it.
LEMMA Listed ==
  ASSUME NEW s, NEW A, s \in Seq(A)
  PROVE  /\ List(s) /\ Len(s) \in Nat /\ DOMAIN s = 1 .. Len(s)
         /\ \A i \in DOMAIN s : s[i] \in A
  <1> DEFINE R == {s[i] : i \in DOMAIN s}
  <1>1. Len(s) \in Nat /\ s \in [1 .. Len(s) -> A] /\ DOMAIN s = 1 .. Len(s)
    OBVIOUS
  <1>2. \A i \in 1 .. Len(s) : s[i] \in R
    BY <1>1
  <1>3. s \in [1 .. Len(s) -> R]
    <2> HIDE DEF R
    <2> QED
      BY <1>1, <1>2
  <1>4. s \in Seq(R)
    <2> HIDE DEF R
    <2> QED
      BY <1>1, <1>3
  <1> QED
    BY <1>1, <1>4 DEF List

\* A list is the function of its indices.
LEMMA ListFacts ==
  ASSUME NEW s, List(s)
  PROVE  Len(s) \in Nat /\ DOMAIN s = 1 .. Len(s) /\ s = [i \in 1 .. Len(s) |-> s[i]]
  <1> DEFINE R == {s[i] : i \in DOMAIN s}
  <1>1. s \in Seq(R)
    BY DEF List
  <1> HIDE DEF R
  <1> QED
    BY <1>1

\* A function on the numbers to n is a list.
LEMMA ListOf ==
  ASSUME NEW s, NEW n \in Nat, DOMAIN s = 1 .. n, s = [i \in 1 .. n |-> s[i]]
  PROVE  List(s) /\ Len(s) = n
  <1> DEFINE R == {s[i] : i \in DOMAIN s}
  <1>1. \A i \in 1 .. n : s[i] \in R
    OBVIOUS
  <1> HIDE DEF R
  <1>2. s \in [1 .. n -> R]
    BY <1>1
  <1>3. s \in Seq(R)
    BY <1>2
  <1> QED
    BY <1>2, <1>3 DEF List, R

\* An appended list is the old one and its new last.
LEMMA ListAppend ==
  ASSUME NEW s, List(s), NEW x
  PROVE  /\ List(Append(s, x)) /\ Len(Append(s, x)) = Len(s) + 1
         /\ \A i \in DOMAIN Append(s, x) :
              Append(s, x)[i] = IF i = Len(s) + 1 THEN x ELSE s[i]
         /\ \A i \in DOMAIN Append(s, x) : i # Len(s) + 1 => i \in DOMAIN s
  <1> DEFINE R == {s[i] : i \in DOMAIN s} \cup {x}
             t == Append(s, x)
  <1>1. s \in Seq({s[i] : i \in DOMAIN s})
    BY DEF List
  <1>2. \A i \in DOMAIN s : s[i] \in R
    OBVIOUS
  <1>3. Len(s) \in Nat /\ DOMAIN s = 1 .. Len(s) /\ s = [i \in 1 .. Len(s) |-> s[i]]
    BY ListFacts
  <1>4. x \in R
    OBVIOUS
  <1> HIDE DEF R
  <1>5. s \in Seq(R)
    BY <1>2, <1>3
  <1>6. t \in Seq(R) /\ Len(t) = Len(s) + 1 /\ DOMAIN t = 1 .. Len(s) + 1
        /\ \A i \in 1 .. Len(s) + 1 : t[i] = IF i = Len(s) + 1 THEN x ELSE s[i]
    BY <1>4, <1>5
  <1>7. List(t)
    BY <1>6, Listed
  <1> QED
    BY <1>3, <1>6, <1>7

\* A list with one entry replaced is a list of the same length.
LEMMA ListExcept ==
  ASSUME NEW s, List(s), NEW k, NEW x
  PROVE  /\ List([s EXCEPT ![k] = x]) /\ DOMAIN [s EXCEPT ![k] = x] = DOMAIN s
         /\ \A i \in DOMAIN s : [s EXCEPT ![k] = x][i] = IF i = k THEN x ELSE s[i]
  <1> DEFINE t == [s EXCEPT ![k] = x]
  <1>1. Len(s) \in Nat /\ DOMAIN s = 1 .. Len(s)
    BY ListFacts
  <1>2. DOMAIN t = 1 .. Len(s) /\ t = [i \in 1 .. Len(s) |-> t[i]]
        /\ \A i \in DOMAIN s : t[i] = IF i = k THEN x ELSE s[i]
    BY <1>1
  <1> HIDE DEF t
  <1>3. List(t)
    BY <1>1, <1>2, ListOf
  <1> QED
    BY <1>1, <1>2, <1>3 DEF t

\* The empty list has no index.
LEMMA EmptyList == List(<< >>) /\ DOMAIN << >> = {}
  <1>1. << >> \in Seq({}) /\ DOMAIN << >> = {}
    OBVIOUS
  <1>2. List(<< >>)
    BY <1>1, Listed
  <1> QED
    BY <1>1, <1>2

\* A nonempty set of numbers up to n has a least one.
LEMMA LeastExists ==
  \A n \in Nat : \A S \in SUBSET (1 .. n) : S # {} => \E x \in S : \A y \in S : x <= y
  <1> DEFINE P == {n \in Nat : \A S \in SUBSET (1 .. n) : S # {} => \E x \in S : \A y \in S : x <= y}
  <1>1. 0 \in P
    <2>1. \A S \in SUBSET (1 .. 0) : S = {}
      OBVIOUS
    <2> QED
      BY <2>1
  <1>2. ASSUME NEW n \in P PROVE n + 1 \in P
    <2>1. ASSUME NEW S \in SUBSET (1 .. n + 1), S # {}
          PROVE  \E x \in S : \A y \in S : x <= y
      <3>1. S \ {n + 1} \in SUBSET (1 .. n)
        OBVIOUS
      <3>2. CASE S \ {n + 1} = {}
        <4>1. S = {n + 1}
          BY <2>1, <3>2
        <4> QED
          BY <4>1
      <3>3. CASE S \ {n + 1} # {}
        <4>1. PICK x \in S \ {n + 1} : \A y \in S \ {n + 1} : x <= y
          BY <3>1, <3>3
        <4>2. x <= n + 1
          BY <3>1
        <4>3. \A y \in S : x <= y
          BY <4>1, <4>2
        <4> QED
          BY <4>3
      <3> QED
        BY <3>2, <3>3
    <2> QED
      BY <2>1
  <1>3. P = Nat
    <2>1. P \in SUBSET Nat
      OBVIOUS
    <2> HIDE DEF P
    <2> QED
      BY <1>1, <1>2, <2>1, SetInduction
  <1> QED
    BY <1>3
--------------------------------------------------------------------------------
(* Taking elements out of a list.                                               *)

\* Without is the last of the lists that its recursion builds.
LEMMA WithoutSteps ==
  ASSUME NEW s, List(s), NEW gone
  PROVE  \E f : /\ Without(s, gone) = f[Len(s)] /\ f[0] = << >>
                /\ \A n \in 0 .. Len(s) - 1 :
                     f[n + 1] = IF s[n + 1].id \in gone THEN f[n] ELSE Append(f[n], s[n + 1])
  <1> DEFINE Is(f, k) == f = [n \in 0 .. k |-> IF n = 0 THEN << >>
                                ELSE IF s[n].id \in gone THEN f[n - 1] ELSE Append(f[n - 1], s[n])]
  <1>1. Len(s) \in Nat
    BY ListFacts
  <1>2. Without(s, gone) = (CHOOSE f : Is(f, Len(s)))[Len(s)]
    BY DEF Without
  <1>3. \E f : Is(f, 0)
    <2>1. Is([n \in 0 .. 0 |-> << >>], 0)
      OBVIOUS
    <2> QED
      BY <2>1
  <1>4. ASSUME NEW k \in Nat, NEW f, Is(f, k)
        PROVE  \E g : Is(g, k + 1)
    <2> DEFINE g == [n \in 0 .. k + 1 |-> IF n <= k THEN f[n]
                       ELSE IF s[n].id \in gone THEN f[n - 1] ELSE Append(f[n - 1], s[n])]
    <2>1. ASSUME NEW n \in 0 .. k + 1
          PROVE  g[n] = IF n = 0 THEN << >>
                        ELSE IF s[n].id \in gone THEN g[n - 1] ELSE Append(g[n - 1], s[n])
      <3>1. CASE n <= k
        <4>1. f[n] = IF n = 0 THEN << >>
                     ELSE IF s[n].id \in gone THEN f[n - 1] ELSE Append(f[n - 1], s[n])
          <5>1. n \in 0 .. k
            BY <3>1
          <5> QED
            BY <1>4, <5>1, Zenon
        <4>2. g[n] = f[n] /\ (n # 0 => g[n - 1] = f[n - 1])
          BY <3>1
        <4> QED
          BY <4>1, <4>2
      <3>2. CASE n > k
        <4>1. n = k + 1 /\ n # 0 /\ n - 1 \in 0 .. k + 1 /\ n - 1 <= k
          BY <3>2
        <4>2. g[n - 1] = f[n - 1]
          BY <4>1
        <4>3. g[n] = IF s[n].id \in gone THEN f[n - 1] ELSE Append(f[n - 1], s[n])
          BY <3>2
        <4> QED
          BY <4>1, <4>2, <4>3
      <3> QED
        BY <3>1, <3>2
    <2>2. g = [n \in 0 .. k + 1 |-> g[n]]
      OBVIOUS
    <2> HIDE DEF g
    <2>3. Is(g, k + 1)
      BY <2>1, <2>2
    <2> QED
      BY <2>3
  <1> DEFINE P == {k \in Nat : \E f : Is(f, k)}
  <1> HIDE DEF Is
  <1>5. P = Nat
    <2>1. 0 \in P
      BY <1>3
    <2>2. \A k \in P : k + 1 \in P
      BY <1>4
    <2>3. P \in SUBSET Nat
      OBVIOUS
    <2> HIDE DEF P
    <2> QED
      BY <2>1, <2>2, <2>3, SetInduction
  <1> DEFINE f == CHOOSE f : Is(f, Len(s))
  <1>6. Is(f, Len(s)) /\ Without(s, gone) = f[Len(s)]
    BY <1>1, <1>2, <1>5
  <1> HIDE DEF f
  <1>7. \A n \in 0 .. Len(s) : f[n] = IF n = 0 THEN << >>
          ELSE IF s[n].id \in gone THEN f[n - 1] ELSE Append(f[n - 1], s[n])
    BY <1>1, <1>6 DEF Is
  <1>8. f[0] = << >>
    BY <1>1, <1>7
  <1>9. ASSUME NEW n \in 0 .. Len(s) - 1
        PROVE  f[n + 1] = IF s[n + 1].id \in gone THEN f[n] ELSE Append(f[n], s[n + 1])
    <2>1. n + 1 \in 0 .. Len(s) /\ n + 1 # 0 /\ (n + 1) - 1 = n
      BY <1>1
    <2> QED
      BY <1>7, <2>1
  <1> QED
    BY <1>6, <1>8, <1>9

\* The shape of a step: f lists what stays of the first n places of s.
Keeping(f, s, gone) ==
  /\ f[0] = << >>
  /\ \A n \in 0 .. Len(s) - 1 :
       f[n + 1] = IF s[n + 1].id \in gone THEN f[n] ELSE Append(f[n], s[n + 1])

\* What stays comes from the places read so far.
LEMMA KeptFrom ==
  ASSUME NEW s, List(s), NEW gone, NEW f, Keeping(f, s, gone)
  PROVE  \A n \in 0 .. Len(s) :
           /\ List(f[n]) /\ Len(f[n]) <= n
           /\ \A i \in DOMAIN f[n] : \E j \in 1 .. n : f[n][i] = s[j] /\ s[j].id \notin gone
  <1> DEFINE Good(n) ==
               /\ List(f[n]) /\ Len(f[n]) <= n
               /\ \A i \in DOMAIN f[n] : \E j \in 1 .. n : f[n][i] = s[j] /\ s[j].id \notin gone
             P == {n \in Nat : n <= Len(s) => Good(n)}
  <1>1. Len(s) \in Nat
    BY ListFacts
  <1>2. Good(0)
    BY EmptyList DEF Keeping
  <1>3. ASSUME NEW n \in P PROVE n + 1 \in P
    <2> SUFFICES ASSUME n + 1 <= Len(s) PROVE Good(n + 1)
      OBVIOUS
    <2>1. n \in 0 .. Len(s) - 1 /\ Good(n)
      BY <1>1, <1>3
    <2>2. f[n + 1] = IF s[n + 1].id \in gone THEN f[n] ELSE Append(f[n], s[n + 1])
      BY <2>1 DEF Keeping
    <2>3. Len(f[n]) \in Nat
      BY <2>1, ListFacts
    <2>4. \A j \in 1 .. n : j \in 1 .. n + 1
      OBVIOUS
    <2>5. CASE s[n + 1].id \in gone
      BY <2>1, <2>2, <2>3, <2>4, <2>5
    <2>6. CASE s[n + 1].id \notin gone
      <3> DEFINE t == Append(f[n], s[n + 1])
      <3>1. /\ List(t) /\ Len(t) = Len(f[n]) + 1
            /\ \A i \in DOMAIN t : t[i] = IF i = Len(f[n]) + 1 THEN s[n + 1] ELSE f[n][i]
            /\ \A i \in DOMAIN t : i # Len(f[n]) + 1 => i \in DOMAIN f[n]
        BY <2>1, ListAppend
      <3>2. f[n + 1] = t
        BY <2>2, <2>6
      <3> HIDE DEF t
      <3>3. ASSUME NEW i \in DOMAIN t
            PROVE  \E j \in 1 .. n + 1 : t[i] = s[j] /\ s[j].id \notin gone
        <4>1. CASE i = Len(f[n]) + 1
          BY <2>6, <3>1, <4>1
        <4>2. CASE i # Len(f[n]) + 1
          BY <2>1, <2>4, <3>1, <4>2
        <4> QED
          BY <4>1, <4>2
      <3>4. Len(t) <= n + 1
        BY <2>1, <2>3, <3>1
      <3> QED
        BY <3>1, <3>2, <3>3, <3>4
    <2> QED
      BY <2>5, <2>6
  <1>4. P = Nat
    <2> HIDE DEF Good
    <2>1. 0 \in P /\ P \in SUBSET Nat
      BY <1>2
    <2> HIDE DEF P
    <2> QED
      BY <1>3, <2>1, SetInduction
  <1> QED
    BY <1>1, <1>4

\* What stays of the first k places begins what stays of the first n.
LEMMA KeptPrefix ==
  ASSUME NEW s, List(s), NEW gone, NEW f, Keeping(f, s, gone), NEW k \in 0 .. Len(s)
  PROVE  \A n \in k .. Len(s) :
           /\ Len(f[k]) <= Len(f[n])
           /\ \A i \in DOMAIN f[k] : i \in DOMAIN f[n] /\ f[n][i] = f[k][i]
  <1> DEFINE Good(n) ==
               /\ Len(f[k]) <= Len(f[n])
               /\ \A i \in DOMAIN f[k] : i \in DOMAIN f[n] /\ f[n][i] = f[k][i]
             P == {n \in Nat : n \in k .. Len(s) => Good(n)}
  <1>1. Len(s) \in Nat /\ k \in Nat
    BY ListFacts
  <1>2. \A n \in 0 .. Len(s) : List(f[n]) /\ Len(f[n]) \in Nat /\ DOMAIN f[n] = 1 .. Len(f[n])
    BY KeptFrom, ListFacts
  <1>3. Good(k)
    BY <1>2
  <1>4. 0 \in P
    BY <1>1, <1>3
  <1>5. ASSUME NEW n \in P PROVE n + 1 \in P
    <2> SUFFICES ASSUME n + 1 \in k .. Len(s) PROVE Good(n + 1)
      OBVIOUS
    <2>1. CASE n + 1 = k
      BY <1>3, <2>1
    <2>2. CASE n + 1 # k
      <3>1. n \in k .. Len(s) /\ n \in 0 .. Len(s) - 1 /\ n \in 0 .. Len(s) /\ Good(n)
        BY <1>1, <1>5, <2>2
      <3>2. f[n + 1] = IF s[n + 1].id \in gone THEN f[n] ELSE Append(f[n], s[n + 1])
        BY <3>1 DEF Keeping
      <3>3. CASE s[n + 1].id \in gone
        BY <3>1, <3>2, <3>3
      <3>4. CASE s[n + 1].id \notin gone
        <4> DEFINE t == Append(f[n], s[n + 1])
        <4>1. /\ List(t) /\ Len(t) = Len(f[n]) + 1 /\ DOMAIN t = 1 .. Len(t)
              /\ \A i \in DOMAIN t : t[i] = IF i = Len(f[n]) + 1 THEN s[n + 1] ELSE f[n][i]
          BY <1>2, <3>1, ListAppend, ListFacts
        <4>2. f[n + 1] = t
          BY <3>2, <3>4
        <4>3. Len(f[n]) \in Nat /\ Len(f[k]) \in Nat /\ DOMAIN f[n] = 1 .. Len(f[n])
              /\ DOMAIN f[k] = 1 .. Len(f[k])
          BY <1>2, <3>1
        <4> HIDE DEF t
        <4>4. \A i \in DOMAIN f[k] : i \in DOMAIN t /\ t[i] = f[k][i]
          BY <3>1, <4>1, <4>3
        <4> QED
          BY <3>1, <4>1, <4>2, <4>3, <4>4
      <3> QED
        BY <3>3, <3>4
    <2> QED
      BY <2>1, <2>2
  <1>6. P = Nat
    <2> HIDE DEF Good
    <2>1. P \in SUBSET Nat
      OBVIOUS
    <2> HIDE DEF P
    <2> QED
      BY <1>4, <1>5, <2>1, SetInduction
  <1> QED
    BY <1>1, <1>6

\* What Without keeps, as a function of how much of the list it has read.
LEMMA WithoutIs ==
  ASSUME NEW s, List(s), NEW gone
  PROVE  \E f : Without(s, gone) = f[Len(s)] /\ Keeping(f, s, gone)
  BY WithoutSteps DEF Keeping

\* Ids are not repeated.
Apart(s) == \A i, j \in DOMAIN s : s[i].id = s[j].id => i = j

\* What stays is a list of elements of s, and no id is repeated.
LEMMA WithoutFacts ==
  ASSUME NEW s, List(s), Apart(s), NEW gone
  PROVE  /\ List(Without(s, gone)) /\ Apart(Without(s, gone))
         /\ \A i \in DOMAIN Without(s, gone) :
              \E j \in DOMAIN s : Without(s, gone)[i] = s[j] /\ s[j].id \notin gone
  <1> DEFINE t == Without(s, gone)
  <1>1. Len(s) \in Nat /\ DOMAIN s = 1 .. Len(s)
    BY ListFacts
  <1>2. PICK f : t = f[Len(s)] /\ Keeping(f, s, gone)
    BY WithoutIs
  <1>3. \A n \in 0 .. Len(s) :
           /\ List(f[n]) /\ Len(f[n]) <= n
           /\ \A i \in DOMAIN f[n] : \E j \in 1 .. n : f[n][i] = s[j] /\ s[j].id \notin gone
    BY <1>2, KeptFrom
  <1>4. \A n \in 0 .. Len(s) : Apart(f[n])
    <2> DEFINE P == {n \in Nat : n <= Len(s) => Apart(f[n])}
    <2>1. 0 \in P
      BY <1>2, EmptyList DEF Keeping, Apart
    <2>2. ASSUME NEW n \in P PROVE n + 1 \in P
      <3> SUFFICES ASSUME n + 1 <= Len(s) PROVE Apart(f[n + 1])
        OBVIOUS
      <3>1. n \in 0 .. Len(s) - 1 /\ n \in 0 .. Len(s) /\ Apart(f[n])
        BY <1>1, <2>2
      <3>2. f[n + 1] = IF s[n + 1].id \in gone THEN f[n] ELSE Append(f[n], s[n + 1])
        BY <1>2, <3>1 DEF Keeping
      <3>3. CASE s[n + 1].id \in gone
        BY <3>1, <3>2, <3>3
      <3>4. CASE s[n + 1].id \notin gone
        <4> DEFINE u == Append(f[n], s[n + 1])
        <4>1. /\ \A i \in DOMAIN u : u[i] = IF i = Len(f[n]) + 1 THEN s[n + 1] ELSE f[n][i]
              /\ \A i \in DOMAIN u : i # Len(f[n]) + 1 => i \in DOMAIN f[n]
          BY <1>3, <3>1, ListAppend
        <4>2. f[n + 1] = u
          BY <3>2, <3>4
        <4> HIDE DEF u
        <4>3. \A i \in DOMAIN f[n] : f[n][i].id # s[n + 1].id
          <5>1. TAKE i \in DOMAIN f[n]
          <5>2. PICK j \in 1 .. n : f[n][i] = s[j]
            BY <1>3, <3>1
          <5>3. j \in DOMAIN s /\ n + 1 \in DOMAIN s /\ j # n + 1
            BY <1>1, <3>1
          <5> QED
            BY <5>2, <5>3 DEF Apart
        <4> QED
          BY <3>1, <4>1, <4>2, <4>3 DEF Apart
      <3> QED
        BY <3>3, <3>4
    <2>3. P = Nat
      <3>1. P \in SUBSET Nat
        OBVIOUS
      <3> HIDE DEF P
      <3> QED
        BY <2>1, <2>2, <3>1, SetInduction
    <2> QED
      BY <2>3
  <1>5. Len(s) \in 0 .. Len(s)
    BY <1>1
  <1> HIDE DEF t
  <1>6. List(t) /\ Apart(t) /\ \A i \in DOMAIN t : \E j \in DOMAIN s : t[i] = s[j] /\ s[j].id \notin gone
    BY <1>1, <1>2, <1>3, <1>4, <1>5
  <1> QED
    BY <1>6 DEF t

\* Where the entries of a concatenation come from.
LEMMA ConcatIs ==
  ASSUME NEW R, NEW a \in Seq(R), NEW b \in Seq(R)
  PROVE  /\ a \o b \in Seq(R) /\ Len(a \o b) = Len(a) + Len(b)
         /\ Len(a) \in Nat /\ Len(b) \in Nat
         /\ \A i \in 1 .. Len(a) + Len(b) :
              (a \o b)[i] = IF i <= Len(a) THEN a[i] ELSE b[i - Len(a)]
  OBVIOUS

\* What InsertAt puts where.
LEMMA InsertIs ==
  ASSUME NEW s, List(s), NEW k \in 1 .. Len(s) + 1, NEW x
  PROVE  /\ List(InsertAt(s, k, x)) /\ Len(InsertAt(s, k, x)) = Len(s) + 1
         /\ DOMAIN InsertAt(s, k, x) = 1 .. Len(s) + 1
         /\ \A i \in 1 .. Len(s) + 1 :
              InsertAt(s, k, x)[i] = IF i < k THEN s[i] ELSE IF i = k THEN x ELSE s[i - 1]
  <1> DEFINE R == {s[i] : i \in DOMAIN s} \cup {x}
             t == InsertAt(s, k, x)
             a == SubSeq(s, 1, k - 1)
             b == SubSeq(s, k, Len(s))
             c == <<x>>
  <1>1. Len(s) \in Nat /\ DOMAIN s = 1 .. Len(s) /\ s = [i \in 1 .. Len(s) |-> s[i]]
    BY ListFacts
  <1>2. \A i \in DOMAIN s : s[i] \in R
    OBVIOUS
  <1>3. x \in R
    OBVIOUS
  <1>4. t = a \o c \o b
    BY DEF InsertAt
  <1> HIDE DEF R, t
  <1>5. s \in Seq(R)
    BY <1>1, <1>2
  <1>6. /\ a \in Seq(R) /\ Len(a) = k - 1 /\ \A i \in 1 .. k - 1 : a[i] = s[i]
    BY <1>1, <1>5
  <1>7. /\ b \in Seq(R) /\ Len(b) = Len(s) - k + 1
        /\ \A i \in 1 .. Len(s) - k + 1 : b[i] = s[i + k - 1]
    BY <1>1, <1>5
  <1>8. c \in Seq(R) /\ Len(c) = 1 /\ c[1] = x
    BY <1>3
  <1> HIDE DEF a, b, c
  <1>9. a \o c \in Seq(R) /\ Len(a \o c) = k
        /\ \A i \in 1 .. k : (a \o c)[i] = IF i < k THEN s[i] ELSE x
    <2> HIDE DEF R
    <2>1. /\ a \o c \in Seq(R) /\ Len(a \o c) = Len(a) + Len(c)
          /\ \A i \in 1 .. Len(a) + Len(c) :
               (a \o c)[i] = IF i <= Len(a) THEN a[i] ELSE c[i - Len(a)]
      BY <1>6, <1>8, ConcatIs
    <2>2. Len(a \o c) = k
      BY <1>1, <1>6, <1>8, <2>1
    <2>3. \A i \in 1 .. k : (a \o c)[i] = IF i <= k - 1 THEN a[i] ELSE c[i - (k - 1)]
      BY <1>1, <1>6, <1>8, <2>1
    <2>4. \A i \in 1 .. k : i <= k - 1 \/ (i = k /\ i - (k - 1) = 1)
      BY <1>1
    <2> QED
      BY <1>1, <1>6, <1>8, <2>1, <2>2, <2>3, <2>4
  <1> DEFINE d == a \o c
  <1>10. d \in Seq(R) /\ Len(d) = k /\ t = d \o b
         /\ \A i \in 1 .. k : d[i] = IF i < k THEN s[i] ELSE x
    BY <1>4, <1>9
  <1> HIDE DEF d
  <1>11. t \in Seq(R) /\ Len(t) = Len(s) + 1
    <2>1. d \o b \in Seq(R) /\ Len(d \o b) = Len(d) + Len(b)
      BY <1>7, <1>10, ConcatIs
    <2> QED
      BY <1>1, <1>7, <1>10, <2>1
  <1>14. \A i \in 1 .. Len(d) + Len(b) : t[i] = IF i <= Len(d) THEN d[i] ELSE b[i - Len(d)]
    BY <1>7, <1>10, ConcatIs
  <1>12. ASSUME NEW i \in 1 .. Len(s) + 1
         PROVE  t[i] = IF i < k THEN s[i] ELSE IF i = k THEN x ELSE s[i - 1]
    <2>1. t[i] = IF i <= Len(d) THEN d[i] ELSE b[i - Len(d)]
      BY <1>1, <1>7, <1>10, <1>14
    <2>2. CASE i <= k
      BY <1>1, <1>10, <2>1, <2>2
    <2>3. CASE i > k
      <3> DEFINE j == i - k
      <3>1. t[i] = b[j] /\ j \in 1 .. Len(s) - k + 1 /\ j + k - 1 = i - 1
        <4>1. Len(d) = k /\ ~(i <= Len(d))
          BY <1>10, <2>3
        <4>2. t[i] = b[j]
          BY <2>1, <4>1
        <4>3. j \in 1 .. Len(s) - k + 1 /\ j + k - 1 = i - 1
          BY <1>1, <2>3
        <4> QED
          BY <4>2, <4>3
      <3> HIDE DEF j
      <3>2. b[j] = s[j + k - 1]
        BY <1>7, <3>1
      <3>3. t[i] = s[i - 1]
        BY <3>1, <3>2, Zenon
      <3>4. ~(i < k) /\ i # k
        BY <1>1, <2>3
      <3> QED
        BY <3>3, <3>4
    <2> QED
      BY <1>1, <2>2, <2>3
  <1>13. List(t) /\ DOMAIN t = 1 .. Len(s) + 1
    BY <1>11, Listed
  <1> QED
    BY <1>11, <1>12, <1>13 DEF t

--------------------------------------------------------------------------------
(* Putting them back.                                                           *)

TakenFrom(removed, p) == {r \in removed : r.position = p}
PutOne(acc, removed, n) ==
  IF TakenFrom(removed, n - 1) = {} THEN acc
  ELSE InsertAt(acc, IF n > Len(acc) THEN Len(acc) + 1 ELSE n,
                (CHOOSE r \in TakenFrom(removed, n - 1) : TRUE).element)

\* PutBack is the last of the lists that its recursion builds.
LEMMA PutBackSteps ==
  ASSUME NEW s, NEW removed, NEW top \in Nat, top = Len(s) + Cardinality(removed)
  PROVE  \E f : /\ PutBack(s, removed) = f[top] /\ f[0] = s
                /\ \A n \in 0 .. top - 1 : f[n + 1] = PutOne(f[n], removed, n + 1)
  <1> DEFINE Is(f, k) == f = [n \in 0 .. k |-> IF n = 0 THEN s ELSE PutOne(f[n - 1], removed, n)]
  <1>2. PutBack(s, removed) = (CHOOSE f : Is(f, top))[top]
    BY DEF PutBack, PutOne, TakenFrom
  <1>3. \E f : Is(f, 0)
    <2>1. Is([n \in 0 .. 0 |-> s], 0)
      OBVIOUS
    <2> QED
      BY <2>1
  <1>4. ASSUME NEW k \in Nat, NEW f, Is(f, k)
        PROVE  \E g : Is(g, k + 1)
    <2> DEFINE g == [n \in 0 .. k + 1 |-> IF n <= k THEN f[n] ELSE PutOne(f[n - 1], removed, n)]
    <2>1. ASSUME NEW n \in 0 .. k + 1
          PROVE  g[n] = IF n = 0 THEN s ELSE PutOne(g[n - 1], removed, n)
      <3>1. CASE n <= k
        <4>1. f[n] = IF n = 0 THEN s ELSE PutOne(f[n - 1], removed, n)
          <5>1. n \in 0 .. k
            BY <3>1
          <5> QED
            BY <1>4, <5>1, Zenon
        <4>2. g[n] = f[n] /\ (n # 0 => g[n - 1] = f[n - 1])
          BY <3>1
        <4> QED
          BY <4>1, <4>2
      <3>2. CASE n > k
        <4>1. n = k + 1 /\ n # 0 /\ n - 1 \in 0 .. k + 1 /\ n - 1 <= k
          BY <3>2
        <4>2. g[n - 1] = f[n - 1]
          BY <4>1
        <4>3. g[n] = PutOne(f[n - 1], removed, n)
          BY <3>2
        <4> QED
          BY <4>1, <4>2, <4>3
      <3> QED
        BY <3>1, <3>2
    <2>2. g = [n \in 0 .. k + 1 |-> g[n]]
      OBVIOUS
    <2> HIDE DEF g
    <2>3. Is(g, k + 1)
      BY <2>1, <2>2
    <2> QED
      BY <2>3
  <1> DEFINE P == {k \in Nat : \E f : Is(f, k)}
  <1> HIDE DEF Is
  <1>5. P = Nat
    <2>1. 0 \in P
      BY <1>3
    <2>2. \A k \in P : k + 1 \in P
      BY <1>4
    <2>3. P \in SUBSET Nat
      OBVIOUS
    <2> HIDE DEF P
    <2> QED
      BY <2>1, <2>2, <2>3, SetInduction
  <1> DEFINE f == CHOOSE f : Is(f, top)
  <1>6. Is(f, top) /\ PutBack(s, removed) = f[top]
    BY <1>2, <1>5
  <1> HIDE DEF f
  <1>7. \A n \in 0 .. top : f[n] = IF n = 0 THEN s ELSE PutOne(f[n - 1], removed, n)
    BY <1>6 DEF Is
  <1>8. f[0] = s
    BY <1>7
  <1>9. ASSUME NEW n \in 0 .. top - 1
        PROVE  f[n + 1] = PutOne(f[n], removed, n + 1)
    <2>1. n + 1 \in 0 .. top /\ n + 1 # 0 /\ (n + 1) - 1 = n
      OBVIOUS
    <2> QED
      BY <1>7, <2>1
  <1> QED
    BY <1>6, <1>8, <1>9

\* What a deletion takes out: the elements of s with ids in gone, and their places.
Taken(s, gone) == {[position |-> i - 1, element |-> s[i]] : i \in {j \in DOMAIN s : s[j].id \in gone}}

\* As many places as elements that stay and elements that go.
LEMMA StayedAndTaken ==
  ASSUME NEW s, List(s), NEW gone, NEW f, Keeping(f, s, gone)
  PROVE  Len(s) = Len(f[Len(s)]) + Cardinality(Taken(s, gone))
  <1> DEFINE T(n) == {[position |-> i - 1, element |-> s[i]] :
                         i \in {j \in 1 .. n : s[j].id \in gone}}
             Good(n) == IsFiniteSet(T(n)) /\ n = Len(f[n]) + Cardinality(T(n))
             P == {n \in Nat : n <= Len(s) => Good(n)}
  <1>1. Len(s) \in Nat /\ DOMAIN s = 1 .. Len(s)
    BY ListFacts
  <1>2. Good(0)
    <2>1. T(0) = {}
      OBVIOUS
    <2>2. Len(f[0]) = 0
      BY DEF Keeping
    <2> HIDE DEF T
    <2> QED
      BY <2>1, <2>2, FS_EmptySet
  <1>3. ASSUME NEW n \in P PROVE n + 1 \in P
    <2> SUFFICES ASSUME n + 1 <= Len(s) PROVE Good(n + 1)
      OBVIOUS
    <2>1. n \in 0 .. Len(s) - 1 /\ n \in 0 .. Len(s) /\ Good(n)
      BY <1>1, <1>3
    <2>2. f[n + 1] = IF s[n + 1].id \in gone THEN f[n] ELSE Append(f[n], s[n + 1])
      BY <2>1 DEF Keeping
    <2>3. List(f[n]) /\ Len(f[n]) \in Nat
      BY <2>1, KeptFrom, ListFacts
    <2>4. Cardinality(T(n)) \in Nat
      BY <2>1, FS_CardinalityType
    <2>5. CASE s[n + 1].id \in gone
      <3> DEFINE x == [position |-> n, element |-> s[n + 1]]
      <3>1. T(n + 1) = T(n) \cup {x}
        <4>1. {j \in 1 .. n + 1 : s[j].id \in gone} = {j \in 1 .. n : s[j].id \in gone} \cup {n + 1}
          BY <2>5
        <4>2. (n + 1) - 1 = n
          OBVIOUS
        <4> QED
          BY <4>1, <4>2
      <3>2. x \notin T(n)
        <4>1. \A i \in 1 .. n : [position |-> i - 1, element |-> s[i]].position # n
          OBVIOUS
        <4>2. x.position = n
          OBVIOUS
        <4> QED
          BY <4>1, <4>2, Zenon
      <3> HIDE DEF T, x
      <3>3. IsFiniteSet(T(n + 1)) /\ Cardinality(T(n + 1)) = Cardinality(T(n)) + 1
        BY <2>1, <3>1, <3>2, FS_AddElement
      <3> QED
        BY <2>1, <2>2, <2>3, <2>4, <2>5, <3>3
    <2>6. CASE s[n + 1].id \notin gone
      <3>1. T(n + 1) = T(n)
        <4>1. {j \in 1 .. n + 1 : s[j].id \in gone} = {j \in 1 .. n : s[j].id \in gone}
          BY <2>6
        <4> QED
          BY <4>1
      <3>2. Len(f[n + 1]) = Len(f[n]) + 1
        BY <2>2, <2>3, <2>6, ListAppend
      <3> HIDE DEF T
      <3> QED
        BY <2>1, <2>3, <2>4, <3>1, <3>2
    <2> QED
      BY <2>5, <2>6
  <1>4. P = Nat
    <2> HIDE DEF Good
    <2>1. P \in SUBSET Nat /\ 0 \in P
      BY <1>2
    <2> HIDE DEF P
    <2> QED
      BY <1>3, <2>1, SetInduction
  <1>5. T(Len(s)) = Taken(s, gone)
    BY <1>1 DEF Taken
  <1> HIDE DEF T
  <1> QED
    BY <1>1, <1>4, <1>5

\* The element of the place p that was taken out.
LEMMA TakenAt ==
  ASSUME NEW s, List(s), NEW gone, NEW n \in DOMAIN s
  PROVE  /\ s[n].id \in gone => /\ TakenFrom(Taken(s, gone), n - 1) # {}
                                /\ \A r \in TakenFrom(Taken(s, gone), n - 1) : r.element = s[n]
         /\ s[n].id \notin gone => TakenFrom(Taken(s, gone), n - 1) = {}
  <1>1. DOMAIN s = 1 .. Len(s) /\ Len(s) \in Nat
    BY ListFacts
  <1>2. ASSUME NEW r \in TakenFrom(Taken(s, gone), n - 1)
        PROVE  r.element = s[n] /\ s[n].id \in gone
    <2>1. PICK i \in DOMAIN s : s[i].id \in gone /\ r = [position |-> i - 1, element |-> s[i]]
      BY <1>2 DEF TakenFrom, Taken
    <2>2. i - 1 = n - 1 /\ r.element = s[i]
      BY <1>2, <2>1 DEF TakenFrom
    <2>3. i = n
      BY <1>1, <2>2
    <2> QED
      BY <2>1, <2>2, <2>3
  <1>3. ASSUME s[n].id \in gone PROVE TakenFrom(Taken(s, gone), n - 1) # {}
    <2>1. [position |-> n - 1, element |-> s[n]] \in TakenFrom(Taken(s, gone), n - 1)
      BY <1>3 DEF TakenFrom, Taken
    <2> QED
      BY <2>1
  <1> QED
    BY <1>2, <1>3

\* Lengths on the way: of n places read, k stay; l places now, m at the start.
LEMMA LengthsOnTheWay ==
  ASSUME NEW n \in Nat, NEW k \in Nat, NEW l \in Nat, NEW m \in Nat,
         k <= n, k <= m, l = n + m - k
  PROVE  /\ n <= l /\ n + 1 \in 1 .. l + 1 /\ l + 1 = (n + 1) + m - k
         /\ k + 1 <= m => n + 1 <= l /\ l = (n + 1) + m - (k + 1)
         /\ n + 1 <= l => n + 1 \in n + 1 .. l /\ k + (n + 1) - n = k + 1
  OBVIOUS

\* PutOne back where they were, the elements taken out give the list again.
LEMMA PutBackIs ==
  ASSUME NEW s, List(s), NEW gone
  PROVE  PutBack(Without(s, gone), Taken(s, gone)) = s
  <1> DEFINE N == Len(s)
             t == Without(s, gone)
             out == Taken(s, gone)
  <1>1. N \in Nat /\ DOMAIN s = 1 .. N /\ s = [i \in 1 .. N |-> s[i]]
    BY ListFacts
  <1>2. PICK f : t = f[N] /\ Keeping(f, s, gone)
    BY WithoutIs
  <1>3. N = Len(t) + Cardinality(out)
    BY <1>2, StayedAndTaken
  <1>4. PICK g : /\ PutBack(t, out) = g[N] /\ g[0] = t
                 /\ \A n \in 0 .. N - 1 : g[n + 1] = PutOne(g[n], out, n + 1)
    BY <1>1, <1>3, PutBackSteps
  <1>5. \A n \in 0 .. N : /\ List(f[n]) /\ Len(f[n]) \in Nat /\ DOMAIN f[n] = 1 .. Len(f[n])
                          /\ Len(f[n]) <= n
    BY <1>2, KeptFrom, ListFacts
  <1>6. \A n \in 0 .. N : /\ Len(f[n]) <= Len(t)
                          /\ \A i \in DOMAIN f[n] : i \in DOMAIN t /\ t[i] = f[n][i]
    BY <1>1, <1>2, KeptPrefix
  <1>7. List(t) /\ Len(t) \in Nat /\ DOMAIN t = 1 .. Len(t)
    BY <1>1, <1>2, <1>5
  <1> DEFINE Good(n) ==
               /\ List(g[n]) /\ Len(g[n]) = n + Len(t) - Len(f[n])
               /\ \A i \in 1 .. n : g[n][i] = s[i]
               /\ \A i \in n + 1 .. Len(g[n]) : g[n][i] = t[Len(f[n]) + i - n]
             P == {n \in Nat : n <= N => Good(n)}
  <1> HIDE DEF t, out, N
  <1>8. Good(0)
    <2>1. Len(f[0]) = 0
      BY <1>2 DEF Keeping
    <2>2. \A i \in 0 + 1 .. Len(g[0]) : Len(f[0]) + i - 0 = i
      BY <1>4, <1>7, <2>1
    <2> QED
      BY <1>4, <1>7, <2>1, <2>2
  <1>9. ASSUME NEW n \in Nat, n + 1 <= N, Good(n) PROVE Good(n + 1)
    <2>1. n \in 0 .. N - 1 /\ n \in 0 .. N /\ n + 1 \in 0 .. N /\ n + 1 \in DOMAIN s
      BY <1>1, <1>9
    <2>2. f[n + 1] = IF s[n + 1].id \in gone THEN f[n] ELSE Append(f[n], s[n + 1])
      BY <1>2, <2>1 DEF Keeping, N
    <2>3. g[n + 1] = PutOne(g[n], out, n + 1)
      BY <1>4, <2>1
    <2>4. (n + 1) - 1 = n /\ n + 1 \in Nat
      OBVIOUS
    <2>5. /\ Len(f[n]) \in Nat /\ Len(f[n]) <= n /\ Len(f[n]) <= Len(t)
          /\ Len(f[n + 1]) \in Nat /\ Len(f[n + 1]) <= Len(t)
      BY <1>5, <1>6, <2>1
    <2>8. /\ List(g[n]) /\ Len(g[n]) \in Nat /\ Len(g[n]) = n + Len(t) - Len(f[n])
          /\ Len(t) \in Nat /\ n + 1 \in Nat
      <3>1. List(g[n]) /\ Len(g[n]) = n + Len(t) - Len(f[n])
        BY <1>9
      <3>2. Len(g[n]) \in Nat
        BY <3>1, ListFacts
      <3> QED
        BY <1>7, <3>1, <3>2
    <2>9. /\ Len(g[n]) \in Nat /\ n + 1 \in 1 .. Len(g[n]) + 1
          /\ Len(g[n]) + 1 = (n + 1) + Len(t) - Len(f[n])
          /\ Len(f[n]) + 1 <= Len(t) =>
               n + 1 <= Len(g[n]) /\ Len(g[n]) = (n + 1) + Len(t) - (Len(f[n]) + 1)
          /\ n + 1 <= Len(g[n]) =>
               n + 1 \in n + 1 .. Len(g[n]) /\ Len(f[n]) + (n + 1) - n = Len(f[n]) + 1
      <3> DEFINE k == Len(f[n])
                 l == Len(g[n])
                 m == Len(t)
      <3>1. k \in Nat /\ l \in Nat /\ m \in Nat /\ k <= n /\ k <= m /\ l = n + m - k
        BY <2>5, <2>8
      <3> HIDE DEF k, l, m
      <3>2. /\ n <= l /\ n + 1 \in 1 .. l + 1 /\ l + 1 = (n + 1) + m - k
            /\ k + 1 <= m => n + 1 <= l /\ l = (n + 1) + m - (k + 1)
            /\ n + 1 <= l => n + 1 \in n + 1 .. l /\ k + (n + 1) - n = k + 1
        BY <3>1, LengthsOnTheWay
      <3> QED
        BY <3>1, <3>2 DEF k, l, m
    <2>6. CASE s[n + 1].id \in gone
      <3> DEFINE u == InsertAt(g[n], n + 1, s[n + 1])
      <3>1. TakenFrom(out, n) # {} /\ \A r \in TakenFrom(out, n) : r.element = s[n + 1]
        BY <2>1, <2>4, <2>6, TakenAt DEF out
      <3>2. (CHOOSE r \in TakenFrom(out, n) : TRUE).element = s[n + 1]
        BY <3>1
      <3>3. Len(g[n]) \in Nat /\ n + 1 \in 1 .. Len(g[n]) + 1
        BY <2>9
      <3>4. (IF n + 1 > Len(g[n]) THEN Len(g[n]) + 1 ELSE n + 1) = n + 1
        BY <3>3
      <3>5. g[n + 1] = u
        BY <2>3, <2>4, <3>1, <3>2, <3>4 DEF PutOne
      <3>6. /\ List(u) /\ Len(u) = Len(g[n]) + 1
            /\ \A i \in 1 .. Len(g[n]) + 1 :
                 u[i] = IF i < n + 1 THEN g[n][i] ELSE IF i = n + 1 THEN s[n + 1] ELSE g[n][i - 1]
        <4> DEFINE gn == g[n]
                   sn == s[n + 1]
                   k  == n + 1
        <4>1. List(gn) /\ k \in 1 .. Len(gn) + 1
          BY <2>8, <3>3
        <4> HIDE DEF gn, sn, k
        <4>2. /\ List(InsertAt(gn, k, sn)) /\ Len(InsertAt(gn, k, sn)) = Len(gn) + 1
              /\ \A i \in 1 .. Len(gn) + 1 :
                   InsertAt(gn, k, sn)[i] = IF i < k THEN gn[i] ELSE IF i = k THEN sn ELSE gn[i - 1]
          BY <4>1, InsertIs
        <4> QED
          BY <4>2 DEF gn, sn, k
      <3>7. f[n + 1] = f[n]
        BY <2>2, <2>6
      <3> HIDE DEF u
      <3>8. Len(u) = (n + 1) + Len(t) - Len(f[n + 1])
        BY <2>5, <2>8, <3>6, <3>7
      <3>9. ASSUME NEW i \in 1 .. n + 1 PROVE u[i] = s[i]
        <4>1. i \in 1 .. Len(g[n]) + 1
          BY <3>3
        <4> QED
          BY <1>9, <3>6, <4>1
      <3>10. ASSUME NEW i \in n + 2 .. Len(u) PROVE u[i] = t[Len(f[n + 1]) + i - (n + 1)]
        <4> DEFINE j == i - 1
        <4>1. i \in 1 .. Len(g[n]) + 1 /\ j \in n + 1 .. Len(g[n]) /\ ~(i < n + 1) /\ i # n + 1
          BY <2>8, <3>6
        <4>2. Len(f[n]) + j - n = Len(f[n + 1]) + i - (n + 1)
          BY <2>5, <3>7
        <4>3. u[i] = g[n][j]
          BY <3>6, <4>1
        <4> HIDE DEF j
        <4>4. g[n][j] = t[Len(f[n]) + j - n]
          BY <1>9, <4>1
        <4> QED
          BY <4>2, <4>3, <4>4
      <3>11. (n + 1) + 1 = n + 2
        OBVIOUS
      <3> QED
        BY <3>5, <3>6, <3>8, <3>9, <3>10, <3>11
    <2>7. CASE s[n + 1].id \notin gone
      <3>1. TakenFrom(out, n) = {}
        BY <2>1, <2>4, <2>7, TakenAt DEF out
      <3>2. g[n + 1] = g[n]
        BY <2>3, <2>4, <3>1 DEF PutOne
      <3>3. Len(f[n + 1]) = Len(f[n]) + 1 /\ f[n + 1][Len(f[n]) + 1] = s[n + 1]
            /\ Len(f[n]) + 1 \in DOMAIN f[n + 1]
        <4>1. f[n + 1] = Append(f[n], s[n + 1]) /\ List(f[n])
          BY <1>5, <2>1, <2>2, <2>7
        <4>2. Len(f[n + 1]) = Len(f[n]) + 1
          BY <4>1, ListAppend
        <4>3. Len(f[n]) + 1 \in DOMAIN f[n + 1]
          BY <1>5, <2>1, <2>5, <4>2
        <4> QED
          BY <4>1, <4>2, <4>3, ListAppend
      <3>4. t[Len(f[n]) + 1] = s[n + 1]
        BY <1>6, <2>1, <3>3
      <3>9a. Len(f[n + 1]) = Len(f[n]) + 1
        BY <3>3
      <3>5. Len(g[n]) = (n + 1) + Len(t) - Len(f[n + 1]) /\ Len(g[n]) \in Nat /\ n + 1 <= Len(g[n])
        BY <2>5, <2>8, <2>9, <3>9a
      <3>6. ASSUME NEW i \in 1 .. n + 1 PROVE g[n][i] = s[i]
        <4>1. CASE i \in 1 .. n
          BY <1>9, <4>1
        <4>2. CASE i = n + 1
          <5>1. i \in n + 1 .. Len(g[n]) /\ Len(f[n]) + i - n = Len(f[n]) + 1
            BY <2>9, <3>5, <4>2
          <5>2. g[n][i] = t[Len(f[n]) + i - n]
            BY <1>9, <5>1
          <5> QED
            BY <3>4, <4>2, <5>1, <5>2
        <4> QED
          BY <4>1, <4>2
      <3>7. ASSUME NEW i \in n + 2 .. Len(g[n])
            PROVE  g[n][i] = t[Len(f[n + 1]) + i - (n + 1)]
        <4>1. i \in n + 1 .. Len(g[n]) /\ Len(f[n]) + i - n = Len(f[n + 1]) + i - (n + 1)
          BY <2>5, <2>8, <2>9, <3>9a, <3>5
        <4>2. g[n][i] = t[Len(f[n]) + i - n]
          BY <1>9, <4>1
        <4> QED
          BY <4>1, <4>2
      <3>8. (n + 1) + 1 = n + 2
        OBVIOUS
      <3> QED
        BY <1>9, <3>2, <3>5, <3>6, <3>7, <3>8
    <2> QED
      BY <2>6, <2>7
  <1>10. P = Nat
    <2> HIDE DEF Good
    <2>1. P \in SUBSET Nat /\ 0 \in P
      BY <1>8
    <2>2. ASSUME NEW n \in P PROVE n + 1 \in P
      <3>1. n \in Nat /\ (n + 1 <= N => n <= N)
        BY <1>1
      <3> QED
        BY <1>9, <3>1
    <2> HIDE DEF P
    <2> QED
      BY <2>1, <2>2, SetInduction
  <1>11. Good(N)
    <2> HIDE DEF Good
    <2> QED
      BY <1>1, <1>10
  <1>12. Len(f[N]) = Len(t) /\ N \in 0 .. N
    BY <1>1, <1>2
  <1>13. List(g[N]) /\ Len(g[N]) = N /\ \A i \in 1 .. N : g[N][i] = s[i]
    BY <1>1, <1>7, <1>11, <1>12
  <1>14. g[N] = [i \in 1 .. N |-> g[N][i]]
    BY <1>13, ListFacts
  <1> QED
    BY <1>1, <1>4, <1>13, <1>14 DEF t, out

--------------------------------------------------------------------------------
(* Every mutation takes its command back.                                       *)

\* A list of elements, no id repeated.
Elements(s) ==
  /\ List(s) /\ Apart(s)
  /\ \A i \in DOMAIN s : s[i] = [id |-> s[i].id, children |-> s[i].children]

IsScene(m) == m = [elements |-> m.elements, camera |-> m.camera] /\ Elements(m.elements)

\* The element of an id, where it is.
LEMMA PosIs ==
  ASSUME NEW m, Apart(m.elements), NEW i \in DOMAIN m.elements
  PROVE  Pos(m, m.elements[i].id) = i
  BY DEF Pos, Apart

\* Taking an element out of the list it was put into.
LEMMA InsertedTakenOut ==
  ASSUME NEW s, List(s), NEW k \in 1 .. Len(s) + 1, NEW x,
         \A i \in DOMAIN s : s[i].id # x.id
  PROVE  Without(InsertAt(s, k, x), {x.id}) = s
  <1> DEFINE u == InsertAt(s, k, x)
             N == Len(s)
  <1>1. N \in Nat /\ DOMAIN s = 1 .. N /\ s = [i \in 1 .. N |-> s[i]]
    BY ListFacts
  <1>2. /\ List(u) /\ Len(u) = N + 1 /\ DOMAIN u = 1 .. N + 1
        /\ \A i \in 1 .. N + 1 : u[i] = IF i < k THEN s[i] ELSE IF i = k THEN x ELSE s[i - 1]
    BY InsertIs
  <1> HIDE DEF u, N
  <1>3. PICK f : Without(u, {x.id}) = f[Len(u)] /\ Keeping(f, u, {x.id})
    BY <1>2, WithoutIs
  <1> DEFINE Good(n) ==
               /\ List(f[n]) /\ Len(f[n]) = (IF n < k THEN n ELSE n - 1)
               /\ \A i \in 1 .. Len(f[n]) : f[n][i] = s[i]
             P == {n \in Nat : n <= N + 1 => Good(n)}
  <1>4. k \in 1 .. N + 1
    BY DEF N
  <1>5. Good(0)
    BY <1>3, <1>4, EmptyList DEF Keeping
  <1>6. ASSUME NEW n \in Nat, n + 1 <= N + 1, Good(n) PROVE Good(n + 1)
    <2>1. n \in 0 .. Len(u) - 1 /\ n + 1 \in 1 .. N + 1
      BY <1>1, <1>2, <1>6
    <2>2. f[n + 1] = IF u[n + 1].id \in {x.id} THEN f[n] ELSE Append(f[n], u[n + 1])
      BY <1>3, <2>1 DEF Keeping
    <2>3. List(f[n]) /\ Len(f[n]) = (IF n < k THEN n ELSE n - 1)
          /\ \A i \in 1 .. Len(f[n]) : f[n][i] = s[i]
      BY <1>6
    <2>4. CASE n + 1 = k
      <3>1. u[n + 1] = x
        BY <1>2, <2>1, <2>4
      <3>2. f[n + 1] = f[n]
        BY <2>2, <3>1
      <3> QED
        BY <2>3, <2>4, <3>2
    <2>5. CASE n + 1 # k
      <3> DEFINE j == IF n + 1 < k THEN n + 1 ELSE n
      <3>1. j \in 1 .. N /\ u[n + 1] = s[j] /\ j = Len(f[n]) + 1
            /\ j = (IF n + 1 < k THEN n + 1 ELSE (n + 1) - 1)
        <4>1. CASE n + 1 < k
          <5>1. u[n + 1] = s[n + 1]
            BY <1>2, <2>1, <4>1
          <5> QED
            BY <1>1, <1>4, <2>1, <2>3, <4>1, <5>1
        <4>2. CASE n + 1 > k
          <5>1. u[n + 1] = s[(n + 1) - 1] /\ (n + 1) - 1 = n
            BY <1>2, <1>4, <2>1, <4>2
          <5> QED
            BY <1>1, <1>4, <2>1, <2>3, <4>2, <5>1
        <4> QED
          BY <1>4, <2>5, <4>1, <4>2
      <3> HIDE DEF j
      <3>2. u[n + 1].id # x.id
        BY <1>1, <3>1
      <3>3. f[n + 1] = Append(f[n], s[j])
        BY <2>2, <3>1, <3>2
      <3>4. /\ List(f[n + 1]) /\ Len(f[n + 1]) = j
            /\ DOMAIN f[n + 1] = 1 .. j
            /\ \A i \in DOMAIN f[n + 1] : f[n + 1][i] = IF i = j THEN s[j] ELSE f[n][i]
        BY <2>3, <3>1, <3>3, ListAppend, ListFacts
      <3>5. ASSUME NEW i \in 1 .. j PROVE f[n + 1][i] = s[i]
        <4>1. CASE i = j
          BY <3>4, <4>1
        <4>2. CASE i # j
          <5>1. i \in 1 .. Len(f[n])
            BY <2>3, <3>1, <4>2, ListFacts
          <5> QED
            BY <2>3, <3>4, <4>2, <5>1
        <4> QED
          BY <4>1, <4>2
      <3> QED
        BY <3>1, <3>4, <3>5
    <2> QED
      BY <2>4, <2>5
  <1>7. P = Nat
    <2> HIDE DEF Good
    <2>1. P \in SUBSET Nat /\ 0 \in P
      BY <1>5
    <2>2. ASSUME NEW n \in P PROVE n + 1 \in P
      <3>1. n \in Nat /\ (n + 1 <= N + 1 => n <= N + 1)
        BY <1>1
      <3> QED
        BY <1>6, <3>1
    <2> HIDE DEF P
    <2> QED
      BY <2>1, <2>2, SetInduction
  <1>8. Good(N + 1)
    <2>1. N + 1 \in Nat /\ N + 1 <= N + 1
      BY <1>1
    <2> HIDE DEF Good
    <2> QED
      BY <1>7, <2>1
  <1>9. List(f[N + 1]) /\ Len(f[N + 1]) = N /\ \A i \in 1 .. N : f[N + 1][i] = s[i]
    <2>1. /\ List(f[N + 1]) /\ Len(f[N + 1]) = (IF N + 1 < k THEN N + 1 ELSE (N + 1) - 1)
          /\ \A i \in 1 .. Len(f[N + 1]) : f[N + 1][i] = s[i]
      BY <1>8
    <2>2. ~(N + 1 < k) /\ (N + 1) - 1 = N
      BY <1>1, <1>4
    <2> QED
      BY <2>1, <2>2
  <1>10. f[N + 1] = [i \in 1 .. N |-> f[N + 1][i]]
    BY <1>9, ListFacts
  <1> QED
    BY <1>1, <1>2, <1>3, <1>9, <1>10 DEF u

\* Two lists with the same ids keep the same places.
LEMMA SameKept ==
  ASSUME NEW s, List(s), NEW t, List(t), Len(t) = Len(s), NEW gone,
         \A i \in DOMAIN s : t[i].id = s[i].id
  PROVE  /\ DOMAIN Without(t, gone) = DOMAIN Without(s, gone)
         /\ \A i \in DOMAIN Without(s, gone) : \E j \in DOMAIN s :
              Without(s, gone)[i] = s[j] /\ Without(t, gone)[i] = t[j]
  <1> DEFINE N == Len(s)
  <1>1. N \in Nat /\ DOMAIN s = 1 .. N
    BY ListFacts
  <1>2. PICK f : Without(s, gone) = f[N] /\ Keeping(f, s, gone)
    BY WithoutIs
  <1>3. PICK g : Without(t, gone) = g[N] /\ Keeping(g, t, gone)
    BY WithoutIs
  <1> DEFINE Good(n) ==
               /\ List(f[n]) /\ List(g[n]) /\ Len(f[n]) = Len(g[n])
               /\ \A i \in 1 .. Len(f[n]) : \E j \in DOMAIN s : f[n][i] = s[j] /\ g[n][i] = t[j]
             P == {n \in Nat : n <= N => Good(n)}
  <1>4. Good(0)
    BY <1>2, <1>3, EmptyList DEF Keeping
  <1>5. ASSUME NEW n \in Nat, n + 1 <= N, Good(n) PROVE Good(n + 1)
    <2>1. n \in 0 .. Len(s) - 1 /\ n \in 0 .. Len(t) - 1 /\ n + 1 \in DOMAIN s
      BY <1>1, <1>5
    <2>2. f[n + 1] = IF s[n + 1].id \in gone THEN f[n] ELSE Append(f[n], s[n + 1])
      BY <1>2, <2>1 DEF Keeping
    <2>3. g[n + 1] = IF t[n + 1].id \in gone THEN g[n] ELSE Append(g[n], t[n + 1])
      BY <1>3, <2>1 DEF Keeping
    <2>4. t[n + 1].id = s[n + 1].id
      BY <2>1
    <2>5. CASE s[n + 1].id \in gone
      BY <1>5, <2>2, <2>3, <2>4, <2>5
    <2>6. CASE s[n + 1].id \notin gone
      <3>1. f[n + 1] = Append(f[n], s[n + 1]) /\ g[n + 1] = Append(g[n], t[n + 1])
        BY <2>2, <2>3, <2>4, <2>6
      <3>2. List(f[n]) /\ List(g[n]) /\ Len(f[n]) \in Nat /\ Len(g[n]) = Len(f[n])
        BY <1>5, ListFacts
      <3> DEFINE l == Len(f[n])
      <3>3. /\ List(f[n + 1]) /\ Len(f[n + 1]) = l + 1 /\ DOMAIN f[n + 1] = 1 .. l + 1
            /\ \A i \in DOMAIN f[n + 1] : f[n + 1][i] = IF i = l + 1 THEN s[n + 1] ELSE f[n][i]
        BY <3>1, <3>2, ListAppend, ListFacts
      <3>4. /\ List(g[n + 1]) /\ Len(g[n + 1]) = l + 1 /\ DOMAIN g[n + 1] = 1 .. l + 1
            /\ \A i \in DOMAIN g[n + 1] : g[n + 1][i] = IF i = l + 1 THEN t[n + 1] ELSE g[n][i]
        BY <3>1, <3>2, ListAppend, ListFacts
      <3>5. ASSUME NEW i \in 1 .. Len(f[n + 1])
            PROVE  \E j \in DOMAIN s : f[n + 1][i] = s[j] /\ g[n + 1][i] = t[j]
        <4>1. CASE i = l + 1
          BY <2>1, <3>3, <3>4, <4>1
        <4>2. CASE i # l + 1
          <5>1. i \in 1 .. l
            BY <3>2, <3>3, <4>2
          <5>2. PICK j \in DOMAIN s : f[n][i] = s[j] /\ g[n][i] = t[j]
            BY <1>5, <5>1
          <5> QED
            BY <3>3, <3>4, <4>2, <5>2
        <4> QED
          BY <4>1, <4>2
      <3> QED
        BY <3>3, <3>4, <3>5
    <2> QED
      BY <2>5, <2>6
  <1>6. P = Nat
    <2> HIDE DEF Good, N
    <2>1. P \in SUBSET Nat /\ 0 \in P
      BY <1>4
    <2>2. ASSUME NEW n \in P PROVE n + 1 \in P
      <3>1. n \in Nat /\ (n + 1 <= N => n <= N)
        BY <1>1
      <3> QED
        BY <1>5, <3>1
    <2> HIDE DEF P
    <2> QED
      BY <2>1, <2>2, SetInduction
  <1>7. Good(N)
    <2> HIDE DEF Good
    <2> QED
      BY <1>1, <1>6
  <1>8. DOMAIN f[N] = 1 .. Len(f[N]) /\ DOMAIN g[N] = 1 .. Len(f[N])
    BY <1>7, ListFacts
  <1> QED
    BY <1>2, <1>3, <1>7, <1>8

\* Disowned only touches the children of the first parent.
LEMMA DisownedIs ==
  ASSUME NEW m, IsScene(m), NEW id
  PROVE  LET s == m.elements
             t == Disowned(m, id)
         IN  /\ Elements(t) /\ Len(t) = Len(s) /\ DOMAIN t = DOMAIN s
             /\ \A i \in DOMAIN s : t[i].id = s[i].id
             /\ Parents(m, id) = {} => t = s
             /\ Parents(m, id) # {} =>
                  /\ Parent(m, id) \in Parents(m, id)
                  /\ \A i \in DOMAIN s : i # Parent(m, id) => t[i] = s[i]
                  /\ [t[Parent(m, id)] EXCEPT !.children = s[Parent(m, id)].children]
                       = s[Parent(m, id)]
  <1> DEFINE s == m.elements
             t == Disowned(m, id)
             p == Parent(m, id)
             kids == Remove(s[p].children, id)
  <1>1. List(s) /\ Apart(s) /\ Len(s) \in Nat /\ DOMAIN s = 1 .. Len(s)
        /\ \A i \in DOMAIN s : s[i] = [id |-> s[i].id, children |-> s[i].children]
    BY ListFacts DEF IsScene, Elements
  <1>2. CASE Parents(m, id) = {}
    <2>1. t = s
      BY <1>2 DEF Disowned
    <2> HIDE DEF s, t
    <2>2. Elements(t) /\ Len(t) = Len(s) /\ DOMAIN t = DOMAIN s /\ \A i \in DOMAIN s : t[i].id = s[i].id
      BY <1>1, <2>1 DEF Elements
    <2> QED
      BY <1>2, <2>1, <2>2 DEF s, t
  <1>3. CASE Parents(m, id) # {}
    <2>1. p \in Parents(m, id)
      <3>1. \A n \in Nat : \A S \in SUBSET (1 .. n) : S # {} => \E x \in S : \A y \in S : x <= y
        BY LeastExists
      <3>2. Parents(m, id) \in SUBSET (1 .. Len(s))
        BY <1>1 DEF Parents
      <3>3. \E i \in Parents(m, id) : \A j \in Parents(m, id) : i <= j
        BY <1>1, <1>3, <3>1, <3>2
      <3> QED
        BY <3>3 DEF Parent
    <2>2. p \in DOMAIN s
      BY <2>1 DEF Parents
    <2>3. t = [s EXCEPT ![p] = [s[p] EXCEPT !.children = kids]]
      BY <1>3 DEF Disowned
    <2> HIDE DEF s, p, kids
    <2> DEFINE x == [s[p] EXCEPT !.children = kids]
    <2>4. x = [id |-> s[p].id, children |-> kids] /\ x.id = s[p].id
          /\ [x EXCEPT !.children = s[p].children] = s[p]
          /\ x = [id |-> x.id, children |-> x.children]
      <3> DEFINE e == s[p]
                 x0 == e.id
                 c0 == e.children
      <3>1. e = [id |-> x0, children |-> c0]
        BY <1>1, <2>2
      <3> HIDE DEF x0, c0
      <3>2. x = [[id |-> x0, children |-> c0] EXCEPT !.children = kids]
        BY <3>1
      <3>3. x = [id |-> x0, children |-> kids]
        BY <3>2
      <3>4. [x EXCEPT !.children = c0] = [id |-> x0, children |-> c0]
        <4> HIDE DEF x
        <4> QED
          BY <3>3
      <3> HIDE DEF x, e
      <3>5. x.id = x0 /\ x = [id |-> x.id, children |-> x.children]
        BY <3>3
      <3> QED
        BY <3>1, <3>3, <3>4, <3>5 DEF x0, c0, e
    <2> HIDE DEF x, t
    <2>5. t = [s EXCEPT ![p] = x]
      BY <2>3 DEF x
    <2>6. List(t) /\ DOMAIN t = DOMAIN s /\ \A i \in DOMAIN s : t[i] = IF i = p THEN x ELSE s[i]
      BY <1>1, <2>5, ListExcept
    <2>7. \A i \in DOMAIN s : t[i].id = s[i].id
      BY <2>4, <2>6
    <2>8. Len(t) = Len(s)
      <3>1. Len(t) \in Nat /\ DOMAIN t = 1 .. Len(t)
        BY <2>6, ListFacts
      <3> QED
        BY <1>1, <2>6, <3>1
    <2>9. Apart(t)
      BY <1>1, <2>6, <2>7 DEF Apart
    <2>10. \A i \in DOMAIN t : t[i] = [id |-> t[i].id, children |-> t[i].children]
      BY <1>1, <2>4, <2>6
    <2> QED
      BY <1>3, <2>1, <2>2, <2>4, <2>6, <2>7, <2>8, <2>9, <2>10 DEF s, t, p, Elements
  <1> QED
    BY <1>2, <1>3

\* A subtree without a missing id is what the deletion takes out.
LEMMA SubtreeIs ==
  ASSUME NEW m, IsScene(m), NEW id, Reach(m, id) \subseteq Ids(m)
  PROVE  Subtree(m, id) = Taken(m.elements, Reach(m, id))
  <1> DEFINE s == m.elements
             gone == Reach(m, id)
  <1>1. \A i \in DOMAIN s : Pos(m, s[i].id) = i
    BY PosIs DEF IsScene, Elements
  <1>2. ASSUME NEW x \in gone
        PROVE  \E i \in DOMAIN s : /\ s[i].id = x /\ Pos(m, x) = i
                                   /\ [position |-> Pos(m, x) - 1, element |-> Get(m, x)]
                                        = [position |-> i - 1, element |-> s[i]]
    BY <1>1 DEF Ids, Get
  <1>3. ASSUME NEW i \in DOMAIN s, s[i].id \in gone
        PROVE  [position |-> Pos(m, s[i].id) - 1, element |-> Get(m, s[i].id)]
                 = [position |-> i - 1, element |-> s[i]]
    BY <1>1 DEF Get
  <1> HIDE DEF s, gone
  <1>4. Subtree(m, id) = {[position |-> Pos(m, x) - 1, element |-> Get(m, x)] : x \in gone}
    BY DEF Subtree, gone
  <1>5. Taken(s, gone) = {[position |-> i - 1, element |-> s[i]] : i \in {j \in DOMAIN s : s[j].id \in gone}}
    BY DEF Taken
  <1>6. ASSUME NEW r \in Subtree(m, id) PROVE r \in Taken(s, gone)
    <2>1. PICK x \in gone : r = [position |-> Pos(m, x) - 1, element |-> Get(m, x)]
      BY <1>4, <1>6
    <2>2. PICK i \in DOMAIN s : s[i].id = x /\ r = [position |-> i - 1, element |-> s[i]]
      BY <1>2, <2>1
    <2> QED
      BY <1>5, <2>2
  <1>7. ASSUME NEW r \in Taken(s, gone) PROVE r \in Subtree(m, id)
    <2>1. PICK i \in DOMAIN s : s[i].id \in gone /\ r = [position |-> i - 1, element |-> s[i]]
      BY <1>5, <1>7
    <2>2. r = [position |-> Pos(m, s[i].id) - 1, element |-> Get(m, s[i].id)]
      BY <1>3, <2>1
    <2> QED
      BY <1>4, <2>1, <2>2
  <1>8. Subtree(m, id) = Taken(s, gone)
    BY <1>6, <1>7
  <1> QED
    BY <1>8 DEF s, gone

\* The parent that gave its child away, and is still there, gets its children back.
LEMMA AdoptedIs ==
  ASSUME NEW m, IsScene(m), NEW id, NEW gone,
         NEW parent,
         parent = {m.elements[i] : i \in {j \in Parents(m, id) : j = Parent(m, id)}}
  PROVE  Adopted(Without(Disowned(m, id), gone), parent) = Without(m.elements, gone)
  <1> DEFINE s == m.elements
             t == Disowned(m, id)
             p == Parent(m, id)
             a == Without(t, gone)
             b == Without(s, gone)
  <1>1. /\ Elements(t) /\ Len(t) = Len(s) /\ DOMAIN t = DOMAIN s
        /\ \A i \in DOMAIN s : t[i].id = s[i].id
        /\ Parents(m, id) = {} => t = s
        /\ Parents(m, id) # {} =>
             /\ p \in Parents(m, id)
             /\ \A i \in DOMAIN s : i # p => t[i] = s[i]
             /\ [t[p] EXCEPT !.children = s[p].children] = s[p]
    BY DisownedIs
  <1>2. Elements(s)
    BY DEF IsScene
  <1>3. CASE Parents(m, id) = {}
    <2>1. parent = {}
      BY <1>3
    <2>2. t = s
      BY <1>1, <1>3
    <2>3. List(b)
      BY <1>2, WithoutFacts DEF Elements
    <2> HIDE DEF s, t
    <2>4. Adopted(a, parent) = [i \in DOMAIN a |-> a[i]]
      BY <2>1 DEF Adopted
    <2>5. a = b
      BY <2>2
    <2> HIDE DEF a, b
    <2>6. b = [i \in DOMAIN b |-> b[i]]
      BY <2>3, ListFacts
    <2>7. Adopted(a, parent) = b
      BY <2>4, <2>5, <2>6
    <2> QED
      BY <2>7 DEF a, b, s, t
  <1>4. CASE Parents(m, id) # {}
    <2>1. p \in Parents(m, id) /\ p \in DOMAIN s
      BY <1>1, <1>4 DEF Parents
    <2>2. parent = {s[p]}
      BY <2>1
    <2>3. DOMAIN a = DOMAIN b /\ \A i \in DOMAIN b : \E j \in DOMAIN s : b[i] = s[j] /\ a[i] = t[j]
      BY <1>1, <1>2, SameKept DEF Elements
    <2>4. List(b)
      BY <1>2, WithoutFacts DEF Elements
    <2>5. /\ \A i \in DOMAIN s : t[i].id = s[i].id /\ (i # p => t[i] = s[i])
          /\ [t[p] EXCEPT !.children = s[p].children] = s[p]
          /\ \A i \in DOMAIN s : s[i].id = s[p].id => i = p
      BY <1>1, <1>2, <1>4, <2>1 DEF Elements, Apart
    <2> HIDE DEF s, t, p, a, b
    <2>6. (\A x : (\E q \in parent : q.id = x) <=> s[p].id = x) /\ (CHOOSE q \in parent : TRUE) = s[p]
      BY <2>2
    <2>7. ASSUME NEW i \in DOMAIN a
          PROVE  (IF \E q \in parent : q.id = a[i].id
                  THEN [a[i] EXCEPT !.children = (CHOOSE q \in parent : TRUE).children]
                  ELSE a[i]) = b[i]
      <3>1. PICK j \in DOMAIN s : b[i] = s[j] /\ a[i] = t[j]
        BY <2>3
      <3>2. CASE j = p
        BY <2>5, <2>6, <3>1, <3>2
      <3>3. CASE j # p
        BY <2>5, <2>6, <3>1, <3>3
      <3> QED
        BY <3>2, <3>3
    <2>8. Adopted(a, parent) = [i \in DOMAIN a |-> b[i]]
      BY <2>7 DEF Adopted
    <2>9. b = [i \in DOMAIN b |-> b[i]]
      BY <2>4, ListFacts
    <2>10. Adopted(a, parent) = b
      BY <2>3, <2>8, <2>9
    <2> QED
      BY <2>10 DEF a, b, s, t
  <1> QED
    BY <1>3, <1>4

IsElement(e) == e = [id |-> e.id, children |-> e.children]

\* An added element is removed, wherever it was put and whatever it pushed on.
LEMMA AddTakenBack ==
  ASSUME NEW m, IsScene(m), NEW e, IsElement(e), NEW i \in Nat, NEW c,
         c = [op |-> "AddElement", element |-> e, index |-> i], CanApply(m, c)
  PROVE  IsScene(Apply(m, c)) /\ TakeBack(Apply(m, c), Mutation(m, c)) = m
  <1> DEFINE s == m.elements
             k == i + 1
             u == InsertAt(s, k, e)
  <1>1. c.op = "AddElement" /\ c.element = e /\ c.index = i
    OBVIOUS
  <1>2. e.id \notin Ids(m) /\ i <= Len(s)
    BY <1>1 DEF CanApply
  <1>3. Apply(m, c) = [m EXCEPT !.elements = u]
    BY <1>1 DEF Apply, InsertElement
  <1>4. Mutation(m, c) = [op |-> "Add", id |-> e.id]
    BY <1>1 DEF Mutation
  <1>5. List(s) /\ Apart(s) /\ Len(s) \in Nat /\ DOMAIN s = 1 .. Len(s)
        /\ \A j \in DOMAIN s : s[j] = [id |-> s[j].id, children |-> s[j].children]
    BY ListFacts DEF IsScene, Elements
  <1>6. m = [elements |-> s, camera |-> m.camera]
    BY DEF IsScene
  <1>7. \A j \in DOMAIN s : s[j].id # e.id
    BY <1>2 DEF Ids
  <1> HIDE DEF s
  <1>8. k \in 1 .. Len(s) + 1
    BY <1>2, <1>5
  <1> HIDE DEF k
  <1>9. Without(u, {e.id}) = s
    BY <1>5, <1>7, <1>8, InsertedTakenOut
  <1>10. /\ List(u) /\ DOMAIN u = 1 .. Len(s) + 1
         /\ \A j \in 1 .. Len(s) + 1 : u[j] = IF j < k THEN s[j] ELSE IF j = k THEN e ELSE s[j - 1]
    BY <1>5, <1>8, InsertIs
  <1> HIDE DEF u
  <1>11. Elements(u)
    <2>1. ASSUME NEW j \in DOMAIN u
          PROVE  \/ j = k /\ u[j] = e
                 \/ j < k /\ j \in DOMAIN s /\ u[j] = s[j]
                 \/ j > k /\ j - 1 \in DOMAIN s /\ u[j] = s[j - 1]
      <3>1. j \in 1 .. Len(s) + 1
        BY <1>10
      <3>2. CASE j < k
        BY <1>5, <1>8, <1>10, <3>1, <3>2
      <3>3. CASE j = k
        BY <1>8, <1>10, <3>3
      <3>4. CASE j > k
        <4>1. j - 1 \in DOMAIN s /\ ~(j < k) /\ j # k
          BY <1>5, <1>8, <3>1, <3>4
        <4> QED
          BY <1>10, <3>1, <3>4, <4>1
      <3> QED
        BY <1>8, <3>1, <3>2, <3>3, <3>4
    <2>2. Apart(u)
      <3>1. ASSUME NEW a \in DOMAIN u, NEW b \in DOMAIN u, u[a].id = u[b].id PROVE a = b
        <4>1. a \in 1 .. Len(s) + 1 /\ b \in 1 .. Len(s) + 1
          BY <1>10
        <4>2. \A x, y \in DOMAIN s : s[x].id = s[y].id => x = y
          BY <1>5 DEF Apart
        <4>3. CASE a = k /\ b = k
          BY <4>3
        <4>4. CASE a = k /\ b # k
          BY <1>7, <1>8, <2>1, <3>1, <4>1, <4>4
        <4>5. CASE a # k /\ b = k
          BY <1>7, <1>8, <2>1, <3>1, <4>1, <4>5
        <4>6. CASE a # k /\ b # k
          <5>1. (a < k /\ a \in DOMAIN s /\ u[a] = s[a]) \/ (a > k /\ a - 1 \in DOMAIN s /\ u[a] = s[a - 1])
            BY <2>1, <4>6
          <5>2. (b < k /\ b \in DOMAIN s /\ u[b] = s[b]) \/ (b > k /\ b - 1 \in DOMAIN s /\ u[b] = s[b - 1])
            BY <2>1, <4>6
          <5>3. CASE a < k /\ b < k
            BY <1>8, <3>1, <4>1, <4>2, <5>1, <5>2, <5>3
          <5>4. CASE a > k /\ b > k
            <6>1. a - 1 = b - 1
              BY <1>8, <3>1, <4>1, <4>2, <5>1, <5>2, <5>4
            <6> QED
              BY <4>1, <6>1
          <5>5. CASE a < k /\ b > k
            <6>1. a = b - 1
              BY <1>8, <3>1, <4>1, <4>2, <5>1, <5>2, <5>5
            <6> QED
              BY <1>8, <4>1, <5>5, <6>1
          <5>6. CASE a > k /\ b < k
            <6>1. a - 1 = b
              BY <1>8, <3>1, <4>1, <4>2, <5>1, <5>2, <5>6
            <6> QED
              BY <1>8, <4>1, <5>6, <6>1
          <5> QED
            BY <5>1, <5>2, <5>3, <5>4, <5>5, <5>6
        <4> QED
          BY <4>3, <4>4, <4>5, <4>6
      <3> QED
        BY <3>1 DEF Apart
    <2>3. \A j \in DOMAIN u : u[j] = [id |-> u[j].id, children |-> u[j].children]
      BY <1>5, <2>1 DEF IsElement
    <2> QED
      BY <1>10, <2>2, <2>3 DEF Elements
  <1>12. Apply(m, c) = [elements |-> u, camera |-> m.camera]
    BY <1>3, <1>6
  <1>13. IsScene(Apply(m, c))
    BY <1>11, <1>12 DEF IsScene
  <1>14. TakeBack([elements |-> u, camera |-> m.camera], [op |-> "Add", id |-> e.id])
           = [elements |-> s, camera |-> m.camera]
    BY <1>9 DEF TakeBack
  <1> QED
    BY <1>4, <1>6, <1>12, <1>13, <1>14

\* A replaced element gets its old value back.
LEMMA UpdateTakenBack ==
  ASSUME NEW m, IsScene(m), NEW e, IsElement(e), NEW c,
         c = [op |-> "UpdateElement", element |-> e], CanApply(m, c)
  PROVE  IsScene(Apply(m, c)) /\ TakeBack(Apply(m, c), Mutation(m, c)) = m
  <1> DEFINE s == m.elements
             p == Pos(m, e.id)
             u == [s EXCEPT ![p] = e]
  <1>1. c.op = "UpdateElement" /\ c.element = e
    OBVIOUS
  <1>2. e.id \in Ids(m)
    BY <1>1 DEF CanApply
  <1>3. Apply(m, c) = [m EXCEPT !.elements = u]
    BY <1>1 DEF Apply
  <1>4. Mutation(m, c) = [op |-> "Update", before |-> s[p]]
    BY <1>1 DEF Mutation, Get
  <1>5. List(s) /\ Apart(s) /\ Len(s) \in Nat /\ DOMAIN s = 1 .. Len(s) /\ s = [i \in 1 .. Len(s) |-> s[i]]
        /\ \A j \in DOMAIN s : s[j] = [id |-> s[j].id, children |-> s[j].children]
    BY ListFacts DEF IsScene, Elements
  <1>6. m = [elements |-> s, camera |-> m.camera]
    BY DEF IsScene
  <1>7. p \in DOMAIN s /\ s[p].id = e.id
    BY <1>2 DEF Ids, Pos
  <1> HIDE DEF s, p
  <1>8. List(u) /\ DOMAIN u = DOMAIN s /\ \A i \in DOMAIN s : u[i] = IF i = p THEN e ELSE s[i]
    BY <1>5, ListExcept
  <1> HIDE DEF u
  <1>9. Elements(u)
    <2>1. \A i \in DOMAIN u : u[i].id = s[i].id
      BY <1>7, <1>8
    <2>2. Apart(u)
      BY <1>5, <1>8, <2>1 DEF Apart
    <2>3. \A j \in DOMAIN u : u[j] = [id |-> u[j].id, children |-> u[j].children]
      BY <1>5, <1>8 DEF IsElement
    <2> QED
      BY <1>8, <2>2, <2>3 DEF Elements
  <1>10. Apply(m, c) = [elements |-> u, camera |-> m.camera]
    BY <1>3, <1>6
  <1>11. ASSUME NEW i \in DOMAIN u PROVE (IF u[i].id = s[p].id THEN s[p] ELSE u[i]) = s[i]
    <2>1. CASE i = p
      BY <1>7, <1>8, <2>1
    <2>2. CASE i # p
      BY <1>5, <1>7, <1>8, <2>2 DEF Apart
    <2> QED
      BY <2>1, <2>2
  <1>12. [i \in DOMAIN u |-> IF u[i].id = s[p].id THEN s[p] ELSE u[i]] = s
    BY <1>5, <1>8, <1>11
  <1>13. TakeBack([elements |-> u, camera |-> m.camera], [op |-> "Update", before |-> s[p]])
           = [elements |-> s, camera |-> m.camera]
    BY <1>12 DEF TakeBack
  <1>14. IsScene(Apply(m, c))
    BY <1>9, <1>10 DEF IsScene
  <1> QED
    BY <1>4, <1>6, <1>10, <1>13, <1>14

\* A deleted subtree goes back to its places and its parent has its children again.
LEMMA DeleteTakenBack ==
  ASSUME NEW m, IsScene(m), NEW id, NEW c,
         c = [op |-> "DeleteElement", id |-> id], CanApply(m, c)
  PROVE  IsScene(Apply(m, c)) /\ TakeBack(Apply(m, c), Mutation(m, c)) = m
  <1> DEFINE s == m.elements
             gone == Reach(m, id)
             u == Without(Disowned(m, id), gone)
             out == Subtree(m, id)
             parent == {m.elements[i] : i \in {j \in Parents(m, id) : j = Parent(m, id)}}
  <1>1. c.op = "DeleteElement" /\ c.id = id
    OBVIOUS
  <1>2. gone \subseteq Ids(m)
    BY <1>1 DEF CanApply, SubtreeOk
  <1>3. Apply(m, c) = [m EXCEPT !.elements = u]
    BY <1>1 DEF Apply
  <1>4. Mutation(m, c) = [op |-> "Delete", removed |-> out, parent |-> parent]
    BY <1>1 DEF Mutation
  <1>5. m = [elements |-> s, camera |-> m.camera] /\ Elements(s)
    BY DEF IsScene
  <1>6. out = Taken(s, gone)
    BY <1>2, SubtreeIs
  <1>7. Adopted(u, parent) = Without(s, gone)
    BY AdoptedIs
  <1>8. Elements(u)
    <2>1. Elements(Disowned(m, id))
      BY DisownedIs
    <2>2. /\ List(u) /\ Apart(u)
          /\ \A i \in DOMAIN u : \E j \in DOMAIN Disowned(m, id) : u[i] = Disowned(m, id)[j]
      BY <2>1, WithoutFacts DEF Elements
    <2> HIDE DEF u
    <2> QED
      BY <2>1, <2>2 DEF Elements
  <1>9. PutBack(Without(s, gone), Taken(s, gone)) = s
    BY <1>5, PutBackIs DEF Elements
  <1> HIDE DEF s, u, gone, out, parent
  <1>10. Apply(m, c) = [elements |-> u, camera |-> m.camera]
    BY <1>3, <1>5
  <1>11. IsScene(Apply(m, c))
    BY <1>8, <1>10 DEF IsScene
  <1>12. PutBack(Adopted(u, parent), out) = s
    BY <1>6, <1>7, <1>9
  <1>13. TakeBack([elements |-> u, camera |-> m.camera],
                  [op |-> "Delete", removed |-> out, parent |-> parent])
           = [elements |-> s, camera |-> m.camera]
    BY <1>12 DEF TakeBack
  <1> QED
    BY <1>4, <1>5, <1>10, <1>11, <1>13

\* The camera goes back to where it was, whether it was set or zoomed.
LEMMA CameraTakenBack ==
  ASSUME NEW m, IsScene(m), NEW x, NEW c,
         \/ c = [op |-> "SetCamera", camera |-> x]
         \/ c = [op |-> "ZoomCamera", factor |-> x]
  PROVE  IsScene(Apply(m, c)) /\ TakeBack(Apply(m, c), Mutation(m, c)) = m
  <1> DEFINE s == m.elements
             b == m.camera
             a == IF c.op = "SetCamera" THEN x ELSE m.camera * x
  <1>1. m = [elements |-> s, camera |-> b] /\ Elements(s)
    BY DEF IsScene
  <1>2. Apply(m, c) = [m EXCEPT !.camera = a]
    BY DEF Apply
  <1>3. Mutation(m, c) = [op |-> "Camera", before |-> b]
    BY DEF Mutation
  <1> HIDE DEF s, a, b
  <1>4. Apply(m, c) = [elements |-> s, camera |-> a]
    BY <1>1, <1>2
  <1>5. IsScene(Apply(m, c))
    BY <1>1, <1>4 DEF IsScene
  <1>6. TakeBack([elements |-> s, camera |-> a], [op |-> "Camera", before |-> b])
          = [elements |-> s, camera |-> b]
    BY DEF TakeBack
  <1> QED
    BY <1>1, <1>3, <1>4, <1>5, <1>6

--------------------------------------------------------------------------------
(* Taking a batch back.                                                         *)

\* TakenBack goes through its list.
LEMMA TakeBackSteps ==
  ASSUME NEW base, NEW n \in Nat, NEW seq, DOMAIN seq = 1 .. n
  PROVE  \E h : /\ TakenBack(base, seq) = h[n]
                /\ h[0] = base
                /\ \A k \in 0 .. n - 1 : h[k + 1] = TakeBack(h[k], seq[k + 1])
  <1> DEFINE Is(f, D) == f = [s \in SUBSET D |-> IF s = {} THEN base
                                ELSE TakeBack(f[s \ {Largest(s)}], seq[Largest(s)])]
  <1>1. TakenBack(base, seq) = (CHOOSE f : Is(f, DOMAIN seq))[DOMAIN seq]
    BY DEF TakenBack, FoldLeft, MapThenFoldSet, Largest, Max
  <1>2. \E f : Is(f, 1 .. 0)
    <2>1. Is([s \in SUBSET (1 .. 0) |-> base], 1 .. 0)
      BY (1 .. 0) = {}
    <2> QED
      BY <2>1
  <1>3. ASSUME NEW k \in Nat, NEW f, Is(f, 1 .. k)
        PROVE  \E g : Is(g, 1 .. k + 1)
    <2> DEFINE g == [s \in SUBSET (1 .. k + 1) |-> IF s \in SUBSET (1 .. k) THEN f[s]
                       ELSE TakeBack(f[s \ {k + 1}], seq[k + 1])]
    <2>1. ASSUME NEW s \in SUBSET (1 .. k + 1)
          PROVE  g[s] = IF s = {} THEN base ELSE TakeBack(g[s \ {Largest(s)}], seq[Largest(s)])
      <3>1. CASE s \in SUBSET (1 .. k)
        <4>1. g[s] = f[s]
          BY <3>1, Zenon DEF g
        <4>2. g[s \ {Largest(s)}] = f[s \ {Largest(s)}]
          BY <3>1, Zenon DEF g
        <4>3. f[s] = IF s = {} THEN base ELSE TakeBack(f[s \ {Largest(s)}], seq[Largest(s)])
          BY <1>3, <3>1, Zenon
        <4> QED
          BY <4>1, <4>2, <4>3, Zenon
      <3>2. CASE s \notin SUBSET (1 .. k)
        <4>1. k + 1 \in s /\ s \ {k + 1} \in SUBSET (1 .. k)
          BY <3>2, OneMore, Zenon
        <4>2. Largest(s) \in s /\ \A y \in s : y <= Largest(s)
          BY <4>1, k + 1 \in Nat, LargestExists
        <4>3. Largest(s) = k + 1
          BY <4>1, <4>2, TopIs
        <4>4. g[s] = TakeBack(f[s \ {k + 1}], seq[k + 1])
          BY <3>2, Zenon DEF g
        <4>5. g[s \ {k + 1}] = f[s \ {k + 1}]
          BY <4>1, Zenon DEF g
        <4> QED
          BY <4>1, <4>3, <4>4, <4>5, Zenon
      <3> QED
        BY <3>1, <3>2
    <2>2. g = [s \in SUBSET (1 .. k + 1) |-> g[s]]
      BY Zenon DEF g
    <2>3. Is(g, 1 .. k + 1)
      <3> HIDE DEF g
      <3> QED
        BY <2>1, <2>2, Zenon
    <2> QED
      <3> HIDE DEF Is
      <3> QED
        BY <2>3
  <1> DEFINE P == {k \in Nat : \E f : Is(f, 1 .. k)}
  <1> HIDE DEF Is
  <1>4. P = Nat
    <2>1. 0 \in P
      BY <1>2
    <2>2. \A k \in P : k + 1 \in P
      BY <1>3
    <2>3. P \in SUBSET Nat
      OBVIOUS
    <2> HIDE DEF P
    <2> QED
      BY <2>1, <2>2, <2>3, SetInduction
  <1> DEFINE f == CHOOSE f : Is(f, 1 .. n)
  <1>5. Is(f, 1 .. n)
    BY <1>4
  <1>6. TakenBack(base, seq) = f[1 .. n]
    BY <1>1
  <1> HIDE DEF f
  <1>7. \A s \in SUBSET (1 .. n) :
          f[s] = IF s = {} THEN base ELSE TakeBack(f[s \ {Largest(s)}], seq[Largest(s)])
    BY <1>5, Zenon DEF Is
  <1> DEFINE h == [k \in 0 .. n |-> f[1 .. k]]
  <1>8. h[n] = f[1 .. n] /\ h[0] = base
    <2>1. 1 .. 0 \in SUBSET (1 .. n) /\ 1 .. 0 = {} /\ n \in 0 .. n /\ 0 \in 0 .. n
      OBVIOUS
    <2> QED
      BY <1>7, <2>1, Zenon
  <1>9. ASSUME NEW k \in 0 .. n - 1 PROVE h[k + 1] = TakeBack(h[k], seq[k + 1])
    <2>1. k \in Nat /\ k + 1 \in Nat /\ k + 1 <= n /\ k \in 0 .. n /\ k + 1 \in 0 .. n
      OBVIOUS
    <2>2. (1 .. k + 1) \ {k + 1} = 1 .. k /\ 1 .. k + 1 \in SUBSET (1 .. n) /\ k + 1 \in 1 .. k + 1
      BY <2>1, OneMore, Zenon
    <2>3. Largest(1 .. k + 1) \in 1 .. k + 1 /\ \A y \in 1 .. k + 1 : y <= Largest(1 .. k + 1)
      BY <2>1, <2>2, LargestExists
    <2>4. Largest(1 .. k + 1) = k + 1
      BY <2>1, <2>2, <2>3
    <2>5. f[1 .. k + 1] = TakeBack(f[1 .. k], seq[k + 1])
      BY <1>7, <2>2, <2>4, Zenon
    <2> QED
      BY <2>1, <2>5, Zenon
  <1> QED
    BY <1>6, <1>8, <1>9, Zenon


\* The last mutation of a batch is taken back first.
LEMMA RollbackLast ==
  ASSUME NEW m, NEW list, List(list), NEW v
  PROVE  Rollback(m, Append(list, v)) = Rollback(TakeBack(m, v), list)
  <1> DEFINE N == Len(list)
             long == Append(list, v)
             s == Reverse(long)
             t == Reverse(list)
  <1>1. N \in Nat /\ DOMAIN list = 1 .. N
    BY ListFacts
  <1>2. Len(long) = N + 1 /\ \A i \in 1 .. N + 1 : long[i] = IF i = N + 1 THEN v ELSE list[i]
    <2>1. List(long) /\ Len(long) = N + 1 /\ \A i \in DOMAIN long : long[i] = IF i = N + 1 THEN v ELSE list[i]
      BY ListAppend
    <2>2. DOMAIN long = 1 .. N + 1
      BY <2>1, ListFacts
    <2> QED
      BY <2>1, <2>2
  <1> HIDE DEF long
  <1>3. DOMAIN t = 1 .. N /\ \A k \in 1 .. N : t[k] = list[(N - k) + 1]
    BY DEF Reverse
  <1>4. s = [i \in 1 .. Len(long) |-> long[(Len(long) - i) + 1]]
    BY DEF Reverse
  <1> HIDE DEF s, t, N
  <1>5. DOMAIN s = 1 .. N + 1 /\ s[1] = v /\ \A k \in 1 .. N : s[k + 1] = t[k]
    <2>1. DOMAIN s = 1 .. N + 1 /\ \A k \in 1 .. N + 1 : s[k] = long[((N + 1) - k) + 1]
      BY <1>2, <1>4
    <2>2. s[1] = v
      <3>1. 1 \in 1 .. N + 1 /\ ((N + 1) - 1) + 1 = N + 1 /\ N + 1 \in 1 .. N + 1
        BY <1>1
      <3> QED
        BY <1>2, <2>1, <3>1
    <2>3. ASSUME NEW k \in 1 .. N PROVE s[k + 1] = t[k]
      <3> DEFINE j == (N - k) + 1
      <3>1. k + 1 \in 1 .. N + 1 /\ ((N + 1) - (k + 1)) + 1 = j /\ j \in 1 .. N + 1 /\ j # N + 1
        BY <1>1
      <3>2. s[k + 1] = long[j]
        BY <2>1, <3>1
      <3>3. long[j] = list[j]
        BY <1>2, <3>1
      <3> QED
        BY <1>3, <3>2, <3>3
    <2> QED
      BY <2>1, <2>2, <2>3
  <1>6. PICK f : /\ TakenBack(m, s) = f[N + 1] /\ f[0] = m
                 /\ \A k \in 0 .. (N + 1) - 1 : f[k + 1] = TakeBack(f[k], s[k + 1])
    <2> DEFINE n == N + 1
    <2>1. n \in Nat /\ DOMAIN s = 1 .. n
      BY <1>1, <1>5
    <2> HIDE DEF n
    <2>2. \E f : /\ TakenBack(m, s) = f[n] /\ f[0] = m
                 /\ \A k \in 0 .. n - 1 : f[k + 1] = TakeBack(f[k], s[k + 1])
      BY <2>1, TakeBackSteps
    <2> QED
      BY <2>2 DEF n
  <1>7. PICK g : /\ TakenBack(TakeBack(m, v), t) = g[N] /\ g[0] = TakeBack(m, v)
                 /\ \A k \in 0 .. N - 1 : g[k + 1] = TakeBack(g[k], t[k + 1])
    <2> DEFINE u == TakeBack(m, v)
    <2> HIDE DEF u
    <2>1. \E g : /\ TakenBack(u, t) = g[N] /\ g[0] = u
                 /\ \A k \in 0 .. N - 1 : g[k + 1] = TakeBack(g[k], t[k + 1])
      BY <1>1, <1>3, TakeBackSteps
    <2> QED
      BY <2>1 DEF u
  <1> DEFINE P == {k \in Nat : k <= N => f[k + 1] = g[k]}
  <1>8. 0 \in P
    <2>1. 0 \in 0 .. (N + 1) - 1 /\ 0 + 1 = 1
      BY <1>1
    <2>2. f[0 + 1] = TakeBack(f[0], s[0 + 1])
      BY <1>6, <2>1
    <2>3. f[0 + 1] = TakeBack(m, v)
      BY <1>5, <1>6, <2>1, <2>2
    <2> QED
      BY <1>7, <2>3
  <1>9. ASSUME NEW k \in P PROVE k + 1 \in P
    <2> SUFFICES ASSUME k + 1 <= N PROVE f[(k + 1) + 1] = g[k + 1]
      OBVIOUS
    <2>1. k + 1 \in 0 .. (N + 1) - 1 /\ k \in 0 .. N - 1 /\ k + 1 \in 1 .. N /\ k <= N
      BY <1>1
    <2>2. f[(k + 1) + 1] = TakeBack(f[k + 1], s[(k + 1) + 1])
      BY <1>6, <2>1
    <2>3. g[k + 1] = TakeBack(g[k], t[k + 1])
      BY <1>7, <2>1
    <2>4. f[k + 1] = g[k] /\ s[(k + 1) + 1] = t[k + 1]
      BY <1>5, <1>9, <2>1
    <2> QED
      BY <2>2, <2>3, <2>4
  <1>10. P = Nat
    <2>1. P \in SUBSET Nat
      OBVIOUS
    <2> HIDE DEF P
    <2> QED
      BY <1>8, <1>9, <2>1, SetInduction
  <1>11. f[N + 1] = g[N]
    BY <1>1, <1>10
  <1> QED
    BY <1>6, <1>7, <1>11 DEF Rollback, s, t, long

\* A batch without a mutation takes nothing back.
LEMMA RollbackNothing ==
  ASSUME NEW m
  PROVE  Rollback(m, << >>) = m
  <1> DEFINE t == Reverse(<< >>)
  <1>1. DOMAIN t = 1 .. 0
    BY DEF Reverse
  <1> HIDE DEF t
  <1>2. PICK f : TakenBack(m, t) = f[0] /\ f[0] = m
    <2> DEFINE n == 0
    <2>1. n \in Nat /\ DOMAIN t = 1 .. n
      BY <1>1
    <2> HIDE DEF n
    <2>2. \E f : /\ TakenBack(m, t) = f[n] /\ f[0] = m
                 /\ \A k \in 0 .. n - 1 : f[k + 1] = TakeBack(f[k], t[k + 1])
      BY <2>1, TakeBackSteps
    <2> QED
      BY <2>2 DEF n
  <1> QED
    BY <1>2 DEF Rollback, t

\* What a batch keeps.  Its mutations take the live scene back to the scene of the last
\* revision: this is what a refusal relies on.
BatchCanBeTakenBack ==
  /\ IsScene(model) /\ Valid(model)
  /\ IsScene(draft)
  /\ List(cmds) /\ List(inverses) /\ Len(inverses) = Len(cmds)
  /\ Rollback(draft, inverses) = model

\* A command whose mutation takes it back, applied or refused, keeps the invariant.
LEMMA CommandTakenBack ==
  ASSUME BatchCanBeTakenBack, NEW c, Fold(c),
         CanApply(draft, c) => /\ IsScene(Apply(draft, c))
                               /\ TakeBack(Apply(draft, c), Mutation(draft, c)) = draft
  PROVE  BatchCanBeTakenBack'
  <1>1. CASE /\ CanApply(draft, c)
             /\ draft' = Apply(draft, c)
             /\ cmds' = Append(cmds, c)
             /\ inverses' = Append(inverses, Mutation(draft, c))
    <2>1. model' = model
      BY DEF Fold
    <2>2. List(cmds') /\ List(inverses') /\ Len(inverses') = Len(cmds')
      BY <1>1, ListAppend DEF BatchCanBeTakenBack
    <2> DEFINE v == Mutation(draft, c)
               n == Apply(draft, c)
    <2>3. TakeBack(n, v) = draft
      BY <1>1
    <2>4. Rollback(n, Append(inverses, v)) = Rollback(TakeBack(n, v), inverses)
      BY RollbackLast DEF BatchCanBeTakenBack
    <2>5. Rollback(draft', inverses') = model'
      BY <1>1, <2>1, <2>3, <2>4 DEF BatchCanBeTakenBack
    <2>6. IsScene(draft') /\ IsScene(model') /\ Valid(model')
      BY <1>1, <2>1 DEF BatchCanBeTakenBack
    <2> QED
      BY <2>2, <2>5, <2>6 DEF BatchCanBeTakenBack
  <1>2. CASE draft' = Rollback(draft, inverses) /\ NoBatch
    <2>1. model' = model /\ draft' = model /\ cmds' = << >> /\ inverses' = << >>
      BY <1>2 DEF Fold, BatchCanBeTakenBack, NoBatch
    <2>2. Rollback(draft', inverses') = model'
      BY <2>1, RollbackNothing
    <2>3. IsScene(draft') /\ IsScene(model') /\ Valid(model')
      BY <2>1 DEF BatchCanBeTakenBack
    <2>4. List(cmds') /\ List(inverses') /\ Len(inverses') = Len(cmds')
      BY <2>1, EmptyList
    <2> QED
      BY <2>2, <2>3, <2>4 DEF BatchCanBeTakenBack
  <1> QED
    BY <1>1, <1>2 DEF Fold

\* Every command, the end of a batch and a refusal keep the invariant.
LEMMA BatchStep ==
  ASSUME BatchCanBeTakenBack, [Next]_vars
  PROVE  BatchCanBeTakenBack'
  <1>1. IsScene(draft)
    BY DEF BatchCanBeTakenBack
  <1>2. CASE AddElement
    <2>1. PICK id \in ElementIds, kids \in ChildLists, i \in 0 .. Len(draft.elements) :
             Fold([op |-> "AddElement", element |-> Element(id, kids), index |-> i])
      BY <1>2 DEF AddElement
    <2> DEFINE e == Element(id, kids)
               c == [op |-> "AddElement", element |-> e, index |-> i]
    <2>2. IsElement(e) /\ i \in Nat
      BY DEF IsElement, Element
    <2> HIDE DEF e
    <2>3. CanApply(draft, c) => IsScene(Apply(draft, c)) /\ TakeBack(Apply(draft, c), Mutation(draft, c)) = draft
      BY <1>1, <2>2, AddTakenBack
    <2>4. Fold(c)
      BY <2>1 DEF e
    <2> HIDE DEF c
    <2> QED
      BY <2>3, <2>4, CommandTakenBack
  <1>3. CASE UpdateElement
    <2>1. PICK id \in ElementIds, kids \in ChildLists :
             Fold([op |-> "UpdateElement", element |-> Element(id, kids)])
      BY <1>3 DEF UpdateElement
    <2> DEFINE e == Element(id, kids)
               c == [op |-> "UpdateElement", element |-> e]
    <2>2. IsElement(e)
      BY DEF IsElement, Element
    <2> HIDE DEF e
    <2>3. CanApply(draft, c) => IsScene(Apply(draft, c)) /\ TakeBack(Apply(draft, c), Mutation(draft, c)) = draft
      BY <1>1, <2>2, UpdateTakenBack
    <2>4. Fold(c)
      BY <2>1 DEF e
    <2> HIDE DEF c
    <2> QED
      BY <2>3, <2>4, CommandTakenBack
  <1>4. CASE DeleteElement
    <2>1. PICK id \in ElementIds : Fold([op |-> "DeleteElement", id |-> id])
      BY <1>4 DEF DeleteElement
    <2> DEFINE c == [op |-> "DeleteElement", id |-> id]
    <2>2. CanApply(draft, c) => IsScene(Apply(draft, c)) /\ TakeBack(Apply(draft, c), Mutation(draft, c)) = draft
      BY <1>1, DeleteTakenBack
    <2>3. Fold(c)
      BY <2>1
    <2> HIDE DEF c
    <2> QED
      BY <2>2, <2>3, CommandTakenBack
  <1>5. CASE SetCamera
    <2> DEFINE c == [op |-> "SetCamera", camera |-> 1]
    <2>1. IsScene(Apply(draft, c)) /\ TakeBack(Apply(draft, c), Mutation(draft, c)) = draft
      BY <1>1, CameraTakenBack
    <2>2. Fold(c)
      BY <1>5 DEF SetCamera
    <2> HIDE DEF c
    <2> QED
      BY <2>1, <2>2, CommandTakenBack
  <1>6. CASE ZoomCamera
    <2>1. PICK f \in {0, 2} : Fold([op |-> "ZoomCamera", factor |-> f])
      BY <1>6 DEF ZoomCamera
    <2> DEFINE c == [op |-> "ZoomCamera", factor |-> f]
    <2>2. IsScene(Apply(draft, c)) /\ TakeBack(Apply(draft, c), Mutation(draft, c)) = draft
      BY <1>1, CameraTakenBack
    <2>3. Fold(c)
      BY <2>1
    <2> HIDE DEF c
    <2> QED
      BY <2>2, <2>3, CommandTakenBack
  <1>7. CASE Finish
    <2>1. cmds' = << >> /\ inverses' = << >>
      BY <1>7 DEF Finish, NoBatch
    <2>2. draft' = model' /\ IsScene(model') /\ Valid(model')
      BY <1>7 DEF Finish, BatchCanBeTakenBack
    <2>3. Rollback(draft', inverses') = model'
      BY <2>1, <2>2, RollbackNothing
    <2>4. List(cmds') /\ List(inverses') /\ Len(inverses') = Len(cmds')
      BY <2>1, EmptyList
    <2> QED
      BY <2>2, <2>3, <2>4 DEF BatchCanBeTakenBack
  <1>8. CASE UNCHANGED vars
    BY <1>8 DEF vars, BatchCanBeTakenBack
  <1> QED
    BY <1>2, <1>3, <1>4, <1>5, <1>6, <1>7, <1>8 DEF Next

\* A scene that passes the schema starts the invariant.
LEMMA BatchStart ==
  ASSUME Init, \A m \in Scenes : m \in Scene /\ Valid(m)
  PROVE  BatchCanBeTakenBack
  <1>1. model \in Scene /\ Valid(model) /\ draft = model /\ cmds = << >> /\ inverses = << >>
    BY DEF Init
  <1>2. IsScene(model)
    <2> DEFINE s == model.elements
    <2>1. s \in Seq([id : ElementIds, children : Seq(ElementIds)])
          /\ model = [elements |-> s, camera |-> model.camera]
      BY <1>1 DEF Scene
    <2>2. List(s) /\ \A i \in DOMAIN s : s[i] \in [id : ElementIds, children : Seq(ElementIds)]
      BY <2>1, Listed
    <2>3. Apart(s)
      BY <1>1 DEF Valid, IsInjective, Apart
    <2> HIDE DEF s
    <2>4. \A i \in DOMAIN s : s[i] = [id |-> s[i].id, children |-> s[i].children]
      BY <2>2
    <2> QED
      BY <2>1, <2>2, <2>3, <2>4 DEF IsScene, Elements, s
  <1>3. Rollback(draft, inverses) = model
    BY <1>1, RollbackNothing
  <1> QED
    BY <1>1, <1>2, <1>3, EmptyList DEF BatchCanBeTakenBack

\* Between batches nothing is left to take back.
LEMMA BatchPromises ==
  ASSUME BatchCanBeTakenBack
  PROVE  RefusedBatchLeavesNoTrace /\ TypeOK
  <1>1. ASSUME cmds = << >> PROVE draft = model
    <2>1. Len(inverses) = 0 /\ List(inverses)
      BY <1>1 DEF BatchCanBeTakenBack
    <2>2. inverses = << >>
      BY <2>1, ListFacts
    <2> QED
      BY <2>2, RollbackNothing DEF BatchCanBeTakenBack
  <1> QED
    BY <1>1 DEF RefusedBatchLeavesNoTrace, TypeOK, BatchCanBeTakenBack

\* The scenes an engine is created with pass the schema: WhiteboardEngine::new refuses others.
ScenesPass == \A m \in Scenes : m \in Scene /\ Valid(m)

\* Taking back the mutations of the open batch, the last one first, gives the scene of the
\* last revision, whatever commands were applied (the rollback of WhiteboardEngine::execute).
THEOREM BatchIsInductive ==
  ASSUME ScenesPass
  PROVE  Spec => []BatchCanBeTakenBack
  <1>1. Init => BatchCanBeTakenBack
    BY BatchStart DEF ScenesPass
  <1>2. BatchCanBeTakenBack /\ [Next]_vars => BatchCanBeTakenBack'
    BY BatchStep
  <1> QED
    BY <1>1, <1>2, PTL DEF Spec

\* A refused batch of a whiteboard leaves the scene it found, with every element at its
\* place and every parent with its children, however many commands of it were applied;
\* and the scene of a revision passes the schema (WhiteboardEngine::execute).
THEOREM RefusedSceneBatchLeavesNoTrace ==
  ASSUME ScenesPass
  PROVE  Spec => [](RefusedBatchLeavesNoTrace /\ TypeOK)
  <1>1. BatchCanBeTakenBack => RefusedBatchLeavesNoTrace /\ TypeOK
    BY BatchPromises
  <1> QED
    BY <1>1, BatchIsInductive, PTL


--------------------------------------------------------------------------------
(* Tables.  A place is told by its two coordinates.  An operation that moves    *)
(* lines has a map from the places of the new grid back to those of the old     *)
(* one: what a cell covers afterwards goes back to what it covered before, so   *)
(* that two cells which met afterwards met before.                              *)

Places   == [row : Nat, column : Nat]
Cells(S) == [at : Places, span : Places, content : S, style : S]

\* The tables whose contents and styles are drawn from S, where 0 is the empty one.
Tables(S) == [size : Places, cells : SUBSET Cells(S)]

Within(p, c) == \A a \in Axes : c.at[a] <= p[a] /\ p[a] < c.at[a] + c.span[a]
OnGrid(p, t) == \A a \in Axes : p[a] < t.size[a]

\* Cells that take no place twice and none beyond the grid: what Canonical fills up.
Fits(t) ==
    /\ \A a \in Axes : t.size[a] > 0
    /\ \A c \in t.cells, a \in Axes : c.span[a] > 0
    /\ \A c, d \in t.cells, p \in Places : Within(p, c) /\ Within(p, d) => c = d
    /\ \A c \in t.cells, p \in Places : Within(p, c) => OnGrid(p, t)

\* A place is its two coordinates.
LEMMA PlaceFacts ==
    ASSUME NEW p \in Places
    PROVE  /\ p = At(p.row, p.column)
           /\ p["row"] = p.row /\ p["column"] = p.column
           /\ \A a \in Axes : p[a] \in Nat
           /\ \A q \in Places : (\A a \in Axes : p[a] = q[a]) => p = q
BY DEF Places, At, Axes

\* The coordinates of At.
LEMMA AtFacts ==
    ASSUME NEW r \in Nat, NEW k \in Nat
    PROVE  At(r, k) \in Places /\ At(r, k).row = r /\ At(r, k).column = k
BY DEF Places, At

\* A place with one coordinate replaced.
LEMMA PlaceUpdate ==
    ASSUME NEW p \in Places, NEW axis \in Axes, NEW n \in Nat
    PROVE  /\ [p EXCEPT ![axis] = n] \in Places
           /\ \A a \in Axes : [p EXCEPT ![axis] = n][a] = IF a = axis THEN n ELSE p[a]
BY DEF Places, Axes

\* A cell with one of its fields replaced.
LEMMA CellUpdate ==
    ASSUME NEW S, NEW c \in Cells(S), NEW p \in Places, NEW v \in S
    PROVE  /\ c.at \in Places /\ c.span \in Places /\ c.content \in S /\ c.style \in S
           /\ [c EXCEPT !.at = p] \in Cells(S)
           /\ [c EXCEPT !.at = p].at = p /\ [c EXCEPT !.at = p].span = c.span
           /\ [c EXCEPT !.span = p] \in Cells(S)
           /\ [c EXCEPT !.span = p].span = p /\ [c EXCEPT !.span = p].at = c.at
           /\ \A f \in {"content", "style"} :
                 /\ [c EXCEPT ![f] = v] \in Cells(S)
                 /\ [c EXCEPT ![f] = v].at = c.at
                 /\ [c EXCEPT ![f] = v].span = c.span
BY DEF Cells

\* The fields of a new cell.
LEMMA NewCell ==
    ASSUME NEW S, NEW p \in Places, NEW q \in Places, NEW v \in S, NEW w \in S
    PROVE  /\ Cell(p, q, v, w) \in Cells(S)
           /\ Cell(p, q, v, w).at = p /\ Cell(p, q, v, w).span = q
BY DEF Cells, Cell

\* Covers, by coordinates.
LEMMA CoversWithin ==
    ASSUME NEW S, NEW c \in Cells(S)
    PROVE  /\ Covers(c) \subseteq Places
           /\ \A p \in Places : p \in Covers(c) <=> Within(p, c)
           /\ Covers(c) # {} <=> \A a \in Axes : c.span[a] > 0
<1> DEFINE R == c.at.row .. c.at.row + c.span.row - 1
           K == c.at.column .. c.at.column + c.span.column - 1
<1>1. c.at \in Places /\ c.span \in Places  BY DEF Cells
<1>2. /\ c.at.row \in Nat /\ c.at.column \in Nat /\ c.span.row \in Nat /\ c.span.column \in Nat
      /\ c.at["row"] = c.at.row /\ c.at["column"] = c.at.column
      /\ c.span["row"] = c.span.row /\ c.span["column"] = c.span.column
  BY <1>1, PlaceFacts DEF Places
<1>3. R \subseteq Nat /\ K \subseteq Nat  BY <1>2
<1>4. Covers(c) = {At(r, k) : r \in R, k \in K}  BY DEF Covers
<1>5. Covers(c) \subseteq Places  BY <1>3, <1>4, AtFacts
<1>6. ASSUME NEW p \in Places PROVE p \in Covers(c) <=> Within(p, c)
  <2>1. p = At(p.row, p.column) /\ p["row"] = p.row /\ p["column"] = p.column
    BY PlaceFacts
  <2>2. p.row \in Nat /\ p.column \in Nat  BY DEF Places
  <2>3. p \in Covers(c) <=> p.row \in R /\ p.column \in K
    <3>1. ASSUME p \in Covers(c) PROVE p.row \in R /\ p.column \in K
      <4>1. PICK r \in R, k \in K : p = At(r, k)  BY <1>4, <3>1
      <4> QED BY <4>1, <1>3, AtFacts
    <3> QED BY <3>1, <2>1, <1>4
  <2>4. Within(p, c) <=> p.row \in R /\ p.column \in K
    BY <2>1, <2>2, <1>2 DEF Within, Axes
  <2> QED BY <2>3, <2>4
<1>7. Covers(c) # {} <=> R # {} /\ K # {}  BY <1>4
<1>8. R # {} <=> c.span.row > 0
  <2>1. c.span.row > 0 => c.at.row \in R  BY <1>2
  <2> QED BY <2>1, <1>2
<1>9. K # {} <=> c.span.column > 0
  <2>1. c.span.column > 0 => c.at.column \in K  BY <1>2
  <2> QED BY <2>1, <1>2
<1>10. Covers(c) # {} <=> \A a \in Axes : c.span[a] > 0
  BY <1>7, <1>8, <1>9, <1>2 DEF Axes
<1> QED BY <1>5, <1>6, <1>10

\* The grid of a table, by coordinates.
LEMMA GridPlaces ==
    ASSUME NEW S, NEW t \in Tables(S)
    PROVE  /\ t.size \in Places /\ t.cells \subseteq Cells(S)
           /\ Grid(t) \subseteq Places
           /\ \A p \in Places : p \in Grid(t) <=> OnGrid(p, t)
<1>1. t.size \in Places /\ t.cells \subseteq Cells(S)  BY DEF Tables
<1>2. /\ t.size.row \in Nat /\ t.size.column \in Nat
      /\ t.size["row"] = t.size.row /\ t.size["column"] = t.size.column
  BY <1>1, PlaceFacts DEF Places
<1>3. Grid(t) \subseteq Places  BY <1>2, AtFacts DEF Grid
<1>4. ASSUME NEW p \in Places PROVE p \in Grid(t) <=> OnGrid(p, t)
  <2>1. p = At(p.row, p.column) /\ p["row"] = p.row /\ p["column"] = p.column
    BY PlaceFacts
  <2>2. p.row \in Nat /\ p.column \in Nat  BY DEF Places
  <2>3. ASSUME p \in Grid(t) PROVE p.row < t.size.row /\ p.column < t.size.column
    <3>1. PICK r \in 0 .. t.size.row - 1, k \in 0 .. t.size.column - 1 : p = At(r, k)
      BY <2>3 DEF Grid
    <3> QED BY <3>1, <1>2, AtFacts
  <2>4. ASSUME p.row < t.size.row, p.column < t.size.column PROVE p \in Grid(t)
    <3>1. p.row \in 0 .. t.size.row - 1 /\ p.column \in 0 .. t.size.column - 1
      BY <2>2, <2>4, <1>2
    <3> QED BY <3>1, <2>1 DEF Grid
  <2> QED BY <2>1, <2>3, <2>4, <1>2 DEF OnGrid, Axes
<1> QED BY <1>1, <1>3, <1>4

\* Tiled, by coordinates.
LEMMA TiledFits ==
    ASSUME NEW S, NEW t \in Tables(S)
    PROVE  Tiled(t) <=> /\ Fits(t)
                        /\ \A p \in Places : OnGrid(p, t) => \E c \in t.cells : Within(p, c)
<1>1. t.size \in Places /\ t.cells \subseteq Cells(S)  BY GridPlaces
<1>2. /\ t.size["row"] = t.size.row /\ t.size["column"] = t.size.column
      /\ t.size.row \in Nat /\ t.size.column \in Nat
  BY <1>1, PlaceFacts DEF Places
<1>3. t.size.row > 0 /\ t.size.column > 0 <=> \A a \in Axes : t.size[a] > 0
  BY <1>2 DEF Axes
<1>4. (\A c \in t.cells : Covers(c) # {}) <=> \A c \in t.cells, a \in Axes : c.span[a] > 0
  BY <1>1, CoversWithin
<1>5. (\A c, d \in t.cells : c # d => Covers(c) \cap Covers(d) = {})
      <=> \A c, d \in t.cells, p \in Places : Within(p, c) /\ Within(p, d) => c = d
  <2>1. ASSUME NEW c \in t.cells, NEW d \in t.cells
        PROVE  Covers(c) \cap Covers(d) = {}
               <=> \A p \in Places : ~(Within(p, c) /\ Within(p, d))
    BY <1>1, CoversWithin
  <2> QED BY <2>1
<1>6. UNION {Covers(c) : c \in t.cells} = Grid(t)
      <=> /\ \A c \in t.cells, p \in Places : Within(p, c) => OnGrid(p, t)
          /\ \A p \in Places : OnGrid(p, t) => \E c \in t.cells : Within(p, c)
  <2> DEFINE U == UNION {Covers(c) : c \in t.cells}
  <2>1. U \subseteq Places  BY <1>1, CoversWithin
  <2>2. \A p \in Places : p \in U <=> \E c \in t.cells : Within(p, c)
    BY <1>1, CoversWithin
  <2>3. Grid(t) \subseteq Places /\ \A p \in Places : p \in Grid(t) <=> OnGrid(p, t)
    BY GridPlaces
  <2> HIDE DEF U
  <2>4. U = Grid(t) <=> \A p \in Places : p \in U <=> p \in Grid(t)
    BY <2>1, <2>3
  <2>5. U = Grid(t)
        <=> /\ \A c \in t.cells, p \in Places : Within(p, c) => OnGrid(p, t)
            /\ \A p \in Places : OnGrid(p, t) => \E c \in t.cells : Within(p, c)
    BY <2>2, <2>3, <2>4
  <2> QED BY <2>5 DEF U
<1> QED BY <1>3, <1>4, <1>5, <1>6 DEF Tiled, Fits

\* A single empty cell takes its own place and no other.
LEMMA SingleCell ==
    ASSUME NEW S, NEW p \in Places, NEW v \in S, NEW w \in S
    PROVE  /\ Cell(p, At(1, 1), v, w) \in Cells(S)
           /\ \A a \in Axes : Cell(p, At(1, 1), v, w).span[a] = 1
           /\ \A q \in Places : Within(q, Cell(p, At(1, 1), v, w)) <=> q = p
<1> DEFINE c == Cell(p, At(1, 1), v, w)
<1>1. At(1, 1) \in Places /\ \A a \in Axes : At(1, 1)[a] = 1  BY DEF Places, At, Axes
<1>2. c \in Cells(S) /\ c.at = p /\ c.span = At(1, 1)  BY <1>1, NewCell
<1> HIDE DEF c
<1>3. ASSUME NEW q \in Places PROVE Within(q, c) <=> q = p
  <2>1. \A a \in Axes : p[a] \in Nat /\ q[a] \in Nat  BY PlaceFacts
  <2>2. Within(q, c) <=> \A a \in Axes : p[a] = q[a]
    BY <2>1, <1>1, <1>2 DEF Within
  <2> QED BY <2>2, PlaceFacts
<1>4. \A a \in Axes : c.span[a] = 1  BY <1>1, <1>2
<1> QED BY <1>2, <1>3, <1>4 DEF c

\* Filling up cells that fit gives a whole table: no operation has to place its own
\* empty cells.
LEMMA CanonicalTiles ==
    ASSUME NEW S, 0 \in S, NEW t \in Tables(S), Fits(t)
    PROVE  Canonical(t) \in Tables(S) /\ Tiled(Canonical(t))
<1> DEFINE taken == UNION {Covers(c) : c \in t.cells}
           free  == Grid(t) \ taken
           empty == {Cell(p, At(1, 1), 0, 0) : p \in free}
           u     == Canonical(t)
<1>1. /\ t.size \in Places /\ t.cells \subseteq Cells(S) /\ Grid(t) \subseteq Places
      /\ \A p \in Places : p \in Grid(t) <=> OnGrid(p, t)
  BY GridPlaces
<1>2. \A p \in Places : p \in taken <=> \E c \in t.cells : Within(p, c)
  BY <1>1, CoversWithin
<1>3. u = [t EXCEPT !.cells = @ \cup empty]  BY DEF Canonical
<1> HIDE DEF taken, u
<1>4. free \subseteq Places  BY <1>1
<1>5. /\ empty \subseteq Cells(S)
      /\ \A c \in empty, a \in Axes : c.span[a] > 0
      /\ \A c \in empty : \E p \in free :
            c = Cell(p, At(1, 1), 0, 0) /\ \A q \in Places : Within(q, c) <=> q = p
  <2>1. ASSUME NEW c \in empty
        PROVE  /\ c \in Cells(S) /\ \A a \in Axes : c.span[a] > 0
               /\ \E p \in free :
                     c = Cell(p, At(1, 1), 0, 0) /\ \A q \in Places : Within(q, c) <=> q = p
    <3>1. PICK p \in free : c = Cell(p, At(1, 1), 0, 0)  OBVIOUS
    <3>2. p \in Places  BY <1>4
    <3>3. /\ c \in Cells(S) /\ \A a \in Axes : c.span[a] = 1
          /\ \A q \in Places : Within(q, c) <=> q = p
      BY <3>1, <3>2, SingleCell
    <3> QED BY <3>1, <3>3
  <2> QED BY <2>1
<1>6. \A p \in free : Within(p, Cell(p, At(1, 1), 0, 0)) /\ Cell(p, At(1, 1), 0, 0) \in empty
  BY <1>4, SingleCell
<1>7. u.size = t.size /\ u.cells = t.cells \cup empty /\ u \in Tables(S)
  BY <1>1, <1>3, <1>5 DEF Tables
<1>8. \A p \in Places : OnGrid(p, u) <=> OnGrid(p, t)  BY <1>7 DEF OnGrid
<1> HIDE DEF empty
<1>9. Fits(u)
  <2>1. ASSUME NEW c \in u.cells, NEW d \in u.cells, NEW p \in Places,
               Within(p, c), Within(p, d)
        PROVE  c = d
    <3>1. CASE c \in t.cells /\ d \in t.cells  BY <2>1, <3>1 DEF Fits
    <3>2. CASE c \in empty /\ d \in empty  BY <2>1, <3>2, <1>5
    <3>3. CASE c \in t.cells /\ d \in empty
      BY <2>1, <3>3, <1>2, <1>5
    <3>4. CASE c \in empty /\ d \in t.cells
      BY <2>1, <3>4, <1>2, <1>5
    <3> QED BY <1>7, <3>1, <3>2, <3>3, <3>4
  <2>2. ASSUME NEW c \in u.cells, NEW p \in Places, Within(p, c) PROVE OnGrid(p, u)
    <3>1. CASE c \in t.cells  BY <2>2, <3>1, <1>8 DEF Fits
    <3>2. CASE c \in empty  BY <2>2, <3>2, <1>1, <1>4, <1>5, <1>8
    <3> QED BY <1>7, <3>1, <3>2
  <2>3. \A a \in Axes : u.size[a] > 0  BY <1>7 DEF Fits
  <2>4. \A c \in u.cells, a \in Axes : c.span[a] > 0  BY <1>5, <1>7 DEF Fits
  <2> QED BY <2>1, <2>2, <2>3, <2>4 DEF Fits
<1>10. ASSUME NEW p \in Places, OnGrid(p, u) PROVE \E c \in u.cells : Within(p, c)
  <2>1. p \in Grid(t)  BY <1>1, <1>8, <1>10
  <2>2. CASE p \in taken  BY <2>2, <1>2, <1>7
  <2>3. CASE p \in free  BY <2>3, <1>6, <1>7
  <2> QED BY <2>1, <2>2, <2>3
<1> QED BY <1>7, <1>9, <1>10, TiledFits DEF u

(***************************************************************************)
(* Moving cells.  If every place a moved cell covers goes back to a place  *)
(* of the old grid that the cell covered, cells that fitted still fit.     *)
(***************************************************************************)

LEMMA MovedCellsFit ==
    ASSUME NEW S, NEW t \in Tables(S), Tiled(t), NEW size \in Places,
           NEW kept \in SUBSET t.cells, NEW moved \in [kept -> Cells(S)],
           NEW back \in [Places -> Places],
           \A a \in Axes : size[a] > 0,
           \A c \in kept, a \in Axes : moved[c].span[a] > 0,
           \A p \in Places : OnGrid(back[p], t) => \A a \in Axes : p[a] < size[a],
           \A c \in kept, p \in Places : Within(p, moved[c]) => Within(back[p], c)
    PROVE  /\ [size |-> size, cells |-> {moved[c] : c \in kept}] \in Tables(S)
           /\ Fits([size |-> size, cells |-> {moved[c] : c \in kept}])
<1> DEFINE u == [size |-> size, cells |-> {moved[c] : c \in kept}]
<1>1. Fits(t)  BY TiledFits
<1>2. u.size = size /\ u.cells = {moved[c] : c \in kept}  OBVIOUS
<1>3. u \in Tables(S)  BY DEF Tables
<1> HIDE DEF u
<1>4. ASSUME NEW x \in u.cells, NEW y \in u.cells, NEW p \in Places, Within(p, x), Within(p, y)
      PROVE  x = y
  <2>1. PICK c \in kept, d \in kept : x = moved[c] /\ y = moved[d]  BY <1>2
  <2>2. Within(back[p], c) /\ Within(back[p], d) /\ back[p] \in Places  BY <1>4, <2>1
  <2>3. c = d  BY <2>2, <1>1 DEF Fits
  <2> QED BY <2>1, <2>3
<1>5. ASSUME NEW x \in u.cells, NEW p \in Places, Within(p, x) PROVE OnGrid(p, u)
  <2>1. PICK c \in kept : x = moved[c]  BY <1>2
  <2>2. Within(back[p], c) /\ back[p] \in Places  BY <1>5, <2>1
  <2>3. OnGrid(back[p], t)  BY <2>2, <1>1 DEF Fits
  <2> QED BY <2>3, <1>2 DEF OnGrid
<1>6. \A x \in u.cells, a \in Axes : x.span[a] > 0  BY <1>2
<1>7. Fits(u)  BY <1>2, <1>4, <1>5, <1>6 DEF Fits
<1> QED BY <1>3, <1>7 DEF u

\* A cell moved or resized along one axis.
MoveTo(c, axis, n) == [c EXCEPT !.at[axis] = n]
Resize(c, axis, n) == [c EXCEPT !.span[axis] = n]

LEMMA AlongAxis ==
    ASSUME NEW S, NEW c \in Cells(S), NEW axis \in Axes, NEW n \in Nat
    PROVE  /\ \A a \in Axes : c.at[a] \in Nat /\ c.span[a] \in Nat
           /\ MoveTo(c, axis, n) \in Cells(S)
           /\ MoveTo(c, axis, n).span = c.span
           /\ \A a \in Axes : MoveTo(c, axis, n).at[a] = IF a = axis THEN n ELSE c.at[a]
           /\ Resize(c, axis, n) \in Cells(S)
           /\ Resize(c, axis, n).at = c.at
           /\ \A a \in Axes : Resize(c, axis, n).span[a] = IF a = axis THEN n ELSE c.span[a]
<1> DEFINE at == [c.at EXCEPT ![axis] = n]
           span == [c.span EXCEPT ![axis] = n]
<1>1. c.at \in Places /\ c.span \in Places  BY DEF Cells
<1>2. \A a \in Axes : c.at[a] \in Nat /\ c.span[a] \in Nat  BY <1>1, PlaceFacts
<1>3. /\ at \in Places /\ span \in Places
      /\ \A a \in Axes : at[a] = IF a = axis THEN n ELSE c.at[a]
      /\ \A a \in Axes : span[a] = IF a = axis THEN n ELSE c.span[a]
  BY <1>1, PlaceUpdate
<1>4. /\ MoveTo(c, axis, n) = [c EXCEPT !.at = at]
      /\ Resize(c, axis, n) = [c EXCEPT !.span = span]
  BY DEF MoveTo, Resize
<1> HIDE DEF at, span
<1>5. /\ [c EXCEPT !.at = at] \in Cells(S)
      /\ [c EXCEPT !.at = at].at = at /\ [c EXCEPT !.at = at].span = c.span
      /\ [c EXCEPT !.span = span] \in Cells(S)
      /\ [c EXCEPT !.span = span].span = span /\ [c EXCEPT !.span = span].at = c.at
  BY <1>3 DEF Cells
<1> QED BY <1>2, <1>3, <1>4, <1>5

(***************************************************************************)
(* InsertLines: a table stays whole when lines are put into it anywhere,   *)
(* through merged cells too (insert_table_rows, insert_table_columns).     *)
(***************************************************************************)
THEOREM InsertedLinesTile ==
    ASSUME NEW S, 0 \in S, NEW t \in Tables(S), Tiled(t), NEW axis \in Axes,
           NEW index \in Nat, NEW count \in Nat, CanInsertLines(t, axis, index, count)
    PROVE  InsertLines(t, axis, index, count) \in Tables(S)
           /\ Tiled(InsertLines(t, axis, index, count))
<1> DEFINE Shift(c) == IF c.at[axis] >= index THEN [c EXCEPT !.at[axis] = @ + count]
                       ELSE IF index < c.at[axis] + c.span[axis]
                            THEN [c EXCEPT !.span[axis] = @ + count]
                       ELSE c
           size  == [t.size EXCEPT ![axis] = @ + count]
           moved == [c \in t.cells |-> Shift(c)]
           back  == [p \in Places |->
                       [p EXCEPT ![axis] = IF p[axis] < index THEN p[axis]
                                           ELSE IF p[axis] < index + count /\ index > 0 THEN index - 1
                                           ELSE IF p[axis] < index + count THEN 0
                                           ELSE p[axis] - count]]
           u == [size |-> size, cells |-> {Shift(c) : c \in t.cells}]
<1>1. /\ t.size \in Places /\ t.cells \subseteq Cells(S) /\ Fits(t)
      /\ count > 0 /\ index <= t.size[axis] /\ t.size[axis] \in Nat
  BY GridPlaces, TiledFits, PlaceFacts DEF CanInsertLines
<1>2. /\ size \in Places
      /\ \A a \in Axes : size[a] = IF a = axis THEN t.size[axis] + count ELSE t.size[a]
  BY <1>1, PlaceUpdate
<1>3. ASSUME NEW p \in Places
      PROVE  /\ back[p] \in Places
             /\ \A a \in Axes : p[a] \in Nat /\ (a # axis => back[p][a] = p[a])
             /\ p[axis] < index => back[p][axis] = p[axis]
             /\ (p[axis] >= index /\ p[axis] < index + count /\ index > 0)
                   => back[p][axis] = index - 1
             /\ (p[axis] >= index /\ p[axis] < index + count /\ index = 0)
                   => back[p][axis] = 0
             /\ p[axis] >= index + count => back[p][axis] = p[axis] - count
  <2> DEFINE n == IF p[axis] < index THEN p[axis]
                  ELSE IF p[axis] < index + count /\ index > 0 THEN index - 1
                  ELSE IF p[axis] < index + count THEN 0
                  ELSE p[axis] - count
  <2>1. \A a \in Axes : p[a] \in Nat  BY PlaceFacts
  <2>2. n \in Nat  BY <2>1
  <2>3. back[p] = [p EXCEPT ![axis] = n]  OBVIOUS
  <2> HIDE DEF back
  <2>4. back[p] \in Places /\ \A a \in Axes : back[p][a] = IF a = axis THEN n ELSE p[a]
    <3> HIDE DEF n
    <3> QED BY <2>2, <2>3, PlaceUpdate
  <2> QED BY <2>1, <2>4
<1>4. back \in [Places -> Places]  BY <1>3
<1> HIDE DEF back, size
<1>5. ASSUME NEW c \in t.cells
      PROVE  /\ Shift(c) \in Cells(S)
             /\ \A a \in Axes : Shift(c).span[a] > 0
             /\ \A p \in Places : Within(p, Shift(c)) => Within(back[p], c)
  <2>1. c \in Cells(S) /\ \A a \in Axes : c.span[a] > 0  BY <1>1 DEF Fits
  <2>2. \A a \in Axes : c.at[a] \in Nat /\ c.span[a] \in Nat  BY <2>1, AlongAxis
  <2>3. CASE c.at[axis] >= index
    <3> DEFINE n == c.at[axis] + count
               d == MoveTo(c, axis, n)
    <3>0. n \in Nat  BY <2>2
    <3>1. Shift(c) = d  BY <2>3 DEF MoveTo
    <3>2. /\ d \in Cells(S) /\ d.span = c.span
          /\ \A a \in Axes : d.at[a] = IF a = axis THEN n ELSE c.at[a]
      <4> HIDE DEF n
      <4> QED BY <2>1, <3>0, AlongAxis
    <3> HIDE DEF d
    <3>3. ASSUME NEW p \in Places, Within(p, d) PROVE Within(back[p], c)
      BY <1>1, <1>3, <2>2, <2>3, <3>2, <3>3 DEF Within
    <3> QED BY <2>1, <3>1, <3>2, <3>3
  <2>4. CASE c.at[axis] < index /\ index < c.at[axis] + c.span[axis]
    <3> DEFINE n == c.span[axis] + count
               d == Resize(c, axis, n)
    <3>0. n \in Nat  BY <2>2
    <3>1. Shift(c) = d  BY <2>2, <2>4 DEF Resize
    <3>2. /\ d \in Cells(S) /\ d.at = c.at
          /\ \A a \in Axes : d.span[a] = IF a = axis THEN n ELSE c.span[a]
      <4> HIDE DEF n
      <4> QED BY <2>1, <3>0, AlongAxis
    <3> HIDE DEF d
    <3>3. ASSUME NEW p \in Places, Within(p, d) PROVE Within(back[p], c)
      BY <1>1, <1>3, <2>2, <2>4, <3>2, <3>3 DEF Within
    <3>4. \A a \in Axes : d.span[a] > 0  BY <2>1, <2>2, <3>2
    <3> QED BY <3>1, <3>2, <3>3, <3>4
  <2>5. CASE c.at[axis] < index /\ ~(index < c.at[axis] + c.span[axis])
    <3>1. Shift(c) = c  BY <2>2, <2>5
    <3>2. ASSUME NEW p \in Places, Within(p, c) PROVE Within(back[p], c)
      BY <1>1, <1>3, <2>2, <2>5, <3>2 DEF Within
    <3> QED BY <2>1, <3>1, <3>2
  <2> QED BY <2>2, <2>3, <2>4, <2>5
<1>6. ASSUME NEW p \in Places, OnGrid(back[p], t) PROVE \A a \in Axes : p[a] < size[a]
  BY <1>1, <1>2, <1>3, <1>6 DEF OnGrid
<1>7. moved \in [t.cells -> Cells(S)] /\ \A c \in t.cells : moved[c] = Shift(c)  BY <1>5
<1>8. {moved[c] : c \in t.cells} = {Shift(c) : c \in t.cells}  BY <1>7
<1> HIDE DEF moved, Shift
<1>9. \A a \in Axes : size[a] > 0
  <2>1. \A a \in Axes : t.size[a] \in Nat /\ t.size[a] > 0  BY <1>1, PlaceFacts DEF Fits
  <2> QED BY <1>1, <1>2, <2>1
<1>10. u \in Tables(S) /\ Fits(u)
  BY <1>2, <1>4, <1>5, <1>6, <1>7, <1>8, <1>9, MovedCellsFit
<1>11. InsertLines(t, axis, index, count) = Canonical(u)  BY DEF InsertLines, size, Shift
<1> HIDE DEF u
<1> QED BY <1>10, <1>11, CanonicalTiles

(***************************************************************************)
(* DeleteLine: so does one that loses any line but its last, also through  *)
(* merged cells, which keep a place (delete_table_row and _column).        *)
(***************************************************************************)
THEOREM DeletedLineTiles ==
    ASSUME NEW S, 0 \in S, NEW t \in Tables(S), Tiled(t), NEW axis \in Axes,
           NEW index \in Nat, CanDeleteLine(t, axis, index)
    PROVE  DeleteLine(t, axis, index) \in Tables(S) /\ Tiled(DeleteLine(t, axis, index))
<1> DEFINE Keeps(c) == ~(c.at[axis] = index /\ c.span[axis] = 1)
           Shift(c) == IF c.at[axis] > index THEN [c EXCEPT !.at[axis] = @ - 1]
                       ELSE IF c.at[axis] + c.span[axis] > index
                            THEN [c EXCEPT !.span[axis] = @ - 1]
                       ELSE c
           kept  == {c \in t.cells : Keeps(c)}
           size  == [t.size EXCEPT ![axis] = @ - 1]
           moved == [c \in kept |-> Shift(c)]
           back  == [p \in Places |->
                       [p EXCEPT ![axis] = IF p[axis] < index THEN p[axis] ELSE p[axis] + 1]]
           u == [size |-> size, cells |-> {Shift(c) : c \in kept}]
<1>1. /\ t.size \in Places /\ t.cells \subseteq Cells(S) /\ Fits(t)
      /\ t.size[axis] > 1 /\ index < t.size[axis] /\ t.size[axis] \in Nat
  BY GridPlaces, TiledFits, PlaceFacts DEF CanDeleteLine
<1>2. /\ size \in Places
      /\ \A a \in Axes : size[a] = IF a = axis THEN t.size[axis] - 1 ELSE t.size[a]
  <2> DEFINE n == t.size[axis] - 1
  <2>1. n \in Nat  BY <1>1
  <2> HIDE DEF n
  <2>2. /\ [t.size EXCEPT ![axis] = n] \in Places
        /\ \A a \in Axes : [t.size EXCEPT ![axis] = n][a] = IF a = axis THEN n ELSE t.size[a]
    BY <1>1, <2>1, PlaceUpdate
  <2> QED BY <2>2 DEF n
<1>3. ASSUME NEW p \in Places
      PROVE  /\ back[p] \in Places
             /\ \A a \in Axes : p[a] \in Nat /\ (a # axis => back[p][a] = p[a])
             /\ back[p][axis] = IF p[axis] < index THEN p[axis] ELSE p[axis] + 1
  <2> DEFINE n == IF p[axis] < index THEN p[axis] ELSE p[axis] + 1
  <2>1. \A a \in Axes : p[a] \in Nat  BY PlaceFacts
  <2>2. n \in Nat  BY <2>1
  <2>3. back[p] = [p EXCEPT ![axis] = n]  OBVIOUS
  <2> HIDE DEF back
  <2>4. back[p] \in Places /\ \A a \in Axes : back[p][a] = IF a = axis THEN n ELSE p[a]
    <3> HIDE DEF n
    <3> QED BY <2>2, <2>3, PlaceUpdate
  <2> QED BY <2>1, <2>4
<1>4. back \in [Places -> Places]  BY <1>3
<1> HIDE DEF back, size
<1>5. ASSUME NEW c \in kept
      PROVE  /\ Shift(c) \in Cells(S)
             /\ \A a \in Axes : Shift(c).span[a] > 0
             /\ \A p \in Places : Within(p, Shift(c)) => Within(back[p], c)
  <2>1. /\ c \in Cells(S) /\ ~(c.at[axis] = index /\ c.span[axis] = 1)
        /\ \A a \in Axes : c.span[a] > 0
    BY <1>1 DEF Fits
  <2>2. \A a \in Axes : c.at[a] \in Nat /\ c.span[a] \in Nat  BY <2>1, AlongAxis
  <2>3. CASE c.at[axis] > index
    <3> DEFINE n == c.at[axis] - 1
               d == MoveTo(c, axis, n)
    <3>0. n \in Nat  BY <2>2, <2>3
    <3>1. Shift(c) = d  BY <2>3 DEF MoveTo
    <3>2. /\ d \in Cells(S) /\ d.span = c.span
          /\ \A a \in Axes : d.at[a] = IF a = axis THEN n ELSE c.at[a]
      <4> HIDE DEF n
      <4> QED BY <2>1, <3>0, AlongAxis
    <3> HIDE DEF d
    <3>3. ASSUME NEW p \in Places, Within(p, d) PROVE Within(back[p], c)
      BY <1>1, <1>3, <2>2, <2>3, <3>2, <3>3 DEF Within
    <3> QED BY <2>1, <3>1, <3>2, <3>3
  <2>4. CASE c.at[axis] <= index /\ c.at[axis] + c.span[axis] > index
    <3> DEFINE n == c.span[axis] - 1
               d == Resize(c, axis, n)
    <3>0. n \in Nat /\ n > 0  BY <2>1, <2>2, <2>4
    <3>1. Shift(c) = d  BY <2>2, <2>4 DEF Resize
    <3>2. /\ d \in Cells(S) /\ d.at = c.at
          /\ \A a \in Axes : d.span[a] = IF a = axis THEN n ELSE c.span[a]
      <4> HIDE DEF n
      <4> QED BY <2>1, <3>0, AlongAxis
    <3> HIDE DEF d
    <3>3. ASSUME NEW p \in Places, Within(p, d) PROVE Within(back[p], c)
      BY <1>1, <1>3, <2>2, <2>4, <3>2, <3>3 DEF Within
    <3>4. \A a \in Axes : d.span[a] > 0  BY <2>1, <3>0, <3>2
    <3> QED BY <3>1, <3>2, <3>3, <3>4
  <2>5. CASE c.at[axis] <= index /\ ~(c.at[axis] + c.span[axis] > index)
    <3>1. Shift(c) = c  BY <2>2, <2>5
    <3>2. ASSUME NEW p \in Places, Within(p, c) PROVE Within(back[p], c)
      BY <1>1, <1>3, <2>2, <2>5, <3>2 DEF Within
    <3> QED BY <2>1, <3>1, <3>2
  <2> QED BY <2>2, <2>3, <2>4, <2>5
<1>6. ASSUME NEW p \in Places, OnGrid(back[p], t) PROVE \A a \in Axes : p[a] < size[a]
  BY <1>1, <1>2, <1>3, <1>6 DEF OnGrid
<1>7. moved \in [kept -> Cells(S)] /\ \A c \in kept : moved[c] = Shift(c)  BY <1>5
<1>8. {moved[c] : c \in kept} = {Shift(c) : c \in kept}  BY <1>7
<1>11. DeleteLine(t, axis, index) = Canonical(u)  BY DEF DeleteLine, size
<1> HIDE DEF moved, Shift
<1>9. \A a \in Axes : size[a] > 0
  <2>1. \A a \in Axes : t.size[a] \in Nat /\ t.size[a] > 0  BY <1>1, PlaceFacts DEF Fits
  <2> QED BY <1>1, <1>2, <2>1
<1>10. u \in Tables(S) /\ Fits(u)
  <2>1. kept \in SUBSET t.cells  OBVIOUS
  <2> HIDE DEF kept
  <2> QED BY <1>2, <1>4, <1>5, <1>6, <1>7, <1>8, <1>9, <2>1, MovedCellsFit
<1> HIDE DEF u
<1> QED BY <1>10, <1>11, CanonicalTiles

(***************************************************************************)
(* Merge: one cell over the selected places leaves the others alone,       *)
(* because a cell that meets the selection lies in it (merge_table_cells). *)
(***************************************************************************)
THEOREM MergedCellsTile ==
    ASSUME NEW S, 0 \in S, NEW t \in Tables(S), Tiled(t),
           NEW first \in Places, NEW last \in Places, CanMerge(t, first, last)
    PROVE  Merge(t, first, last) \in Tables(S) /\ Tiled(Merge(t, first, last))
<1> DEFINE anchor == CHOOSE c \in Anchored(t, first) : TRUE
           span   == At(last.row - first.row + 1, last.column - first.column + 1)
           whole  == Cell(first, span, anchor.content, anchor.style)
           others == {c \in t.cells : ~Selected(c, first, last)}
           u      == [t EXCEPT !.cells = others \cup {whole}]
<1>1. t.size \in Places /\ t.cells \subseteq Cells(S) /\ Fits(t)  BY GridPlaces, TiledFits
<1>2. \A a \in Axes : /\ first[a] \in Nat /\ last[a] \in Nat /\ t.size[a] \in Nat
                      /\ first[a] <= last[a] /\ last[a] < t.size[a]
  BY <1>1, PlaceFacts DEF CanMerge
<1>3. span \in Places /\ \A a \in Axes : span[a] = last[a] - first[a] + 1
  <2>1. /\ first["row"] = first.row /\ first["column"] = first.column
        /\ last["row"] = last.row /\ last["column"] = last.column
    BY PlaceFacts
  <2>2. last.row - first.row + 1 \in Nat /\ last.column - first.column + 1 \in Nat
    BY <1>2, <2>1 DEF Axes
  <2>3. /\ span \in Places /\ span.row = last.row - first.row + 1
        /\ span.column = last.column - first.column + 1
    BY <2>2, AtFacts
  <2> HIDE DEF span
  <2> QED BY <2>1, <2>3, PlaceFacts DEF Axes
<1>4. anchor \in Cells(S)
  <2>1. Anchored(t, first) # {}  BY DEF CanMerge
  <2>2. anchor \in Anchored(t, first)  BY <2>1
  <2> QED BY <1>1, <2>2 DEF Anchored
<1> HIDE DEF anchor, span
<1>5. whole \in Cells(S) /\ whole.at = first /\ whole.span = span
  <2>1. anchor.content \in S /\ anchor.style \in S  BY <1>4 DEF Cells
  <2> QED BY <1>3, <2>1, NewCell
<1> HIDE DEF whole
<1>6. \A p \in Places : Within(p, whole) <=> \A a \in Axes : first[a] <= p[a] /\ p[a] <= last[a]
  <2>1. ASSUME NEW p \in Places
        PROVE  Within(p, whole) <=> \A a \in Axes : first[a] <= p[a] /\ p[a] <= last[a]
    <3>1. \A a \in Axes : p[a] \in Nat  BY PlaceFacts
    <3> QED BY <1>2, <1>3, <1>5, <3>1 DEF Within
  <2> QED BY <2>1
<1>7. ASSUME NEW c \in others, NEW p \in Places, Within(p, c) PROVE ~Within(p, whole)
  <2>1. c \in t.cells /\ ~Overlaps(c, first, last)  BY DEF CanMerge
  <2>2. \A a \in Axes : p[a] \in Nat /\ c.at[a] \in Nat /\ c.span[a] \in Nat
    <3>1. c \in Cells(S)  BY <1>1, <2>1
    <3> QED BY <3>1, PlaceFacts DEF Cells
  <2> QED BY <1>2, <1>6, <1>7, <2>1, <2>2 DEF Overlaps, Within
<1>8. u.size = t.size /\ u.cells = others \cup {whole} /\ u \in Tables(S)
  BY <1>1, <1>5 DEF Tables
<1>13. Merge(t, first, last) = Canonical(u)  BY DEF Merge, anchor, span, whole
<1> HIDE DEF u
<1>9. ASSUME NEW c \in u.cells, NEW d \in u.cells, NEW p \in Places, Within(p, c), Within(p, d)
      PROVE  c = d
  <2>1. CASE c \in others /\ d \in others  BY <1>1, <1>9, <2>1 DEF Fits
  <2>2. CASE c = whole \/ d = whole  BY <1>7, <1>8, <1>9, <2>2
  <2> QED BY <1>8, <2>1, <2>2
<1>10. ASSUME NEW c \in u.cells, NEW p \in Places, Within(p, c) PROVE OnGrid(p, u)
  <2>1. OnGrid(p, u) <=> OnGrid(p, t)  BY <1>8 DEF OnGrid
  <2>2. CASE c \in others  BY <1>1, <1>10, <2>1, <2>2 DEF Fits
  <2>3. CASE c = whole
    <3>1. \A a \in Axes : p[a] \in Nat  BY PlaceFacts
    <3> QED BY <1>2, <1>6, <1>10, <2>1, <2>3, <3>1 DEF OnGrid
  <2> QED BY <1>8, <2>2, <2>3
<1>11. \A c \in u.cells, a \in Axes : c.span[a] > 0
  <2>1. \A a \in Axes : whole.span[a] > 0  BY <1>2, <1>3, <1>5
  <2> QED BY <1>1, <1>8, <2>1 DEF Fits
<1>12. Fits(u)  BY <1>1, <1>8, <1>9, <1>10, <1>11 DEF Fits
<1> QED BY <1>8, <1>12, <1>13, CanonicalTiles

(***************************************************************************)
(* Split: the parts of a cell take exactly its places (split_table_cell).  *)
(***************************************************************************)
THEOREM SplitCellTiles ==
    ASSUME NEW S, 0 \in S, NEW t \in Tables(S), Tiled(t), NEW at \in Places, CanSplit(t, at)
    PROVE  Split(t, at) \in Tables(S) /\ Tiled(Split(t, at))
<1> DEFINE cell   == CHOOSE c \in Anchored(t, at) : TRUE
           Part(p) == Cell(p, At(1, 1), IF p = at THEN cell.content ELSE 0, cell.style)
           parts  == {Part(p) : p \in Covers(cell)}
           others == t.cells \ {cell}
           u      == [t EXCEPT !.cells = others \cup parts]
<1>1. t.size \in Places /\ t.cells \subseteq Cells(S) /\ Fits(t)  BY GridPlaces, TiledFits
<1>2. cell \in t.cells /\ cell \in Cells(S)
  <2>1. Anchored(t, at) # {}  BY DEF CanSplit
  <2>2. cell \in Anchored(t, at)  BY <2>1
  <2> QED BY <1>1, <2>2 DEF Anchored
<1>13. Split(t, at) = Canonical(u)  BY DEF Split
<1> HIDE DEF cell
<1>3. Covers(cell) \subseteq Places /\ \A p \in Places : p \in Covers(cell) <=> Within(p, cell)
  BY <1>2, CoversWithin
<1>4. ASSUME NEW p \in Covers(cell)
      PROVE  /\ Part(p) \in Cells(S) /\ \A a \in Axes : Part(p).span[a] > 0
             /\ \A q \in Places : Within(q, Part(p)) <=> q = p
  <2> DEFINE v == IF p = at THEN cell.content ELSE 0
  <2>1. v \in S /\ cell.style \in S  BY <1>2 DEF Cells
  <2>2. p \in Places  BY <1>3
  <2>3. Part(p) = Cell(p, At(1, 1), v, cell.style)  OBVIOUS
  <2> HIDE DEF v, Part
  <2>4. /\ Part(p) \in Cells(S) /\ \A a \in Axes : Part(p).span[a] = 1
        /\ \A q \in Places : Within(q, Part(p)) <=> q = p
    BY <2>1, <2>2, <2>3, SingleCell
  <2> QED BY <2>4
<1> HIDE DEF Part
<1>5. \A c \in parts : \E p \in Covers(cell) : c = Part(p)  OBVIOUS
<1>6. parts \subseteq Cells(S) /\ \A c \in parts, a \in Axes : c.span[a] > 0  BY <1>4, <1>5
<1>7. \A c \in parts, p \in Places : Within(p, c) => c = Part(p) /\ Within(p, cell)
  <2>1. ASSUME NEW c \in parts, NEW p \in Places, Within(p, c)
        PROVE  c = Part(p) /\ Within(p, cell)
    <3>1. PICK q \in Covers(cell) : c = Part(q)  BY <1>5
    <3>2. p = q  BY <1>4, <2>1, <3>1
    <3> QED BY <1>3, <3>1, <3>2
  <2> QED BY <2>1
<1> HIDE DEF parts
<1>8. u.size = t.size /\ u.cells = others \cup parts /\ u \in Tables(S)
  BY <1>1, <1>6 DEF Tables
<1> HIDE DEF u
<1>9. ASSUME NEW c \in u.cells, NEW d \in u.cells, NEW p \in Places, Within(p, c), Within(p, d)
      PROVE  c = d
  <2>1. CASE c \in others /\ d \in others  BY <1>1, <1>9, <2>1 DEF Fits
  <2>2. CASE c \in parts /\ d \in parts  BY <1>7, <1>9, <2>2
  <2>3. ASSUME NEW x \in others, NEW y \in parts, Within(p, x), Within(p, y) PROVE FALSE
    <3>1. Within(p, cell)  BY <1>7, <2>3
    <3>2. x = cell  BY <1>1, <1>2, <2>3, <3>1 DEF Fits
    <3> QED BY <3>2
  <2> QED BY <1>8, <1>9, <2>1, <2>2, <2>3
<1>10. ASSUME NEW c \in u.cells, NEW p \in Places, Within(p, c) PROVE OnGrid(p, u)
  <2>1. OnGrid(p, u) <=> OnGrid(p, t)  BY <1>8 DEF OnGrid
  <2>2. CASE c \in others  BY <1>1, <1>10, <2>1, <2>2 DEF Fits
  <2>3. CASE c \in parts  BY <1>1, <1>2, <1>7, <1>10, <2>1, <2>3 DEF Fits
  <2> QED BY <1>8, <2>2, <2>3
<1>11. \A c \in u.cells, a \in Axes : c.span[a] > 0  BY <1>1, <1>6, <1>8 DEF Fits
<1>12. Fits(u)  BY <1>1, <1>8, <1>9, <1>10, <1>11 DEF Fits
<1> QED BY <1>8, <1>12, <1>13, CanonicalTiles

(***************************************************************************)
(* SetCell: content and style leave the places alone.                      *)
(***************************************************************************)
THEOREM ChangedCellTiles ==
    ASSUME NEW S, NEW t \in Tables(S), Tiled(t), NEW at \in Places,
           NEW field \in {"content", "style"}, NEW value \in S
    PROVE  SetCell(t, at, field, value) \in Tables(S) /\ Tiled(SetCell(t, at, field, value))
<1> DEFINE New(c) == IF c.at = at THEN [c EXCEPT ![field] = value] ELSE c
           u == SetCell(t, at, field, value)
<1>1. t.size \in Places /\ t.cells \subseteq Cells(S) /\ Fits(t)  BY GridPlaces, TiledFits
<1>2. u = [t EXCEPT !.cells = {New(c) : c \in t.cells}]  BY DEF SetCell
<1>3. \A c \in Cells(S) : New(c) \in Cells(S) /\ New(c).at = c.at /\ New(c).span = c.span
  BY DEF Cells
<1> HIDE DEF u, New
<1>4. u.size = t.size /\ u.cells = {New(c) : c \in t.cells} /\ u \in Tables(S)
  BY <1>1, <1>2, <1>3 DEF Tables
<1>5. /\ \A x \in u.cells : \E c \in t.cells : x = New(c)
      /\ \A c \in t.cells : New(c) \in u.cells
      /\ \A c \in t.cells, p \in Places : Within(p, New(c)) <=> Within(p, c)
  BY <1>1, <1>3, <1>4 DEF Within
<1>6. \A p \in Places : OnGrid(p, u) <=> OnGrid(p, t)  BY <1>4 DEF OnGrid
<1>7. ASSUME NEW x \in u.cells, NEW y \in u.cells, NEW p \in Places, Within(p, x), Within(p, y)
      PROVE  x = y
  BY <1>1, <1>5, <1>7 DEF Fits
<1>8. ASSUME NEW x \in u.cells, NEW p \in Places, Within(p, x) PROVE OnGrid(p, u)
  BY <1>1, <1>5, <1>6, <1>8 DEF Fits
<1>9. \A x \in u.cells, a \in Axes : x.span[a] > 0
  BY <1>1, <1>3, <1>5 DEF Fits
<1>10. Fits(u)  BY <1>1, <1>4, <1>7, <1>8, <1>9 DEF Fits
<1>11. \A p \in Places : OnGrid(p, u) => \E x \in u.cells : Within(p, x)
  BY <1>5, <1>6, TiledFits
<1> QED BY <1>4, <1>10, <1>11, TiledFits DEF u
================================================================================
