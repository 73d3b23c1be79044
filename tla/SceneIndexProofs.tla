--------------------------- MODULE SceneIndexProofs ---------------------------
(***************************************************************************)
(* The queries of a scene's index agree with the scene, for every set of   *)
(* elements and areas, every cell size and every limit on cells: SceneInv  *)
(* is inductive.  What it says of the index (Sound, Matches) is what each  *)
(* patch keeps, so that a delta may come in any order; the folds of the    *)
(* model are unrolled one step at a time by induction over sets.           *)
(***************************************************************************)
EXTENDS SceneIndex, FiniteSetTheorems, SequenceTheorems, WellFoundedInduction, TLAPS

--------------------------------------------------------------------------------
(* Induction over the naturals, with a set for the induction hypothesis.         *)

\* A set of naturals with 0 and every successor is all of them.
LEMMA SetInduction ==
  ASSUME NEW S \in SUBSET Nat, 0 \in S, \A n \in S : n + 1 \in S
  PROVE  S = Nat
  <1> DEFINE R == {ss \in Nat \X Nat : ss[1] < ss[2]}
             T == Nat \ S
  <1>1. IsWellFoundedOn(R, Nat)
    BY NatLessThanWellFounded DEF OpToRel
  <1>2. ASSUME T # {} PROVE FALSE
    <2>1. T \subseteq Nat
      OBVIOUS
    <2> HIDE DEF R, T
    <2>2. PICK m \in T : \A k \in T : <<k, m>> \notin R
      BY <1>1, <1>2, <2>1, WFMin
    <2>3. m \in Nat /\ m # 0 /\ m \notin S
      BY <2>2 DEF T
    <2>4. m - 1 \in Nat /\ m - 1 \notin S
      BY <2>3
    <2>5. <<m - 1, m>> \in R /\ m - 1 \in T
      BY <2>3, <2>4 DEF R, T
    <2> QED
      BY <2>2, <2>5
  <1> QED
    BY <1>2

--------------------------------------------------------------------------------
(* FoldLeft is a recursion over the subsets of a sequence's domain, each        *)
(* without its largest element.  op is the function of a step.                  *)

Largest(s)   == CHOOSE x \in s : \A y \in s : x >= y

\* The recursion with the step as a function.
Folds(g, op, base, seq, n) ==
    g = [s \in SUBSET (1 .. n) |->
            IF s = {} THEN base ELSE op[<<g[s \ {Largest(s)}], seq[Largest(s)]>>]]

\* A nonempty set of numbers up to n has a largest one.
LEMMA LargestExists ==
  ASSUME NEW n \in Nat
  PROVE  \A s \in SUBSET (1 .. n) : s # {} => Largest(s) \in s /\ \A y \in s : y <= Largest(s)
  <1> DEFINE P == {k \in Nat : \A s \in SUBSET (1 .. k) : s # {} =>
                                  \E x \in s : \A y \in s : x >= y}
  <1>1. 0 \in P
    <2>1. \A s \in SUBSET (1 .. 0) : s = {}
      OBVIOUS
    <2> QED
      BY <2>1
  <1>2. ASSUME NEW k \in P PROVE k + 1 \in P
    <2>1. ASSUME NEW s \in SUBSET (1 .. k + 1), s # {}
          PROVE  \E x \in s : \A y \in s : x >= y
      <3>1. CASE k + 1 \in s
        BY <3>1
      <3>2. CASE k + 1 \notin s
        <4>1. s \in SUBSET (1 .. k)
          BY <3>2
        <4> QED
          BY <4>1, <2>1
      <3> QED
        BY <3>1, <3>2
    <2> QED
      BY <2>1
  <1>3. P = Nat
    <2> HIDE DEF P
    <2>1. P \in SUBSET Nat
      BY DEF P
    <2> QED
      BY <1>1, <1>2, <2>1, SetInduction
  <1>4. ASSUME NEW s \in SUBSET (1 .. n), s # {}
        PROVE  Largest(s) \in s /\ \A y \in s : y <= Largest(s)
    <2>1. \E x \in s : \A y \in s : x >= y
      BY <1>3, <1>4
    <2>2. Largest(s) \in s /\ \A y \in s : Largest(s) >= y
      BY <2>1 DEF Largest
    <2>3. \A y \in s : y \in Int
      OBVIOUS
    <2> QED
      BY <2>2, <2>3
  <1> QED
    BY <1>4

\* The numbers to k + 1 without the largest are the numbers to k.
LEMMA OneMore ==
  ASSUME NEW k \in Nat
  PROVE  /\ (1 .. k + 1) \ {k + 1} = 1 .. k
         /\ k + 1 \in 1 .. k + 1
         /\ \A s \in SUBSET (1 .. k + 1) :
               /\ s \ {k + 1} \in SUBSET (1 .. k)
               /\ s \notin SUBSET (1 .. k) => k + 1 \in s
         /\ \A n \in Nat : k + 1 <= n => 1 .. k + 1 \in SUBSET (1 .. n) /\ k + 1 \in 1 .. n
  <1>1. (1 .. k + 1) \ {k + 1} = 1 .. k /\ k + 1 \in 1 .. k + 1
    OBVIOUS
  <1>2. ASSUME NEW s \in SUBSET (1 .. k + 1)
        PROVE  /\ s \ {k + 1} \in SUBSET (1 .. k)
               /\ s \notin SUBSET (1 .. k) => k + 1 \in s
    BY <1>1, Zenon
  <1>3. ASSUME NEW n \in Nat, k + 1 <= n
        PROVE  1 .. k + 1 \in SUBSET (1 .. n) /\ k + 1 \in 1 .. n
    <2>1. \A x \in 1 .. k + 1 : x \in 1 .. n
      BY <1>3
    <2> QED
      BY <1>1, <2>1, Zenon
  <1> QED
    BY <1>1, <1>2, <1>3, Zenon

\* Such a recursion exists, and its values are of the step's type.
LEMMA FoldExists ==
  ASSUME NEW A, NEW B, NEW op \in [A \X B -> A], NEW base \in A,
         NEW n \in Nat, NEW seq \in [1 .. n -> B]
  PROVE  \E g \in [SUBSET (1 .. n) -> A] : Folds(g, op, base, seq, n)
  <1> DEFINE P == {k \in Nat : k <= n =>
                      \E g \in [SUBSET (1 .. k) -> A] : Folds(g, op, base, seq, k)}
  <1>1. 0 \in P
    <2> DEFINE g == [s \in SUBSET (1 .. 0) |-> base]
    <2>1. \A s \in SUBSET (1 .. 0) : s = {}
      OBVIOUS
    <2>2. Folds(g, op, base, seq, 0)
      BY <2>1 DEF Folds
    <2>3. g \in [SUBSET (1 .. 0) -> A]
      OBVIOUS
    <2> QED
      BY <2>2, <2>3
  <1>2. ASSUME NEW k \in P PROVE k + 1 \in P
    <2> HIDE DEF P
    <2>0. k \in Nat /\ (k <= n => \E g \in [SUBSET (1 .. k) -> A] : Folds(g, op, base, seq, k))
      BY Zenon DEF P
    <2> SUFFICES ASSUME k + 1 <= n
                 PROVE  \E g \in [SUBSET (1 .. k + 1) -> A] : Folds(g, op, base, seq, k + 1)
      <3>1. k + 1 \in Nat
        BY <2>0
      <3> QED
        BY <3>1, Zenon DEF P
    <2>a. k \in Nat /\ k <= n
      BY <2>0
    <2>1. PICK g \in [SUBSET (1 .. k) -> A] : Folds(g, op, base, seq, k)
      BY <2>0, <2>a, Zenon
    <2> DEFINE h == [s \in SUBSET (1 .. k + 1) |->
                        IF s \in SUBSET (1 .. k) THEN g[s]
                        ELSE op[<<g[s \ {k + 1}], seq[k + 1]>>]]
    <2>2. ASSUME NEW s \in SUBSET (1 .. k + 1)
          PROVE  h[s] \in A
      <3>1. CASE s \in SUBSET (1 .. k)
        BY <3>1
      <3>2. CASE s \notin SUBSET (1 .. k)
        <4>1. s \ {k + 1} \in SUBSET (1 .. k) /\ k + 1 \in 1 .. n
          BY <2>a, OneMore
        <4>2. g[s \ {k + 1}] \in A /\ seq[k + 1] \in B
          BY <4>1
        <4> QED
          BY <3>2, <4>2
      <3> QED
        BY <3>1, <3>2
    <2>3. ASSUME NEW s \in SUBSET (1 .. k + 1)
          PROVE  h[s] = IF s = {} THEN base ELSE op[<<h[s \ {Largest(s)}], seq[Largest(s)]>>]
      <3>1. CASE s \in SUBSET (1 .. k)
        <4>1. h[s] = g[s] /\ h[s \ {Largest(s)}] = g[s \ {Largest(s)}]
          BY <3>1
        <4>2. g[s] = IF s = {} THEN base ELSE op[<<g[s \ {Largest(s)}], seq[Largest(s)]>>]
          BY <2>1, <3>1 DEF Folds
        <4> QED
          BY <4>1, <4>2
      <3>2. CASE s \notin SUBSET (1 .. k)
        <4>1. k + 1 \in s /\ s # {}
          BY <2>a, <3>2, OneMore
        <4>2. Largest(s) \in s /\ \A y \in s : y <= Largest(s)
          <5>1. k + 1 \in Nat
            BY <2>a
          <5> HIDE DEF h
          <5> QED
            BY <4>1, <5>1, LargestExists
        <4>3. Largest(s) = k + 1
          <5>1. Largest(s) \in 1 .. k + 1 /\ k + 1 <= Largest(s)
            BY <4>1, <4>2
          <5> QED
            BY <5>1, <2>a
        <4>4. s \ {Largest(s)} \in SUBSET (1 .. k) /\ s \ {Largest(s)} = s \ {k + 1}
          BY <2>a, <4>3, OneMore
        <4>5. h[s \ {Largest(s)}] = g[s \ {k + 1}]
          BY <4>4
        <4>6. h[s] = op[<<g[s \ {k + 1}], seq[k + 1]>>]
          BY <3>2
        <4> QED
          BY <4>1, <4>3, <4>5, <4>6
      <3> QED
        BY <3>1, <3>2
    <2>4. h \in [SUBSET (1 .. k + 1) -> A]
      BY <2>2
    <2>5. Folds(h, op, base, seq, k + 1)
      <3>1. h = [s \in SUBSET (1 .. k + 1) |-> h[s]]
        OBVIOUS
      <3> HIDE DEF h
      <3> QED
        BY <2>3, <3>1 DEF Folds
    <2> HIDE DEF h
    <2> QED
      BY <2>4, <2>5
  <1>3. P = Nat
    <2> HIDE DEF P
    <2>1. P \in SUBSET Nat
      BY DEF P
    <2> QED
      BY <1>1, <1>2, <2>1, SetInduction
  <1> HIDE DEF P
  <1>4. n \in P
    BY <1>3
  <1> QED
    <2>1. n \in Nat /\ n <= n
      OBVIOUS
    <2> QED
      BY <1>4, <2>1, Zenon DEF P

\* The places up to k + 1 are k + 1 and the places up to k.
LEMMA LargestUpTo ==
  ASSUME NEW n \in Nat
  PROVE  \A k \in 0 .. n - 1 :
            /\ 1 .. k + 1 \in SUBSET (1 .. n) /\ 1 .. k + 1 # {}
            /\ Largest(1 .. k + 1) = k + 1
            /\ (1 .. k + 1) \ {k + 1} = 1 .. k
  <1> TAKE k \in 0 .. n - 1
  <1>1. k \in Nat /\ k + 1 <= n
    OBVIOUS
  <1>2. 1 .. k + 1 \in SUBSET (1 .. n) /\ 1 .. k + 1 # {} /\ k + 1 \in 1 .. k + 1
    BY <1>1, OneMore
  <1>3. /\ Largest(1 .. k + 1) \in 1 .. k + 1
        /\ \A y \in 1 .. k + 1 : y <= Largest(1 .. k + 1)
    BY <1>2, LargestExists
  <1>4. Largest(1 .. k + 1) = k + 1
    BY <1>1, <1>2, <1>3
  <1> QED
    BY <1>1, <1>2, <1>4, OneMore

--------------------------------------------------------------------------------
(* One change of the index.                                                     *)

Rects    == [x : Int, y : Int, width : Nat, height : Nat]
Maps(S)  == UNION {[ids -> S] : ids \in SUBSET Elements}
Indexes  == [ok : BOOLEAN, cells : SUBSET ((Int \X Int) \X Elements),
             bounds : Maps(Areas), order : Maps(Nat)]
ChangeRecords == [id : Elements, at : Nat, area : Areas]

\* The cells hold the entries of the indexed rectangles, each of which fits and has a
\* place.
Sound(i) ==
    /\ i.cells = {e \in (Int \X Int) \X Elements :
                    e[2] \in DOMAIN i.bounds /\ e[1] \in CellsForRect(i.bounds[e[2]])}
    /\ \A id \in DOMAIN i.bounds : Fits(i.bounds[id])
    /\ DOMAIN i.bounds \subseteq DOMAIN i.order

\* No place is left of an element that a refused change took out.
Closed(i) == DOMAIN i.order = DOMAIN i.bounds

\* What a change that is not refused says of its element.
Holds(i, c) ==
    /\ c.at = 0 => c.id \notin DOMAIN i.bounds
    /\ c.at # 0 => c.id \in DOMAIN i.bounds /\ i.bounds[c.id] = c.area /\ i.order[c.id] = c.at

SameAt(i, j, id) ==
    /\ id \in DOMAIN i.bounds <=> id \in DOMAIN j.bounds
    /\ id \in DOMAIN i.bounds => i.bounds[id] = j.bounds[id] /\ i.order[id] = j.order[id]

\* A map to S is a function of ids with values in S.
LEMMA MapsAre ==
  ASSUME NEW S
  PROVE  \A f : f \in Maps(S) <=> /\ f = [x \in DOMAIN f |-> f[x]]
                                  /\ DOMAIN f \subseteq Elements
                                  /\ \A x \in DOMAIN f : f[x] \in S
  BY DEF Maps

\* Putting a value in a map leaves its other values.
LEMMA WithArea ==
  ASSUME NEW f \in Maps(Areas), NEW id \in Elements, NEW v \in Areas
  PROVE  /\ With(f, id, v) \in Maps(Areas)
         /\ DOMAIN With(f, id, v) = DOMAIN f \cup {id}
         /\ With(f, id, v)[id] = v
         /\ \A x \in DOMAIN f : x # id => With(f, id, v)[x] = f[x]
  <1>1. DOMAIN f \subseteq Elements /\ \A x \in DOMAIN f : f[x] \in Areas
    BY MapsAre
  <1> QED
    BY <1>1, MapsAre DEF With

LEMMA WithPlace ==
  ASSUME NEW f \in Maps(Nat), NEW id \in Elements, NEW v \in Nat
  PROVE  /\ With(f, id, v) \in Maps(Nat)
         /\ DOMAIN With(f, id, v) = DOMAIN f \cup {id}
         /\ With(f, id, v)[id] = v
         /\ \A x \in DOMAIN f : x # id => With(f, id, v)[x] = f[x]
  <1>1. DOMAIN f \subseteq Elements /\ \A x \in DOMAIN f : f[x] \in Nat
    BY MapsAre
  <1> QED
    BY <1>1, MapsAre DEF With

\* Taking a value out of a map leaves its other values.
LEMMA WithoutIs ==
  ASSUME NEW S, NEW f \in Maps(S), NEW id
  PROVE  /\ Without(f, id) \in Maps(S)
         /\ DOMAIN Without(f, id) = DOMAIN f \ {id}
         /\ \A x \in DOMAIN f : x # id => Without(f, id)[x] = f[x]
  <1>1. DOMAIN f \subseteq Elements /\ \A x \in DOMAIN f : f[x] \in S
    BY MapsAre
  <1> QED
    BY <1>1, MapsAre DEF Without

LEMMA WithoutPlace ==
  ASSUME NEW f \in Maps(Nat), NEW id
  PROVE  /\ Without(f, id) \in Maps(Nat)
         /\ DOMAIN Without(f, id) = DOMAIN f \ {id}
         /\ \A x \in DOMAIN f : x # id => Without(f, id)[x] = f[x]
  <1>1. DOMAIN f \subseteq Elements /\ \A x \in DOMAIN f : f[x] \in Nat
    BY MapsAre
  <1> QED
    BY <1>1, MapsAre DEF Without

\* An element's entries pair the cells of its rectangle with its id.
LEMMA EntriesAre ==
  ASSUME NEW id, NEW r
  PROVE  \A e : e \in Entries(id, r) <=> e = <<e[1], e[2]>> /\ e[2] = id /\ e[1] \in CellsForRect(r)
  BY DEF Entries

\* Cells are pairs of integers.
LEMMA CellsAreInt ==
  ASSUME IndexConstants, NEW r \in Rects
  PROVE  CellsForRect(r) \subseteq Int \X Int
  <1>1. CellSize \in Int /\ CellSize > 0
    BY DEF IndexConstants
  <1> QED
    BY <1>1 DEF CellsForRect, CellCoord, Rects, Right, Bottom

LEMMA AreasAreRects == IndexConstants => Areas \subseteq Rects
  BY DEF IndexConstants, Rects

\* Taking an element out leaves the others as they were.
LEMMA TakenIs ==
  ASSUME NEW i \in Indexes, Sound(i), NEW id \in Elements
  PROVE  /\ Taken(i, id) \in Indexes
         /\ Taken(i, id).ok = i.ok /\ Taken(i, id).order = i.order
         /\ DOMAIN Taken(i, id).bounds = DOMAIN i.bounds \ {id}
         /\ \A x \in DOMAIN i.bounds : x # id => Taken(i, id).bounds[x] = i.bounds[x]
         /\ Taken(i, id).cells = {e \in i.cells : e[2] # id}
  <1>0. i.bounds \in Maps(Areas)
    BY DEF Indexes
  <1>1. CASE id \notin DOMAIN i.bounds
    <2>1. Taken(i, id) = i
      BY <1>1 DEF Taken
    <2>2. \A e \in i.cells : e[2] # id
      BY <1>1 DEF Sound
    <2> QED
      BY <1>1, <2>1, <2>2
  <1>2. CASE id \in DOMAIN i.bounds
    <2> DEFINE gone == Entries(id, i.bounds[id])
               w == Without(i.bounds, id)
    <2>1. Taken(i, id) = [i EXCEPT !.cells = i.cells \ gone, !.bounds = w]
      BY <1>2 DEF Taken
    <2>2. /\ w \in Maps(Areas) /\ DOMAIN w = DOMAIN i.bounds \ {id}
          /\ \A x \in DOMAIN i.bounds : x # id => w[x] = i.bounds[x]
      BY <1>0, WithoutIs
    <2>3. i.cells \ gone = {e \in i.cells : e[2] # id}
      <3>1. ASSUME NEW e \in i.cells PROVE e \in gone <=> e[2] = id
        <4>1. /\ e \in (Int \X Int) \X Elements /\ e = <<e[1], e[2]>>
              /\ e[1] \in CellsForRect(i.bounds[e[2]])
          BY <3>1 DEF Sound
        <4> QED
          BY <4>1, EntriesAre
      <3> HIDE DEF gone
      <3> QED
        BY <3>1
    <2> HIDE DEF gone, w
    <2>4. i.cells \in SUBSET ((Int \X Int) \X Elements)
      BY DEF Indexes
    <2>5. Taken(i, id) \in Indexes
      BY <2>1, <2>2, <2>4 DEF Indexes
    <2>6. Taken(i, id).cells = i.cells \ gone /\ Taken(i, id).bounds = w
          /\ Taken(i, id).ok = i.ok /\ Taken(i, id).order = i.order
      BY <2>1 DEF Indexes
    <2> QED
      BY <2>2, <2>3, <2>5, <2>6
  <1> QED
    BY <1>1, <1>2

\* Taking an element out leaves the cells of the others' rectangles.
LEMMA TakenSound ==
  ASSUME NEW i \in Indexes, Sound(i), NEW id \in Elements
  PROVE  Taken(i, id).cells =
            {e \in (Int \X Int) \X Elements :
                /\ e[2] \in DOMAIN Taken(i, id).bounds
                /\ e[1] \in CellsForRect(Taken(i, id).bounds[e[2]])}
  <1> DEFINE k == Taken(i, id)
  <1>1. /\ DOMAIN k.bounds = DOMAIN i.bounds \ {id}
        /\ \A x \in DOMAIN i.bounds : x # id => k.bounds[x] = i.bounds[x]
        /\ k.cells = {e \in i.cells : e[2] # id}
    BY TakenIs
  <1>2. i.cells = {e \in (Int \X Int) \X Elements :
                    e[2] \in DOMAIN i.bounds /\ e[1] \in CellsForRect(i.bounds[e[2]])}
    BY DEF Sound
  <1> HIDE DEF k
  <1>3. ASSUME NEW e \in (Int \X Int) \X Elements
        PROVE  e \in k.cells <=> e[2] \in DOMAIN k.bounds /\ e[1] \in CellsForRect(k.bounds[e[2]])
    BY <1>1, <1>2
  <1>4. k.cells \subseteq (Int \X Int) \X Elements
    BY <1>1, <1>2
  <1>5. k.cells = {e \in (Int \X Int) \X Elements :
                /\ e[2] \in DOMAIN k.bounds
                /\ e[1] \in CellsForRect(k.bounds[e[2]])}
    BY <1>3, <1>4
  <1> QED
    BY <1>5 DEF k

\* A change that is refused, or taken, leaves a sound index; if it is taken, the index
\* says of its element what the change does and of the others what it did.
LEMMA PatchedKeeps ==
  ASSUME IndexConstants, NEW i \in Indexes, Sound(i), NEW c \in ChangeRecords
  PROVE  /\ Patched(i, c) \in Indexes
         /\ Sound(Patched(i, c))
         /\ Patched(i, c).ok => i.ok /\ Holds(Patched(i, c), c)
         /\ i.ok /\ (c.at = 0 \/ Fits(c.area)) => Patched(i, c).ok
         /\ i.ok => \A id \in Elements : id # c.id => SameAt(Patched(i, c), i, id)
         /\ Closed(i) /\ Patched(i, c).ok => Closed(Patched(i, c))
  <1> DEFINE p == Patched(i, c)
             k == Taken(i, c.id)
  <1>0. /\ c.id \in Elements /\ c.at \in Nat /\ c.area \in Areas /\ c.area \in Rects
        /\ i.bounds \in Maps(Areas) /\ i.order \in Maps(Nat) /\ i.ok \in BOOLEAN
        /\ i.cells \in SUBSET ((Int \X Int) \X Elements)
    BY AreasAreRects DEF ChangeRecords, Indexes
  <1>1. /\ k \in Indexes
        /\ k.ok = i.ok /\ k.order = i.order
        /\ DOMAIN k.bounds = DOMAIN i.bounds \ {c.id}
        /\ \A x \in DOMAIN i.bounds : x # c.id => k.bounds[x] = i.bounds[x]
        /\ k.cells = {e \in (Int \X Int) \X Elements :
              e[2] \in DOMAIN k.bounds /\ e[1] \in CellsForRect(k.bounds[e[2]])}
        /\ k.bounds \in Maps(Areas) /\ k.order \in Maps(Nat)
    BY <1>0, TakenIs, TakenSound DEF Indexes
  <1>2. /\ \A id \in DOMAIN i.bounds : Fits(i.bounds[id])
        /\ DOMAIN i.bounds \subseteq DOMAIN i.order
    BY DEF Sound
  <1>3. CASE ~i.ok
    BY <1>3 DEF Patched
  <1>4. CASE i.ok /\ c.at = 0 /\ c.id \notin DOMAIN i.bounds
    <2>1. p = i
      BY <1>4 DEF Patched, RemoveElement
    <2> QED
      BY <1>4, <2>1 DEF Holds, SameAt
  <1>5. CASE i.ok /\ c.at = 0 /\ c.id \in DOMAIN i.bounds
    <2> DEFINE w == Without(k.order, c.id)
    <2>1. p = [k EXCEPT !.order = w]
      BY <1>5 DEF Patched, RemoveElement
    <2>2. /\ w \in Maps(Nat) /\ DOMAIN w = DOMAIN i.order \ {c.id}
          /\ \A x \in DOMAIN i.order : x # c.id => w[x] = i.order[x]
      <3>1. k.order \in Maps(Nat) /\ k.order = i.order
        BY <1>1
      <3> HIDE DEF k, w
      <3>2. w = Without(k.order, c.id)
        BY DEF w
      <3>3. /\ Without(k.order, c.id) \in Maps(Nat)
            /\ DOMAIN Without(k.order, c.id) = DOMAIN k.order \ {c.id}
            /\ \A x \in DOMAIN k.order : x # c.id => Without(k.order, c.id)[x] = k.order[x]
        BY <3>1, WithoutPlace
      <3> QED
        BY <3>1, <3>2, <3>3
    <2> HIDE DEF w, k
    <2>3. p \in Indexes
      BY <1>1, <2>1, <2>2 DEF Indexes
    <2>4. p.order = w /\ p.bounds = k.bounds /\ p.cells = k.cells /\ p.ok = i.ok
      BY <1>1, <2>1 DEF Indexes
    <2> HIDE DEF p
    <2>5. Sound(p)
      BY <1>1, <1>2, <1>5, <2>2, <2>4 DEF Sound
    <2>6. Holds(p, c)
      BY <1>1, <1>5, <2>4 DEF Holds
    <2>7. ASSUME NEW id \in Elements, id # c.id PROVE SameAt(p, i, id)
      BY <1>1, <1>2, <1>5, <2>2, <2>4, <2>7 DEF SameAt
    <2>8. Closed(i) => Closed(p)
      BY <1>1, <2>2, <2>4 DEF Closed
    <2> QED
      BY <1>5, <2>3, <2>4, <2>5, <2>6, <2>7, <2>8 DEF p
  <1>6. CASE i.ok /\ c.at # 0 /\ ~Fits(c.area)
    <2>1. p = [k EXCEPT !.ok = FALSE]
      BY <1>6 DEF Patched, Upsert
    <2> HIDE DEF k
    <2>2. p \in Indexes
      BY <1>1, <2>1 DEF Indexes
    <2>3. p.order = i.order /\ p.bounds = k.bounds /\ p.cells = k.cells /\ p.ok = FALSE
      BY <1>1, <2>1 DEF Indexes
    <2> HIDE DEF p
    <2>4. Sound(p)
      BY <1>1, <1>2, <2>3 DEF Sound
    <2>5. ASSUME NEW id \in Elements, id # c.id PROVE SameAt(p, i, id)
      BY <1>1, <2>3, <2>5 DEF SameAt
    <2> QED
      BY <1>6, <2>2, <2>3, <2>4, <2>5 DEF p
  <1>7. CASE i.ok /\ c.at # 0 /\ Fits(c.area)
    <2> DEFINE b == With(k.bounds, c.id, c.area)
               o == With(k.order, c.id, c.at)
               new == Entries(c.id, c.area)
    <2>1. p = [k EXCEPT !.cells = k.cells \cup new, !.bounds = b, !.order = o]
      BY <1>7 DEF Patched, Upsert
    <2>2. /\ b \in Maps(Areas) /\ DOMAIN b = DOMAIN k.bounds \cup {c.id} /\ b[c.id] = c.area
          /\ \A x \in DOMAIN k.bounds : x # c.id => b[x] = k.bounds[x]
      <3>1. k.bounds \in Maps(Areas) /\ c.id \in Elements /\ c.area \in Areas
        BY <1>0, <1>1
      <3> HIDE DEF k, p
      <3> QED
        BY <3>1, WithArea
    <2>3. /\ o \in Maps(Nat) /\ DOMAIN o = DOMAIN i.order \cup {c.id} /\ o[c.id] = c.at
          /\ \A x \in DOMAIN i.order : x # c.id => o[x] = i.order[x]
      <3> DEFINE f == k.order
      <3>1. f \in Maps(Nat) /\ c.id \in Elements /\ c.at \in Nat /\ f = i.order
        BY <1>0, <1>1
      <3>2. o = With(f, c.id, c.at)
        OBVIOUS
      <3> HIDE DEF f, k, o
      <3>3. /\ With(f, c.id, c.at) \in Maps(Nat)
            /\ DOMAIN With(f, c.id, c.at) = DOMAIN f \cup {c.id}
            /\ With(f, c.id, c.at)[c.id] = c.at
            /\ \A x \in DOMAIN f : x # c.id => With(f, c.id, c.at)[x] = f[x]
        BY <3>1, WithPlace
      <3> QED
        BY <3>1, <3>2, <3>3
    <2>4. \A e : e \in new <=> e \in (Int \X Int) \X Elements /\ e[2] = c.id /\ e[1] \in CellsForRect(c.area)
      BY <1>0, EntriesAre, CellsAreInt
    <2> HIDE DEF b, o, new, k
    <2>5. p \in Indexes
      <3>1. k.cells \cup new \in SUBSET ((Int \X Int) \X Elements)
        BY <1>1, <2>4
      <3> QED
        BY <1>1, <2>1, <2>2, <2>3, <3>1 DEF Indexes
    <2>6. p.order = o /\ p.bounds = b /\ p.cells = k.cells \cup new /\ p.ok = i.ok
      BY <1>1, <2>1 DEF Indexes
    <2> HIDE DEF p
    <2>7. Sound(p)
      <3>1. ASSUME NEW e \in (Int \X Int) \X Elements
            PROVE  e \in k.cells \cup new <=> e[2] \in DOMAIN b /\ e[1] \in CellsForRect(b[e[2]])
        <4>1. CASE e[2] = c.id
          BY <1>1, <2>2, <2>4, <4>1
        <4>2. CASE e[2] # c.id
          BY <1>1, <2>2, <2>4, <4>2
        <4> QED
          BY <4>1, <4>2
      <3>2. k.cells \cup new = {e \in (Int \X Int) \X Elements :
                                  e[2] \in DOMAIN b /\ e[1] \in CellsForRect(b[e[2]])}
        BY <1>1, <2>4, <3>1
      <3>3. \A id \in DOMAIN b : Fits(b[id])
        BY <1>1, <1>2, <1>7, <2>2
      <3>4. DOMAIN b \subseteq DOMAIN o
        BY <1>1, <1>2, <1>7, <2>2, <2>3
      <3> QED
        BY <2>6, <3>2, <3>3, <3>4 DEF Sound
    <2>8. Holds(p, c)
      BY <1>7, <2>2, <2>3, <2>6 DEF Holds
    <2>9. ASSUME NEW id \in Elements, id # c.id PROVE SameAt(p, i, id)
      BY <1>1, <1>2, <1>7, <2>2, <2>3, <2>6, <2>9 DEF SameAt
    <2>10. Closed(i) => Closed(p)
      BY <1>0, <1>1, <2>2, <2>3, <2>6 DEF Closed
    <2> QED
      BY <1>7, <2>5, <2>6, <2>7, <2>8, <2>9, <2>10 DEF p
  <1> QED
    BY <1>0, <1>3, <1>4, <1>5, <1>6, <1>7

--------------------------------------------------------------------------------
(* A sequence of changes.                                                       *)

SoundIndexes == {i \in Indexes : Sound(i)}

PatchFolds(f, index, delta) ==
    f = [s \in SUBSET DOMAIN delta |->
            IF s = {} THEN index ELSE Patched(f[s \ {Largest(s)}], delta[Largest(s)])]

\* A delta is folded: its recursion is one of PatchFolds.
LEMMA ApplyDeltaIs ==
  ASSUME NEW index, NEW delta
  PROVE  ApplyDelta(index, delta) = (CHOOSE f : PatchFolds(f, index, delta))[DOMAIN delta]
  BY DEF ApplyDelta, FoldLeft, MapThenFoldSet, PatchFolds, Largest, Max

\* ApplyDelta patches the index with one change after the other.
LEMMA ApplyDeltaSteps ==
  ASSUME IndexConstants, NEW index \in SoundIndexes,
         NEW n \in Nat, NEW delta \in [1 .. n -> ChangeRecords]
  PROVE  \E f : /\ ApplyDelta(index, delta) = f[1 .. n]
                /\ f[1 .. 0] = index
                /\ \A k \in 0 .. n - 1 : f[1 .. k + 1] = Patched(f[1 .. k], delta[k + 1])
  <1> DEFINE op == [p \in SoundIndexes \X ChangeRecords |-> Patched(p[1], p[2])]
             f == CHOOSE h : PatchFolds(h, index, delta)
  <1>1. op \in [SoundIndexes \X ChangeRecords -> SoundIndexes]
    BY PatchedKeeps DEF SoundIndexes
  <1>2. PICK g \in [SUBSET (1 .. n) -> SoundIndexes] : Folds(g, op, index, delta, n)
    <2> HIDE DEF op
    <2> QED
      BY <1>1, FoldExists
  <1>3. PatchFolds(g, index, delta)
    <2>1. ASSUME NEW s \in SUBSET (1 .. n), s # {}
          PROVE  op[<<g[s \ {Largest(s)}], delta[Largest(s)]>>]
                    = Patched(g[s \ {Largest(s)}], delta[Largest(s)])
      <3>1. Largest(s) \in s
        BY <2>1, LargestExists
      <3>2. g[s \ {Largest(s)}] \in SoundIndexes /\ delta[Largest(s)] \in ChangeRecords
        BY <3>1
      <3> QED
        BY <3>2
    <2>2. DOMAIN delta = 1 .. n
      OBVIOUS
    <2> HIDE DEF op
    <2> QED
      BY <1>2, <2>1, <2>2 DEF Folds, PatchFolds
  <1>4. PatchFolds(f, index, delta)
    BY <1>3
  <1> HIDE DEF f
  <1>5. DOMAIN delta = 1 .. n
    OBVIOUS
  <1>6. \A s \in SUBSET (1 .. n) :
           f[s] = IF s = {} THEN index ELSE Patched(f[s \ {Largest(s)}], delta[Largest(s)])
    BY <1>4, <1>5 DEF PatchFolds
  <1>7. f[1 .. 0] = index
    <2>1. 1 .. 0 = {} /\ 1 .. 0 \in SUBSET (1 .. n)
      OBVIOUS
    <2> QED
      BY <1>6, <2>1
  <1>8. ASSUME NEW k \in 0 .. n - 1
        PROVE  f[1 .. k + 1] = Patched(f[1 .. k], delta[k + 1])
    BY <1>6, LargestUpTo
  <1>9. ApplyDelta(index, delta) = f[1 .. n]
    BY <1>5, ApplyDeltaIs DEF f
  <1> QED
    BY <1>7, <1>8, <1>9

\* What the index says after the first k changes.
Patches(i, index, delta, k) ==
    /\ i \in SoundIndexes
    /\ i.ok => /\ index.ok
               /\ \A j \in 1 .. k : Holds(i, delta[j])
               /\ \A id \in Elements :
                     (\A j \in 1 .. k : delta[j].id # id) => SameAt(i, index, id)
    /\ index.ok /\ (\A j \in 1 .. k : delta[j].at = 0 \/ Fits(delta[j].area)) => i.ok
    /\ Closed(index) /\ i.ok => Closed(i)

\* No two changes are of the same element.
OnePerElement(delta, n) ==
    \A j, k \in 1 .. n : delta[j].id = delta[k].id => j = k

\* Without a refusal every change holds afterwards, and the elements they do not name
\* are where they were; a change whose rectangle fits is not refused.
LEMMA ApplyDeltaPatches ==
  ASSUME IndexConstants, NEW index \in SoundIndexes,
         NEW n \in Nat, NEW delta \in [1 .. n -> ChangeRecords], OnePerElement(delta, n)
  PROVE  Patches(ApplyDelta(index, delta), index, delta, n)
  <1>1. PICK f : /\ ApplyDelta(index, delta) = f[1 .. n]
                 /\ f[1 .. 0] = index
                 /\ \A k \in 0 .. n - 1 : f[1 .. k + 1] = Patched(f[1 .. k], delta[k + 1])
    BY ApplyDeltaSteps
  <1> DEFINE P == {k \in Nat : k <= n => Patches(f[1 .. k], index, delta, k)}
  <1>2. 0 \in P
    <2>1. 1 .. 0 = {}
      OBVIOUS
    <2>2. \A id : SameAt(index, index, id)
      BY DEF SameAt
    <2> QED
      BY <1>1, <2>1, <2>2 DEF Patches
  <1>3. ASSUME NEW k \in P PROVE k + 1 \in P
    <2>0. k \in Nat /\ (k <= n => Patches(f[1 .. k], index, delta, k))
      OBVIOUS
    <2> HIDE DEF P
    <2> SUFFICES ASSUME k + 1 <= n PROVE Patches(f[1 .. k + 1], index, delta, k + 1)
      BY <2>0 DEF P
    <2> DEFINE i == f[1 .. k]
               c == delta[k + 1]
               p == f[1 .. k + 1]
    <2>1. k \in 0 .. n - 1 /\ k + 1 \in 1 .. n /\ k <= n
      BY <2>0
    <2>2. Patches(i, index, delta, k) /\ p = Patched(i, c) /\ c \in ChangeRecords
      BY <1>1, <2>0, <2>1
    <2>3. i \in Indexes /\ Sound(i)
      BY <2>2 DEF Patches, SoundIndexes
    <2>4. \A j \in 1 .. k : j \in 1 .. n /\ j # k + 1 /\ delta[j] \in ChangeRecords
                            /\ delta[j].id \in Elements /\ delta[j].id # c.id
      <3>1. ASSUME NEW j \in 1 .. k PROVE j \in 1 .. n /\ j # k + 1
        BY <2>0, <2>1
      <3> QED
        BY <2>1, <3>1 DEF OnePerElement, ChangeRecords
    <2>5. \A j \in 1 .. k + 1 : j \in 1 .. k \/ j = k + 1
      BY <2>0
    <2>6. 1 .. k \subseteq 1 .. k + 1 /\ k + 1 \in 1 .. k + 1
      BY <2>0
    <2> HIDE DEF i, p, c
    <2>7. /\ p \in Indexes /\ Sound(p)
          /\ p.ok => i.ok /\ Holds(p, c)
          /\ i.ok /\ (c.at = 0 \/ Fits(c.area)) => p.ok
          /\ i.ok => \A id \in Elements : id # c.id => SameAt(p, i, id)
          /\ Closed(i) /\ p.ok => Closed(p)
      BY <2>2, <2>3, PatchedKeeps
    <2>8. ASSUME p.ok
          PROVE  /\ index.ok
                 /\ \A j \in 1 .. k + 1 : Holds(p, delta[j])
                 /\ \A id \in Elements :
                       (\A j \in 1 .. k + 1 : delta[j].id # id) => SameAt(p, index, id)
      <3>1. i.ok /\ Holds(p, c) /\ index.ok
        BY <2>2, <2>7, <2>8 DEF Patches
      <3>2. ASSUME NEW j \in 1 .. k PROVE Holds(p, delta[j])
        <4>1. Holds(i, delta[j]) /\ SameAt(p, i, delta[j].id)
          BY <2>2, <2>4, <2>7, <3>1 DEF Patches
        <4> QED
          BY <4>1 DEF Holds, SameAt
      <3>3. ASSUME NEW id \in Elements, \A j \in 1 .. k + 1 : delta[j].id # id
            PROVE  SameAt(p, index, id)
        <4>1. SameAt(i, index, id) /\ id # c.id
          BY <2>2, <2>6, <3>1, <3>3 DEF Patches, c
        <4>2. SameAt(p, i, id)
          BY <2>7, <3>1, <4>1
        <4> QED
          BY <4>1, <4>2 DEF SameAt
      <3>4. ASSUME NEW j \in 1 .. k + 1 PROVE Holds(p, delta[j])
        BY <2>5, <3>1, <3>2 DEF c
      <3> QED
        BY <3>1, <3>3, <3>4
    <2>9. ASSUME index.ok, \A j \in 1 .. k + 1 : delta[j].at = 0 \/ Fits(delta[j].area)
          PROVE  p.ok
      <3>1. i.ok
        BY <2>2, <2>6, <2>9 DEF Patches
      <3>2. c.at = 0 \/ Fits(c.area)
        BY <2>6, <2>9 DEF c
      <3> QED
        BY <2>7, <3>1, <3>2
    <2>10. Closed(index) /\ p.ok => Closed(p)
      BY <2>2, <2>7 DEF Patches
    <2>11. Patches(p, index, delta, k + 1)
      BY <2>7, <2>8, <2>9, <2>10 DEF Patches, SoundIndexes
    <2> QED
      BY <2>11 DEF p
  <1>4. P = Nat
    <2> HIDE DEF P
    <2>1. P \in SUBSET Nat
      BY DEF P
    <2> QED
      BY <1>2, <1>3, <2>1, SetInduction
  <1>5. n \in P
    BY <1>4
  <1> QED
    BY <1>1, <1>5

--------------------------------------------------------------------------------
(* Queries.                                                                     *)

\* A cell's coordinate does not decrease.
LEMMA CellMonotone ==
    ASSUME NEW n \in Nat \ {0}, NEW a \in Int, NEW b \in Int, a <= b
    PROVE  a \div n \in Int /\ b \div n \in Int /\ a \div n <= b \div n
  <1>1. /\ a \div n \in Int /\ b \div n \in Int
        /\ n * (a \div n) <= a /\ a < n * (a \div n) + n
        /\ n * (b \div n) <= b /\ b < n * (b \div n) + n
    OBVIOUS
  <1>2. ASSUME NEW p \in Int, NEW q \in Int, n * p <= a, b < n * q + n PROVE p <= q
    <2>1. n * p < n * (q + 1)
      BY <1>2
    <2>2. ASSUME p > q PROVE FALSE
      <3>1. p - (q + 1) \in Nat
        BY <1>2, <2>2
      <3>2. n * (p - (q + 1)) >= 0
        BY <3>1
      <3>3. n * p >= n * (q + 1)
        BY <3>2
      <3> QED
        BY <2>1, <3>3
    <2> QED
      BY <2>2
  <1> QED
    BY <1>1, <1>2

\* Intervals that meet have a cell in common.
LEMMA CommonCell ==
  ASSUME IndexConstants, NEW a \in Int, NEW b \in Int, NEW c \in Int, NEW d \in Int,
         a <= b, c <= d, a <= d, c <= b
  PROVE  \E k \in Int : /\ k \in CellCoord(a) .. CellCoord(b)
                        /\ k \in CellCoord(c) .. CellCoord(d)
  <1>1. CellSize \in Nat \ {0}
    BY DEF IndexConstants
  <1>2. /\ CellCoord(a) \in Int /\ CellCoord(b) \in Int /\ CellCoord(c) \in Int /\ CellCoord(d) \in Int
        /\ CellCoord(a) <= CellCoord(b) /\ CellCoord(c) <= CellCoord(d)
        /\ CellCoord(a) <= CellCoord(d) /\ CellCoord(c) <= CellCoord(b)
    BY <1>1, CellMonotone DEF CellCoord
  <1>3. CASE CellCoord(a) <= CellCoord(c)
    BY <1>2, <1>3
  <1>4. CASE CellCoord(c) <= CellCoord(a)
    BY <1>2, <1>4
  <1> QED
    BY <1>2, <1>3, <1>4

\* A query by cells finds what meets the rectangle.
LEMMA QueryIsExact ==
  ASSUME IndexConstants, NEW i \in SoundIndexes, NEW r \in Rects
  PROVE  Hits(i, r) = {id \in DOMAIN i.bounds : Intersects(i.bounds[id], r)}
  <1> SUFFICES ASSUME NEW id \in DOMAIN i.bounds, Intersects(i.bounds[id], r)
               PROVE  \E c \in CellsForRect(r) : <<c, id>> \in i.cells
    BY DEF Hits
  <1> DEFINE b == i.bounds[id]
  <1>1. id \in Elements /\ b \in Rects
    <2>1. i.bounds \in Maps(Areas)
      BY DEF SoundIndexes, Indexes
    <2> QED
      BY <2>1, MapsAre, AreasAreRects
  <1>2. /\ b.x \in Int /\ b.y \in Int /\ Right(b) \in Int /\ Bottom(b) \in Int
        /\ b.x <= Right(b) /\ b.y <= Bottom(b)
        /\ r.x \in Int /\ r.y \in Int /\ Right(r) \in Int /\ Bottom(r) \in Int
        /\ r.x <= Right(r) /\ r.y <= Bottom(r)
    BY <1>1 DEF Rects, Right, Bottom
  <1>3. b.x <= Right(r) /\ r.x <= Right(b) /\ b.y <= Bottom(r) /\ r.y <= Bottom(b)
    BY <1>2 DEF Intersects
  <1> HIDE DEF b
  <1>4. PICK k \in Int : /\ k \in CellCoord(b.x) .. CellCoord(Right(b))
                         /\ k \in CellCoord(r.x) .. CellCoord(Right(r))
    BY <1>2, <1>3, CommonCell
  <1>5. PICK l \in Int : /\ l \in CellCoord(b.y) .. CellCoord(Bottom(b))
                         /\ l \in CellCoord(r.y) .. CellCoord(Bottom(r))
    BY <1>2, <1>3, CommonCell
  <1>6. <<k, l>> \in CellsForRect(b) /\ <<k, l>> \in CellsForRect(r)
    BY <1>4, <1>5 DEF CellsForRect
  <1>7. <<<<k, l>>, id>> \in i.cells
    <2>1. i.cells = {e \in (Int \X Int) \X Elements :
                    e[2] \in DOMAIN i.bounds /\ e[1] \in CellsForRect(i.bounds[e[2]])}
      BY DEF SoundIndexes, Sound
    <2>2. <<<<k, l>>, id>> \in (Int \X Int) \X Elements
      BY <1>1
    <2> QED
      BY <1>6, <2>1, <2>2 DEF b
  <1> QED
    BY <1>6, <1>7

\* Half of a screen, in the world's units.
LEMMA HalfScreen ==
  ASSUME NEW s \in Nat \ {0}, NEW w \in Nat, w % (2 * s) = 0
  PROVE  \E m \in Nat : /\ w = 2 * (s * m) /\ w \div 2 = s * m
                        /\ (0 - (w \div 2)) \div s = -m
                        /\ (w - (w \div 2)) \div s = m
  <1> DEFINE m == w \div (2 * s)
  <1>1. 2 * s \in Nat \ {0}
    OBVIOUS
  <1>2. m \in Nat /\ w = (2 * s) * m
    <2>1. w = (2 * s) * (w \div (2 * s)) + (w % (2 * s)) /\ w \div (2 * s) \in Int
      BY <1>1
    <2>2. w \div (2 * s) >= 0
      BY <1>1
    <2> QED
      BY <2>1, <2>2
  <1> HIDE DEF m
  <1>3. s * m \in Nat /\ w = 2 * (s * m)
    BY <1>2
  <1>4. w \div 2 = s * m
    BY <1>3
  <1>5. ASSUME NEW k \in Int PROVE (s * k) \div s = k
    <2>1. (s * k) \div s \in Int /\ s * ((s * k) \div s) <= s * k /\ s * k < s * ((s * k) \div s) + s
      OBVIOUS
    <2> DEFINE d == k - ((s * k) \div s)
    <2>2. d \in Int /\ 0 <= s * d /\ s * d < s
      BY <2>1
    <2> HIDE DEF d
    <2>3. ASSUME d >= 1 PROVE FALSE
      <3>1. s * (d - 1) >= 0
        BY <2>2, <2>3
      <3> QED
        BY <2>2, <3>1
    <2>4. ASSUME d <= -1 PROVE FALSE
      <3>1. s * (-1 - d) >= 0
        BY <2>2, <2>4
      <3> QED
        BY <2>2, <3>1
    <2>5. d = 0
      BY <2>2, <2>3, <2>4
    <2> QED
      BY <2>1, <2>5 DEF d
  <1>6. s * (-m) = 0 - (w \div 2) /\ w - (w \div 2) = s * m
    BY <1>2, <1>3, <1>4
  <1>7. (0 - (w \div 2)) \div s = -m /\ (w - (w \div 2)) \div s = m
    BY <1>2, <1>5, <1>6
  <1> QED
    BY <1>2, <1>3, <1>4, <1>7

\* Scaling keeps the order of coordinates.
LEMMA ScaleKeepsOrder ==
  ASSUME NEW s \in Nat \ {0}, NEW a \in Int, NEW b \in Int
  PROVE  s * a <= s * b <=> a <= b
  <1>1. ASSUME a <= b PROVE s * a <= s * b
    <2>1. s * (b - a) >= 0
      BY <1>1
    <2> QED
      BY <2>1
  <1>2. ASSUME s * a <= s * b PROVE a <= b
    <2> SUFFICES ASSUME a > b PROVE FALSE
      OBVIOUS
    <2>1. s * (a - b - 1) >= 0
      OBVIOUS
    <2>2. s * (a - b - 1) = s * a - s * b - s
      OBVIOUS
    <2> QED
      BY <1>2, <2>1, <2>2
  <1> QED
    BY <1>1, <1>2

\* The same comparisons as a camera makes them.
LEMMA ScaledEdges ==
  ASSUME NEW s \in Nat \ {0}, NEW a \in Int, NEW v \in Int, NEW e \in Int
  PROVE  /\ a * s + s * v <= 2 * (s * v) <=> a <= v
         /\ a * s + s * v + e * s >= 0 <=> -v <= a + e
  <1>1. a * s = s * a /\ s * a \in Int /\ s * v \in Int
    OBVIOUS
  <1>2. s * a <= s * v <=> a <= v
    BY ScaleKeepsOrder
  <1>3. a + e \in Int /\ -v \in Int
    OBVIOUS
  <1>4. s * (-v) <= s * (a + e) <=> -v <= a + e
    BY <1>3, ScaleKeepsOrder
  <1>5. s * (a + e) = a * s + e * s /\ s * (-v) = -(s * v) /\ e * s \in Int
    OBVIOUS
  <1>6. a * s + s * v <= 2 * (s * v) <=> s * a <= s * v
    <2> DEFINE x == a * s
               y == s * v
    <2>1. x \in Int /\ y \in Int /\ x = s * a
      BY <1>1
    <2> HIDE DEF x, y
    <2>2. x + y <= 2 * y <=> x <= y
      BY <2>1
    <2> QED
      BY <2>1, <2>2 DEF x, y
  <1>7. a * s + s * v + e * s >= 0 <=> s * (-v) <= s * (a + e)
    <2> DEFINE x == a * s
               y == s * v
               z == e * s
    <2>1. x \in Int /\ y \in Int /\ z \in Int /\ s * (a + e) = x + z /\ s * (-v) = -y
      BY <1>1, <1>5
    <2> HIDE DEF x, y, z
    <2>2. x + y + z >= 0 <=> -y <= x + z
      BY <2>1
    <2> QED
      BY <2>1, <2>2 DEF x, y, z
  <1> QED
    BY <1>2, <1>4, <1>6, <1>7

\* What a camera sees: the rectangle around it, and what is drawn on the screen is what
\* meets that rectangle.
LEMMA ViewIsExact ==
  ASSUME IndexConstants, NEW c \in Cameras
  PROVE  /\ ViewArea(c) \in Rects
         /\ \A r \in Rects :
               Intersects(r, ViewArea(c)) <=>
                  Intersects(Project(c, r),
                             [x |-> 0, y |-> 0, width |-> Screen.width, height |-> Screen.height])
  <1> DEFINE s == c.scale
             w == Screen.width
             h == Screen.height
  <1>1. /\ s \in Nat \ {0} /\ c.x \in Int /\ c.y \in Int
        /\ w \in Nat /\ h \in Nat /\ w % (2 * s) = 0 /\ h % (2 * s) = 0
    BY DEF IndexConstants
  <1> HIDE DEF s, w, h
  <1>2. PICK m \in Nat : /\ w = 2 * (s * m) /\ w \div 2 = s * m
                         /\ (0 - (w \div 2)) \div s = -m /\ (w - (w \div 2)) \div s = m
    BY <1>1, HalfScreen
  <1>3. PICK n \in Nat : /\ h = 2 * (s * n) /\ h \div 2 = s * n
                         /\ (0 - (h \div 2)) \div s = -n /\ (h - (h \div 2)) \div s = n
    BY <1>1, HalfScreen
  <1>4. ViewArea(c) = [x |-> -m + c.x, y |-> -n + c.y,
                       width |-> (m + c.x) - (-m + c.x), height |-> (n + c.y) - (-n + c.y)]
    BY <1>2, <1>3 DEF ViewArea, ScreenToWorld, s, w, h
  <1>5. ViewArea(c) \in Rects
    <2>1. (m + c.x) - (-m + c.x) \in Nat /\ (n + c.y) - (-n + c.y) \in Nat
      BY <1>1
    <2> QED
      BY <1>1, <1>4, <2>1 DEF Rects
  <1>6. ASSUME NEW r \in Rects
        PROVE  Intersects(r, ViewArea(c)) <=>
                  Intersects(Project(c, r), [x |-> 0, y |-> 0, width |-> w, height |-> h])
    <2>1. r.x \in Int /\ r.y \in Int /\ r.width \in Nat /\ r.height \in Nat
      BY DEF Rects
    <2>2. Intersects(r, ViewArea(c)) <=>
             /\ r.x - c.x <= m /\ -m <= r.x + r.width - c.x
             /\ r.y - c.y <= n /\ -n <= r.y + r.height - c.y
      BY <1>1, <1>4, <2>1 DEF Intersects, Right, Bottom
    <2>3. Intersects(Project(c, r), [x |-> 0, y |-> 0, width |-> w, height |-> h]) <=>
             /\ (r.x - c.x) * s + s * m <= 2 * (s * m)
             /\ (r.x - c.x) * s + s * m + r.width * s >= 0
             /\ (r.y - c.y) * s + s * n <= 2 * (s * n)
             /\ (r.y - c.y) * s + s * n + r.height * s >= 0
      <3>1. /\ (r.x - c.x) * s \in Int /\ (r.y - c.y) * s \in Int
            /\ r.width * s \in Int /\ r.height * s \in Int /\ s * m \in Int /\ s * n \in Int
        BY <1>1, <2>1
      <3>2. Project(c, r) = [x |-> (r.x - c.x) * s + s * m, y |-> (r.y - c.y) * s + s * n,
                             width |-> r.width * s, height |-> r.height * s]
        BY <1>2, <1>3 DEF Project, s, w, h
      <3> DEFINE px == (r.x - c.x) * s
                 py == (r.y - c.y) * s
                 pw == r.width * s
                 ph == r.height * s
                 sm == s * m
                 sn == s * n
      <3>3. px \in Int /\ py \in Int /\ pw \in Int /\ ph \in Int /\ sm \in Int /\ sn \in Int
        BY <3>1
      <3>4. /\ Project(c, r) = [x |-> px + sm, y |-> py + sn, width |-> pw, height |-> ph]
            /\ w = 2 * sm /\ h = 2 * sn
        BY <1>2, <1>3, <3>2
      <3> HIDE DEF px, py, pw, ph, sm, sn
      <3>5. Intersects(Project(c, r), [x |-> 0, y |-> 0, width |-> w, height |-> h]) <=>
             /\ px + sm <= 2 * sm /\ px + sm + pw >= 0
             /\ py + sn <= 2 * sn /\ py + sn + ph >= 0
        BY <3>3, <3>4 DEF Intersects, Right, Bottom
      <3> QED
        BY <3>5 DEF px, py, pw, ph, sm, sn
    <2> DEFINE ax == r.x - c.x
               ay == r.y - c.y
    <2>4. ax \in Int /\ ay \in Int /\ m \in Int /\ n \in Int
      BY <1>1, <2>1
    <2>5. r.x + r.width - c.x = ax + r.width /\ r.y + r.height - c.y = ay + r.height
      BY <1>1, <2>1
    <2> HIDE DEF ax, ay
    <2>6. /\ ax * s + s * m <= 2 * (s * m) <=> ax <= m
          /\ ax * s + s * m + r.width * s >= 0 <=> -m <= ax + r.width
      BY <1>1, <2>1, <2>4, ScaledEdges
    <2>7. /\ ay * s + s * n <= 2 * (s * n) <=> ay <= n
          /\ ay * s + s * n + r.height * s >= 0 <=> -n <= ay + r.height
      BY <1>1, <2>1, <2>4, ScaledEdges
    <2> QED
      BY <2>2, <2>3, <2>5, <2>6, <2>7 DEF ax, ay
  <1> QED
    BY <1>5, <1>6 DEF w, h

--------------------------------------------------------------------------------
(* Scenes, and indexes that agree with one.                                     *)

Elems == [id : Elements, area : Areas]

IsScene(s) ==
    /\ s \in Seq(Elems)
    /\ \A i, j \in DOMAIN s : s[i].id = s[j].id => i = j

\* The index has the elements of the scene, where and in the order they are.
Matches(i, s) ==
    /\ DOMAIN i.bounds = IdsOf(s)
    /\ Closed(i)
    /\ \A k \in DOMAIN s : i.bounds[s[k].id] = s[k].area /\ i.order[s[k].id] = k

\* The elements of a scene and their number.
LEMMA SceneIs ==
  ASSUME NEW s, IsScene(s)
  PROVE  /\ Len(s) \in Nat /\ DOMAIN s = 1 .. Len(s)
         /\ \A k \in DOMAIN s : /\ k \in Nat \ {0} /\ s[k] \in Elems
                                /\ s[k].id \in Elements /\ s[k].area \in Areas
                                /\ Change(s, k) \in ChangeRecords
         /\ \A k, l \in DOMAIN s : s[k].id = s[l].id => k = l
  <1>1. s \in Seq(Elems)
    BY DEF IsScene
  <1>2. Len(s) \in Nat /\ DOMAIN s = 1 .. Len(s) /\ \A k \in 1 .. Len(s) : s[k] \in Elems
    BY <1>1
  <1>3. \A k \in DOMAIN s : k \in Nat \ {0}
    BY <1>2
  <1>4. \A k \in DOMAIN s : /\ s[k].id \in Elements /\ s[k].area \in Areas
                            /\ Change(s, k) \in ChangeRecords
    BY <1>2, <1>3 DEF Elems, Change, ChangeRecords
  <1> QED
    BY <1>2, <1>3, <1>4 DEF IsScene

\* An index that agrees with a scene is determined by it.
LEMMA MatchesOnce ==
  ASSUME NEW i \in SoundIndexes, NEW j \in SoundIndexes, NEW s, IsScene(s),
         i.ok = j.ok, Matches(i, s), Matches(j, s)
  PROVE  i = j
  <1>1. /\ i \in Indexes /\ j \in Indexes /\ Sound(i) /\ Sound(j)
        /\ i.bounds \in Maps(Areas) /\ j.bounds \in Maps(Areas)
        /\ i.order \in Maps(Nat) /\ j.order \in Maps(Nat)
    BY DEF SoundIndexes, Indexes
  <1>2. DOMAIN i.bounds = DOMAIN j.bounds /\ DOMAIN i.order = DOMAIN j.order
        /\ DOMAIN i.order = DOMAIN i.bounds
    BY DEF Matches, Closed
  <1>3. ASSUME NEW id \in DOMAIN i.bounds
        PROVE  i.bounds[id] = j.bounds[id] /\ i.order[id] = j.order[id]
    <2>1. PICK k \in DOMAIN s : s[k].id = id
      BY DEF Matches, IdsOf
    <2> QED
      BY <2>1 DEF Matches
  <1>4. i.bounds = j.bounds
    <2>1. /\ i.bounds = [x \in DOMAIN i.bounds |-> i.bounds[x]]
          /\ j.bounds = [x \in DOMAIN j.bounds |-> j.bounds[x]]
      BY <1>1, MapsAre
    <2> QED
      BY <1>2, <1>3, <2>1
  <1>5. i.order = j.order
    <2> DEFINE f == i.order
               g == j.order
    <2>1. f \in Maps(Nat) /\ g \in Maps(Nat) /\ DOMAIN f = DOMAIN g
          /\ \A x \in DOMAIN f : f[x] = g[x]
      BY <1>1, <1>2, <1>3
    <2> HIDE DEF f, g
    <2>2. f = [x \in DOMAIN f |-> f[x]] /\ g = [x \in DOMAIN g |-> g[x]]
      BY <2>1 DEF Maps
    <2>3. f = g
      BY <2>1, <2>2
    <2> QED
      BY <2>3 DEF f, g
  <1>6. i.cells = j.cells
    BY <1>1, <1>4 DEF Sound
  <1> QED
    BY <1>1, <1>4, <1>5, <1>6 DEF Indexes

\* An index of nothing is sound and closed.
LEMMA EmptySound ==
  Empty \in SoundIndexes /\ Empty.ok /\ Closed(Empty) /\ DOMAIN Empty.bounds = {}
  <1>1. DOMAIN Empty.bounds = {} /\ DOMAIN Empty.order = {} /\ Empty.cells = {} /\ Empty.ok = TRUE
    BY DEF Empty
  <1>2. <<>> \in Maps(Areas) /\ <<>> \in Maps(Nat)
    <2>1. <<>> \in [{} -> Areas] /\ <<>> \in [{} -> Nat]
      OBVIOUS
    <2>2. {} \in SUBSET Elements
      OBVIOUS
    <2> QED
      BY <2>1, <2>2, Zenon DEF Maps
  <1>3. Empty \in Indexes
    BY <1>2 DEF Empty, Indexes
  <1> HIDE DEF Empty
  <1> QED
    BY <1>1, <1>3 DEF SoundIndexes, Sound, Closed

\* An index that is built anew agrees with the scene unless a rectangle is refused.
LEMMA BuildMatches ==
  ASSUME IndexConstants, NEW s, IsScene(s)
  PROVE  /\ Build(s) \in SoundIndexes
         /\ Build(s).ok => Matches(Build(s), s)
         /\ (\A k \in DOMAIN s : Fits(s[k].area)) => Build(s).ok
  <1> DEFINE n == Len(s)
             delta == [i \in DOMAIN s |-> Change(s, i)]
             b == Build(s)
  <1>1. /\ n \in Nat /\ DOMAIN s = 1 .. n
        /\ \A k \in 1 .. n : k # 0 /\ s[k].id \in Elements /\ Change(s, k) \in ChangeRecords
        /\ \A k, l \in 1 .. n : s[k].id = s[l].id => k = l
    BY SceneIs
  <1>2. delta \in [1 .. n -> ChangeRecords]
    BY <1>1
  <1>3. \A k \in 1 .. n : /\ delta[k].id = s[k].id /\ delta[k].at = k
                          /\ delta[k].area = s[k].area
    BY <1>1 DEF Change
  <1>4. OnePerElement(delta, n)
    BY <1>1, <1>3 DEF OnePerElement
  <1>5. b = ApplyDelta(Empty, delta)
    BY DEF Build
  <1> HIDE DEF delta, n, b
  <1>6. Patches(b, Empty, delta, n)
    BY <1>1, <1>2, <1>4, <1>5, EmptySound, ApplyDeltaPatches
  <1>7. b \in SoundIndexes /\ DOMAIN b.bounds \subseteq Elements
    <2>1. b \in SoundIndexes
      BY <1>6 DEF Patches
    <2>2. b.bounds \in Maps(Areas)
      BY <2>1 DEF SoundIndexes, Indexes
    <2> QED
      BY <2>1, <2>2, MapsAre
  <1>8. ASSUME b.ok PROVE Matches(b, s)
    <2>1. ASSUME NEW k \in DOMAIN s
          PROVE  s[k].id \in DOMAIN b.bounds /\ b.bounds[s[k].id] = s[k].area /\ b.order[s[k].id] = k
      <3>1. Holds(b, delta[k])
        BY <1>1, <1>6, <1>8 DEF Patches
      <3> QED
        BY <1>1, <1>3, <3>1 DEF Holds
    <2>2. ASSUME NEW id \in DOMAIN b.bounds PROVE id \in IdsOf(s)
      <3> SUFFICES ASSUME id \notin IdsOf(s) PROVE FALSE
        OBVIOUS
      <3>1. \A k \in 1 .. n : delta[k].id # id
        BY <1>1, <1>3 DEF IdsOf
      <3>2. SameAt(b, Empty, id)
        BY <1>6, <1>7, <1>8, <3>1 DEF Patches
      <3> QED
        BY <3>2, EmptySound DEF SameAt
    <2>3. Closed(b)
      BY <1>6, <1>8, EmptySound DEF Patches
    <2>4. DOMAIN b.bounds = IdsOf(s)
      BY <2>1, <2>2 DEF IdsOf
    <2> QED
      BY <2>1, <2>3, <2>4 DEF Matches
  <1>9. ASSUME \A k \in DOMAIN s : Fits(s[k].area) PROVE b.ok
    BY <1>1, <1>3, <1>6, <1>9, EmptySound DEF Patches
  <1> QED
    BY <1>7, <1>8, <1>9 DEF b

--------------------------------------------------------------------------------
(* What an edit changed.                                                        *)

\* A change removes an element that is gone or puts one where the scene has it.
LEMMA ChangesAre ==
  ASSUME NEW s, IsScene(s), NEW t, IsScene(t)
  PROVE  /\ \A c \in Changes(s, t) :
               /\ c \in ChangeRecords
               /\ \/ c.at = 0 /\ c.id \in IdsOf(s) /\ c.id \notin IdsOf(t)
                  \/ \E k \in DOMAIN t : c = Change(t, k) /\ ~(k \in DOMAIN s /\ s[k] = t[k])
         /\ \A c, d \in Changes(s, t) : c.id = d.id => c = d
         /\ \A id \in IdsOf(s) \ IdsOf(t) : \E c \in Changes(s, t) : c.id = id /\ c.at = 0
         /\ \A k \in DOMAIN t : ~(k \in DOMAIN s /\ s[k] = t[k]) => Change(t, k) \in Changes(s, t)
  <1> DEFINE gone == {e \in ToSet(s) : e.id \notin IdsOf(t)}
             kept == {k \in DOMAIN t : ~(k \in DOMAIN s /\ s[k] = t[k])}
             out(e) == [id |-> e.id, at |-> 0, area |-> e.area]
  <1>1. Changes(s, t) = {out(e) : e \in gone} \cup {Change(t, k) : k \in kept}
    BY DEF Changes
  <1>2. ASSUME NEW e \in gone
        PROVE  /\ out(e) \in ChangeRecords /\ out(e).id = e.id /\ out(e).at = 0
               /\ e.id \in IdsOf(s) /\ e.id \notin IdsOf(t)
               /\ \E k \in DOMAIN s : e = s[k]
    <2>1. PICK k \in DOMAIN s : e = s[k]
      BY DEF ToSet
    <2>2. e.id \in Elements /\ e.area \in Areas
      BY <2>1, SceneIs
    <2> QED
      BY <2>1, <2>2 DEF ChangeRecords, IdsOf
  <1>3. ASSUME NEW k \in DOMAIN t
        PROVE  /\ Change(t, k) \in ChangeRecords
               /\ Change(t, k).id = t[k].id /\ Change(t, k).at = k /\ t[k].id \in IdsOf(t)
    BY SceneIs DEF Change, IdsOf
  <1>4. ASSUME NEW d \in gone, NEW e \in gone, d.id = e.id PROVE d = e
    <2>1. PICK k \in DOMAIN s : d = s[k]
      BY <1>2
    <2>2. PICK l \in DOMAIN s : e = s[l]
      BY <1>2
    <2> QED
      BY <1>4, <2>1, <2>2, SceneIs
  <1>5. ASSUME NEW c \in Changes(s, t), NEW d \in Changes(s, t), c.id = d.id PROVE c = d
    <2>1. CASE \E e \in gone : c = out(e)
      <3>1. PICK e \in gone : c = out(e)
        BY <2>1
      <3>2. c.id = e.id /\ e.id \notin IdsOf(t)
        BY <1>2, <3>1
      <3>3. CASE \E k \in kept : d = Change(t, k)
        <4>1. PICK k \in kept : d = Change(t, k)
          BY <3>3
        <4>2. d.id \in IdsOf(t)
          BY <1>3, <4>1
        <4> QED
          BY <1>5, <3>2, <4>2
      <3>4. CASE \E f \in gone : d = out(f)
        <4>1. PICK f \in gone : d = out(f)
          BY <3>4
        <4>2. e = f
          BY <1>2, <1>4, <1>5, <3>2, <4>1
        <4> QED
          BY <3>1, <4>1, <4>2
      <3> QED
        BY <1>1, <3>3, <3>4
    <2>2. CASE \E k \in kept : c = Change(t, k)
      <3>1. PICK k \in kept : c = Change(t, k)
        BY <2>2
      <3>2. c.id = t[k].id /\ c.id \in IdsOf(t)
        BY <1>3, <3>1
      <3>3. CASE \E e \in gone : d = out(e)
        BY <1>2, <1>5, <3>2, <3>3
      <3>4. CASE \E l \in kept : d = Change(t, l)
        <4>1. PICK l \in kept : d = Change(t, l)
          BY <3>4
        <4>2. k = l
          BY <1>3, <1>5, <3>2, <4>1, SceneIs
        <4> QED
          BY <3>1, <4>1, <4>2
      <3> QED
        BY <1>1, <3>3, <3>4
    <2> QED
      BY <1>1, <2>1, <2>2
  <1>6. ASSUME NEW c \in Changes(s, t)
        PROVE  /\ c \in ChangeRecords
               /\ \/ c.at = 0 /\ c.id \in IdsOf(s) /\ c.id \notin IdsOf(t)
                  \/ \E k \in DOMAIN t : c = Change(t, k) /\ ~(k \in DOMAIN s /\ s[k] = t[k])
    <2>1. CASE \E e \in gone : c = out(e)
      BY <1>2, <2>1
    <2>2. CASE \E k \in kept : c = Change(t, k)
      BY <1>3, <2>2
    <2> QED
      BY <1>1, <2>1, <2>2
  <1>7. ASSUME NEW id \in IdsOf(s) \ IdsOf(t)
        PROVE  \E c \in Changes(s, t) : c.id = id /\ c.at = 0
    <2>1. PICK k \in DOMAIN s : id = s[k].id
      BY DEF IdsOf
    <2>2. s[k] \in gone
      BY <2>1 DEF ToSet
    <2>3. out(s[k]) \in Changes(s, t) /\ out(s[k]).id = id /\ out(s[k]).at = 0
      BY <1>1, <1>2, <2>1, <2>2
    <2> QED
      BY <2>3
  <1>8. \A k \in DOMAIN t : ~(k \in DOMAIN s /\ s[k] = t[k]) => Change(t, k) \in Changes(s, t)
    BY <1>1
  <1> QED
    BY <1>5, <1>6, <1>7, <1>8

\* They are finitely many.
LEMMA ChangesFinite ==
  ASSUME NEW s, IsScene(s), NEW t, IsScene(t)
  PROVE  IsFiniteSet(Changes(s, t))
  <1> DEFINE gone == {k \in DOMAIN s : s[k].id \notin IdsOf(t)}
             kept == {k \in DOMAIN t : ~(k \in DOMAIN s /\ s[k] = t[k])}
             outs == {[id |-> s[k].id, at |-> 0, area |-> s[k].area] : k \in gone}
             ins  == {Change(t, k) : k \in kept}
             f == [k \in gone |-> [id |-> s[k].id, at |-> 0, area |-> s[k].area]]
             g == [k \in kept |-> Change(t, k)]
  <1>1. Changes(s, t) = outs \cup ins
    BY DEF Changes, ToSet
  <1>2. IsFiniteSet(DOMAIN s) /\ IsFiniteSet(DOMAIN t)
    BY SceneIs, FS_Interval
  <1>3. IsFiniteSet(gone) /\ IsFiniteSet(kept)
    <2>1. gone \in SUBSET DOMAIN s /\ kept \in SUBSET DOMAIN t
      OBVIOUS
    <2> HIDE DEF gone, kept
    <2> QED
      BY <1>2, <2>1, FS_Subset
  <1>4. f \in Surjection(gone, outs)
    <2>1. f \in [gone -> outs] /\ \A o \in outs : \E k \in gone : f[k] = o
      BY Zenon
    <2> HIDE DEF f, gone, outs
    <2> QED
      BY <2>1 DEF Surjection
  <1>5. g \in Surjection(kept, ins)
    <2>1. g \in [kept -> ins] /\ \A o \in ins : \E k \in kept : g[k] = o
      BY Zenon
    <2> HIDE DEF g, kept, ins
    <2> QED
      BY <2>1 DEF Surjection
  <1> HIDE DEF gone, kept, outs, ins, f, g
  <1>6. IsFiniteSet(outs) /\ IsFiniteSet(ins)
    BY <1>3, <1>4, <1>5, FS_Surjection
  <1> QED
    BY <1>1, <1>6, FS_Union

\* A sequence of a finite set names each of its members.
LEMMA SeqsOfSetAre ==
  ASSUME NEW S, IsFiniteSet(S), NEW delta \in SetToSeqs(S)
  PROVE  \E n \in Nat : /\ delta \in [1 .. n -> S]
                        /\ \A i, j \in 1 .. n : i # j => delta[i] # delta[j]
                        /\ \A c \in S : \E i \in 1 .. n : delta[i] = c
  <1> DEFINE n == Cardinality(S)
  <1>1. n \in Nat
    BY FS_CardinalityType
  <1>2. delta \in [1 .. n -> S] /\ \A i, j \in 1 .. n : i # j => delta[i] # delta[j]
    BY DEF SetToSeqs
  <1>3. delta \in Injection(1 .. n, S)
    BY <1>2 DEF Injection, IsInjective
  <1>4. IsFiniteSet(1 .. n) /\ Cardinality(1 .. n) = n
    <2> HIDE DEF n
    <2>1. 1 \in Int /\ n \in Int /\ (1 > n => n = 0) /\ n - 1 + 1 = n
      BY <1>1
    <2> QED
      BY <2>1, FS_Interval
  <1>5. delta \in Surjection(1 .. n, S)
    BY <1>3, <1>4, FS_Injection
  <1>6. \A c \in S : \E i \in 1 .. n : delta[i] = c
    BY <1>2, <1>5 DEF Surjection
  <1> QED
    BY <1>1, <1>2, <1>6

\* Patched in any order with what an edit changed, an index of the scene before the
\* edit becomes one of the scene after it.
LEMMA PatchedMatches ==
  ASSUME IndexConstants, NEW i \in SoundIndexes, i.ok,
         NEW s, IsScene(s), NEW t, IsScene(t), NEW delta \in SetToSeqs(Changes(s, t))
  PROVE  /\ ApplyDelta(i, delta) \in SoundIndexes
         /\ Matches(i, s) /\ ApplyDelta(i, delta).ok => Matches(ApplyDelta(i, delta), t)
  <1> DEFINE b == ApplyDelta(i, delta)
             cs == Changes(s, t)
  <1>1. IsFiniteSet(cs)
    BY ChangesFinite
  <1>2. PICK n \in Nat : /\ delta \in [1 .. n -> cs]
                         /\ \A k, l \in 1 .. n : k # l => delta[k] # delta[l]
                         /\ \A c \in cs : \E k \in 1 .. n : delta[k] = c
    BY <1>1, SeqsOfSetAre
  <1>3. /\ \A c \in cs :
              /\ c \in ChangeRecords
              /\ \/ c.at = 0 /\ c.id \in IdsOf(s) /\ c.id \notin IdsOf(t)
                 \/ \E k \in DOMAIN t : c = Change(t, k) /\ ~(k \in DOMAIN s /\ s[k] = t[k])
        /\ \A c, d \in cs : c.id = d.id => c = d
        /\ \A id \in IdsOf(s) \ IdsOf(t) : \E c \in cs : c.id = id /\ c.at = 0
        /\ \A k \in DOMAIN t : ~(k \in DOMAIN s /\ s[k] = t[k]) => Change(t, k) \in cs
    BY ChangesAre
  <1> HIDE DEF cs
  <1>4. delta \in [1 .. n -> ChangeRecords] /\ OnePerElement(delta, n)
    BY <1>2, <1>3 DEF OnePerElement
  <1>5. Patches(b, i, delta, n)
    BY <1>4, ApplyDeltaPatches
  <1>6. b \in SoundIndexes /\ DOMAIN b.bounds \subseteq Elements
    <2>1. b \in SoundIndexes
      BY <1>5 DEF Patches
    <2>2. b.bounds \in Maps(Areas)
      BY <2>1 DEF SoundIndexes, Indexes
    <2> QED
      BY <2>1, <2>2, MapsAre
  <1> HIDE DEF b
  <1>7. ASSUME Matches(i, s), b.ok PROVE Matches(b, t)
    <2>0. /\ \A c \in cs : Holds(b, c)
          /\ \A id \in Elements : (\A c \in cs : c.id # id) => SameAt(b, i, id)
      <3>1. ASSUME NEW c \in cs PROVE Holds(b, c)
        <4>1. PICK k \in 1 .. n : delta[k] = c
          BY <1>2
        <4> QED
          BY <1>5, <1>7, <4>1 DEF Patches
      <3>2. ASSUME NEW id \in Elements, \A c \in cs : c.id # id PROVE SameAt(b, i, id)
        <4>1. \A k \in 1 .. n : delta[k].id # id
          BY <1>2, <3>2
        <4> QED
          BY <1>5, <1>7, <4>1 DEF Patches
      <3> QED
        BY <3>1, <3>2
    <2>1. ASSUME NEW k \in DOMAIN t
          PROVE  t[k].id \in DOMAIN b.bounds /\ b.bounds[t[k].id] = t[k].area /\ b.order[t[k].id] = k
      <3>0. k # 0 /\ t[k].id \in Elements /\ t[k].id \in IdsOf(t)
        BY SceneIs DEF IdsOf
      <3>1. CASE ~(k \in DOMAIN s /\ s[k] = t[k])
        <4>1. Holds(b, Change(t, k))
          BY <1>3, <2>0, <3>1
        <4> QED
          BY <3>0, <4>1 DEF Holds, Change
      <3>2. CASE k \in DOMAIN s /\ s[k] = t[k]
        <4>1. ASSUME NEW c \in cs, c.id = t[k].id PROVE FALSE
          <5>1. PICK l \in DOMAIN t : c = Change(t, l) /\ ~(l \in DOMAIN s /\ s[l] = t[l])
            BY <1>3, <3>0, <4>1
          <5>2. t[l].id = t[k].id
            BY <4>1, <5>1 DEF Change
          <5>3. k = l
            BY <5>2, SceneIs
          <5> QED
            BY <3>2, <5>1, <5>3
        <4>2. SameAt(b, i, t[k].id)
          BY <2>0, <3>0, <4>1
        <4>3. t[k].id \in DOMAIN i.bounds /\ i.bounds[t[k].id] = t[k].area /\ i.order[t[k].id] = k
          BY <1>7, <3>2 DEF Matches, IdsOf
        <4> QED
          BY <4>2, <4>3 DEF SameAt
      <3> QED
        BY <3>1, <3>2
    <2>2. ASSUME NEW id \in DOMAIN b.bounds PROVE id \in IdsOf(t)
      <3> SUFFICES ASSUME id \notin IdsOf(t) PROVE FALSE
        OBVIOUS
      <3>1. CASE id \in IdsOf(s)
        <4>1. PICK c \in cs : c.id = id /\ c.at = 0
          BY <1>3, <3>1
        <4> QED
          BY <2>0, <4>1 DEF Holds
      <3>2. CASE id \notin IdsOf(s)
        <4>1. \A c \in cs : c.id # id
          BY <1>3, <3>2 DEF Change, IdsOf
        <4>2. SameAt(b, i, id)
          BY <1>6, <2>0, <4>1
        <4> QED
          BY <1>7, <3>2, <4>2 DEF SameAt, Matches
      <3> QED
        BY <3>1, <3>2
    <2>3. Closed(b)
      BY <1>5, <1>7 DEF Patches, Matches
    <2>4. DOMAIN b.bounds = IdsOf(t)
      BY <2>1, <2>2 DEF IdsOf
    <2> QED
      BY <2>1, <2>3, <2>4 DEF Matches
  <1> QED
    BY <1>6, <1>7 DEF b

--------------------------------------------------------------------------------
(* The edits keep the ids of a scene unique.                                    *)

\* A new element leaves the ids of a scene distinct.
LEMMA InsertKeepsScene ==
  ASSUME NEW s, IsScene(s), NEW e \in Elems, e.id \notin IdsOf(s), NEW i \in 1 .. Len(s) + 1
  PROVE  IsScene(InsertAt(s, i, e))
  <1> DEFINE n == Len(s)
             t == InsertAt(s, i, e)
  <1>1. n \in Nat /\ DOMAIN s = 1 .. n /\ s \in Seq(Elems)
        /\ \A k, l \in 1 .. n : s[k].id = s[l].id => k = l
    BY SceneIs DEF IsScene
  <1>2. i \in Nat \ {0} /\ i <= n + 1
    BY <1>1
  <1>3. /\ t \in Seq(Elems)
        /\ Len(t) = n + 1
        /\ \A k \in 1 .. n + 1 : t[k] = IF k < i THEN s[k] ELSE IF k = i THEN e ELSE s[k - 1]
    <2> DEFINE a == SubSeq(s, 1, i - 1)
               b == SubSeq(s, i, n)
               m == a \o <<e>>
    <2>0. s \in [1 .. n -> Elems]
      BY <1>1
    <2>1. /\ a \in Seq(Elems) /\ Len(a) = i - 1
          /\ \A k \in 1 .. i - 1 : a[k] = s[k]
      <3>1. \A k \in 1 .. i - 1 : s[k] \in Elems
        BY <1>1, <1>2, <2>0
      <3>2. 1 \in Int /\ i - 1 \in Int
        BY <1>2
      <3>3. /\ a \in Seq(Elems) /\ Len(a) = IF 1 <= i - 1 THEN (i - 1) - 1 + 1 ELSE 0
            /\ \A k \in 1 .. (i - 1) - 1 + 1 : a[k] = s[1 + k - 1]
        BY <3>1, <3>2, SubSeqProperties
      <3> HIDE DEF a
      <3> QED
        BY <1>2, <3>3
    <2>2. /\ b \in Seq(Elems) /\ Len(b) = n - i + 1
          /\ \A k \in 1 .. n - i + 1 : b[k] = s[i + k - 1]
      <3>1. \A k \in i .. n : s[k] \in Elems
        BY <1>1, <1>2, <2>0
      <3>2. n \in Int /\ i \in Int
        BY <1>1, <1>2
      <3>3. /\ b \in Seq(Elems) /\ Len(b) = IF i <= n THEN n - i + 1 ELSE 0
            /\ \A k \in 1 .. n - i + 1 : b[k] = s[i + k - 1]
        BY <3>1, <3>2, SubSeqProperties
      <3> HIDE DEF b, n
      <3> QED
        BY <1>1, <1>2, <3>3
    <2> HIDE DEF a, b
    <2>3. <<e>> \in Seq(Elems) /\ Len(<<e>>) = 1 /\ <<e>>[1] = e
      OBVIOUS
    <2>4. /\ m \in Seq(Elems) /\ Len(m) = i
          /\ \A k \in 1 .. i : m[k] = IF k < i THEN s[k] ELSE e
      <3>1. /\ m \in Seq(Elems) /\ Len(m) = Len(a) + Len(<<e>>)
            /\ \A k \in 1 .. Len(a) + Len(<<e>>) :
                  m[k] = IF k <= Len(a) THEN a[k] ELSE <<e>>[k - Len(a)]
        BY <2>1, <2>3, ConcatProperties
      <3>2. /\ m \in Seq(Elems) /\ Len(m) = i
            /\ \A k \in 1 .. i : m[k] = IF k <= i - 1 THEN a[k] ELSE <<e>>[k - (i - 1)]
        BY <1>2, <2>1, <2>3, <3>1
      <3> HIDE DEF m
      <3>3. ASSUME NEW k \in 1 .. i PROVE m[k] = IF k < i THEN s[k] ELSE e
        <4>1. CASE k < i
          BY <1>2, <2>1, <3>2, <4>1
        <4>2. CASE k = i
          <5>1. k - (i - 1) = 1
            BY <1>2, <4>2
          <5> QED
            BY <1>2, <2>3, <3>2, <4>2, <5>1
        <4> QED
          BY <1>2, <4>1, <4>2
      <3> QED
        BY <3>2, <3>3
    <2>5. t = m \o b
      BY DEF InsertAt, a, b
    <2> HIDE DEF m, t
    <2>6. /\ t \in Seq(Elems) /\ Len(t) = Len(m) + Len(b)
          /\ \A k \in 1 .. Len(m) + Len(b) : t[k] = IF k <= Len(m) THEN m[k] ELSE b[k - Len(m)]
      BY <2>2, <2>4, <2>5, ConcatProperties
    <2> HIDE DEF n
    <2>7. Len(m) + Len(b) = n + 1
      BY <1>1, <1>2, <2>2, <2>4
    <2>8. ASSUME NEW k \in 1 .. n + 1
          PROVE  t[k] = IF k < i THEN s[k] ELSE IF k = i THEN e ELSE s[k - 1]
      <3>1. CASE k <= i
        BY <1>1, <1>2, <2>4, <2>6, <2>7, <3>1
      <3>2. CASE k > i
        <4>1. t[k] = b[k - i]
          BY <1>1, <1>2, <2>4, <2>6, <2>7, <3>2
        <4>2. k - i \in 1 .. n - i + 1 /\ i + (k - i) - 1 = k - 1
          BY <1>1, <1>2, <3>2
        <4>3. b[k - i] = s[k - 1]
          BY <2>2, <4>2
        <4> QED
          BY <1>1, <1>2, <3>2, <4>1, <4>3
      <3> QED
        BY <1>1, <1>2, <3>1, <3>2
    <2> QED
      BY <2>6, <2>7, <2>8
  <1>4. \A k \in 1 .. n : s[k].id # e.id
    BY <1>1 DEF IdsOf
  <1> HIDE DEF t, n
  <1>5. ASSUME NEW k \in 1 .. n + 1, NEW l \in 1 .. n + 1, k < l, t[k].id = t[l].id
        PROVE  FALSE
    <2>1. CASE k = i
      <3>1. t[k] = e /\ t[l] = s[l - 1] /\ l - 1 \in 1 .. n
        BY <1>1, <1>2, <1>3, <1>5, <2>1
      <3> QED
        BY <1>4, <1>5, <3>1
    <2>2. CASE l = i
      <3>1. t[k] = s[k] /\ t[l] = e /\ k \in 1 .. n
        BY <1>1, <1>2, <1>3, <1>5, <2>2
      <3> QED
        BY <1>4, <1>5, <3>1
    <2>3. CASE k < i /\ l < i
      <3>1. t[k] = s[k] /\ t[l] = s[l] /\ k \in 1 .. n /\ l \in 1 .. n
        BY <1>1, <1>2, <1>3, <1>5, <2>3
      <3> QED
        BY <1>1, <1>5, <3>1
    <2>4. CASE k < i /\ i < l
      <3>1. t[k] = s[k] /\ t[l] = s[l - 1] /\ k \in 1 .. n /\ l - 1 \in 1 .. n /\ k # l - 1
        BY <1>1, <1>2, <1>3, <1>5, <2>4
      <3> QED
        BY <1>1, <1>5, <3>1
    <2>5. CASE i < k
      <3>1. t[k] = s[k - 1] /\ t[l] = s[l - 1] /\ k - 1 \in 1 .. n /\ l - 1 \in 1 .. n
        BY <1>1, <1>2, <1>3, <1>5, <2>5
      <3>2. k - 1 # l - 1
        BY <1>1, <1>5
      <3> QED
        BY <1>1, <1>5, <3>1, <3>2
    <2> QED
      BY <1>1, <1>2, <1>5, <2>1, <2>2, <2>3, <2>4, <2>5
  <1>6. DOMAIN t = 1 .. n + 1
    BY <1>3
  <1>7. \A k, l \in DOMAIN t : t[k].id = t[l].id => k = l
    <2> SUFFICES ASSUME NEW k \in 1 .. n + 1, NEW l \in 1 .. n + 1, t[k].id = t[l].id, k # l
                 PROVE  FALSE
      BY <1>6
    <2>1. k < l \/ l < k
      BY <1>1
    <2> QED
      BY <1>5, <2>1
  <1> QED
    BY <1>3, <1>7 DEF t, IsScene

\* So does the removal of one.
LEMMA RemoveKeepsScene ==
  ASSUME NEW s, IsScene(s), NEW i \in DOMAIN s
  PROVE  IsScene(RemoveAt(s, i))
  <1> DEFINE n == Len(s)
             t == RemoveAt(s, i)
  <1>1. n \in Nat /\ DOMAIN s = 1 .. n /\ s \in Seq(Elems) /\ i \in 1 .. n
        /\ \A k, l \in 1 .. n : s[k].id = s[l].id => k = l
    BY SceneIs DEF IsScene
  <1>2. /\ t \in Seq(Elems)
        /\ Len(t) = n - 1
        /\ \A k \in 1 .. n - 1 : t[k] = IF k < i THEN s[k] ELSE s[k + 1]
    <2> DEFINE a == SubSeq(s, 1, i - 1)
               b == SubSeq(s, i + 1, n)
    <2>0. s \in [1 .. n -> Elems] /\ i \in Nat \ {0} /\ i <= n
      BY <1>1
    <2>1. /\ a \in Seq(Elems) /\ Len(a) = i - 1
          /\ \A k \in 1 .. i - 1 : a[k] = s[k]
      <3>1. \A k \in 1 .. i - 1 : s[k] \in Elems
        BY <1>1, <2>0
      <3>2. 1 \in Int /\ i - 1 \in Int
        BY <2>0
      <3>3. /\ a \in Seq(Elems) /\ Len(a) = IF 1 <= i - 1 THEN (i - 1) - 1 + 1 ELSE 0
            /\ \A k \in 1 .. (i - 1) - 1 + 1 : a[k] = s[1 + k - 1]
        BY <3>1, <3>2, SubSeqProperties
      <3> HIDE DEF a
      <3> QED
        BY <2>0, <3>3
    <2>2. /\ b \in Seq(Elems) /\ Len(b) = n - i
          /\ \A k \in 1 .. n - i : b[k] = s[i + k]
      <3>1. \A k \in i + 1 .. n : s[k] \in Elems
        BY <1>1, <2>0
      <3>2. n \in Int /\ i + 1 \in Int
        BY <1>1, <2>0
      <3>3. /\ b \in Seq(Elems) /\ Len(b) = IF i + 1 <= n THEN n - (i + 1) + 1 ELSE 0
            /\ \A k \in 1 .. n - (i + 1) + 1 : b[k] = s[(i + 1) + k - 1]
        BY <3>1, <3>2, SubSeqProperties
      <3>4. n - (i + 1) + 1 = n - i /\ \A k \in 1 .. n - i : (i + 1) + k - 1 = i + k
        BY <1>1, <2>0
      <3> HIDE DEF b, n
      <3> QED
        BY <1>1, <2>0, <3>3, <3>4
    <2> HIDE DEF a, b
    <2>3. t = a \o b
      BY DEF RemoveAt, a, b
    <2> HIDE DEF t
    <2>4. /\ t \in Seq(Elems) /\ Len(t) = Len(a) + Len(b)
          /\ \A k \in 1 .. Len(a) + Len(b) : t[k] = IF k <= Len(a) THEN a[k] ELSE b[k - Len(a)]
      BY <2>1, <2>2, <2>3, ConcatProperties
    <2> HIDE DEF n
    <2>5. Len(a) + Len(b) = n - 1
      BY <1>1, <2>0, <2>1, <2>2
    <2>6. ASSUME NEW k \in 1 .. n - 1
          PROVE  t[k] = IF k < i THEN s[k] ELSE s[k + 1]
      <3>1. CASE k < i
        BY <1>1, <2>0, <2>1, <2>4, <2>5, <3>1
      <3>2. CASE k >= i
        <4>1. t[k] = b[k - (i - 1)]
          BY <1>1, <2>0, <2>1, <2>4, <2>5, <3>2
        <4>2. k - (i - 1) \in 1 .. n - i /\ i + (k - (i - 1)) = k + 1
          BY <1>1, <2>0, <3>2
        <4>3. b[k - (i - 1)] = s[k + 1]
          BY <2>2, <4>2
        <4> QED
          BY <1>1, <2>0, <3>2, <4>1, <4>3
      <3> QED
        BY <1>1, <2>0, <3>1, <3>2
    <2> QED
      BY <2>4, <2>5, <2>6
  <1> DEFINE at(p) == IF p < i THEN p ELSE p + 1
  <1>3. \A k \in 1 .. n - 1 : at(k) \in 1 .. n /\ t[k] = s[at(k)]
    BY <1>1, <1>2
  <1>4. \A k, l \in 1 .. n - 1 : at(k) = at(l) => k = l
    BY <1>1
  <1>5. DOMAIN t = 1 .. n - 1
    BY <1>1, <1>2
  <1> HIDE DEF at, t, n
  <1>6. \A k, l \in DOMAIN t : t[k].id = t[l].id => k = l
    BY <1>1, <1>3, <1>4, <1>5
  <1> QED
    BY <1>2, <1>6 DEF t, IsScene

\* So does a move of one.
LEMMA MoveKeepsScene ==
  ASSUME NEW s, IsScene(s), NEW i \in DOMAIN s, NEW r \in Areas
  PROVE  IsScene([s EXCEPT ![i].area = r])
  <1> DEFINE n == Len(s)
             t == [s EXCEPT ![i].area = r]
  <1>1. /\ n \in Nat /\ DOMAIN s = 1 .. n /\ s \in Seq(Elems) /\ i \in 1 .. n
        /\ \A k \in 1 .. n : s[k] \in Elems
        /\ \A k, l \in 1 .. n : s[k].id = s[l].id => k = l
    BY SceneIs DEF IsScene
  <1>2. \A k \in 1 .. n : t[k] \in Elems /\ t[k].id = s[k].id
    BY <1>1 DEF Elems
  <1>3. DOMAIN t = 1 .. n /\ t \in [1 .. n -> Elems]
    BY <1>1, <1>2
  <1> HIDE DEF t, n
  <1>4. t \in Seq(Elems)
    BY <1>1, <1>3
  <1> QED
    BY <1>1, <1>2, <1>3, <1>4 DEF t, IsScene

--------------------------------------------------------------------------------
(* The invariant.                                                               *)

\* The elements that meet a rectangle.
Met(s, r) == {e.id : e \in {f \in ToSet(s) : Intersects(f.area, r)}}

\* An element's place is where its id is.
LEMMA PlaceIs ==
  ASSUME NEW s, IsScene(s), NEW k \in DOMAIN s
  PROVE  PlaceOf(s, s[k].id) = k
  <1>1. \A l \in DOMAIN s : s[l].id = s[k].id => l = k
    BY SceneIs
  <1> QED
    BY <1>1 DEF PlaceOf

\* An index that agrees with the scene answers as the scene would.
LEMMA HitsAre ==
  ASSUME IndexConstants, NEW i \in SoundIndexes, NEW s, IsScene(s), Matches(i, s), NEW r \in Rects
  PROVE  Hits(i, r) = Met(s, r)
  <1>1. Hits(i, r) = {id \in DOMAIN i.bounds : Intersects(i.bounds[id], r)}
    BY QueryIsExact
  <1>2. ASSUME NEW id \in Hits(i, r) PROVE id \in Met(s, r)
    <2>1. PICK k \in DOMAIN s : s[k].id = id
      BY <1>1, <1>2 DEF Matches, IdsOf
    <2>2. Intersects(s[k].area, r) /\ s[k] \in ToSet(s)
      BY <1>1, <1>2, <2>1 DEF Matches, ToSet
    <2> QED
      BY <2>1, <2>2 DEF Met
  <1>3. ASSUME NEW id \in Met(s, r) PROVE id \in Hits(i, r)
    <2>1. PICK e \in ToSet(s) : Intersects(e.area, r) /\ e.id = id
      BY <1>3 DEF Met
    <2>2. PICK k \in DOMAIN s : e = s[k]
      BY <2>1 DEF ToSet
    <2>3. id \in DOMAIN i.bounds /\ i.bounds[id] = e.area
      BY <2>1, <2>2 DEF Matches, IdsOf
    <2> QED
      BY <1>1, <2>1, <2>3
  <1> QED
    BY <1>2, <1>3

\* A selection that was made from this scene is in paint order and has what its mode
\* says.
SelectionFits(s, sel) ==
    LET ids == sel.ids
        met == Met(s, sel.area)
    IN  /\ \A i, j \in DOMAIN ids : i < j => PlaceOf(s, ids[i]) < PlaceOf(s, ids[j])
        /\ sel.mode = "Replace" => ToSet(ids) = met
        /\ sel.mode = "Add" => met \subseteq ToSet(ids)

\* Unless a patch was refused the index agrees with the scene.
SceneInv ==
    /\ IsScene(scene)
    /\ Indexed \in SoundIndexes
    /\ broken \in BOOLEAN
    /\ ~broken => Matches(Indexed, scene)
    /\ ~broken /\ "mode" \in DOMAIN selected => SelectionFits(scene, selected)

\* Elements that are sorted by an agreeing index are in paint order.
LEMMA SortedIsPainted ==
  ASSUME NEW i \in SoundIndexes, NEW s, IsScene(s), Matches(i, s),
         NEW ids \in SUBSET IdsOf(s), NEW seq \in SortedBy(ids, i.order)
  PROVE  /\ ToSet(seq) = ids
         /\ \A k, l \in DOMAIN seq : k < l => PlaceOf(s, seq[k]) < PlaceOf(s, seq[l])
  <1>1. ToSet(seq) = ids /\ Ascending(seq, i.order)
    BY DEF SortedBy
  <1>2. ASSUME NEW k \in DOMAIN seq, NEW l \in DOMAIN seq, k < l
        PROVE  PlaceOf(s, seq[k]) < PlaceOf(s, seq[l])
    <2>1. seq[k] \in IdsOf(s) /\ seq[l] \in IdsOf(s) /\ seq[k] # seq[l]
      BY <1>1, <1>2 DEF ToSet, Ascending
    <2>2. PICK a \in DOMAIN s : s[a].id = seq[k]
      BY <2>1 DEF IdsOf
    <2>3. PICK b \in DOMAIN s : s[b].id = seq[l]
      BY <2>1 DEF IdsOf
    <2>4. seq[l] \in DOMAIN i.order /\ i.order[seq[k]] = a /\ i.order[seq[l]] = b
      BY <2>1, <2>2, <2>3 DEF Matches, Closed
    <2>5. a <= b /\ a # b /\ a \in Nat /\ b \in Nat
      BY <1>1, <1>2, <2>1, <2>2, <2>3, <2>4, SceneIs DEF Ascending
    <2>6. PlaceOf(s, seq[k]) = a /\ PlaceOf(s, seq[l]) = b
      BY <2>2, <2>3, PlaceIs
    <2> QED
      BY <2>5, <2>6
  <1> QED
    BY <1>1, <1>2

\* An edit: the index is patched with what it changed.
LEMMA RearrangeKeeps ==
  ASSUME IndexConstants, SceneInv, NEW t, IsScene(t), Rearrange(t)
  PROVE  SceneInv'
  <1>1. PICK delta \in SetToSeqs(Changes(scene, t)) :
            /\ scene' = t
            /\ Put(ApplyDelta(Indexed, delta))
            /\ broken' = (broken \/ ~ApplyDelta(Indexed, delta).ok)
            /\ selected' = [ids |-> selected.ids]
    BY DEF Rearrange
  <1> DEFINE b == ApplyDelta(Indexed, delta)
  <1>2. Indexed \in SoundIndexes /\ Indexed.ok /\ IsScene(scene)
    BY DEF SceneInv, Indexed
  <1>3. /\ b \in SoundIndexes
        /\ Matches(Indexed, scene) /\ b.ok => Matches(b, t)
    BY <1>2, PatchedMatches
  <1>4. cells' = b.cells /\ bounds' = b.bounds /\ order' = b.order
    BY <1>1 DEF Put
  <1>5. Indexed' = [ok |-> TRUE, cells |-> b.cells, bounds |-> b.bounds, order |-> b.order]
    BY <1>4 DEF Indexed
  <1> HIDE DEF b
  <1>6. b \in Indexes /\ Sound(b) /\ b.ok \in BOOLEAN
    BY <1>3 DEF SoundIndexes, Indexes
  <1>7. Indexed' \in SoundIndexes
    BY <1>5, <1>6 DEF SoundIndexes, Indexes, Sound
  <1>8. broken' \in BOOLEAN
    BY <1>1, <1>6 DEF SceneInv, b
  <1>9. ASSUME ~broken' PROVE Matches(Indexed', t)
    <2>1. ~broken /\ b.ok
      BY <1>1, <1>6, <1>9 DEF SceneInv, b
    <2>2. Matches(b, t)
      BY <1>3, <2>1 DEF SceneInv
    <2> QED
      BY <1>5, <2>2 DEF Matches, Closed
  <1>10. "mode" \notin DOMAIN selected'
    BY <1>1
  <1> QED
    BY <1>1, <1>7, <1>8, <1>9, <1>10 DEF SceneInv

\* build, once a patch was refused.
LEMMA RebuildKeeps ==
  ASSUME IndexConstants, SceneInv, Rebuild
  PROVE  SceneInv'
  <1> DEFINE b == Build(scene)
  <1>1. /\ \/ b.ok /\ Put(b) /\ broken' = FALSE
           \/ ~b.ok /\ UNCHANGED <<cells, bounds, order, broken>>
        /\ selected' = [ids |-> selected.ids] /\ scene' = scene /\ broken
    BY DEF Rebuild
  <1>2. IsScene(scene) /\ b \in SoundIndexes /\ (b.ok => Matches(b, scene))
    BY BuildMatches DEF SceneInv
  <1> HIDE DEF b
  <1>3. "mode" \notin DOMAIN selected'
    BY <1>1
  <1>4. CASE b.ok /\ Put(b) /\ broken' = FALSE
    <2>1. Indexed' = [ok |-> TRUE, cells |-> b.cells, bounds |-> b.bounds, order |-> b.order]
      BY <1>4 DEF Indexed, Put
    <2>2. b \in Indexes /\ Sound(b)
      BY <1>2 DEF SoundIndexes
    <2>3. Indexed' \in SoundIndexes
      BY <2>1, <2>2 DEF SoundIndexes, Indexes, Sound
    <2>4. Matches(Indexed', scene)
      BY <1>2, <1>4, <2>1 DEF Matches, Closed
    <2> QED
      BY <1>1, <1>2, <1>3, <1>4, <2>3, <2>4 DEF SceneInv
  <1>5. CASE ~b.ok /\ UNCHANGED <<cells, bounds, order, broken>>
    <2>1. Indexed' = Indexed /\ broken' = broken
      BY <1>5 DEF Indexed
    <2> QED
      BY <1>1, <1>3, <2>1 DEF SceneInv
  <1> QED
    BY <1>1, <1>4, <1>5

\* A selection is made of what the index finds.
LEMMA SelectRectKeeps ==
  ASSUME IndexConstants, SceneInv, SelectRect
  PROVE  SceneInv'
  <1>1. PICK r \in Areas, mode \in {"Replace", "Add", "Toggle"} :
          \E ids \in SortedBy(Chosen(mode, selected.ids, Hits(Indexed, r)), order) :
              selected' = [ids |-> ids, area |-> r, mode |-> mode]
    BY DEF SelectRect
  <1> DEFINE chosen == Chosen(mode, selected.ids, Hits(Indexed, r))
  <1>2. PICK ids \in SortedBy(chosen, order) :
              selected' = [ids |-> ids, area |-> r, mode |-> mode]
    BY <1>1
  <1>3. scene' = scene /\ broken' = broken /\ Indexed' = Indexed
    BY DEF SelectRect, Indexed
  <1>4. IsScene(scene) /\ Indexed \in SoundIndexes /\ r \in Rects
    BY AreasAreRects DEF SceneInv
  <1>5. ASSUME ~broken PROVE SelectionFits(scene, selected')
    <2>1. Matches(Indexed, scene)
      BY <1>5 DEF SceneInv
    <2>2. Hits(Indexed, r) = Met(scene, r)
      BY <1>4, <2>1, HitsAre
    <2>3. Met(scene, r) \subseteq IdsOf(scene)
      BY DEF Met, ToSet, IdsOf
    <2>4. /\ chosen \in SUBSET IdsOf(scene)
          /\ mode = "Replace" => chosen = Met(scene, r)
          /\ mode = "Add" => Met(scene, r) \subseteq chosen
      BY <2>2, <2>3 DEF Chosen
    <2>5. Indexed.order = order
      BY DEF Indexed
    <2> HIDE DEF chosen
    <2>6. /\ ToSet(ids) = chosen
          /\ \A k, l \in DOMAIN ids : k < l => PlaceOf(scene, ids[k]) < PlaceOf(scene, ids[l])
      BY <1>2, <1>4, <2>1, <2>4, <2>5, SortedIsPainted
    <2>7. selected'.ids = ids /\ selected'.area = r /\ selected'.mode = mode
      BY <1>2
    <2> QED
      BY <2>4, <2>6, <2>7 DEF SelectionFits
  <1> QED
    BY <1>3, <1>5 DEF SceneInv

\* An empty scene has an empty index.
LEMMA SceneInit ==
  ASSUME IndexConstants, Init
  PROVE  SceneInv
  <1>1. scene = <<>> /\ Indexed = Empty /\ broken = FALSE /\ "mode" \notin DOMAIN selected
    BY DEF Init, Indexed, Empty
  <1>2. IsScene(<<>>)
    BY DEF IsScene
  <1>3. IdsOf(<<>>) = {} /\ DOMAIN <<>> = {}
    BY DEF IdsOf
  <1>4. Matches(Empty, <<>>)
    BY <1>3, EmptySound DEF Matches
  <1> QED
    BY <1>1, <1>2, <1>4, EmptySound DEF SceneInv

\* Every edit, build and selection keeps the index as the scene has it.
LEMMA SceneNextKeeps ==
  ASSUME IndexConstants, SceneInv, [Next]_vars
  PROVE  SceneInv'
  <1>0. IsScene(scene)
    BY DEF SceneInv
  <1>1. CASE AddElement
    <2>1. PICK id \in Elements \ IdsOf(scene), r \in Areas, i \in 1 .. Len(scene) + 1 :
              Rearrange(InsertAt(scene, i, [id |-> id, area |-> r]))
      BY <1>1 DEF AddElement
    <2>2. [id |-> id, area |-> r] \in Elems /\ [id |-> id, area |-> r].id \notin IdsOf(scene)
      BY DEF Elems
    <2>3. IsScene(InsertAt(scene, i, [id |-> id, area |-> r]))
      BY <1>0, <2>2, InsertKeepsScene
    <2> QED
      BY <2>1, <2>3, RearrangeKeeps
  <1>2. CASE MoveElement
    BY <1>0, <1>2, MoveKeepsScene, RearrangeKeeps DEF MoveElement
  <1>3. CASE DeleteElement
    BY <1>0, <1>3, RemoveKeepsScene, RearrangeKeeps DEF DeleteElement
  <1>4. CASE Rebuild
    BY <1>4, RebuildKeeps
  <1>5. CASE SelectRect
    BY <1>5, SelectRectKeeps
  <1>6. CASE UNCHANGED vars
    BY <1>6 DEF vars, SceneInv, Indexed, SelectionFits, Met
  <1> QED
    BY <1>1, <1>2, <1>3, <1>4, <1>5, <1>6 DEF Next

LEMMA SceneInvHolds == ASSUME IndexConstants PROVE Spec => []SceneInv
  <1>1. Init => SceneInv
    BY SceneInit
  <1>2. SceneInv /\ [Next]_vars => SceneInv'
    BY SceneNextKeeps
  <1> QED
    BY <1>1, <1>2, PTL DEF Spec

\* The invariant has the types,
LEMMA SceneInvTypes == ASSUME SceneInv PROVE TypeOK
  <1>1. scene \in Seq([id : Elements, area : Areas])
    BY DEF SceneInv, IsScene, Elems
  <1>2. IsInjective([i \in DOMAIN scene |-> scene[i].id])
    BY DEF SceneInv, IsScene, IsInjective
  <1>3. Indexed.bounds = bounds /\ Indexed.order = order
    BY DEF Indexed
  <1>4. bounds \in UNION {[ids -> Areas] : ids \in SUBSET Elements}
    BY <1>3 DEF SceneInv, SoundIndexes, Indexes, Maps
  <1>5. DOMAIN bounds \subseteq DOMAIN order
    BY <1>3 DEF SceneInv, SoundIndexes, Sound
  <1> QED
    BY <1>1, <1>2, <1>4, <1>5 DEF TypeOK, SceneInv

\* The scene is a sequence of elements with ids of their own, and the index has
\* rectangles of elements and places for them.
THEOREM SceneTypesHold == ASSUME IndexConstants PROVE Spec => []TypeOK
  <1>1. SceneInv => TypeOK
    BY SceneInvTypes
  <1> QED
    BY <1>1, SceneInvHolds, PTL

--------------------------------------------------------------------------------
(* Snapping.                                                                    *)

Places == [x : Int, y : Int]
Snaps  == [point : Places, target : {"None", "Grid", "ElementEdge"}]

\* The nearest of the places in a set that are near, if one is.
SnapFits(b, p, c) ==
    LET nears == {q \in c : Near(p, q)}
    IN  /\ b \in Snaps
        /\ nears = {} => b.target = "None" /\ b.point = p
        /\ nears # {} => /\ b.target # "None" /\ b.point \in nears
                         /\ \A q \in nears : Distance2(p, b.point) <= Distance2(p, q)

\* Squared distances are integers.
LEMMA DistanceIsInt ==
  ASSUME NEW p \in Places, NEW q \in Places
  PROVE  Distance2(p, q) \in Int
  BY DEF Distance2, Places

\* One more place: the nearer of it and the best so far is the nearest of all.
LEMMA NearerFits ==
  ASSUME NEW p \in Places, NEW c \in SUBSET Places, NEW b, SnapFits(b, p, c), NEW q \in Places
  PROVE  SnapFits(Nearer(p, b, q), p, c \cup {q})
  <1> DEFINE d == Nearer(p, b, q)
             nears == {r \in c : Near(p, r)}
             more == {r \in c \cup {q} : Near(p, r)}
  <1>1. /\ b \in Snaps
        /\ nears = {} => b.target = "None" /\ b.point = p
        /\ nears # {} => /\ b.target # "None" /\ b.point \in nears
                         /\ \A r \in nears : Distance2(p, b.point) <= Distance2(p, r)
    BY DEF SnapFits
  <1>2. \A r \in c \cup {q} : Distance2(p, r) \in Int
    BY DistanceIsInt
  <1>3. more = IF Near(p, q) THEN nears \cup {q} ELSE nears
    OBVIOUS
  <1>4. CASE ~Near(p, q)
    <2>1. d = b /\ more = nears
      BY <1>3, <1>4 DEF Nearer
    <2> QED
      BY <1>1, <2>1 DEF SnapFits
  <1>5. CASE Near(p, q) /\ (b.target = "None" \/ Distance2(p, q) < Distance2(p, b.point))
    <2>1. d = [point |-> q, target |-> "ElementEdge"]
      BY <1>5 DEF Nearer
    <2>2. d \in Snaps /\ d.point = q /\ d.target # "None"
      BY <2>1 DEF Snaps
    <2>3. \A r \in more : Distance2(p, q) <= Distance2(p, r)
      <3>1. CASE nears = {}
        BY <1>2, <1>3, <1>5, <3>1
      <3>2. CASE nears # {}
        <4>1. Distance2(p, q) < Distance2(p, b.point) /\ b.point \in c
          BY <1>1, <1>5, <3>2
        <4>2. \A r \in nears : Distance2(p, q) <= Distance2(p, r)
          <5>1. \A r \in nears : r \in c \cup {q} /\ Distance2(p, b.point) <= Distance2(p, r)
            BY <1>1, <3>2
          <5> HIDE DEF nears
          <5> QED
            BY <1>2, <4>1, <5>1
        <4> HIDE DEF nears, more
        <4> QED
          BY <1>2, <1>3, <1>5, <4>2
      <3> QED
        BY <3>1, <3>2
    <2>4. q \in more
      BY <1>5
    <2> HIDE DEF d
    <2> QED
      BY <2>2, <2>3, <2>4 DEF SnapFits, d
  <1>6. CASE Near(p, q) /\ ~(b.target = "None" \/ Distance2(p, q) < Distance2(p, b.point))
    <2>1. d = b
      BY <1>6 DEF Nearer
    <2>2. nears # {} /\ b.point \in nears /\ b.point \in c
      BY <1>1, <1>6
    <2>3. Distance2(p, b.point) <= Distance2(p, q)
      BY <1>2, <1>6, <2>2
    <2>4. \A r \in more : Distance2(p, b.point) <= Distance2(p, r)
      BY <1>1, <1>3, <2>2, <2>3
    <2>5. b.point \in more
      BY <1>3, <2>2
    <2> QED
      BY <1>1, <1>6, <2>1, <2>4, <2>5 DEF SnapFits
  <1> QED
    BY <1>4, <1>5, <1>6

EdgeFolds(f, p, best, seq) ==
    f = [s \in SUBSET DOMAIN seq |->
            IF s = {} THEN best ELSE Nearer(p, f[s \ {Largest(s)}], seq[Largest(s)])]

LEMMA AtEdgesIs ==
  ASSUME NEW p, NEW best, NEW e
  PROVE  AtEdges(p, best, e) =
            (CHOOSE f : EdgeFolds(f, p, best, EdgePoints(p, e.area)))[DOMAIN EdgePoints(p, e.area)]
  BY DEF AtEdges, FoldLeft, MapThenFoldSet, EdgeFolds, Largest, Max

\* A rectangle has four places to snap to.
LEMMA EdgePointsAre ==
  ASSUME NEW p \in Places, NEW r \in Rects
  PROVE  /\ EdgePoints(p, r) \in [1 .. 4 -> Places]
         /\ ToSet(EdgePoints(p, r)) =
               {EdgePoints(p, r)[1], EdgePoints(p, r)[2], EdgePoints(p, r)[3], EdgePoints(p, r)[4]}
         /\ ToSet(EdgePoints(p, r)) \subseteq Places
  <1>1. /\ [p EXCEPT !.x = r.x] \in Places /\ [p EXCEPT !.x = Right(r)] \in Places
        /\ [p EXCEPT !.y = r.y] \in Places /\ [p EXCEPT !.y = Bottom(r)] \in Places
    BY DEF Places, Rects, Right, Bottom
  <1> DEFINE s == EdgePoints(p, r)
  <1>2. s \in [1 .. 4 -> Places] /\ DOMAIN s = 1 .. 4
    BY <1>1 DEF EdgePoints
  <1> HIDE DEF s
  <1>3. ToSet(s) = {s[1], s[2], s[3], s[4]}
    BY <1>2 DEF ToSet
  <1> QED
    BY <1>2, <1>3 DEF s

\* After the edges of an element the snap is the nearest of what it was and of them.
LEMMA AtEdgesFits ==
  ASSUME NEW p \in Places, NEW e \in Elems, e.area \in Rects,
         NEW c \in SUBSET Places, NEW b, SnapFits(b, p, c)
  PROVE  /\ AtEdges(p, b, e) \in Snaps
         /\ SnapFits(AtEdges(p, b, e), p, c \cup ToSet(EdgePoints(p, e.area)))
  <1> DEFINE seq == EdgePoints(p, e.area)
             op == [x \in Snaps \X Places |-> Nearer(p, x[1], x[2])]
             f == CHOOSE h : EdgeFolds(h, p, b, seq)
  <1>1. seq \in [1 .. 4 -> Places] /\ ToSet(seq) = {seq[1], seq[2], seq[3], seq[4]}
        /\ DOMAIN seq = 1 .. 4
    BY EdgePointsAre
  <1> HIDE DEF seq
  <1>2. op \in [Snaps \X Places -> Snaps]
    <2>1. ASSUME NEW s \in Snaps, NEW q \in Places PROVE Nearer(p, s, q) \in Snaps
      BY DEF Nearer, Snaps
    <2> QED
      BY <2>1
  <1>3. b \in Snaps
    BY DEF SnapFits
  <1>4. PICK g \in [SUBSET (1 .. 4) -> Snaps] : Folds(g, op, b, seq, 4)
    <2> HIDE DEF op
    <2> QED
      BY <1>1, <1>2, <1>3, FoldExists
  <1>5. EdgeFolds(g, p, b, seq)
    <2>1. ASSUME NEW s \in SUBSET (1 .. 4), s # {}
          PROVE  op[<<g[s \ {Largest(s)}], seq[Largest(s)]>>]
                    = Nearer(p, g[s \ {Largest(s)}], seq[Largest(s)])
      <3>1. Largest(s) \in s
        BY <2>1, LargestExists
      <3>2. g[s \ {Largest(s)}] \in Snaps /\ seq[Largest(s)] \in Places
        BY <1>1, <3>1
      <3> QED
        BY <3>2
    <2> HIDE DEF op
    <2> QED
      BY <1>1, <1>4, <2>1 DEF Folds, EdgeFolds
  <1>6. EdgeFolds(f, p, b, seq)
    BY <1>5
  <1> HIDE DEF f
  <1>7. \A s \in SUBSET (1 .. 4) :
           f[s] = IF s = {} THEN b ELSE Nearer(p, f[s \ {Largest(s)}], seq[Largest(s)])
    BY <1>1, <1>6 DEF EdgeFolds
  <1>8. f[1 .. 0] = b
    <2>1. 1 .. 0 = {} /\ 1 .. 0 \in SUBSET (1 .. 4)
      OBVIOUS
    <2> QED
      BY <1>7, <2>1
  <1>9. ASSUME NEW k \in 0 .. 3
        PROVE  f[1 .. k + 1] = Nearer(p, f[1 .. k], seq[k + 1])
    <2>1. k \in 0 .. 4 - 1 /\ 4 \in Nat
      OBVIOUS
    <2> QED
      BY <1>7, <2>1, LargestUpTo
  <1> DEFINE c1 == c \cup {seq[1]}
             c2 == c1 \cup {seq[2]}
             c3 == c2 \cup {seq[3]}
             c4 == c3 \cup {seq[4]}
  <1>10. SnapFits(f[1 .. 1], p, c1) /\ c1 \in SUBSET Places
    <2>1. f[1 .. 1] = Nearer(p, b, seq[1]) /\ seq[1] \in Places
      BY <1>1, <1>8, <1>9
    <2> QED
      BY <2>1, NearerFits
  <1> HIDE DEF c1
  <1>11. SnapFits(f[1 .. 2], p, c2) /\ c2 \in SUBSET Places
    <2>1. f[1 .. 2] = Nearer(p, f[1 .. 1], seq[2]) /\ seq[2] \in Places
      BY <1>1, <1>9
    <2> QED
      BY <1>10, <2>1, NearerFits
  <1> HIDE DEF c2
  <1>12. SnapFits(f[1 .. 3], p, c3) /\ c3 \in SUBSET Places
    <2>1. f[1 .. 3] = Nearer(p, f[1 .. 2], seq[3]) /\ seq[3] \in Places
      BY <1>1, <1>9
    <2> QED
      BY <1>11, <2>1, NearerFits
  <1> HIDE DEF c3
  <1>13. SnapFits(f[1 .. 4], p, c4)
    <2>1. f[1 .. 4] = Nearer(p, f[1 .. 3], seq[4]) /\ seq[4] \in Places
      BY <1>1, <1>9
    <2> QED
      BY <1>12, <2>1, NearerFits
  <1>14. c4 = c \cup ToSet(seq)
    BY <1>1 DEF c1, c2, c3
  <1>15. AtEdges(p, b, e) = f[1 .. 4]
    BY <1>1, AtEdgesIs DEF f, seq
  <1> HIDE DEF c4
  <1>16. SnapFits(AtEdges(p, b, e), p, c \cup ToSet(seq))
    BY <1>13, <1>14, <1>15
  <1> QED
    BY <1>16 DEF seq, SnapFits

SnapFolds(f, p, best, s) ==
    f = [u \in SUBSET DOMAIN s |->
            IF u = {} THEN best ELSE AtEdges(p, f[u \ {Largest(u)}], s[Largest(u)])]

LEMMA SnapPointIs ==
  ASSUME NEW s, NEW p
  PROVE  SnapPoint(s, p) = (CHOOSE f : SnapFolds(f, p, Unsnapped(p), s))[DOMAIN s]
  BY DEF SnapPoint, FoldLeft, MapThenFoldSet, SnapFolds, Largest, Max

\* Some places that are near enough decide a snap.
Snapped(p) == {b \in Snaps : \E c \in SUBSET Places : SnapFits(b, p, c)}

\* snap_point is a fold over the elements: each step is AtEdges.
LEMMA SnapPointSteps ==
  ASSUME IndexConstants, NEW s, IsScene(s), NEW p \in Places, Unsnapped(p) \in Snapped(p)
  PROVE  \E f : /\ SnapPoint(s, p) = f[1 .. Len(s)]
                /\ f[1 .. 0] = Unsnapped(p)
                /\ \A k \in 0 .. Len(s) - 1 : f[1 .. k + 1] = AtEdges(p, f[1 .. k], s[k + 1])
  <1> DEFINE n == Len(s)
             base == Unsnapped(p)
             op == [x \in Snapped(p) \X Elems |-> AtEdges(p, x[1], x[2])]
             f == CHOOSE h : SnapFolds(h, p, base, s)
  <1>1. n \in Nat /\ DOMAIN s = 1 .. n /\ s \in [1 .. n -> Elems]
    <2>1. Len(s) \in Nat /\ DOMAIN s = 1 .. Len(s) /\ \A k \in 1 .. Len(s) : s[k] \in Elems
      BY SceneIs
    <2>2. s \in [1 .. Len(s) -> Elems]
      BY LenProperties DEF IsScene
    <2> QED
      BY <2>1, <2>2
  <1>2. op \in [Snapped(p) \X Elems -> Snapped(p)]
    <2>1. ASSUME NEW b \in Snapped(p), NEW e \in Elems PROVE AtEdges(p, b, e) \in Snapped(p)
      <3>1. PICK c \in SUBSET Places : SnapFits(b, p, c)
        BY DEF Snapped
      <3>2. e.area \in Rects
        BY AreasAreRects DEF Elems
      <3>3. /\ AtEdges(p, b, e) \in Snaps
            /\ SnapFits(AtEdges(p, b, e), p, c \cup ToSet(EdgePoints(p, e.area)))
        BY <3>1, <3>2, AtEdgesFits
      <3>4. c \cup ToSet(EdgePoints(p, e.area)) \in SUBSET Places
        BY <3>1, <3>2, EdgePointsAre
      <3> QED
        BY <3>3, <3>4 DEF Snapped
    <2> QED
      BY <2>1
  <1> HIDE DEF n, base
  <1>3. PICK g \in [SUBSET (1 .. n) -> Snapped(p)] : Folds(g, op, base, s, n)
    <2>1. base \in Snapped(p)
      BY DEF base
    <2> HIDE DEF op
    <2> QED
      BY <1>1, <1>2, <2>1, FoldExists
  <1>4. SnapFolds(g, p, base, s)
    <2>1. ASSUME NEW u \in SUBSET (1 .. n), u # {}
          PROVE  op[<<g[u \ {Largest(u)}], s[Largest(u)]>>]
                    = AtEdges(p, g[u \ {Largest(u)}], s[Largest(u)])
      <3>1. Largest(u) \in u
        BY <1>1, <2>1, LargestExists
      <3>2. g[u \ {Largest(u)}] \in Snapped(p) /\ s[Largest(u)] \in Elems
        BY <1>1, <3>1
      <3> QED
        BY <3>2
    <2> HIDE DEF op
    <2> QED
      BY <1>1, <1>3, <2>1 DEF Folds, SnapFolds
  <1>5. SnapFolds(f, p, base, s)
    BY <1>4
  <1> HIDE DEF f
  <1>6. \A u \in SUBSET (1 .. n) :
           f[u] = IF u = {} THEN base ELSE AtEdges(p, f[u \ {Largest(u)}], s[Largest(u)])
    BY <1>1, <1>5 DEF SnapFolds
  <1>7. f[1 .. 0] = base
    <2>1. 1 .. 0 = {} /\ 1 .. 0 \in SUBSET (1 .. n)
      OBVIOUS
    <2> QED
      BY <1>6, <2>1
  <1>8. ASSUME NEW k \in 0 .. n - 1
        PROVE  f[1 .. k + 1] = AtEdges(p, f[1 .. k], s[k + 1])
    BY <1>1, <1>6, LargestUpTo
  <1>9. SnapPoint(s, p) = f[1 .. n]
    BY <1>1, SnapPointIs DEF f, base
  <1> QED
    BY <1>7, <1>8, <1>9 DEF n, base

\* Grid lines are at integers.
LEMMA ToGridIsInt ==
  ASSUME IndexConstants, NEW v \in Int
  PROVE  ToGrid(v) \in Int
  <1>1. GridSize \in Nat \ {0} /\ Magnitude(v) \in Nat
    BY DEF IndexConstants, Magnitude
  <1> DEFINE m == 2 * Magnitude(v) + GridSize
             g == 2 * GridSize
  <1>2. m \in Int /\ g \in Nat \ {0}
    BY <1>1
  <1> HIDE DEF m, g
  <1>3. m \div g \in Int
    BY <1>2
  <1>4. (m \div g) * GridSize \in Int
    BY <1>1, <1>3
  <1> QED
    BY <1>4 DEF ToGrid, m, g

\* Before any element the grid's point is the only place.
LEMMA UnsnappedFits ==
  ASSUME IndexConstants, NEW p \in Places
  PROVE  OnGrid(p) \in Places /\ SnapFits(Unsnapped(p), p, {OnGrid(p)})
  <1>1. OnGrid(p) \in Places
    BY ToGridIsInt DEF OnGrid, Places
  <1> DEFINE g == OnGrid(p)
             nears == {q \in {g} : Near(p, q)}
  <1>2. g \in Places /\ Unsnapped(p) = IF Near(p, g) THEN [point |-> g, target |-> "Grid"]
                                       ELSE [point |-> p, target |-> "None"]
    BY <1>1 DEF Unsnapped
  <1> HIDE DEF g
  <1>3. nears = IF Near(p, g) THEN {g} ELSE {}
    OBVIOUS
  <1>4. Distance2(p, g) \in Int
    BY <1>2, DistanceIsInt
  <1>5. SnapFits(Unsnapped(p), p, {g})
    <2>1. CASE Near(p, g)
      BY <1>2, <1>3, <1>4, <2>1 DEF SnapFits, Snaps
    <2>2. CASE ~Near(p, g)
      BY <1>2, <1>3, <2>2 DEF SnapFits, Snaps
    <2> QED
      BY <2>1, <2>2
  <1> QED
    BY <1>1, <1>5 DEF g

\* What a dragged point can snap to at the first k elements of a scene.
Candidates(s, p, k) ==
    {OnGrid(p)} \cup UNION {ToSet(EdgePoints(p, s[j].area)) : j \in 1 .. k}

\* snap_point gives the nearest of the grid's point and all edges, if one is near.
LEMMA SnapPointFits ==
  ASSUME IndexConstants, NEW s, IsScene(s), NEW p \in Places
  PROVE  SnapFits(SnapPoint(s, p), p, Candidates(s, p, Len(s)))
  <1>1. OnGrid(p) \in Places /\ SnapFits(Unsnapped(p), p, {OnGrid(p)})
    BY UnsnappedFits
  <1>2. Unsnapped(p) \in Snapped(p)
    <2>1. {OnGrid(p)} \in SUBSET Places /\ Unsnapped(p) \in Snaps
      BY <1>1 DEF SnapFits
    <2> QED
      BY <1>1, <2>1 DEF Snapped
  <1>3. PICK f : /\ SnapPoint(s, p) = f[1 .. Len(s)]
                 /\ f[1 .. 0] = Unsnapped(p)
                 /\ \A k \in 0 .. Len(s) - 1 : f[1 .. k + 1] = AtEdges(p, f[1 .. k], s[k + 1])
    BY <1>2, SnapPointSteps
  <1> DEFINE n == Len(s)
             P == {k \in Nat : k <= n => /\ Candidates(s, p, k) \in SUBSET Places
                                         /\ SnapFits(f[1 .. k], p, Candidates(s, p, k))}
  <1>4. n \in Nat /\ \A k \in 1 .. n : s[k] \in Elems /\ s[k].area \in Rects
    BY SceneIs, AreasAreRects
  <1>5. 0 \in P
    <2>1. Candidates(s, p, 0) = {OnGrid(p)}
      BY DEF Candidates
    <2> QED
      BY <1>1, <1>3, <2>1
  <1>6. ASSUME NEW k \in P PROVE k + 1 \in P
    <2>0. k \in Nat /\ (k <= n => /\ Candidates(s, p, k) \in SUBSET Places
                                  /\ SnapFits(f[1 .. k], p, Candidates(s, p, k)))
      OBVIOUS
    <2> HIDE DEF P
    <2> SUFFICES ASSUME k + 1 <= n
                 PROVE  /\ Candidates(s, p, k + 1) \in SUBSET Places
                        /\ SnapFits(f[1 .. k + 1], p, Candidates(s, p, k + 1))
      BY <2>0 DEF P
    <2> DEFINE e == s[k + 1]
               c == Candidates(s, p, k)
    <2>1. k \in 0 .. n - 1 /\ k + 1 \in 1 .. n /\ k <= n
      BY <1>4, <2>0
    <2>2. e \in Elems /\ e.area \in Rects /\ ToSet(EdgePoints(p, e.area)) \subseteq Places
      BY <1>4, <2>1, EdgePointsAre
    <2>3. c \in SUBSET Places /\ SnapFits(f[1 .. k], p, c)
      BY <2>0, <2>1
    <2>4. Candidates(s, p, k + 1) = c \cup ToSet(EdgePoints(p, e.area))
      <3>1. \A j : j \in 1 .. k + 1 <=> j \in 1 .. k \/ j = k + 1
        BY <2>0
      <3>2. {ToSet(EdgePoints(p, s[j].area)) : j \in 1 .. k + 1} =
               {ToSet(EdgePoints(p, s[j].area)) : j \in 1 .. k} \cup {ToSet(EdgePoints(p, e.area))}
        BY <3>1, Zenon
      <3> QED
        BY <3>2, Zenon DEF Candidates
    <2> HIDE DEF c, e
    <2>5. SnapFits(AtEdges(p, f[1 .. k], e), p, c \cup ToSet(EdgePoints(p, e.area)))
      BY <2>2, <2>3, AtEdgesFits
    <2>6. f[1 .. k + 1] = AtEdges(p, f[1 .. k], e)
      BY <1>3, <2>1 DEF e, n
    <2> QED
      BY <2>2, <2>3, <2>4, <2>5, <2>6
  <1>7. P = Nat
    <2> HIDE DEF P
    <2>1. P \in SUBSET Nat
      BY DEF P
    <2> QED
      BY <1>5, <1>6, <2>1, SetInduction
  <1>8. n \in P
    BY <1>4, <1>7
  <1>9. n <= n
    BY <1>4
  <1> QED
    BY <1>3, <1>8, <1>9

\* A dragged point goes to what is nearest.
LEMMA SnapsToTheNearest ==
  ASSUME IndexConstants, IsScene(scene), NEW p \in Points
  PROVE  SnapIsNearest(p)
  <1>1. p \in Places
    BY DEF IndexConstants, Places
  <1> DEFINE c == Candidates(scene, p, Len(scene))
             d == {OnGrid(p)} \cup UNION {ToSet(EdgePoints(p, e.area)) : e \in ToSet(scene)}
  <1>2. SnapFits(SnapPoint(scene, p), p, c)
    BY <1>1, SnapPointFits
  <1>3. c = d
    <2>1. DOMAIN scene = 1 .. Len(scene)
      BY SceneIs
    <2>2. {ToSet(EdgePoints(p, scene[j].area)) : j \in 1 .. Len(scene)} =
             {ToSet(EdgePoints(p, e.area)) : e \in ToSet(scene)}
      <3> DEFINE edges(e) == ToSet(EdgePoints(p, e.area))
      <3>1. \A e : e \in ToSet(scene) <=> \E j \in 1 .. Len(scene) : e = scene[j]
        BY <2>1 DEF ToSet
      <3> HIDE DEF edges
      <3>2. {edges(scene[j]) : j \in 1 .. Len(scene)} = {edges(e) : e \in ToSet(scene)}
        BY <3>1
      <3> QED
        BY <3>2, Zenon DEF edges
    <2> QED
      BY <2>2, Zenon DEF Candidates
  <1> HIDE DEF c
  <1>4. SnapFits(SnapPoint(scene, p), p, d)
    BY <1>2, <1>3
  <1> QED
    BY <1>4 DEF SnapFits, SnapIsNearest

--------------------------------------------------------------------------------
(* The bounds of an export.                                                     *)

\* A box around the first k elements that touches an element at each side.
Encloses(b, s, k) ==
    /\ b \in Rects
    /\ \A j \in 1 .. k : /\ b.x <= s[j].area.x /\ Right(s[j].area) <= Right(b)
                         /\ b.y <= s[j].area.y /\ Bottom(s[j].area) <= Bottom(b)
    /\ \E j \in DOMAIN s : s[j].area.x = b.x
    /\ \E j \in DOMAIN s : s[j].area.y = b.y
    /\ \E j \in DOMAIN s : Right(s[j].area) = Right(b)
    /\ \E j \in DOMAIN s : Bottom(s[j].area) = Bottom(b)

\* A rectangle around another and an element holds both, and touches one on each side.
LEMMA AroundIs ==
  ASSUME NEW r \in Rects, NEW e \in Elems, e.area \in Rects
  PROVE  /\ Around(r, e) \in Rects
         /\ Around(r, e).x = Lesser(r.x, e.area.x) /\ Around(r, e).y = Lesser(r.y, e.area.y)
         /\ Right(Around(r, e)) = Greater(Right(r), Right(e.area))
         /\ Bottom(Around(r, e)) = Greater(Bottom(r), Bottom(e.area))
  <1> DEFINE t == e.area
             x == Lesser(r.x, t.x)
             y == Lesser(r.y, t.y)
             right == Greater(Right(r), Right(t))
             bottom == Greater(Bottom(r), Bottom(t))
  <1>1. /\ x \in Int /\ y \in Int /\ right \in Int /\ bottom \in Int
        /\ right - x \in Nat /\ bottom - y \in Nat
    BY DEF Lesser, Greater, Right, Bottom, Rects
  <1>2. Around(r, e) = [x |-> x, y |-> y, width |-> right - x, height |-> bottom - y]
    BY DEF Around
  <1> HIDE DEF x, y, right, bottom
  <1>3. /\ Around(r, e) \in Rects /\ Around(r, e).x = x /\ Around(r, e).y = y
        /\ Right(Around(r, e)) = right /\ Bottom(Around(r, e)) = bottom
    BY <1>1, <1>2 DEF Rects, Right, Bottom
  <1> QED
    BY <1>3 DEF x, y, right, bottom

\* One more element: what encloses the first n and it encloses n + 1.
LEMMA AroundEncloses ==
  ASSUME NEW s, NEW n \in Nat, s \in [1 .. n -> Elems],
         \A j \in 1 .. n : s[j].area \in Rects,
         NEW k \in 0 .. n - 1, NEW b, Encloses(b, s, k)
  PROVE  Encloses(Around(b, s[k + 1]), s, k + 1)
  <1> DEFINE e == s[k + 1]
             a == Around(b, e)
  <1>1. k + 1 \in 1 .. n /\ DOMAIN s = 1 .. n /\ e \in Elems /\ e.area \in Rects /\ b \in Rects
    BY DEF Encloses
  <1>2. /\ a \in Rects
        /\ a.x = Lesser(b.x, e.area.x) /\ a.y = Lesser(b.y, e.area.y)
        /\ Right(a) = Greater(Right(b), Right(e.area))
        /\ Bottom(a) = Greater(Bottom(b), Bottom(e.area))
    BY <1>1, AroundIs
  <1>3. \A r \in Rects : r.x \in Int /\ r.y \in Int /\ Right(r) \in Int /\ Bottom(r) \in Int
    BY DEF Rects, Right, Bottom
  <1> HIDE DEF a
  <1>4. /\ a.x <= b.x /\ Right(b) <= Right(a) /\ a.y <= b.y /\ Bottom(b) <= Bottom(a)
        /\ a.x <= e.area.x /\ Right(e.area) <= Right(a)
        /\ a.y <= e.area.y /\ Bottom(e.area) <= Bottom(a)
    BY <1>1, <1>2, <1>3 DEF Lesser, Greater
  <1>5. ASSUME NEW j \in 1 .. k + 1
        PROVE  /\ a.x <= s[j].area.x /\ Right(s[j].area) <= Right(a)
               /\ a.y <= s[j].area.y /\ Bottom(s[j].area) <= Bottom(a)
    <2>1. CASE j = k + 1
      BY <1>4, <2>1
    <2>2. CASE j \in 1 .. k
      <3>1. /\ b.x <= s[j].area.x /\ Right(s[j].area) <= Right(b)
            /\ b.y <= s[j].area.y /\ Bottom(s[j].area) <= Bottom(b)
        BY <2>2 DEF Encloses
      <3>2. s[j].area \in Rects
        BY <1>1, <2>2
      <3> DEFINE t == s[j].area
      <3>3. /\ a.x \in Int /\ a.y \in Int /\ Right(a) \in Int /\ Bottom(a) \in Int
            /\ b.x \in Int /\ b.y \in Int /\ Right(b) \in Int /\ Bottom(b) \in Int
            /\ t.x \in Int /\ t.y \in Int /\ Right(t) \in Int /\ Bottom(t) \in Int
        BY <1>1, <1>2, <1>3, <3>2
      <3> HIDE DEF t
      <3>4. /\ a.x <= t.x /\ Right(t) <= Right(a) /\ a.y <= t.y /\ Bottom(t) <= Bottom(a)
        <4>1. /\ b.x <= t.x /\ Right(t) <= Right(b) /\ b.y <= t.y /\ Bottom(t) <= Bottom(b)
          BY <3>1 DEF t
        <4>2. /\ a.x <= b.x /\ Right(b) <= Right(a) /\ a.y <= b.y /\ Bottom(b) <= Bottom(a)
          BY <1>4
        <4>3. \A u, v, w \in Int : u <= v /\ v <= w => u <= w
          OBVIOUS
        <4>4. a.x <= t.x
          BY <3>3, <4>1, <4>2, <4>3
        <4>5. Right(t) <= Right(a)
          BY <3>3, <4>1, <4>2, <4>3
        <4>6. a.y <= t.y
          BY <3>3, <4>1, <4>2, <4>3
        <4>7. Bottom(t) <= Bottom(a)
          BY <3>3, <4>1, <4>2, <4>3
        <4> QED
          BY <4>4, <4>5, <4>6, <4>7
      <3> QED
        BY <3>4 DEF t
    <2> QED
      BY <2>1, <2>2
  <1>6. \E j \in DOMAIN s : s[j].area.x = a.x
    BY <1>1, <1>2 DEF Encloses, Lesser
  <1>7. \E j \in DOMAIN s : s[j].area.y = a.y
    BY <1>1, <1>2 DEF Encloses, Lesser
  <1>8. \E j \in DOMAIN s : Right(s[j].area) = Right(a)
    BY <1>1, <1>2 DEF Encloses, Greater
  <1>9. \E j \in DOMAIN s : Bottom(s[j].area) = Bottom(a)
    BY <1>1, <1>2 DEF Encloses, Greater
  <1> QED
    BY <1>2, <1>5, <1>6, <1>7, <1>8, <1>9 DEF Encloses, a

ExportFolds(f, s) ==
    f = [u \in SUBSET DOMAIN s |->
            IF u = {} THEN s[1].area ELSE Around(f[u \ {Largest(u)}], s[Largest(u)])]

LEMMA ExportBoundsIs ==
  ASSUME NEW s
  PROVE  ExportBounds(s) = (CHOOSE f : ExportFolds(f, s))[DOMAIN s]
  BY DEF ExportBounds, FoldLeft, MapThenFoldSet, ExportFolds, Largest, Max

\* export_projection's bounds are a fold over the elements: each step is Around.
LEMMA ExportSteps ==
  ASSUME NEW s, NEW n \in Nat \ {0}, s \in [1 .. n -> Elems],
         \A j \in 1 .. n : s[j].area \in Rects
  PROVE  \E f : /\ ExportBounds(s) = f[1 .. n]
                /\ f[1 .. 0] = s[1].area
                /\ \A k \in 0 .. n - 1 : f[1 .. k + 1] = Around(f[1 .. k], s[k + 1])
  <1> DEFINE base == s[1].area
             boxed == {e \in Elems : e.area \in Rects}
             op == [x \in Rects \X boxed |-> Around(x[1], x[2])]
             f == CHOOSE h : ExportFolds(h, s)
  <1>1. n \in Nat /\ DOMAIN s = 1 .. n /\ s \in [1 .. n -> boxed] /\ base \in Rects
    OBVIOUS
  <1>2. op \in [Rects \X boxed -> Rects]
    <2>1. ASSUME NEW r \in Rects, NEW e \in boxed PROVE Around(r, e) \in Rects
      BY AroundIs
    <2> HIDE DEF boxed
    <2> QED
      BY <2>1
  <1> HIDE DEF base, boxed
  <1>3. PICK g \in [SUBSET (1 .. n) -> Rects] : Folds(g, op, base, s, n)
    <2> HIDE DEF op
    <2> QED
      BY <1>1, <1>2, FoldExists
  <1>4. ExportFolds(g, s)
    <2>1. ASSUME NEW u \in SUBSET (1 .. n), u # {}
          PROVE  op[<<g[u \ {Largest(u)}], s[Largest(u)]>>]
                    = Around(g[u \ {Largest(u)}], s[Largest(u)])
      <3>1. Largest(u) \in u
        BY <1>1, <2>1, LargestExists
      <3>2. g[u \ {Largest(u)}] \in Rects /\ s[Largest(u)] \in boxed
        BY <1>1, <3>1
      <3> QED
        BY <3>2
    <2> HIDE DEF op
    <2> QED
      BY <1>1, <1>3, <2>1 DEF Folds, ExportFolds, base
  <1>5. ExportFolds(f, s)
    BY <1>4
  <1> HIDE DEF f
  <1>6. \A u \in SUBSET (1 .. n) :
           f[u] = IF u = {} THEN base ELSE Around(f[u \ {Largest(u)}], s[Largest(u)])
    BY <1>1, <1>5 DEF ExportFolds, base
  <1>7. f[1 .. 0] = base
    <2>1. 1 .. 0 = {} /\ 1 .. 0 \in SUBSET (1 .. n)
      OBVIOUS
    <2> QED
      BY <1>6, <2>1
  <1>8. ASSUME NEW k \in 0 .. n - 1
        PROVE  f[1 .. k + 1] = Around(f[1 .. k], s[k + 1])
    BY <1>1, <1>6, LargestUpTo
  <1>9. ExportBounds(s) = f[1 .. n]
    BY <1>1, ExportBoundsIs DEF f
  <1> QED
    BY <1>7, <1>8, <1>9 DEF base

\* The bounds hold every element and no more.
LEMMA ExportEncloses ==
  ASSUME IndexConstants, NEW s, IsScene(s), s # <<>>
  PROVE  Encloses(ExportBounds(s), s, Len(s))
  <1> DEFINE n == Len(s)
  <1>1. /\ n \in Nat \ {0} /\ s \in [1 .. n -> Elems] /\ DOMAIN s = 1 .. n
        /\ \A j \in 1 .. n : s[j].area \in Rects
    <2>1. n \in Nat /\ s \in [1 .. n -> Elems] /\ DOMAIN s = 1 .. n
      BY LenProperties DEF IsScene
    <2>2. n # 0
      BY EmptySeq DEF IsScene
    <2>3. \A j \in 1 .. n : s[j].area \in Rects
      BY <2>1, SceneIs, AreasAreRects
    <2> QED
      BY <2>1, <2>2, <2>3
  <1> HIDE DEF n
  <1>2. PICK f : /\ ExportBounds(s) = f[1 .. n]
                 /\ f[1 .. 0] = s[1].area
                 /\ \A k \in 0 .. n - 1 : f[1 .. k + 1] = Around(f[1 .. k], s[k + 1])
    BY <1>1, ExportSteps
  <1> DEFINE P == {k \in Nat : k <= n => Encloses(f[1 .. k], s, k)}
  <1>3. 0 \in P
    <2>1. 1 \in DOMAIN s /\ s[1].area \in Rects /\ f[1 .. 0] = s[1].area /\ 1 .. 0 = {}
      BY <1>1, <1>2
    <2>2. Encloses(f[1 .. 0], s, 0)
      BY <2>1 DEF Encloses
    <2> QED
      BY <2>2
  <1>4. ASSUME NEW k \in P PROVE k + 1 \in P
    <2>0. k \in Nat /\ (k <= n => Encloses(f[1 .. k], s, k))
      OBVIOUS
    <2> HIDE DEF P
    <2> SUFFICES ASSUME k + 1 <= n PROVE Encloses(f[1 .. k + 1], s, k + 1)
      BY <2>0 DEF P
    <2>1. k \in 0 .. n - 1 /\ k <= n
      BY <1>1, <2>0
    <2>2. f[1 .. k + 1] = Around(f[1 .. k], s[k + 1])
      BY <1>2, <2>1
    <2> QED
      BY <1>1, <2>0, <2>1, <2>2, AroundEncloses
  <1>5. P = Nat
    <2> HIDE DEF P
    <2>1. P \in SUBSET Nat
      BY DEF P
    <2> QED
      BY <1>3, <1>4, <2>1, SetInduction
  <1>6. n \in P /\ n <= n
    BY <1>1, <1>5
  <1> QED
    BY <1>2, <1>6 DEF n

--------------------------------------------------------------------------------
(* Routes.                                                                      *)

\* A connector's three legs are level or upright, and its outer legs equally long.
LEMMA RoutesAreElbows ==
  ASSUME NEW r \in Rects, NEW t \in Rects, NEW a, NEW b
  PROVE  LET route == RouteConnector(r, a, t, b)
         IN  /\ \A k \in 1 .. 3 : route[k].x = route[k + 1].x \/ route[k].y = route[k + 1].y
             /\ route[2].x - route[1].x = route[4].x - route[3].x
  <1> DEFINE start == AnchorPoint(r, a)
             end == AnchorPoint(t, b)
             mid == start.x + end.x
             route == RouteConnector(r, a, t, b)
  <1>1. start.x \in Int /\ end.x \in Int
    <2>1. ASSUME NEW q \in Rects, NEW c PROVE AnchorPoint(q, c).x \in Int
      <3>1. q.x \in Int /\ q.width \in Nat /\ Right(q) \in Int
        BY DEF Rects, Right
      <3>2. 2 * q.x \in Int /\ 2 * Right(q) \in Int /\ 2 * q.x + q.width \in Int
        BY <3>1
      <3> QED
        BY <3>2 DEF AnchorPoint
    <2> QED
      BY <2>1
  <1>2. route = <<[x |-> 2 * start.x, y |-> start.y], [x |-> mid, y |-> start.y],
                  [x |-> mid, y |-> end.y], [x |-> 2 * end.x, y |-> end.y]>>
    BY DEF RouteConnector
  <1> HIDE DEF start, end, route
  <1>3. /\ route[1] = [x |-> 2 * start.x, y |-> start.y] /\ route[2] = [x |-> mid, y |-> start.y]
        /\ route[3] = [x |-> mid, y |-> end.y] /\ route[4] = [x |-> 2 * end.x, y |-> end.y]
    BY <1>2
  <1>4. \A k \in 1 .. 3 : route[k].x = route[k + 1].x \/ route[k].y = route[k + 1].y
    <2>1. /\ route[1].y = route[2].y /\ route[2].x = route[3].x /\ route[3].y = route[4].y
      BY <1>3
    <2>2. \A k \in 1 .. 3 : k = 1 \/ k = 2 \/ k = 3
      OBVIOUS
    <2> QED
      BY <2>1, <2>2
  <1>5. route[2].x - route[1].x = route[4].x - route[3].x
    BY <1>1, <1>3
  <1> QED
    BY <1>4, <1>5 DEF route

--------------------------------------------------------------------------------
(* Everything an editor asks of a scene.                                        *)

\* An index that agrees with the scene is the one built anew.
LEMMA BuiltAnew ==
  ASSUME IndexConstants, SceneInv, ~broken
  PROVE  Build(scene) = Indexed
  <1>1. IsScene(scene) /\ Indexed \in SoundIndexes /\ Matches(Indexed, scene) /\ Indexed.ok = TRUE
    BY DEF SceneInv, Indexed
  <1>2. ASSUME NEW k \in DOMAIN scene PROVE Fits(scene[k].area)
    <2>1. Sound(Indexed) /\ scene[k].id \in DOMAIN Indexed.bounds
          /\ Indexed.bounds[scene[k].id] = scene[k].area
      BY <1>1 DEF SoundIndexes, Matches, IdsOf
    <2> QED
      BY <2>1 DEF Sound
  <1>3. Build(scene) \in SoundIndexes /\ Matches(Build(scene), scene) /\ Build(scene).ok
    BY <1>1, <1>2, BuildMatches
  <1>4. Build(scene).ok = TRUE
    BY <1>3 DEF SoundIndexes, Indexes
  <1> QED
    BY <1>1, <1>3, <1>4, MatchesOnce

\* What a camera's query finds is what is drawn on its screen.
LEMMA CamerasSeeTheScreen ==
  ASSUME IndexConstants, SceneInv, ~broken, NEW c \in Cameras
  PROVE  Hits(Indexed, ViewArea(c)) =
            {e.id : e \in {f \in ToSet(scene) :
                Intersects(Project(c, f.area),
                           [x |-> 0, y |-> 0, width |-> Screen.width, height |-> Screen.height])}}
  <1> DEFINE screen == [x |-> 0, y |-> 0, width |-> Screen.width, height |-> Screen.height]
  <1>1. ViewArea(c) \in Rects
        /\ \A r \in Rects : Intersects(r, ViewArea(c)) <=> Intersects(Project(c, r), screen)
    BY ViewIsExact
  <1>2. Hits(Indexed, ViewArea(c)) = Met(scene, ViewArea(c))
    BY <1>1, HitsAre DEF SceneInv
  <1>3. \A e \in ToSet(scene) : e.area \in Rects
    BY SceneIs, AreasAreRects DEF SceneInv, ToSet
  <1> HIDE DEF screen
  <1>4. {f \in ToSet(scene) : Intersects(f.area, ViewArea(c))} =
           {f \in ToSet(scene) : Intersects(Project(c, f.area), screen)}
    BY <1>1, <1>3
  <1>5. Met(scene, ViewArea(c)) =
           {e.id : e \in {f \in ToSet(scene) : Intersects(Project(c, f.area), screen)}}
    BY <1>4 DEF Met
  <1> QED
    BY <1>2, <1>5 DEF screen

\* and with it every answer is as the scene has it.
LEMMA SceneInvAnswers == ASSUME IndexConstants, SceneInv PROVE SceneQueriesAgree
  <1>0. IsScene(scene)
    BY DEF SceneInv
  <1>1. ASSUME ~broken
        PROVE  /\ Build(scene) = Indexed
               /\ \A r \in Areas : Fits(r) =>
                     Hits(Indexed, r) = {e.id : e \in {f \in ToSet(scene) : Intersects(f.area, r)}}
               /\ \A c \in Cameras : Fits(ViewArea(c)) =>
                     Hits(Indexed, ViewArea(c)) =
                        {e.id : e \in {f \in ToSet(scene) :
                            Intersects(Project(c, f.area),
                                       [x |-> 0, y |-> 0, width |-> Screen.width,
                                        height |-> Screen.height])}}
    <2>1. Build(scene) = Indexed
      BY <1>1, BuiltAnew
    <2>2. ASSUME NEW r \in Areas
          PROVE  Hits(Indexed, r) = {e.id : e \in {f \in ToSet(scene) : Intersects(f.area, r)}}
      <3>1. r \in Rects
        BY AreasAreRects
      <3>2. Hits(Indexed, r) = Met(scene, r)
        BY <1>1, <3>1, HitsAre DEF SceneInv
      <3> QED
        BY <3>2, Zenon DEF Met
    <2>3. ASSUME NEW c \in Cameras
          PROVE  Hits(Indexed, ViewArea(c)) =
                     {e.id : e \in {f \in ToSet(scene) :
                         Intersects(Project(c, f.area),
                                    [x |-> 0, y |-> 0, width |-> Screen.width,
                                     height |-> Screen.height])}}
      BY <1>1, CamerasSeeTheScreen
    <2> QED
      BY <2>1, <2>2, <2>3, Zenon
  <1>2. ASSUME ~broken /\ "mode" \in DOMAIN selected
        PROVE  LET ids == selected.ids
                   met == {e.id : e \in {f \in ToSet(scene) : Intersects(f.area, selected.area)}}
               IN  /\ \A i, j \in DOMAIN ids : i < j =>
                         PlaceOf(scene, ids[i]) < PlaceOf(scene, ids[j])
                   /\ selected.mode = "Replace" => ToSet(ids) = met
                   /\ selected.mode = "Add" => met \subseteq ToSet(ids)
    <2>1. SelectionFits(scene, selected)
      BY <1>2 DEF SceneInv
    <2> QED
      BY <2>1, Zenon DEF SelectionFits, Met
  <1>3. \A p \in Points : SnapIsNearest(p)
    BY <1>0, SnapsToTheNearest
  <1>4. \A i, j \in DOMAIN scene, a, b \in Anchors : i # j =>
           LET route == RouteConnector(scene[i].area, a, scene[j].area, b)
           IN  /\ \A k \in 1 .. 3 : route[k].x = route[k + 1].x \/ route[k].y = route[k + 1].y
               /\ route[2].x - route[1].x = route[4].x - route[3].x
    <2>1. \A i \in DOMAIN scene : scene[i].area \in Rects
      BY <1>0, SceneIs, AreasAreRects
    <2> TAKE i, j \in DOMAIN scene, a, b \in Anchors
    <2> HAVE i # j
    <2>2. scene[i].area \in Rects /\ scene[j].area \in Rects
      BY <2>1
    <2> QED
      BY <2>2, RoutesAreElbows
  <1>5. ASSUME scene # <<>>
        PROVE  LET all == ExportBounds(scene)
               IN  /\ \A e \in ToSet(scene) :
                         /\ all.x <= e.area.x /\ Right(e.area) <= Right(all)
                         /\ all.y <= e.area.y /\ Bottom(e.area) <= Bottom(all)
                   /\ \E e \in ToSet(scene) : e.area.x = all.x
                   /\ \E e \in ToSet(scene) : e.area.y = all.y
                   /\ \E e \in ToSet(scene) : Right(e.area) = Right(all)
                   /\ \E e \in ToSet(scene) : Bottom(e.area) = Bottom(all)
    <2>1. Encloses(ExportBounds(scene), scene, Len(scene))
      BY <1>0, <1>5, ExportEncloses
    <2>2. DOMAIN scene = 1 .. Len(scene)
      BY <1>0, SceneIs
    <2>3. \A e : e \in ToSet(scene) <=> \E j \in DOMAIN scene : e = scene[j]
      BY DEF ToSet
    <2> DEFINE all == ExportBounds(scene)
    <2>4. ASSUME NEW e \in ToSet(scene)
          PROVE  /\ all.x <= e.area.x /\ Right(e.area) <= Right(all)
                 /\ all.y <= e.area.y /\ Bottom(e.area) <= Bottom(all)
      <3>1. PICK j \in 1 .. Len(scene) : e = scene[j]
        BY <2>2, <2>3
      <3> QED
        BY <2>1, <3>1 DEF Encloses
    <2>5. \A j \in DOMAIN scene : scene[j] \in ToSet(scene)
      BY <2>3
    <2>6. /\ \E j \in DOMAIN scene : scene[j].area.x = all.x
          /\ \E j \in DOMAIN scene : scene[j].area.y = all.y
          /\ \E j \in DOMAIN scene : Right(scene[j].area) = Right(all)
          /\ \E j \in DOMAIN scene : Bottom(scene[j].area) = Bottom(all)
      BY <2>1, Zenon DEF Encloses
    <2>7. /\ \E e \in ToSet(scene) : e.area.x = all.x
          /\ \E e \in ToSet(scene) : e.area.y = all.y
          /\ \E e \in ToSet(scene) : Right(e.area) = Right(all)
          /\ \E e \in ToSet(scene) : Bottom(e.area) = Bottom(all)
      <3> HIDE DEF all
      <3> QED
        BY <2>5, <2>6, Zenon
    <2> QED
      BY <2>4, <2>7, Zenon
  <1> QED
    BY <1>1, <1>2, <1>3, <1>4, <1>5, Zenon DEF SceneQueriesAgree

\* What an editor asks of the index is what the scene says, and what it reads of the
\* scene is as it should be.
THEOREM QueriesAgree == ASSUME IndexConstants PROVE Spec => []SceneQueriesAgree
  <1>1. SceneInv => SceneQueriesAgree
    BY SceneInvAnswers
  <1> QED
    BY <1>1, SceneInvHolds, PTL

================================================================================
