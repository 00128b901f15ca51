------------------------ MODULE ListsAndMessagesProofs ------------------------
(* Theorems about lists read page after page (AlertPages, ReviewerLists),   *)
(* for tables of any length, any batch, limits and offsets: what a scan     *)
(* shows is what one query would have shown, and who reads on to an empty   *)
(* page has missed nothing.  Then theorems about module AlertMessages, for  *)
(* any lists of fields and limit of attempts: what an alert tells the       *)
(* community, and that attempts to send it add up.  At last, that what TLC   *)
(* runs side by side keeps its types side by side.                          *)
EXTENDS MCAlertIssuance, CaseAndAlertProofs

-----------------------------------------------------------------------------
(* Places in a list. *)

\* Who is higher in the list has a lower place.
LEMMA PlaceOrders ==
  ASSUME NEW S \in SUBSET Nat, IsFiniteSet(S)
  PROVE  /\ Cardinality(S) \in Nat
         /\ \A n \in S : Place(S, n) \in Nat /\ Place(S, n) \in 1 .. Cardinality(S)
         /\ \A m, n \in S : m > n => Place(S, m) < Place(S, n)
<1> DEFINE Above(n) == {m \in S : m >= n}
<1>1. \A n \in S : IsFiniteSet(Above(n)) /\ Cardinality(Above(n)) \in Nat
  BY FS_Subset, FS_CardinalityType
<1>2. Cardinality(S) \in Nat
  BY FS_CardinalityType
<1>3. \A n \in S : Cardinality(Above(n)) <= Cardinality(S) /\ Above(n) # {}
  BY FS_Subset
<1>4. \A n \in S : Cardinality(Above(n)) # 0
  BY <1>1, <1>3, FS_EmptySet
<1>5. ASSUME NEW m \in S, NEW n \in S, m > n
      PROVE  Cardinality(Above(m)) < Cardinality(Above(n))
  <2>1. Above(m) \in SUBSET Above(n) /\ n \in Above(n) /\ n \notin Above(m)
    <3>1. m \in Nat /\ n \in Nat /\ n >= n /\ ~(n >= m)
      BY <1>5
    <3>2. \A k \in S : k >= m => k >= n
      BY <1>5
    <3>3. QED
      BY <3>1, <3>2
  <2>2. Above(m) # Above(n)
    BY <2>1
  <2> HIDE DEF Above
  <2>3. /\ Cardinality(Above(m)) <= Cardinality(Above(n))
        /\ Cardinality(Above(m)) # Cardinality(Above(n))
    BY <1>1, <2>1, <2>2, FS_Subset
  <2>4. QED
    BY <1>1, <2>3
<1>6. \A n \in S : Place(S, n) = Cardinality(Above(n))
  BY DEF Place
<1> HIDE DEF Above
<1>7. \A n \in S : Place(S, n) \in Nat /\ Place(S, n) \in 1 .. Cardinality(S)
  BY <1>1, <1>2, <1>3, <1>4, <1>6
<1>8. QED
  BY <1>2, <1>5, <1>6, <1>7

\* Every place is somebody's.
LEMMA PlaceTaken ==
  ASSUME NEW S \in SUBSET Nat, IsFiniteSet(S), NEW k \in 1 .. Cardinality(S)
  PROVE  \E n \in S : Place(S, n) = k
<1> DEFINE f == [n \in S |-> Place(S, n)]
           T == 1 .. Cardinality(S)
<1>1. Cardinality(S) \in Nat
  BY FS_CardinalityType
<1>2. IsFiniteSet(T) /\ Cardinality(T) = Cardinality(S)
  BY <1>1, FS_Interval
<1>3. f \in [S -> T]
  BY PlaceOrders
<1>4. \A m, n \in S : f[m] = f[n] => m = n
  <2>1. SUFFICES ASSUME NEW m \in S, NEW n \in S, m # n PROVE f[m] # f[n]
    OBVIOUS
  <2>2. m > n \/ n > m
    BY <2>1
  <2>3. QED
    BY <2>2, PlaceOrders
<1>5. f \in Injection(S, T)
  BY <1>3, <1>4 DEF Injection, IsInjective
<1>6. f \in Surjection(S, T)
  BY <1>2, <1>5, FS_Injection
<1>7. QED
  BY <1>6 DEF Surjection

\* A page is as long as its limit and the rest of the list allow.
LEMMA CutSize ==
  ASSUME NEW S \in SUBSET Nat, IsFiniteSet(S), NEW o \in Nat, NEW l \in Nat
  PROVE  /\ Cut(S, o, l) \in SUBSET S /\ IsFiniteSet(Cut(S, o, l))
         /\ Cardinality(S) \in Nat /\ Cardinality(Cut(S, o, l)) \in Nat
         /\ Cardinality(S) <= o => Cardinality(Cut(S, o, l)) = 0
         /\ Cardinality(S) > o =>
              Cardinality(Cut(S, o, l)) = Lesser(l, Cardinality(S) - o)
<1> DEFINE C == Cut(S, o, l)
           last == Lesser(o + l, Cardinality(S))
           T == o + 1 .. last
           f == [n \in C |-> Place(S, n)]
<1>1. Cardinality(S) \in Nat /\ C \in SUBSET S
  BY FS_CardinalityType DEF Cut
<1>2. IsFiniteSet(C) /\ Cardinality(C) \in Nat
  BY <1>1, FS_Subset, FS_CardinalityType
<1>3. last \in Nat /\ IsFiniteSet(T)
      /\ Cardinality(T) = IF o + 1 > last THEN 0 ELSE last - (o + 1) + 1
  <2>1. last \in Nat
    BY <1>1 DEF Lesser
  <2>2. o + 1 \in Int /\ last \in Int
    BY <2>1
  <2> HIDE DEF last
  <2>3. QED
    BY <2>1, <2>2, FS_Interval
<1>4. \A n \in S : n \in C <=> Place(S, n) \in T
  <2>1. \A n \in S : Place(S, n) \in Nat /\ Place(S, n) <= Cardinality(S)
    BY PlaceOrders, <1>1
  <2>2. \A k \in Nat : k <= Cardinality(S) => (k \in o + 1 .. o + l <=> k \in T)
    BY <1>1 DEF Lesser
  <2>3. \A n \in S : n \in C <=> Place(S, n) \in o + 1 .. o + l
    BY DEF Cut
  <2>4. QED
    BY <2>1, <2>2, <2>3
<1> HIDE DEF C
<1>5. f \in [C -> T]
  BY <1>1, <1>4
<1>6. \A m, n \in C : f[m] = f[n] => m = n
  <2>1. SUFFICES ASSUME NEW m \in C, NEW n \in C, m # n PROVE Place(S, m) # Place(S, n)
    OBVIOUS
  <2>2. m \in S /\ n \in S /\ (m > n \/ n > m)
    BY <1>1, <2>1
  <2>3. QED
    BY <2>2, PlaceOrders
<1>7. \A k \in T : \E n \in C : f[n] = k
  <2>1. \A k \in T : k \in 1 .. Cardinality(S)
    BY <1>1 DEF Lesser
  <2>2. QED
    BY <2>1, <1>4, PlaceTaken
<1>8. f \in Bijection(C, T)
  BY <1>5, <1>6, <1>7 DEF Bijection, Injection, IsInjective, Surjection
<1>9. Cardinality(T) = Cardinality(C)
  BY <1>2, <1>8, FS_Bijection DEF ExistsBijection
<1>10. /\ Cardinality(S) <= o => Cardinality(C) = 0
       /\ Cardinality(S) > o => Cardinality(C) = Lesser(l, Cardinality(S) - o)
  BY <1>1, <1>3, <1>9 DEF Lesser
<1>11. QED
  BY <1>1, <1>2, <1>10 DEF C

\* The list of a set has everybody of it, in their place.
LEMMA ListOf ==
  ASSUME NEW S \in SUBSET Nat, IsFiniteSet(S)
  PROVE  LET list == NewestFirst(S) IN
         /\ list \in [1 .. Cardinality(S) -> S] /\ list \in Seq(S)
         /\ Cardinality(S) \in Nat /\ Len(list) = Cardinality(S)
         /\ \A k \in 1 .. Cardinality(S) : list[k] \in S /\ Place(S, list[k]) = k
         /\ \A n \in S : list[Place(S, n)] = n
<1> DEFINE list == NewestFirst(S)
           N == Cardinality(S)
<1>1. N \in Nat
  BY FS_CardinalityType
<1>2. \A k \in 1 .. N : list[k] = CHOOSE n \in S : Place(S, n) = k
  BY DEF NewestFirst
<1>3. \A k \in 1 .. N : list[k] \in S /\ Place(S, list[k]) = k
  BY <1>2, PlaceTaken
<1>4. list \in [1 .. N -> S]
  BY <1>3 DEF NewestFirst
<1>5. list \in Seq(S) /\ Len(list) = N
  BY <1>1, <1>4
<1>6. \A n \in S : Place(S, n) \in 1 .. N
  BY PlaceOrders
<1>7. ASSUME NEW n \in S PROVE list[Place(S, n)] = n
  <2>1. list[Place(S, n)] \in S /\ Place(S, list[Place(S, n)]) = Place(S, n)
    BY <1>3, <1>6
  <2> DEFINE m == list[Place(S, n)]
  <2>2. m \in S /\ Place(S, m) = Place(S, n)
    BY <2>1
  <2> HIDE DEF m
  <2>3. m = n \/ m > n \/ n > m
    BY <2>2
  <2>4. m = n
    BY <2>2, <2>3, PlaceOrders
  <2>5. QED
    BY <2>4 DEF m
<1>8. QED
  BY <1>1, <1>3, <1>4, <1>5, <1>7

\* All of one set before all of another.
AllAbove(A, B) == \A a \in A, b \in B : a > b

LEMMA JoinPlaces ==
  ASSUME NEW A \in SUBSET Nat, IsFiniteSet(A), NEW B \in SUBSET Nat, IsFiniteSet(B),
         AllAbove(A, B)
  PROVE  /\ A \cup B \in SUBSET Nat /\ IsFiniteSet(A \cup B) /\ A \cap B = {}
         /\ Cardinality(A \cup B) = Cardinality(A) + Cardinality(B)
         /\ \A a \in A : Place(A \cup B, a) = Place(A, a)
         /\ \A b \in B : Place(A \cup B, b) = Cardinality(A) + Place(B, b)
<1> USE DEF AllAbove
<1>1. A \cap B = {}
  <2>1. \A n \in Nat : ~(n > n)
    OBVIOUS
  <2>2. QED
    BY <2>1
<1>2. /\ IsFiniteSet(A \cup B) /\ Cardinality(A) \in Nat /\ Cardinality(B) \in Nat
      /\ Cardinality(A \cup B) = Cardinality(A) + Cardinality(B)
  <2>1. Cardinality(A \cap B) = 0
    BY <1>1, FS_EmptySet
  <2>2. Cardinality(A) \in Nat /\ Cardinality(B) \in Nat
    BY FS_CardinalityType
  <2>3. /\ IsFiniteSet(A \cup B)
        /\ Cardinality(A \cup B) = Cardinality(A) + Cardinality(B) - Cardinality(A \cap B)
    BY FS_Union
  <2>4. QED
    BY <2>1, <2>2, <2>3
<1>3. ASSUME NEW a \in A PROVE Place(A \cup B, a) = Place(A, a)
  <2>1. \A b \in B : ~(b >= a)
    OBVIOUS
  <2>2. {m \in A \cup B : m >= a} = {m \in A : m >= a}
    BY <2>1
  <2>3. QED
    BY <2>2 DEF Place
<1>4. ASSUME NEW b \in B PROVE Place(A \cup B, b) = Cardinality(A) + Place(B, b)
  <2> DEFINE C == {m \in B : m >= b}
  <2>1. \A a \in A : a >= b
    OBVIOUS
  <2>2. {m \in A \cup B : m >= b} = A \cup C
    BY <2>1
  <2>3. IsFiniteSet(C) /\ Cardinality(C) \in Nat /\ A \cap C = {}
    BY <1>1, FS_Subset, FS_CardinalityType
  <2>4. Cardinality(A \cap C) = 0
    BY <2>3, FS_EmptySet
  <2> HIDE DEF C
  <2>5. Cardinality(A \cup C) = Cardinality(A) + Cardinality(C)
    <3>1. Cardinality(A \cup C) = Cardinality(A) + Cardinality(C) - Cardinality(A \cap C)
      BY <2>3, FS_Union
    <3>2. QED
      BY <1>2, <2>3, <2>4, <3>1
  <2>6. QED
    BY <2>2, <2>5 DEF Place, C
<1>5. QED
  BY <1>1, <1>2, <1>3, <1>4

\* Functions from 1 on are sequences.
LEMMA SequenceOf ==
  ASSUME NEW S, NEW n \in Nat, NEW f \in [1 .. n -> S]
  PROVE  f \in Seq(S) /\ Len(f) = n
OBVIOUS

LEMMA SequenceWithin ==
  ASSUME NEW S, NEW T, S \subseteq T, NEW s \in Seq(S)
  PROVE  s \in Seq(T) /\ \A i \in DOMAIN s : s[i] \in S
OBVIOUS

\* One sequence after another.
LEMMA SequencesJoin ==
  ASSUME NEW S, NEW a \in Seq(S), NEW b \in Seq(S)
  PROVE  /\ a \o b \in Seq(S) /\ Len(a \o b) = Len(a) + Len(b)
         /\ a \o b \in [1 .. Len(a) + Len(b) -> S]
         /\ \A k \in 1 .. Len(a) : (a \o b)[k] = a[k]
         /\ \A k \in 1 .. Len(b) : (a \o b)[Len(a) + k] = b[k]
<1>1. a \o b \in Seq(S) /\ Len(a \o b) = Len(a) + Len(b)
  OBVIOUS
<1>2. \A k \in 1 .. Len(a) : (a \o b)[k] = a[k]
  OBVIOUS
<1>3. \A k \in 1 .. Len(b) : (a \o b)[Len(a) + k] = b[k]
  OBVIOUS
<1>4. a \o b \in [1 .. Len(a) + Len(b) -> S]
  <2> DEFINE c == a \o b
             n == Len(a) + Len(b)
  <2>1. c \in Seq(S) /\ Len(c) = n
    BY <1>1
  <2> HIDE DEF c, n
  <2>2. c \in [1 .. n -> S]
    BY <2>1
  <2>3. QED
    BY <2>2 DEF c, n
<1>5. QED
  BY <1>1, <1>2, <1>3, <1>4

\* Functions that agree everywhere are one.
LEMMA SameEverywhere ==
  ASSUME NEW D, NEW R, NEW f \in [D -> R], NEW g \in [D -> R], \A x \in D : f[x] = g[x]
  PROVE  f = g
OBVIOUS

\* Their lists are joined in that order.
LEMMA ListsJoin ==
  ASSUME NEW A \in SUBSET Nat, IsFiniteSet(A), NEW B \in SUBSET Nat, IsFiniteSet(B),
         AllAbove(A, B)
  PROVE  NewestFirst(A \cup B) = NewestFirst(A) \o NewestFirst(B)
<1> DEFINE U == A \cup B
           left == NewestFirst(A)
           right == NewestFirst(B)
           whole == NewestFirst(U)
           M == Cardinality(A)
           N == Cardinality(B)
<1>1. /\ U \in SUBSET Nat /\ IsFiniteSet(U) /\ Cardinality(U) = M + N
      /\ \A a \in A : Place(U, a) = Place(A, a)
      /\ \A b \in B : Place(U, b) = M + Place(B, b)
  BY JoinPlaces
<1>2. /\ left \in [1 .. M -> A] /\ M \in Nat /\ Len(left) = M
      /\ \A k \in 1 .. M : left[k] \in A /\ Place(A, left[k]) = k
  BY ListOf
<1>3. /\ right \in [1 .. N -> B] /\ N \in Nat /\ Len(right) = N
      /\ \A k \in 1 .. N : right[k] \in B /\ Place(B, right[k]) = k
  BY ListOf
<1> HIDE DEF U
<1>4. /\ whole \in [1 .. M + N -> U]
      /\ \A n \in U : whole[Place(U, n)] = n
  BY <1>1, ListOf
<1>5. A \subseteq U /\ B \subseteq U
  BY DEF U
<1> HIDE DEF left, right, whole, M, N
<1>6. \A k \in 1 .. M : whole[k] = left[k]
  BY <1>1, <1>2, <1>4, <1>5
<1>7. \A k \in 1 .. N : whole[M + k] = right[k]
  BY <1>1, <1>3, <1>4, <1>5
<1>8. left \o right = whole
  <2> DEFINE both == left \o right
  <2>1. both \in [1 .. M + N -> U]
    <3>1. left \in [1 .. M -> U] /\ right \in [1 .. N -> U]
      BY <1>2, <1>3, <1>5
    <3>2. left \in Seq(U) /\ right \in Seq(U)
      BY <1>2, <1>3, <3>1
    <3>3. both \in Seq(U) /\ Len(both) = M + N
      BY <1>2, <1>3, <3>2
    <3> HIDE DEF both
    <3>4. QED
      BY <3>3
  <2>2. ASSUME NEW k \in 1 .. M + N PROVE both[k] = whole[k]
    <3>1. CASE k <= M
      BY <1>2, <1>3, <1>6, <3>1
    <3>2. CASE k > M
      <4>1. PICK i \in 1 .. N : k = M + i
        <5>1. k - M \in 1 .. N /\ k = M + (k - M)
          BY <1>2, <1>3, <3>2
        <5>2. QED
          BY <5>1
      <4>2. both[k] = right[i]
        BY <1>2, <1>3, <4>1
      <4>3. QED
        BY <1>7, <4>1, <4>2
    <3>3. QED
      BY <1>2, <1>3, <3>1, <3>2
  <2> DEFINE D == 1 .. M + N
  <2> HIDE DEF both
  <2>3. both \in [D -> U] /\ whole \in [D -> U] /\ \A k \in D : both[k] = whole[k]
    BY <1>4, <2>1, <2>2
  <2> HIDE DEF D
  <2>4. both = whole
    BY <2>3, SameEverywhere
  <2>5. QED
    BY <2>4 DEF both
<1>9. QED
  BY <1>8 DEF whole, left, right, U

\* A page of both: what is left of it when the first set has been cut.
LEMMA CutOfJoin ==
  ASSUME NEW A \in SUBSET Nat, IsFiniteSet(A), NEW B \in SUBSET Nat, IsFiniteSet(B),
         AllAbove(A, B), NEW o \in Nat, NEW l \in Nat
  PROVE  LET rest == l - Cardinality(Cut(A, o, l))
             skip == o - Lesser(Cardinality(A), o)
         IN /\ Cut(A \cup B, o, l) = Cut(A, o, l) \cup Cut(B, skip, rest)
            /\ skip \in Nat /\ rest \in Nat
<1> DEFINE M == Cardinality(A)
           rest == l - Cardinality(Cut(A, o, l))
           skip == o - Lesser(M, o)
<1>1. /\ M \in Nat
      /\ M <= o => Cardinality(Cut(A, o, l)) = 0
      /\ M > o => Cardinality(Cut(A, o, l)) = Lesser(l, M - o)
  BY CutSize
<1>2. /\ M <= o => rest = l /\ skip = o - M
      /\ M > o => rest = l - Lesser(l, M - o) /\ skip = 0
  BY <1>1 DEF Lesser
<1>3. skip \in Nat /\ rest \in Nat
  BY <1>1, <1>2 DEF Lesser
<1> HIDE DEF rest, skip, M
<1>4. \A p \in Nat \ {0} : p \in skip + 1 .. skip + rest <=> M + p \in o + 1 .. o + l
  BY <1>1, <1>2 DEF Lesser
<1>5. \A b \in B : Place(B, b) \in Nat \ {0}
  <2>1. \A b \in B : Place(B, b) \in 1 .. Cardinality(B) /\ Cardinality(B) \in Nat
    BY PlaceOrders
  <2>2. QED
    BY <2>1
<1>6. /\ \A a \in A : Place(A \cup B, a) = Place(A, a)
      /\ \A b \in B : Place(A \cup B, b) = M + Place(B, b)
  BY JoinPlaces DEF M
<1>7. \A b \in B : b \in Cut(A \cup B, o, l) <=> b \in Cut(B, skip, rest)
  BY <1>4, <1>5, <1>6 DEF Cut
<1>8. A \cap B = {}
  BY JoinPlaces
<1>9. \A a \in A : a \in Cut(A \cup B, o, l) <=> a \in Cut(A, o, l)
  BY <1>6 DEF Cut
<1>10. Cut(A \cup B, o, l) = Cut(A, o, l) \cup Cut(B, skip, rest)
  BY <1>7, <1>8, <1>9 DEF Cut
<1>11. QED
  BY <1>3, <1>10 DEF rest, skip, M

\* Who joins a list moves others down, never up.
LEMMA PlaceGrows ==
  ASSUME NEW S, NEW T, IsFiniteSet(T), S \subseteq T, NEW n
  PROVE  /\ Place(S, n) \in Nat /\ Place(T, n) \in Nat /\ Place(S, n) <= Place(T, n)
<1> DEFINE A == {m \in S : m >= n}
           B == {m \in T : m >= n}
<1>1. A \in SUBSET B /\ IsFiniteSet(B)
  BY FS_Subset
<1> HIDE DEF A, B
<1>2. Cardinality(A) <= Cardinality(B) /\ Cardinality(A) \in Nat /\ Cardinality(B) \in Nat
  BY <1>1, FS_Subset, FS_CardinalityType
<1>3. QED
  BY <1>2 DEF Place, A, B

\* Of R, what a scan of W has behind it at a place, and what it has ahead.
Behind(W, R, at) == {n \in R : Place(W, n) <= at}
Ahead(W, R, at) == {n \in R : Place(W, n) > at}

\* A query of the scan: what the reader may read is what was behind, what the batch has, and
\* what is ahead; nothing is ahead when the batch is short.
Divides(W, R, at, size) ==
  LET mine == R \cap Cut(W, at, size)
      seen == Behind(W, R, at)
      upto == Behind(W, R, at + size)
      later == Ahead(W, R, at + size)
  IN
  /\ seen \cup mine = upto /\ R = upto \cup later
  /\ IsFiniteSet(seen) /\ IsFiniteSet(mine) /\ IsFiniteSet(upto) /\ IsFiniteSet(later)
  /\ seen \in SUBSET Nat /\ mine \in SUBSET Nat
  /\ upto \in SUBSET Nat /\ later \in SUBSET Nat
  /\ AllAbove(seen, mine) /\ AllAbove(upto, later)
  /\ Cardinality(Cut(W, at, size)) < size => later = {}

LEMMA BatchDivides ==
  ASSUME NEW W \in SUBSET Nat, IsFiniteSet(W), NEW R \in SUBSET W, NEW at \in Nat,
         NEW size \in Nat
  PROVE  Divides(W, R, at, size)
<1> DEFINE batch == Cut(W, at, size)
           mine  == R \cap batch
           seen  == {n \in R : Place(W, n) <= at}
           upto  == {n \in R : Place(W, n) <= at + size}
           later == {n \in R : Place(W, n) > at + size}
<1>1. \A n \in W : Place(W, n) \in Nat /\ Place(W, n) <= Cardinality(W)
  <2>1. \A n \in W : Place(W, n) \in Nat /\ Place(W, n) \in 1 .. Cardinality(W)
        /\ Cardinality(W) \in Nat
    BY PlaceOrders
  <2>2. QED
    BY <2>1
<1>2. \A n \in W : n \in batch <=> Place(W, n) > at /\ Place(W, n) <= at + size
  <2>1. \A p \in Nat : p \in at + 1 .. at + size <=> p > at /\ p <= at + size
    OBVIOUS
  <2>2. QED
    BY <1>1, <2>1 DEF Cut
<1>3. ASSUME NEW a \in W, NEW b \in W, Place(W, a) < Place(W, b)
      PROVE  a > b
  <2>1. a > b \/ a = b \/ b > a
    OBVIOUS
  <2>2. CASE a = b
    BY <1>1, <1>3, <2>2
  <2>3. CASE b > a
    <3>1. Place(W, b) < Place(W, a)
      BY <2>3, PlaceOrders
    <3>2. QED
      BY <1>1, <1>3, <3>1
  <2>4. QED
    BY <2>1, <2>2, <2>3
<1>4. /\ IsFiniteSet(seen) /\ IsFiniteSet(upto) /\ IsFiniteSet(mine) /\ IsFiniteSet(later)
      /\ seen \in SUBSET Nat /\ upto \in SUBSET Nat
      /\ mine \in SUBSET Nat /\ later \in SUBSET Nat
  <2>1. seen \in SUBSET W /\ upto \in SUBSET W /\ mine \in SUBSET W /\ later \in SUBSET W
    OBVIOUS
  <2> HIDE DEF seen, upto, later
  <2>2. QED
    BY <2>1, FS_Subset
<1>5. seen \cup mine = upto
  <2>1. \A n \in R : n \in seen \cup mine <=> n \in upto
    BY <1>1, <1>2
  <2>2. QED
    BY <2>1
<1>6. R = upto \cup later
  <2>1. \A n \in R : Place(W, n) <= at + size \/ Place(W, n) > at + size
    BY <1>1
  <2>2. QED
    BY <2>1
<1>7. \A a \in seen, b \in mine : a > b
  <2>1. \A a \in seen, b \in mine : a \in W /\ b \in W /\ Place(W, a) < Place(W, b)
    BY <1>1, <1>2
  <2>2. QED
    BY <1>3, <2>1
<1>8. \A a \in upto, b \in later : a > b
  <2>1. \A a \in upto, b \in later : a \in W /\ b \in W /\ Place(W, a) < Place(W, b)
    BY <1>1
  <2>2. QED
    BY <1>3, <2>1
<1>9. ASSUME Cardinality(batch) < size
      PROVE  later = {}
  <2>1. Cardinality(W) \in Nat /\ (Cardinality(W) <= at => Cardinality(batch) = 0)
        /\ (Cardinality(W) > at => Cardinality(batch) = Lesser(size, Cardinality(W) - at))
    BY CutSize
  <2>2. Cardinality(W) <= at + size
    BY <1>9, <2>1 DEF Lesser
  <2>3. \A n \in R : ~(Place(W, n) > at + size)
    BY <1>1, <2>1, <2>2
  <2>4. QED
    BY <2>3
<1>10. QED
  BY <1>4, <1>5, <1>6, <1>7, <1>8, <1>9 DEF Divides, Behind, Ahead, AllAbove

\* Cut out of batches, the page is the page of the whole.
LEMMA PageJoins ==
  ASSUME NEW A \in SUBSET Nat, IsFiniteSet(A), NEW B \in SUBSET Nat, IsFiniteSet(B),
         AllAbove(A, B), NEW o \in Nat, NEW l \in Nat
  PROVE  LET done  == NewestFirst(Cut(A, o, l))
             fresh == Cut(B, o - Lesser(Cardinality(A), o), l - Len(done))
         IN /\ NewestFirst(Cut(A \cup B, o, l)) = done \o NewestFirst(fresh)
            /\ Len(done) = l => NewestFirst(Cut(A \cup B, o, l)) = done
<1>1. /\ Cut(A \cup B, o, l) =
           Cut(A, o, l) \cup Cut(B, o - Lesser(Cardinality(A), o), l - Cardinality(Cut(A, o, l)))
      /\ o - Lesser(Cardinality(A), o) \in Nat
      /\ l - Cardinality(Cut(A, o, l)) \in Nat
  BY CutOfJoin
<1> DEFINE skip == o - Lesser(Cardinality(A), o)
           rest == l - Cardinality(Cut(A, o, l))
           CA == Cut(A, o, l)
           CB == Cut(B, skip, rest)
<1>2. Cut(A \cup B, o, l) = CA \cup CB /\ skip \in Nat /\ rest \in Nat
  BY <1>1
<1>3. CA \in SUBSET A /\ IsFiniteSet(CA) /\ Cardinality(CA) \in Nat
  BY CutSize
<1> HIDE DEF skip, rest
<1>4. CB \in SUBSET B /\ IsFiniteSet(CB)
  BY <1>2, CutSize
<1>5. Len(NewestFirst(CA)) = Cardinality(CA)
  <2>1. CA \in SUBSET Nat
    BY <1>3
  <2> HIDE DEF CA
  <2>2. QED
    BY <1>3, <2>1, ListOf
<1>6. CA \in SUBSET Nat /\ CB \in SUBSET Nat /\ AllAbove(CA, CB)
  BY <1>3, <1>4 DEF AllAbove
<1>7. ASSUME rest = 0 PROVE CB = {}
  <2>1. \A p \in Int : p \notin skip + 1 .. skip + rest
    BY <1>2, <1>7
  <2>2. \A b \in B : Place(B, b) \in Nat
    BY PlaceOrders
  <2>3. QED
    BY <2>1, <2>2 DEF Cut
<1> HIDE DEF CA, CB
<1>8. NewestFirst(CA \cup CB) = NewestFirst(CA) \o NewestFirst(CB)
  BY <1>3, <1>4, <1>6, ListsJoin
<1>9. rest = l - Len(NewestFirst(CA))
  BY <1>5 DEF CA, rest
<1>10. Len(NewestFirst(CA)) = l => rest = 0
  BY <1>9
<1>11. Len(NewestFirst(CA)) = l => CA \cup CB = CA
  BY <1>7, <1>10
<1>12. CA \cup CB = Cut(A \cup B, o, l) /\ CB = Cut(B, skip, l - Len(NewestFirst(CA)))
  BY <1>2, <1>9 DEF CB
<1>13. /\ NewestFirst(Cut(A \cup B, o, l)) = NewestFirst(CA) \o NewestFirst(CB)
       /\ Len(NewestFirst(CA)) = l => NewestFirst(Cut(A \cup B, o, l)) = NewestFirst(CA)
  BY <1>8, <1>11, <1>12
<1>14. QED
  BY <1>12, <1>13 DEF CA, skip

\* A page that is not full is all there is.
LEMMA WholePage ==
  ASSUME NEW S \in SUBSET Nat, IsFiniteSet(S), NEW l \in Nat, Cardinality(Cut(S, 0, l)) < l
  PROVE  Cut(S, 0, l) = S
<1>1. /\ Cut(S, 0, l) \in SUBSET S /\ Cardinality(S) \in Nat
      /\ Cardinality(S) > 0 => Cardinality(Cut(S, 0, l)) = Lesser(l, Cardinality(S) - 0)
  BY CutSize
<1>2. Cardinality(S) <= l
  BY <1>1 DEF Lesser
<1>3. \A n \in S : Place(S, n) \in 0 + 1 .. 0 + l
  <2>1. \A n \in S : Place(S, n) \in 1 .. Cardinality(S)
    BY PlaceOrders
  <2>2. QED
    BY <1>1, <1>2, <2>1
<1>4. QED
  BY <1>3 DEF Cut

\* Who is ahead comes with the next query, unless the page is full or they are later still.
LEMMA ShownOrLater ==
  ASSUME NEW W \in SUBSET Nat, IsFiniteSet(W), NEW R \in SUBSET W, NEW at \in Nat,
         NEW size \in Nat, NEW room \in Nat, NEW n \in R, Place(W, n) > at
  PROVE  LET fresh == Cut({m \in R : m \in Cut(W, at, size)}, 0, room)
         IN Cardinality(fresh) < room => n \in fresh \/ Place(W, n) > at + size
<1> DEFINE mine == {m \in R : m \in Cut(W, at, size)}
<1>1. mine \in SUBSET W /\ mine \in SUBSET Nat
  OBVIOUS
<1>2. n \in mine \/ Place(W, n) > at + size
  <2>1. Place(W, n) \in Nat
    BY PlaceOrders
  <2>2. n \in Cut(W, at, size) \/ Place(W, n) > at + size
    BY <2>1 DEF Cut
  <2>3. QED
    BY <2>2
<1> HIDE DEF mine
<1>3. IsFiniteSet(mine)
  BY <1>1, FS_Subset
<1>4. Cardinality(Cut(mine, 0, room)) < room => Cut(mine, 0, room) = mine
  BY <1>1, <1>3, WholePage
<1>5. QED
  BY <1>2, <1>4 DEF mine

-----------------------------------------------------------------------------
(* The invariants. *)

\* What the reading looks for, what of it the reader may read, and what of that is behind.
Wanted == Fitting(read.filter)
Readable == ReadableOf(read.reader, Wanted)
Seen == Behind(Wanted, Readable, read.at)

Shows(n) == \E j \in DOMAIN read.selected : read.selected[j].id = n

ShownAllowed ==
  read # NoRead =>
    \A k \in DOMAIN read.selected :
      LET shown == read.selected[k] IN
      /\ shown.id \in DOMAIN board /\ board[shown.id].state = "committed"
      /\ MayRead(read.reader, shown.id)
      /\ read.filter \in {"any", shown.status}

\* As long as nothing changes: the page of what is behind.
QuietSoFar ==
  read.calm = "quiet" =>
    /\ read.start = NewestFirst(Cut(Readable, read.offset, read.limit))
    /\ read.matched = Cardinality(Seen)
    /\ Ids(read.selected) = NewestFirst(Cut(Seen, read.offset, read.limit))

\* As long as alerts only appear: each of the beginning is shown already, or ahead.
GrowingSoFar ==
  read.calm # "changed" /\ read.offset = 0 =>
    \A i \in DOMAIN read.start :
      /\ read.start[i] \in Readable
      /\ Len(read.selected) < read.limit =>
           Shows(read.start[i]) \/ Place(Wanted, read.start[i]) > read.at

ScanOnCourse ==
  read # NoRead /\ read.stage = "scanning" =>
    /\ read.op = "list" /\ read.reader # "unsubscribed"
    /\ read.reader = "admin" => read.at = 0
    /\ Len(read.selected) <= read.limit
    /\ QuietSoFar /\ GrowingSoFar

AnswerFaithful ==
  read # NoRead /\ read.stage # "scanning" /\ read.op = "list" =>
    /\ read.reader = "unsubscribed" => read.selected = <<>>
    /\ read.reader # "unsubscribed" =>
         /\ Len(read.selected) <= read.limit
         /\ read.calm = "quiet" => Ids(read.selected) = read.start
         /\ read.calm = "grew" /\ read.offset = 0 /\ Len(read.selected) < read.limit =>
              \A i \in DOMAIN read.start : Shows(read.start[i])

PagesInv == PagesTypeOK /\ ShownAllowed /\ ScanOnCourse /\ AnswerFaithful

\* Rows keep their ids wherever they move.
RowsDistinct ==
  /\ \A i \in DOMAIN rows : rows[i].id <= Len(rows)
  /\ \A i, j \in DOMAIN rows : rows[i].id = rows[j].id => i = j

\* What is owed is ahead of the walk.
OwedAhead ==
  walk # NoWalk /\ ~walk.shrunk =>
    \A x \in walk.owed :
      \E i \in Selected(walk.filtered) :
        rows[i].id = x /\ Place(Selected(walk.filtered), i) > walk.at

ListsInv == ListsTypeOK /\ RowsDistinct /\ OwedAhead /\ WalkMissesNothing

-----------------------------------------------------------------------------
(* What the alerts do while they are read. *)

\* Queries find committed alerts of the status asked for.
LEMMA QueryFinds ==
  ASSUME PagesTypeOK, NEW reader, NEW filter
  PROVE  LET W == Fitting(filter) IN
         /\ W \in SUBSET Nat /\ IsFiniteSet(W) /\ W \in SUBSET DOMAIN board
         /\ DOMAIN board = 1 .. Len(board) /\ DOMAIN board \in SUBSET (1 .. MaxAlerts)
         /\ \A n \in W : board[n].state = "committed" /\ filter \in {"any", board[n].status}
         /\ ReadableOf(reader, W) \in SUBSET W
<1>1. Len(board) \in Nat /\ DOMAIN board = 1 .. Len(board) /\ Len(board) <= MaxAlerts
  BY DEF PagesTypeOK
<1>2. Fitting(filter) \in SUBSET DOMAIN board
  BY DEF Fitting
<1>3. IsFiniteSet(1 .. Len(board))
  BY <1>1, FS_Interval
<1>4. IsFiniteSet(Fitting(filter))
  BY <1>1, <1>2, <1>3, FS_Subset
<1>5. DOMAIN board \in SUBSET (1 .. MaxAlerts) /\ DOMAIN board \in SUBSET Nat
  BY <1>1, PagesAssumption DEF PagesAssumption
<1>6. QED
  BY <1>1, <1>2, <1>4, <1>5 DEF Fitting, ReadableOf

BoardMoves ==
  \/ \E relation \in Relation : BeginCreate(relation)
  \/ \E n \in DOMAIN board : CommitCreate(n) \/ RollBackCreate(n) \/ CancelOnBoard(n)

\* An alert once committed stays, whose it is.
LEMMA BoardKeeps ==
  ASSUME PagesTypeOK, BoardMoves
  PROVE  /\ PagesTypeOK'
         /\ \A n \in DOMAIN board :
              /\ n \in DOMAIN board'
              /\ board'[n].relation = board[n].relation
              /\ board[n].state = "committed" => board'[n].state = "committed"
<1>1. board \in Seq(BoardRow) /\ Len(board) <= MaxAlerts /\ DOMAIN board = 1 .. Len(board)
      /\ Len(board) \in Nat
  BY DEF PagesTypeOK
<1>2. read' = read \/ read' \in {[read EXCEPT !.calm = c] : c \in {"grew", "changed"}}
  BY DEF BoardMoves, BeginCreate, CommitCreate, RollBackCreate, CancelOnBoard, Disturbed
<1>3. read = NoRead => read' = NoRead
  BY DEF BoardMoves, BeginCreate, CommitCreate, RollBackCreate, CancelOnBoard, Disturbed
<1>4. read' = NoRead \/ read' \in Reading
  <2>1. read \in Reading => \A c \in {"grew", "changed"} : [read EXCEPT !.calm = c] \in Reading
    BY DEF Reading
  <2>2. QED
    BY <1>2, <1>3, <2>1 DEF PagesTypeOK
<1>5. ASSUME NEW relation \in Relation, BeginCreate(relation)
      PROVE  /\ board' \in Seq(BoardRow) /\ Len(board') <= MaxAlerts
             /\ \A n \in DOMAIN board : n \in DOMAIN board' /\ board'[n] = board[n]
  <2>1. [relation |-> relation, status |-> "ACTIVE", state |-> "begun"] \in BoardRow
    BY DEF BoardRow
  <2>2. Len(board) + 1 <= MaxAlerts
    BY <1>1, <1>5, PagesAssumption DEF BeginCreate, PagesAssumption
  <2>3. QED
    BY <1>1, <1>5, <2>1, <2>2 DEF BeginCreate
<1>6. ASSUME NEW n \in DOMAIN board, CommitCreate(n) \/ RollBackCreate(n) \/ CancelOnBoard(n)
      PROVE  /\ board' \in Seq(BoardRow) /\ Len(board') <= MaxAlerts
             /\ \A m \in DOMAIN board :
                  /\ m \in DOMAIN board'
                  /\ board'[m].relation = board[m].relation
                  /\ board[m].state = "committed" => board'[m].state = "committed"
  <2>1. board[n] \in BoardRow
    BY <1>1, <1>6
  <2>2. PICK row \in BoardRow :
          /\ board' = [board EXCEPT ![n] = row]
          /\ row.relation = board[n].relation
          /\ board[n].state = "committed" => row.state = "committed"
    <3>1. CASE CommitCreate(n)
      <4>1. [board[n] EXCEPT !.state = "committed"] \in BoardRow
        BY <2>1 DEF BoardRow
      <4>2. QED
        BY <2>1, <3>1, <4>1 DEF CommitCreate, BoardRow
    <3>2. CASE RollBackCreate(n)
      <4>1. [board[n] EXCEPT !.state = "undone"] \in BoardRow
        BY <2>1 DEF BoardRow
      <4>2. QED
        BY <2>1, <3>2, <4>1 DEF RollBackCreate, BoardRow
    <3>3. CASE CancelOnBoard(n)
      <4>1. [board[n] EXCEPT !.status = "CANCELLED"] \in BoardRow
        BY <2>1 DEF BoardRow
      <4>2. QED
        BY <2>1, <3>3, <4>1 DEF CancelOnBoard, BoardRow
    <3>4. QED
      BY <1>6, <3>1, <3>2, <3>3
  <2>3. board' \in Seq(BoardRow) /\ Len(board') = Len(board) /\ DOMAIN board' = DOMAIN board
    BY <1>1, <1>6, <2>2
  <2>4. QED
    BY <1>1, <1>6, <2>2, <2>3
<1>7. QED
  BY <1>4, <1>5, <1>6 DEF BoardMoves, PagesTypeOK

\* What a scan is told of it.
LEMMA ScanIsTold ==
  ASSUME PagesTypeOK, BoardMoves, read # NoRead
  PROVE  /\ read.stage # "scanning" => read' = read
         /\ \E c \in {"quiet", "grew", "changed"} : read' = [read EXCEPT !.calm = c]
         /\ read.stage = "scanning" /\ read'.calm # "changed" =>
              read.calm # "changed" /\ \A f : Fitting(f) \subseteq Fitting(f)'
         /\ read.stage = "scanning" /\ read'.calm = "quiet" =>
              read.calm = "quiet" /\ \A f : Fitting(f) = Fitting(f)'
<1>1. board \in Seq(BoardRow) /\ read \in Reading
      /\ DOMAIN board = 1 .. Len(board) /\ Len(board) \in Nat
  BY DEF PagesTypeOK
<1>2. /\ read.calm \in {"quiet", "grew", "changed"} /\ read = [read EXCEPT !.calm = read.calm]
      /\ \A c : [read EXCEPT !.calm = c].calm = c
  BY <1>1 DEF Reading
<1>3. ASSUME NEW relation \in Relation, BeginCreate(relation)
      PROVE  read' = read /\ \A f : Fitting(f) = Fitting(f)'
  <2>1. /\ read' = read
        /\ DOMAIN board' = DOMAIN board \cup {Len(board) + 1}
        /\ \A n \in DOMAIN board : board'[n] = board[n]
        /\ board'[Len(board) + 1].state = "begun"
    BY <1>1, <1>3 DEF BeginCreate
  <2>2. QED
    BY <2>1 DEF Fitting
<1>4. ASSUME NEW n \in DOMAIN board, CommitCreate(n)
      PROVE  read' = Disturbed("grew") /\ \A f : Fitting(f) \subseteq Fitting(f)'
  <2>1. /\ board[n] \in BoardRow /\ DOMAIN board' = DOMAIN board
        /\ \A m \in DOMAIN board : m # n => board'[m] = board[m]
        /\ board[n].state = "begun" /\ read' = Disturbed("grew")
    BY <1>1, <1>4 DEF CommitCreate
  <2>2. QED
    BY <2>1 DEF Fitting
<1>5. ASSUME NEW n \in DOMAIN board, RollBackCreate(n)
      PROVE  read' = read /\ \A f : Fitting(f) = Fitting(f)'
  <2>1. /\ board[n] \in BoardRow /\ DOMAIN board' = DOMAIN board
        /\ \A m \in DOMAIN board : m # n => board'[m] = board[m]
        /\ board'[n] = [board[n] EXCEPT !.state = "undone"]
        /\ board[n].state = "begun" /\ read' = read
    BY <1>1, <1>5 DEF RollBackCreate
  <2>2. board'[n].state = "undone"
    BY <2>1 DEF BoardRow
  <2>3. \A f, m : m \in Fitting(f) <=> m \in Fitting(f)'
    BY <2>1, <2>2 DEF Fitting
  <2>4. \A f : Fitting(f) = Fitting(f)'
    BY <2>3
  <2>5. QED
    BY <2>1, <2>4
<1>6. ASSUME NEW n \in DOMAIN board, CancelOnBoard(n)
      PROVE  read' = Disturbed("changed")
  BY <1>6 DEF CancelOnBoard
<1>7. QED
  BY <1>2, <1>3, <1>4, <1>5, <1>6 DEF BoardMoves, Disturbed

LEMMA BoardMovesKeepPages ==
  ASSUME PagesInv, BoardMoves
  PROVE  PagesInv'
<1>1. PagesTypeOK /\ ShownAllowed /\ ScanOnCourse /\ AnswerFaithful
  BY DEF PagesInv
<1>2. /\ PagesTypeOK'
      /\ \A n \in DOMAIN board :
           /\ n \in DOMAIN board'
           /\ board'[n].relation = board[n].relation
           /\ board[n].state = "committed" => board'[n].state = "committed"
  BY <1>1, BoardKeeps
<1>3. CASE read = NoRead
  <2>1. read' = NoRead
    BY <1>3 DEF BoardMoves, BeginCreate, CommitCreate, RollBackCreate, CancelOnBoard, Disturbed
  <2>2. QED
    BY <1>2, <2>1 DEF PagesInv, ShownAllowed, ScanOnCourse, AnswerFaithful
<1>4. CASE read # NoRead
  <2>1. PICK c \in {"quiet", "grew", "changed"} : read' = [read EXCEPT !.calm = c]
    BY <1>1, <1>4, ScanIsTold
  <2>2. read \in Reading
    BY <1>1, <1>4 DEF PagesTypeOK
  <2>3. /\ read'.op = read.op /\ read'.reader = read.reader /\ read'.filter = read.filter
        /\ read'.limit = read.limit /\ read'.offset = read.offset /\ read'.at = read.at
        /\ read'.matched = read.matched /\ read'.selected = read.selected
        /\ read'.stage = read.stage /\ read'.start = read.start
    BY <2>1, <2>2 DEF Reading
  <2>4. ShownAllowed'
    BY <1>1, <1>2, <1>4, <2>3 DEF ShownAllowed, MayRead
  <2>5. AnswerFaithful'
    <3>1. CASE read.stage # "scanning"
      <4>1. read' = read
        BY <1>1, <1>4, <3>1, ScanIsTold
      <4>2. QED
        BY <1>1, <4>1 DEF AnswerFaithful, Ids, Shows
    <3>2. CASE read.stage = "scanning"
      BY <2>3, <3>2 DEF AnswerFaithful
    <3>3. QED
      BY <3>1, <3>2
  <2>6. ScanOnCourse'
    <3>1. SUFFICES ASSUME read.stage = "scanning"
                   PROVE  QuietSoFar' /\ GrowingSoFar'
      BY <1>1, <1>4, <2>3 DEF ScanOnCourse
    <3>2. QuietSoFar /\ GrowingSoFar
      BY <1>1, <1>4, <3>1 DEF ScanOnCourse
    <3>3. PICK filter : filter = read.filter /\ filter = read'.filter
      BY <2>3
    <3>4. Wanted = Fitting(filter) /\ Wanted' = Fitting(filter)'
      BY <3>3 DEF Wanted, Fitting
    <3>5. Wanted \in SUBSET DOMAIN board /\ IsFiniteSet(Wanted')
      <4>1. Wanted \in SUBSET DOMAIN board /\ Wanted' \in SUBSET DOMAIN board'
        BY DEF Wanted, Fitting
      <4>2. DOMAIN board' = 1 .. Len(board') /\ Len(board') \in Nat
        BY <1>2 DEF PagesTypeOK
      <4>3. IsFiniteSet(DOMAIN board')
        BY <4>2, FS_Interval
      <4>4. QED
        BY <4>1, <4>3, FS_Subset
    <3>6. \A n \in DOMAIN board : MayRead(read.reader, n) <=> MayRead(read.reader, n)'
      BY <1>2, <2>3 DEF MayRead
    <3>7. ASSUME read'.calm = "quiet" PROVE QuietSoFar'
      <4>1. read.calm = "quiet" /\ Wanted' = Wanted
        BY <1>1, <1>4, <3>1, <3>4, <3>7, ScanIsTold
      <4>2. Readable' = Readable
        BY <3>5, <3>6, <4>1 DEF Readable, ReadableOf
      <4>3. Seen' = Seen
        BY <2>3, <4>1, <4>2 DEF Seen, Behind, Place
      <4>4. QED
        BY <2>3, <3>2, <4>1, <4>2, <4>3 DEF QuietSoFar, Ids
    <3>8. ASSUME read'.calm # "changed" PROVE GrowingSoFar'
      <4>1. read.calm # "changed" /\ Wanted \subseteq Wanted'
        BY <1>1, <1>4, <3>1, <3>4, <3>8, ScanIsTold
      <4>2. Readable \subseteq Readable'
        BY <3>5, <3>6, <4>1 DEF Readable, ReadableOf
      <4>3. \A n : Place(Wanted, n) \in Nat /\ Place(Wanted', n) \in Nat
                   /\ Place(Wanted, n) <= Place(Wanted', n)
        BY <3>5, <4>1, PlaceGrows
      <4>4. \A n : Place(Wanted, n) > read.at => Place(Wanted', n) > read.at
        BY <2>2, <4>3 DEF Reading
      <4>5. QED
        BY <2>3, <3>2, <4>1, <4>2, <4>4 DEF GrowingSoFar, Shows
    <3>9. QED
      BY <3>7, <3>8 DEF QuietSoFar, GrowingSoFar
  <2>7. QED
    BY <1>2, <2>4, <2>5, <2>6 DEF PagesInv
<1>5. QED
  BY <1>3, <1>4

-----------------------------------------------------------------------------
(* What the reading does. *)

LEMMA RowsOfIds ==
  ASSUME PagesTypeOK, NEW S \in SUBSET DOMAIN board, NEW ids \in Seq(S)
  PROVE  /\ RowsOf(ids) \in Seq(Shown) /\ Len(RowsOf(ids)) = Len(ids)
         /\ Ids(RowsOf(ids)) = ids
         /\ DOMAIN RowsOf(ids) = DOMAIN ids
         /\ \A k \in DOMAIN ids :
              /\ RowsOf(ids)[k].id = ids[k] /\ ids[k] \in S
              /\ RowsOf(ids)[k].status = board[ids[k]].status
<1>1. /\ board \in Seq(BoardRow) /\ Len(board) <= MaxAlerts
      /\ Len(board) \in Nat /\ DOMAIN board = 1 .. Len(board)
      /\ Len(ids) \in Nat /\ DOMAIN ids = 1 .. Len(ids)
      /\ ids \in [1 .. Len(ids) -> S]
  BY DEF PagesTypeOK
<1>2. \A n \in S : n \in 1 .. MaxAlerts /\ board[n].status \in {"ACTIVE", "CANCELLED"}
  <2>1. \A n \in S : n \in 1 .. MaxAlerts /\ board[n] \in BoardRow
    BY <1>1, PagesAssumption DEF PagesAssumption
  <2>2. QED
    BY <2>1 DEF BoardRow
<1>3. \A k \in 1 .. Len(ids) :
        /\ ids[k] \in S
        /\ RowsOf(ids)[k] = [id |-> ids[k], status |-> board[ids[k]].status]
        /\ RowsOf(ids)[k] \in Shown
  BY <1>1, <1>2 DEF RowsOf, Shown
<1>4. RowsOf(ids) \in [1 .. Len(ids) -> Shown]
  BY <1>1, <1>3 DEF RowsOf
<1>5. RowsOf(ids) \in Seq(Shown) /\ Len(RowsOf(ids)) = Len(ids)
  BY <1>1, <1>4, SequenceOf
<1>6. Ids(RowsOf(ids)) \in [1 .. Len(ids) -> S]
      /\ \A k \in 1 .. Len(ids) : Ids(RowsOf(ids))[k] = ids[k]
  BY <1>3, <1>4 DEF Ids
<1>7. Ids(RowsOf(ids)) = ids
  <2> DEFINE D == 1 .. Len(ids)
             these == Ids(RowsOf(ids))
  <2>1. these \in [D -> S] /\ ids \in [D -> S] /\ \A k \in D : these[k] = ids[k]
    BY <1>1, <1>6
  <2> HIDE DEF D, these
  <2>2. these = ids
    BY <2>1, SameEverywhere
  <2>3. QED
    BY <2>2 DEF these
<1>8. QED
  BY <1>1, <1>3, <1>4, <1>5, <1>7

LEMMA IdsJoin ==
  ASSUME NEW a \in Seq(Shown), NEW b \in Seq(Shown)
  PROVE  /\ a \o b \in Seq(Shown) /\ Len(a \o b) = Len(a) + Len(b)
         /\ Len(Ids(a)) = Len(a) /\ Len(a) \in Nat /\ Len(b) \in Nat
         /\ Ids(a \o b) = Ids(a) \o Ids(b)
         /\ \A k \in DOMAIN (a \o b) :
              \/ k \in DOMAIN a /\ (a \o b)[k] = a[k]
              \/ \E j \in DOMAIN b : (a \o b)[k] = b[j]
         /\ \A k \in DOMAIN a : k \in DOMAIN (a \o b) /\ (a \o b)[k] = a[k]
         /\ \A j \in DOMAIN b : \E k \in DOMAIN (a \o b) : (a \o b)[k] = b[j]
<1> DEFINE M == Len(a)
           N == Len(b)
           c == a \o b
<1>1. /\ M \in Nat /\ N \in Nat /\ DOMAIN a = 1 .. M /\ DOMAIN b = 1 .. N
      /\ c \in Seq(Shown) /\ Len(c) = M + N /\ DOMAIN c = 1 .. M + N
  OBVIOUS
<1>2. \A k \in 1 .. M : k \in 1 .. M + N /\ c[k] = a[k]
  OBVIOUS
<1>3. \A k \in 1 .. N : M + k \in 1 .. M + N /\ c[M + k] = b[k]
  OBVIOUS
<1>4. \A k \in 1 .. M + N : k \in 1 .. M \/ \E j \in 1 .. N : k = M + j
  <2>1. \A k \in 1 .. M + N : k \in 1 .. M \/ (k - M \in 1 .. N /\ k = M + (k - M))
    BY <1>1
  <2>2. QED
    BY <2>1
<1>5. \A r \in Shown : r.id \in 1 .. MaxAlerts
  BY DEF Shown
<1>6. /\ Ids(a) \in [1 .. M -> 1 .. MaxAlerts] /\ Ids(b) \in [1 .. N -> 1 .. MaxAlerts]
      /\ Ids(c) \in [1 .. M + N -> 1 .. MaxAlerts]
      /\ \A k \in 1 .. M : Ids(a)[k] = a[k].id
      /\ \A k \in 1 .. N : Ids(b)[k] = b[k].id
      /\ \A k \in 1 .. M + N : Ids(c)[k] = c[k].id
  <2>1. /\ \A k \in 1 .. M : a[k] \in Shown
        /\ \A k \in 1 .. N : b[k] \in Shown
        /\ \A k \in 1 .. M + N : c[k] \in Shown
    BY <1>1
  <2> HIDE DEF M, N, c
  <2>2. QED
    BY <1>1, <1>5, <2>1 DEF Ids
<1> HIDE DEF M, N, c
<1>7. Ids(a) \in Seq(1 .. MaxAlerts) /\ Len(Ids(a)) = M
      /\ Ids(b) \in Seq(1 .. MaxAlerts) /\ Len(Ids(b)) = N
  BY <1>1, <1>6, SequenceOf
<1>8. Ids(c) = Ids(a) \o Ids(b)
  <2> DEFINE D == 1 .. M + N
             ids == Ids(a) \o Ids(b)
  <2>1. /\ ids \in [1 .. M + N -> 1 .. MaxAlerts]
        /\ \A k \in 1 .. M : ids[k] = Ids(a)[k]
        /\ \A k \in 1 .. N : ids[M + k] = Ids(b)[k]
    <3> DEFINE x == Ids(a)
               y == Ids(b)
               T == 1 .. MaxAlerts
    <3>1. x \in Seq(T) /\ y \in Seq(T) /\ Len(x) = M /\ Len(y) = N
      BY <1>7
    <3> HIDE DEF x, y, T
    <3>2. /\ x \o y \in [1 .. Len(x) + Len(y) -> T]
          /\ \A k \in 1 .. Len(x) : (x \o y)[k] = x[k]
          /\ \A k \in 1 .. Len(y) : (x \o y)[Len(x) + k] = y[k]
      <4>1. x \in Seq(T) /\ y \in Seq(T)
        BY <3>1
      <4>2. QED
        BY ONLY <4>1, SequencesJoin
    <3>3. QED
      BY <3>1, <3>2 DEF x, y, T
  <2> HIDE DEF ids
  <2>2. ids \in [D -> 1 .. MaxAlerts]
    BY <2>1
  <2>4. \A k \in 1 .. M : Ids(c)[k] = ids[k]
    BY <1>2, <1>6, <2>1
  <2>5. \A k \in 1 .. N : Ids(c)[M + k] = ids[M + k]
    BY <1>3, <1>6, <2>1
  <2>6. \A k \in D : Ids(c)[k] = ids[k]
    BY <1>4, <2>4, <2>5
  <2>7. Ids(c) \in [D -> 1 .. MaxAlerts]
    BY <1>6
  <2> HIDE DEF D
  <2>8. Ids(c) = ids
    BY <2>2, <2>6, <2>7, SameEverywhere
  <2>9. QED
    BY <2>8 DEF ids
<1>9. \A k \in 1 .. M + N : (k \in 1 .. M /\ c[k] = a[k]) \/ \E j \in 1 .. N : c[k] = b[j]
  BY <1>2, <1>3, <1>4
<1>10. \A j \in 1 .. N : \E k \in 1 .. M + N : c[k] = b[j]
  BY <1>3
<1>11. QED
  BY <1>1, <1>2, <1>7, <1>8, <1>9, <1>10 DEF M, N, c

\* Nothing is listed of nothing.
LEMMA ListOfNothing ==
  NewestFirst({}) = <<>> /\ Ids(<<>>) = <<>>
<1>1. IsFiniteSet({}) /\ Cardinality({}) = 0
  BY FS_EmptySet
<1>2. NewestFirst({}) \in Seq({}) /\ Len(NewestFirst({})) = 0
  BY <1>1, ListOf
<1>3. NewestFirst({}) = <<>>
  BY <1>2
<1>4. Ids(<<>>) \in [1 .. 0 -> {}]
  BY DEF Ids
<1>5. Ids(<<>>) \in Seq({}) /\ Len(Ids(<<>>)) = 0
  BY <1>4, SequenceOf
<1>6. QED
  BY <1>3, <1>5

LEMMA CutNothing ==
  ASSUME NEW o \in Nat, NEW l \in Nat
  PROVE  /\ Cut({}, o, l) = {}
         /\ \A S : S \in SUBSET Nat /\ IsFiniteSet(S) => Cut(S, o, 0) = {}
<1>1. Cut({}, o, l) = {}
  BY DEF Cut
<1>2. ASSUME NEW S \in SUBSET Nat, IsFiniteSet(S)
      PROVE  Cut(S, o, 0) = {}
  <2>1. \A p \in Nat : p \notin o + 1 .. o + 0
    OBVIOUS
  <2>2. \A n \in S : Place(S, n) \in Nat
    BY <1>2, PlaceOrders
  <2>3. QED
    BY <2>1, <2>2 DEF Cut
<1>3. QED
  BY <1>1, <1>2

LEMMA BeginListKeepsPages ==
  ASSUME PagesInv, NEW reader \in Reader, NEW filter \in Filters, NEW asked \in Limits,
         NEW offset \in Offsets, BeginList(reader, filter, asked, offset)
  PROVE  PagesInv'
<1> DEFINE limit == Lesser(asked, MaxLimit)
           W == Fitting(filter)
           R == ReadableOf(reader, W)
           C == Cut(R, offset, limit)
           start == NewestFirst(C)
           stage == IF Nobody(reader, limit) THEN "selected" ELSE "scanning"
<1>1. PagesTypeOK /\ board' = board
  BY DEF PagesInv, BeginList
<1>2. limit \in 0 .. MaxLimit /\ limit \in Nat /\ offset \in Nat
  BY PagesAssumption DEF PagesAssumption, Lesser
<1>3. read' = [op |-> "list", reader |-> reader, filter |-> filter, limit |-> limit,
               offset |-> offset, at |-> 0, matched |-> 0, selected |-> <<>>,
               stage |-> stage, start |-> start, calm |-> "quiet"]
  BY DEF BeginList
<1>4. /\ W \in SUBSET Nat /\ IsFiniteSet(W) /\ W \in SUBSET DOMAIN board
      /\ DOMAIN board \in SUBSET (1 .. MaxAlerts) /\ R \in SUBSET W
  BY <1>1, QueryFinds
<1> HIDE DEF limit, W, stage
<1>5. R \in SUBSET Nat /\ IsFiniteSet(R)
  BY <1>4, FS_Subset
<1>6. C \in SUBSET R /\ IsFiniteSet(C)
  BY <1>2, <1>5, CutSize
<1>7. C \in SUBSET Nat /\ C \in SUBSET (1 .. MaxAlerts)
  BY <1>4, <1>6
<1> HIDE DEF R, C
<1>8. /\ start \in Seq(C) /\ start \in [1 .. Cardinality(C) -> C]
  BY <1>6, <1>7, ListOf
<1> HIDE DEF start
<1>9. start \in Seq(1 .. MaxAlerts) /\ \A i \in DOMAIN start : start[i] \in R
  <2>1. start \in Seq(1 .. MaxAlerts) /\ \A i \in DOMAIN start : start[i] \in C
    BY <1>7, <1>8, SequenceWithin
  <2>2. QED
    BY <1>6, <2>1
<1>10. read' \in Reading
  <2>1. <<>> \in Seq(Shown) /\ 0 \in Nat /\ stage \in {"scanning", "selected", "recorded"}
    BY DEF stage
  <2>2. QED
    BY <1>2, <1>3, <1>9, <2>1 DEF Reading, Reader
<1>11. PagesTypeOK'
  BY <1>1, <1>10 DEF PagesTypeOK
<1>12. ShownAllowed'
  BY <1>3 DEF ShownAllowed
<1>13. Wanted' = W /\ Readable' = R
  BY <1>1, <1>3 DEF Wanted, W, Readable, R, ReadableOf, MayRead, Fitting
<1>14. \A n \in W : Place(W, n) \in Nat /\ Place(W, n) > 0
  <2>1. \A n \in W : Place(W, n) \in 1 .. Cardinality(W) /\ Cardinality(W) \in Nat
    BY <1>4, PlaceOrders
  <2>2. QED
    BY <2>1
<1>15. ScanOnCourse'
  <2>1. SUFFICES ASSUME stage = "scanning"
                 PROVE  QuietSoFar' /\ GrowingSoFar' /\ reader # "unsubscribed"
    BY <1>2, <1>3 DEF ScanOnCourse
  <2>2. reader # "unsubscribed"
    BY <2>1 DEF stage, Nobody
  <2>3. Seen' = {}
    <3>1. Seen' = {n \in R : Place(W, n) <= 0}
      BY <1>3, <1>13 DEF Seen, Behind, Place
    <3>2. \A n \in R : ~(Place(W, n) <= 0)
      BY <1>4, <1>14
    <3>3. QED
      BY <3>1, <3>2
  <2>4. start = NewestFirst(Cut(R, offset, limit))
    BY DEF start, C
  <2>5. 0 = Cardinality({}) /\ <<>> = NewestFirst(Cut({}, offset, limit))
    BY <1>2, CutNothing, ListOfNothing, FS_EmptySet
  <2>6. QuietSoFar'
    BY <1>3, <1>13, <2>3, <2>4, <2>5, ListOfNothing DEF QuietSoFar
  <2>7. GrowingSoFar'
    <3>1. \A i \in DOMAIN start : Place(W, start[i]) > 0
      BY <1>4, <1>9, <1>14
    <3>2. QED
      BY <1>3, <1>9, <1>13, <3>1 DEF GrowingSoFar
  <2>8. QED
    BY <2>2, <2>6, <2>7
<1>16. AnswerFaithful'
  <2>1. SUFFICES ASSUME stage # "scanning", reader # "unsubscribed"
                 PROVE  Ids(<<>>) = start
    BY <1>2, <1>3 DEF AnswerFaithful
  <2>2. limit = 0
    BY <2>1 DEF stage, Nobody
  <2>3. C = {}
    BY <1>2, <1>5, <2>2, CutNothing DEF C
  <2>4. QED
    BY <2>3, ListOfNothing DEF start
<1>17. QED
  BY <1>11, <1>12, <1>15, <1>16 DEF PagesInv

LEMMA AnsweringKeepsPages ==
  ASSUME PagesInv,
         \/ \E reader \in Reader, n \in DOMAIN board : GetAlert(reader, n)
         \/ RecordView \/ EndRead
  PROVE  PagesInv'
<1>1. PagesTypeOK /\ ShownAllowed /\ ScanOnCourse /\ AnswerFaithful
  BY DEF PagesInv
<1>2. ASSUME NEW reader \in Reader, NEW n \in DOMAIN board, GetAlert(reader, n)
      PROVE  PagesInv'
  <2> DEFINE ids == <<n>>
  <2>1. board' = board /\ board[n].state = "committed" /\ MayRead(reader, n)
    BY <1>2 DEF GetAlert
  <2>2. read' = [op |-> "get", reader |-> reader, filter |-> "any", limit |-> 0, offset |-> 0,
                 at |-> 0, matched |-> 0, selected |-> RowsOf(ids), stage |-> "selected",
                 start |-> ids, calm |-> "quiet"]
    BY <1>2 DEF GetAlert
  <2>3. DOMAIN board \in SUBSET (1 .. MaxAlerts)
    BY <1>1, QueryFinds
  <2>4. /\ {n} \in SUBSET DOMAIN board /\ ids \in Seq({n}) /\ ids \in Seq(1 .. MaxAlerts)
        /\ DOMAIN ids = 1 .. 1 /\ ids[1] = n
    BY <2>3
  <2> HIDE DEF ids
  <2>5. /\ RowsOf(ids) \in Seq(Shown) /\ DOMAIN RowsOf(ids) = DOMAIN ids
        /\ \A k \in DOMAIN ids : RowsOf(ids)[k].id = ids[k] /\ ids[k] \in {n}
    BY <1>1, <2>4, RowsOfIds
  <2>6. read' \in Reading
    BY <2>2, <2>4, <2>5, PagesAssumption DEF Reading, PagesAssumption
  <2>7. PagesTypeOK'
    BY <1>1, <2>1, <2>6 DEF PagesTypeOK
  <2>8. ShownAllowed'
    BY <2>1, <2>2, <2>5 DEF ShownAllowed, MayRead
  <2>9. ScanOnCourse' /\ AnswerFaithful'
    BY <2>2 DEF ScanOnCourse, AnswerFaithful
  <2>10. QED
    BY <2>7, <2>8, <2>9 DEF PagesInv
<1>3. CASE RecordView
  <2>1. read \in Reading /\ read # NoRead /\ read.stage = "selected" /\ board' = board
        /\ read' = [read EXCEPT !.stage = "recorded"]
    BY <1>1, <1>3 DEF RecordView, PagesTypeOK
  <2>2. read' \in Reading
    BY <2>1 DEF Reading
  <2>3. /\ read'.op = read.op /\ read'.reader = read.reader /\ read'.filter = read.filter
        /\ read'.limit = read.limit /\ read'.offset = read.offset
        /\ read'.selected = read.selected /\ read'.stage = "recorded"
        /\ read'.start = read.start /\ read'.calm = read.calm
    BY <2>1 DEF Reading
  <2>4. ShownAllowed'
    BY <1>1, <2>1, <2>3 DEF ShownAllowed, MayRead
  <2>5. ScanOnCourse'
    BY <2>3 DEF ScanOnCourse
  <2>6. AnswerFaithful'
    BY <1>1, <2>1, <2>3 DEF AnswerFaithful, Ids, Shows
  <2>7. QED
    BY <1>1, <2>1, <2>2, <2>4, <2>5, <2>6 DEF PagesInv, PagesTypeOK
<1>4. CASE EndRead
  <2>1. read' = NoRead /\ board' = board
    BY <1>4 DEF EndRead
  <2>2. QED
    BY <1>1, <2>1 DEF PagesInv, PagesTypeOK, ShownAllowed, ScanOnCourse, AnswerFaithful
<1>5. QED
  BY <1>2, <1>3, <1>4

\* The rows shown are those of the places found, in their statuses.
ShowsAll(shown, found) ==
  /\ \A n \in found : \E j \in DOMAIN shown : shown[j].id = n
  /\ \A j \in DOMAIN shown :
       \E n \in found : shown[j].id = n /\ shown[j].status = board[n].status

\* No page is longer than its limit, and whoever is in it is in its list.
LEMMA PageFits ==
  ASSUME PagesTypeOK, NEW S \in SUBSET DOMAIN board, NEW o \in Nat, NEW l \in Nat
  PROVE  LET C == Cut(S, o, l)
             shown == RowsOf(NewestFirst(C))
         IN /\ S \in SUBSET Nat /\ IsFiniteSet(S) /\ C \in SUBSET S
            /\ shown \in Seq(Shown) /\ Len(shown) = Cardinality(C)
            /\ Cardinality(C) \in Nat /\ Cardinality(C) <= l
            /\ Ids(shown) = NewestFirst(C)
            /\ ShowsAll(shown, C)
<1> DEFINE C == Cut(S, o, l)
           ids == NewestFirst(C)
<1>1. DOMAIN board = 1 .. Len(board) /\ Len(board) \in Nat
  BY DEF PagesTypeOK
<1>2. IsFiniteSet(DOMAIN board) /\ DOMAIN board \in SUBSET Nat
  BY <1>1, FS_Interval
<1>3. S \in SUBSET Nat /\ IsFiniteSet(S)
  BY <1>2, FS_Subset
<1>4. C \in SUBSET S /\ IsFiniteSet(C) /\ Cardinality(C) \in Nat /\ Cardinality(C) <= l
  <2>1. /\ C \in SUBSET S /\ IsFiniteSet(C)
        /\ Cardinality(S) \in Nat /\ Cardinality(C) \in Nat
        /\ Cardinality(S) <= o => Cardinality(C) = 0
        /\ Cardinality(S) > o => Cardinality(C) = Lesser(l, Cardinality(S) - o)
    BY <1>3, CutSize
  <2>2. QED
    BY <2>1 DEF Lesser
<1>5. C \in SUBSET Nat /\ C \in SUBSET DOMAIN board
  BY <1>2, <1>4
<1> HIDE DEF C
<1>6. /\ ids \in Seq(C) /\ ids \in [1 .. Cardinality(C) -> C] /\ Len(ids) = Cardinality(C)
      /\ \A n \in C : ids[Place(C, n)] = n
  BY <1>4, <1>5, ListOf
<1>7. \A n \in C : Place(C, n) \in 1 .. Cardinality(C)
  BY <1>4, <1>5, PlaceOrders
<1> HIDE DEF ids
<1>8. /\ RowsOf(ids) \in Seq(Shown) /\ Len(RowsOf(ids)) = Len(ids)
      /\ Ids(RowsOf(ids)) = ids /\ DOMAIN RowsOf(ids) = DOMAIN ids
      /\ \A k \in DOMAIN ids :
           /\ RowsOf(ids)[k].id = ids[k] /\ ids[k] \in C
           /\ RowsOf(ids)[k].status = board[ids[k]].status
  BY <1>5, <1>6, RowsOfIds
<1>9. DOMAIN ids = 1 .. Cardinality(C)
  BY <1>6
<1>10. \A n \in C : \E j \in DOMAIN RowsOf(ids) : RowsOf(ids)[j].id = n
  BY <1>6, <1>7, <1>8, <1>9
<1>11. \A j \in DOMAIN RowsOf(ids) :
         \E n \in C : RowsOf(ids)[j].id = n /\ RowsOf(ids)[j].status = board[n].status
  BY <1>8
<1>12. QED
  BY <1>3, <1>4, <1>6, <1>8, <1>10, <1>11 DEF ids, C, ShowsAll

LEMMA ReadingBounds ==
  ASSUME NEW r \in Reading
  PROVE  /\ r.offset \in Nat /\ r.limit \in Nat /\ r.at \in Nat /\ r.matched \in Nat
         /\ r.selected \in Seq(Shown) /\ r.start \in Seq(1 .. MaxAlerts)
         /\ Batch \in Nat /\ Len(r.selected) \in Nat
<1>1. r.offset \in Offsets \cup {0}
  BY DEF Reading
<1>2. /\ r.limit \in 0 .. MaxLimit
      /\ r.at \in Nat /\ r.matched \in Nat
      /\ r.selected \in Seq(Shown) /\ r.start \in Seq(1 .. MaxAlerts)
  BY DEF Reading
<1>3. Len(r.selected) \in Nat
  BY <1>2
<1>4. r.offset \in Nat /\ Batch \in Nat /\ MaxLimit \in Nat
  <2>1. Offsets \subseteq Nat /\ Batch \in Nat /\ MaxLimit \in Nat
    BY PagesAssumption DEF PagesAssumption
  <2>2. r.offset \in Nat
    <3>1. 0 \in Nat /\ \A x \in Offsets : x \in Nat
      BY <2>1
    <3>2. r.offset \in Offsets \/ r.offset = 0
      BY <1>1
    <3>3. QED
      BY <3>1, <3>2, Zenon
  <2>3. QED
    BY <2>1, <2>2
<1>5. r.limit \in Nat
  BY <1>2, <1>4
<1>6. QED
  BY <1>2, <1>3, <1>4, <1>5

LEMMA ListForAdminKeepsPages ==
  ASSUME PagesInv, ListForAdmin
  PROVE  PagesInv'
<1> DEFINE o == read.offset
           l == read.limit
           W == Fitting(read.filter)
           C == Cut(W, o, l)
           shown == RowsOf(NewestFirst(C))
<1>1. PagesTypeOK /\ ScanOnCourse /\ board' = board
  BY DEF PagesInv, ListForAdmin
<1>2. read \in Reading /\ read # NoRead /\ read.stage = "scanning" /\ read.reader = "admin"
  BY <1>1 DEF ListForAdmin, PagesTypeOK
<1>3. o \in Nat /\ l \in Nat
  BY <1>2, ReadingBounds
<1>4. /\ W \in SUBSET DOMAIN board
      /\ \A n \in W : board[n].state = "committed" /\ read.filter \in {"any", board[n].status}
  BY <1>1, QueryFinds
<1>5. read' = [read EXCEPT !.selected = shown, !.stage = "selected"]
  BY DEF ListForAdmin
<1> HIDE DEF W, o, l
<1>6. /\ W \in SUBSET Nat /\ IsFiniteSet(W) /\ C \in SUBSET W
      /\ shown \in Seq(Shown) /\ Len(shown) = Cardinality(C)
      /\ Cardinality(C) \in Nat /\ Cardinality(C) <= l
      /\ Ids(shown) = NewestFirst(C)
      /\ ShowsAll(shown, C)
  <2>1. PagesTypeOK /\ W \in SUBSET DOMAIN board /\ o \in Nat /\ l \in Nat
    BY <1>1, <1>3, <1>4
  <2>2. QED
    BY ONLY <2>1, PageFits
<1>7. Wanted = W /\ Readable = W
  BY <1>2 DEF W, Wanted, Readable, ReadableOf, MayRead
<1>8. QuietSoFar /\ GrowingSoFar
  BY <1>1, <1>2 DEF ScanOnCourse
<1>9. read.calm = "quiet" => Ids(shown) = read.start
  BY <1>6, <1>7, <1>8 DEF QuietSoFar, o, l
<1>10. ASSUME read.calm = "grew", o = 0, Len(shown) < l
       PROVE  \A i \in DOMAIN read.start : \E j \in DOMAIN shown : shown[j].id = read.start[i]
  <2>1. C = W
    BY <1>3, <1>6, <1>10, WholePage
  <2>2. \A i \in DOMAIN read.start : read.start[i] \in W
    BY <1>7, <1>8, <1>10 DEF GrowingSoFar, o
  <2>3. QED
    BY <1>6, <2>1, <2>2 DEF ShowsAll
<1> HIDE DEF shown, C
<1>11. /\ read' \in Reading
       /\ read'.op = read.op /\ read'.reader = read.reader /\ read'.filter = read.filter
       /\ read'.limit = read.limit /\ read'.offset = read.offset
       /\ read'.selected = shown /\ read'.stage = "selected"
       /\ read'.start = read.start /\ read'.calm = read.calm
  BY <1>2, <1>5, <1>6 DEF Reading
<1>12. ShownAllowed'
  <2>1. \A j \in DOMAIN shown :
          /\ shown[j].id \in DOMAIN board /\ board[shown[j].id].state = "committed"
          /\ read.filter \in {"any", shown[j].status}
    BY <1>4, <1>6 DEF ShowsAll
  <2>2. QED
    BY <1>1, <1>2, <1>11, <2>1 DEF ShownAllowed, MayRead
<1>13. AnswerFaithful'
  BY <1>2, <1>6, <1>9, <1>10, <1>11 DEF AnswerFaithful, Shows, Ids, o, l
<1>14. QED
  BY <1>1, <1>11, <1>12, <1>13 DEF PagesInv, PagesTypeOK, ScanOnCourse

LEMMA ScanBatchKeepsPages ==
  ASSUME PagesInv, ScanBatch
  PROVE  PagesInv'
<1> DEFINE o == read.offset
           l == read.limit
           at == read.at
           done == read.selected
           W == Fitting(read.filter)
           R == ReadableOf(read.reader, W)
           batch == Cut(W, at, Batch)
           mine == ReadableOf(read.reader, batch)
           skip == o - Lesser(read.matched, o)
           room == l - Len(done)
           fresh == Cut(mine, skip, room)
           added == RowsOf(NewestFirst(fresh))
           chosen == done \o added
           ended == Cardinality(batch) < Batch \/ Len(chosen) = l
           stage == IF ended THEN "selected" ELSE "scanning"
           upto == Behind(W, R, at + Batch)
           later == Ahead(W, R, at + Batch)
<1>1. PagesTypeOK /\ ShownAllowed /\ ScanOnCourse /\ board' = board
  BY DEF PagesInv, ScanBatch
<1>2. read \in Reading /\ read # NoRead /\ read.stage = "scanning" /\ read.reader = "subscribed"
  BY <1>1 DEF ScanBatch, PagesTypeOK
<1>3. /\ o \in Nat /\ l \in Nat /\ at \in Nat /\ read.matched \in Nat /\ Batch \in Nat
      /\ done \in Seq(Shown) /\ Len(done) \in Nat
  BY <1>2, ReadingBounds
<1>4. read.op = "list" /\ Len(done) <= l /\ QuietSoFar /\ GrowingSoFar
  BY <1>1, <1>2 DEF ScanOnCourse
<1>5. skip \in Nat /\ room \in Nat
  BY <1>3, <1>4 DEF Lesser
<1>6. /\ W \in SUBSET Nat /\ IsFiniteSet(W) /\ W \in SUBSET DOMAIN board
      /\ \A n \in W : board[n].state = "committed" /\ read.filter \in {"any", board[n].status}
      /\ R \in SUBSET W
  BY <1>1, QueryFinds
<1>7. Wanted = W /\ Readable = R /\ Seen = Behind(W, R, at)
  BY DEF Wanted, Readable, Seen
<1>8. \A n \in R : MayRead(read.reader, n)
  BY DEF R, ReadableOf
<1>9. mine = R \cap batch
  <2>1. batch \subseteq W
    BY DEF Cut
  <2>2. QED
    BY <2>1 DEF ReadableOf
<1>10. read' = [read EXCEPT !.selected = chosen, !.matched = @ + Cardinality(mine),
                            !.at = @ + Batch, !.stage = stage]
  BY DEF ScanBatch
<1> HIDE DEF W, R, batch, mine, skip, room
<1>11. mine \in SUBSET R /\ mine \in SUBSET DOMAIN board
  BY <1>6, <1>9
<1>12. /\ mine \in SUBSET Nat /\ IsFiniteSet(mine) /\ fresh \in SUBSET mine
       /\ added \in Seq(Shown) /\ Len(added) = Cardinality(fresh)
       /\ Cardinality(fresh) \in Nat /\ Cardinality(fresh) <= room
       /\ Ids(added) = NewestFirst(fresh)
       /\ ShowsAll(added, fresh)
  <2>1. PagesTypeOK /\ mine \in SUBSET DOMAIN board /\ skip \in Nat /\ room \in Nat
    BY <1>1, <1>5, <1>11
  <2>2. QED
    BY ONLY <2>1, PageFits
<1> HIDE DEF fresh, added
<1>13. /\ chosen \in Seq(Shown) /\ Len(chosen) = Len(done) + Cardinality(fresh)
       /\ Ids(chosen) = Ids(done) \o NewestFirst(fresh)
       /\ Len(Ids(chosen)) = Len(chosen) /\ Len(Ids(done)) = Len(done)
       /\ \A k \in DOMAIN chosen :
            \/ k \in DOMAIN done /\ chosen[k] = done[k]
            \/ \E j \in DOMAIN added : chosen[k] = added[j]
       /\ \A k \in DOMAIN done : k \in DOMAIN chosen /\ chosen[k] = done[k]
       /\ \A j \in DOMAIN added : \E k \in DOMAIN chosen : chosen[k] = added[j]
  <2>1. /\ chosen \in Seq(Shown) /\ Len(chosen) = Len(done) + Len(added)
        /\ Ids(chosen) = Ids(done) \o Ids(added)
        /\ Len(Ids(done)) = Len(done)
        /\ \A k \in DOMAIN chosen :
             \/ k \in DOMAIN done /\ chosen[k] = done[k]
             \/ \E j \in DOMAIN added : chosen[k] = added[j]
        /\ \A k \in DOMAIN done : k \in DOMAIN chosen /\ chosen[k] = done[k]
        /\ \A j \in DOMAIN added : \E k \in DOMAIN chosen : chosen[k] = added[j]
    <3>1. done \in Seq(Shown) /\ added \in Seq(Shown)
      BY <1>3, <1>12
    <3>2. QED
      BY ONLY <3>1, IdsJoin
  <2>2. Len(Ids(chosen)) = Len(chosen)
    <3> HIDE DEF chosen
    <3>1. \A s \in Seq(Shown) : Len(Ids(s)) = Len(s)
      BY IdsJoin
    <3>2. QED
      BY <2>1, <3>1
  <2>3. QED
    BY <1>12, <2>1, <2>2
<1> HIDE DEF chosen, done
<1>14. Len(chosen) \in Nat /\ Len(chosen) <= l /\ Len(done) <= Len(chosen)
  BY <1>3, <1>4, <1>12, <1>13 DEF room
<1>15. /\ Seen \cup mine = upto /\ R = upto \cup later
       /\ IsFiniteSet(Seen) /\ IsFiniteSet(upto) /\ IsFiniteSet(later)
       /\ Seen \in SUBSET Nat /\ upto \in SUBSET Nat /\ later \in SUBSET Nat
       /\ AllAbove(Seen, mine) /\ AllAbove(upto, later)
       /\ Cardinality(batch) < Batch => later = {}
  <2>1. W \in SUBSET Nat /\ IsFiniteSet(W) /\ R \in SUBSET W /\ at \in Nat /\ Batch \in Nat
    BY <1>3, <1>6
  <2> HIDE DEF at
  <2>2. Divides(W, R, at, Batch)
    BY ONLY <2>1, BatchDivides
  <2>3. QED
    BY <1>7, <1>9, <2>2 DEF batch, Divides
<1> HIDE DEF later, upto
<1>16. ASSUME read.calm = "quiet"
       PROVE  /\ read.matched + Cardinality(mine) = Cardinality(upto)
              /\ Ids(chosen) = NewestFirst(Cut(upto, o, l))
              /\ ended => Ids(chosen) = NewestFirst(Cut(R, o, l))
  <2>1. /\ read.start = NewestFirst(Cut(R, o, l)) /\ read.matched = Cardinality(Seen)
        /\ Ids(done) = NewestFirst(Cut(Seen, o, l))
    BY <1>4, <1>7, <1>16 DEF QuietSoFar, done
  <2>2. read.matched + Cardinality(mine) = Cardinality(upto)
    <3>1. Cardinality(Seen \cup mine) = Cardinality(Seen) + Cardinality(mine)
      BY <1>12, <1>15, JoinPlaces
    <3>2. QED
      BY <1>15, <2>1, <3>1
  <2> HIDE DEF o, l
  <2>3. Ids(chosen) = NewestFirst(Cut(upto, o, l))
    <3>1. NewestFirst(Cut(Seen \cup mine, o, l)) =
            NewestFirst(Cut(Seen, o, l)) \o
              NewestFirst(Cut(mine, o - Lesser(Cardinality(Seen), o),
                              l - Len(NewestFirst(Cut(Seen, o, l)))))
      <4>1. /\ Seen \in SUBSET Nat /\ IsFiniteSet(Seen) /\ mine \in SUBSET Nat
            /\ IsFiniteSet(mine) /\ AllAbove(Seen, mine) /\ o \in Nat /\ l \in Nat
        BY <1>3, <1>12, <1>15
      <4>2. QED
        BY ONLY <4>1, PageJoins, Zenon
    <3>2. fresh = Cut(mine, o - Lesser(Cardinality(Seen), o),
                      l - Len(NewestFirst(Cut(Seen, o, l))))
      BY <1>13, <2>1 DEF fresh, skip, room
    <3>3. QED
      BY <1>13, <1>15, <2>1, <3>1, <3>2
  <2>4. ASSUME ended PROVE Ids(chosen) = NewestFirst(Cut(R, o, l))
    <3>1. CASE Cardinality(batch) < Batch
      BY <1>15, <2>3, <3>1
    <3>2. CASE Len(chosen) = l
      <4>1. Len(NewestFirst(Cut(upto, o, l))) = l
        BY <1>13, <2>3, <3>2
      <4>2. NewestFirst(Cut(upto \cup later, o, l)) = NewestFirst(Cut(upto, o, l))
        <5>1. /\ upto \in SUBSET Nat /\ IsFiniteSet(upto) /\ later \in SUBSET Nat
              /\ IsFiniteSet(later) /\ AllAbove(upto, later) /\ o \in Nat /\ l \in Nat
          BY <1>3, <1>15
        <5>2. QED
          BY ONLY <4>1, <5>1, PageJoins, Zenon
      <4>3. QED
        BY <1>15, <2>3, <4>2
    <3>3. QED
      BY <2>4, <3>1, <3>2
  <2>5. QED
    BY <2>2, <2>3, <2>4
<1>17. ASSUME read.calm # "changed", o = 0, NEW i \in DOMAIN read.start
       PROVE  /\ read.start[i] \in R
              /\ Len(chosen) < l =>
                   \/ \E j \in DOMAIN chosen : chosen[j].id = read.start[i]
                   \/ Place(W, read.start[i]) > at + Batch
  <2> DEFINE n == read.start[i]
  <2>1. /\ n \in R
        /\ Len(done) < l =>
             (\E j \in DOMAIN done : done[j].id = n) \/ Place(W, n) > at
    BY <1>4, <1>7, <1>17 DEF GrowingSoFar, Shows, done
  <2> HIDE DEF n
  <2>2. SUFFICES ASSUME Len(chosen) < l, ~(Place(W, n) > at + Batch)
                 PROVE  \E j \in DOMAIN chosen : chosen[j].id = n
    BY <2>1 DEF n
  <2>3. Len(done) < l /\ Cardinality(fresh) < room
    BY <1>3, <1>12, <1>13, <1>14, <2>2 DEF room
  <2>4. CASE \E j \in DOMAIN done : done[j].id = n
    BY <1>13, <2>4
  <2>5. CASE Place(W, n) > at
    <3>1. skip = 0
      BY <1>3, <1>17 DEF skip, Lesser
    <3>2. mine = {m \in R : m \in Cut(W, at, Batch)}
      BY <1>9 DEF batch
    <3>3. n \in fresh
      <4>1. LET page == Cut({m \in R : m \in Cut(W, at, Batch)}, 0, room)
            IN  Cardinality(page) < room => n \in page \/ Place(W, n) > at + Batch
        BY <1>3, <1>5, <1>6, <2>1, <2>5, ShownOrLater
      <4>2. QED
        BY <2>2, <2>3, <3>1, <3>2, <4>1 DEF fresh
    <3>4. PICK j \in DOMAIN added : added[j].id = n
      BY <1>12, <3>3 DEF ShowsAll
    <3>5. PICK k \in DOMAIN chosen : chosen[k] = added[j]
      BY <1>13
    <3>6. QED
      BY <3>4, <3>5
  <2>6. QED
    BY <2>1, <2>3, <2>4, <2>5
<1>18. ASSUME Cardinality(batch) < Batch, NEW n \in R
       PROVE  ~(Place(W, n) > at + Batch)
  <2>1. n \notin Ahead(W, R, at + Batch)
    BY <1>15, <1>18 DEF later
  <2>2. QED
    BY <2>1 DEF Ahead
<1> HIDE DEF o, l, at, stage, ended
<1>19. /\ read' \in Reading
       /\ read'.op = "list" /\ read'.reader = "subscribed" /\ read'.filter = read.filter
       /\ read'.limit = l /\ read'.offset = o /\ read'.at = at + Batch
       /\ read'.matched = read.matched + Cardinality(mine)
       /\ read'.selected = chosen /\ read'.stage = stage
       /\ read'.start = read.start /\ read'.calm = read.calm
  <2>1. read.matched + Cardinality(mine) \in Nat /\ at + Batch \in Nat
    BY <1>3, <1>12, FS_CardinalityType
  <2>2. stage \in {"scanning", "selected", "recorded"}
    BY DEF stage
  <2> DEFINE matched == read.matched + Cardinality(mine)
             next == at + Batch
  <2>3. read' = [read EXCEPT !.selected = chosen, !.matched = matched, !.at = next,
                             !.stage = stage]
    BY <1>10 DEF at
  <2>4. matched \in Nat /\ next \in Nat
    BY <2>1
  <2> HIDE DEF matched, next
  <2>5. /\ read' \in Reading
        /\ read'.op = read.op /\ read'.reader = read.reader /\ read'.filter = read.filter
        /\ read'.limit = read.limit /\ read'.offset = read.offset /\ read'.at = next
        /\ read'.matched = matched /\ read'.selected = chosen /\ read'.stage = stage
        /\ read'.start = read.start /\ read'.calm = read.calm
    BY <1>2, <1>13, <2>2, <2>3, <2>4 DEF Reading
  <2>6. QED
    BY <1>2, <1>4, <2>5 DEF matched, next, o, l
<1>20. Wanted' = W /\ Readable' = R /\ Seen' = upto
  <2>1. Wanted' = W
    BY <1>1, <1>19 DEF Wanted, Fitting, W
  <2>2. Readable' = R
    BY <1>1, <1>2, <1>19, <2>1 DEF Readable, ReadableOf, MayRead, R
  <2>3. QED
    BY <1>19, <2>1, <2>2 DEF Seen, Behind, Place, upto
<1>21. ShownAllowed'
  <2>1. \A n \in fresh : /\ n \in DOMAIN board /\ board[n].state = "committed"
                         /\ MayRead(read.reader, n) /\ read.filter \in {"any", board[n].status}
    BY <1>6, <1>8, <1>9, <1>12
  <2>2. \A j \in DOMAIN added :
          /\ added[j].id \in DOMAIN board /\ board[added[j].id].state = "committed"
          /\ MayRead(read.reader, added[j].id) /\ read.filter \in {"any", added[j].status}
    BY <1>12, <2>1 DEF ShowsAll
  <2>3. \A j \in DOMAIN done :
          /\ done[j].id \in DOMAIN board /\ board[done[j].id].state = "committed"
          /\ MayRead(read.reader, done[j].id) /\ read.filter \in {"any", done[j].status}
    BY <1>1, <1>2 DEF ShownAllowed, done
  <2>4. \A k \in DOMAIN chosen :
          /\ chosen[k].id \in DOMAIN board /\ board[chosen[k].id].state = "committed"
          /\ MayRead(read.reader, chosen[k].id) /\ read.filter \in {"any", chosen[k].status}
    BY <1>13, <2>2, <2>3
  <2>5. QED
    BY <1>1, <1>2, <1>19, <2>4 DEF ShownAllowed, MayRead
<1>22. ScanOnCourse'
  <2>1. QuietSoFar'
    <3>1. SUFFICES ASSUME read.calm = "quiet"
                   PROVE  /\ read.start = NewestFirst(Cut(R, o, l))
                          /\ read.matched + Cardinality(mine) = Cardinality(upto)
                          /\ Ids(chosen) = NewestFirst(Cut(upto, o, l))
      BY <1>19, <1>20 DEF QuietSoFar
    <3>2. read.start = NewestFirst(Cut(R, o, l))
      BY <1>4, <1>7, <3>1 DEF QuietSoFar, o, l
    <3>3. QED
      BY <1>16, <3>1, <3>2
  <2>2. GrowingSoFar'
    BY <1>17, <1>19, <1>20 DEF GrowingSoFar, Shows
  <2>3. QED
    BY <1>14, <1>19, <2>1, <2>2 DEF ScanOnCourse
<1>23. AnswerFaithful'
  <2>1. SUFFICES ASSUME ended
                 PROVE  /\ read.calm = "quiet" => Ids(chosen) = read.start
                        /\ read.calm = "grew" /\ o = 0 /\ Len(chosen) < l =>
                             \A i \in DOMAIN read.start :
                               \E j \in DOMAIN chosen : chosen[j].id = read.start[i]
    BY <1>14, <1>19 DEF AnswerFaithful, Shows, Ids, stage
  <2>2. ASSUME read.calm = "quiet" PROVE Ids(chosen) = read.start
    BY <1>4, <1>7, <1>16, <2>1, <2>2 DEF QuietSoFar, o, l
  <2>3. ASSUME read.calm = "grew", o = 0, Len(chosen) < l, NEW i \in DOMAIN read.start
        PROVE  \E j \in DOMAIN chosen : chosen[j].id = read.start[i]
    <3>1. Cardinality(batch) < Batch
      BY <1>3, <1>14, <2>1, <2>3 DEF ended
    <3>2. QED
      BY <1>17, <1>18, <2>3, <3>1
  <2>4. QED
    BY <2>2, <2>3
<1>24. QED
  BY <1>1, <1>19, <1>21, <1>22, <1>23 DEF PagesInv, PagesTypeOK

-----------------------------------------------------------------------------
(* Lists of alerts. *)

LEMMA PagesInductive ==
  /\ PagesInit => PagesInv
  /\ PagesInv /\ [PagesNext]_pageVars => PagesInv'
<1>1. ASSUME PagesInit PROVE PagesInv
  <2>1. board = <<>> /\ read = NoRead
    BY <1>1 DEF PagesInit
  <2>2. <<>> \in Seq(BoardRow) /\ Len(<<>>) <= MaxAlerts
    BY PagesAssumption DEF PagesAssumption
  <2>3. QED
    BY <2>1, <2>2 DEF PagesInv, PagesTypeOK, ShownAllowed, ScanOnCourse, AnswerFaithful
<1>2. ASSUME PagesInv, [PagesNext]_pageVars
      PROVE  PagesInv'
  <2>1. CASE BoardMoves
    BY <1>2, <2>1, BoardMovesKeepPages
  <2>2. ASSUME NEW reader \in Reader, NEW filter \in Filters, NEW limit \in Limits,
               NEW offset \in Offsets, BeginList(reader, filter, limit, offset)
        PROVE  PagesInv'
    BY <1>2, <2>2, BeginListKeepsPages
  <2>3. CASE \/ \E reader \in Reader, n \in DOMAIN board : GetAlert(reader, n)
             \/ RecordView \/ EndRead
    BY <1>2, <2>3, AnsweringKeepsPages
  <2>4. CASE ListForAdmin
    BY <1>2, <2>4, ListForAdminKeepsPages
  <2>5. CASE ScanBatch
    BY <1>2, <2>5, ScanBatchKeepsPages
  <2>6. CASE UNCHANGED pageVars
    <3>1. board' = board /\ read' = read
      BY <2>6 DEF pageVars
    <3>2. Wanted' = Wanted /\ Readable' = Readable
      BY <3>1 DEF Wanted, Fitting, Readable, ReadableOf, MayRead
    <3>3. Seen' = Seen
      BY <3>1, <3>2 DEF Seen, Behind, Place
    <3>4. QED
      BY <1>2, <3>1, <3>2, <3>3 DEF PagesInv, PagesTypeOK, ShownAllowed, MayRead, ScanOnCourse,
         QuietSoFar, GrowingSoFar, AnswerFaithful, Ids, Shows
  <2>7. QED
    BY <1>2, <2>1, <2>2, <2>3, <2>4, <2>5, <2>6 DEF PagesNext, BoardMoves
<1>3. QED
  BY <1>1, <1>2

LEMMA PagesInvFaithful == PagesInv => PagesFaithful
<1>1. SUFFICES ASSUME PagesInv, read # NoRead, read.stage = "recorded"
               PROVE  LET shown == Ids(read.selected) IN
                      /\ \A k \in DOMAIN shown :
                           /\ board[shown[k]].state = "committed"
                           /\ MayRead(read.reader, shown[k])
                           /\ read.filter \in {"any", read.selected[k].status}
                      /\ read.op = "list" /\ read.reader = "unsubscribed" => shown = <<>>
                      /\ read.op = "list" /\ read.reader # "unsubscribed" =>
                           /\ Len(shown) <= read.limit
                           /\ read.calm = "quiet" => shown = read.start
                           /\ read.calm = "grew" /\ read.offset = 0 /\ Len(shown) < read.limit =>
                                \A i \in DOMAIN read.start :
                                  \E j \in DOMAIN shown : shown[j] = read.start[i]
  BY DEF PagesFaithful
<1> DEFINE rowsRead == read.selected
           shown == Ids(rowsRead)
<1>2. rowsRead \in Seq(Shown) /\ ShownAllowed /\ AnswerFaithful
  BY <1>1, ReadingBounds DEF PagesInv, PagesTypeOK
<1>3. DOMAIN shown = DOMAIN rowsRead /\ \A k \in DOMAIN shown : shown[k] = rowsRead[k].id
  BY DEF Ids
<1>4. Len(shown) = Len(rowsRead)
  <2> HIDE DEF rowsRead
  <2>1. \A s \in Seq(Shown) : Len(Ids(s)) = Len(s)
    BY IdsJoin
  <2>2. QED
    BY <1>2, <2>1
<1>5. \A k \in DOMAIN shown :
        /\ board[shown[k]].state = "committed" /\ MayRead(read.reader, shown[k])
        /\ read.filter \in {"any", read.selected[k].status}
  BY <1>1, <1>2, <1>3 DEF ShownAllowed
<1>6. read.op = "list" /\ read.reader = "unsubscribed" => shown = <<>>
  BY <1>1, <1>2, ListOfNothing DEF AnswerFaithful
<1>7. read.op = "list" /\ read.reader # "unsubscribed" =>
        /\ Len(shown) <= read.limit
        /\ read.calm = "quiet" => shown = read.start
        /\ read.calm = "grew" /\ read.offset = 0 /\ Len(shown) < read.limit =>
             \A i \in DOMAIN read.start : \E j \in DOMAIN shown : shown[j] = read.start[i]
  BY <1>1, <1>2, <1>3, <1>4 DEF AnswerFaithful, Shows
<1>8. QED
  BY <1>5, <1>6, <1>7

-----------------------------------------------------------------------------
(* Lists walked through. *)

LEMMA SelectionFinds ==
  ASSUME ListsTypeOK, NEW filtered
  PROVE  LET S == Selected(filtered) IN
         /\ S \in SUBSET DOMAIN rows /\ S \in SUBSET Nat /\ IsFiniteSet(S)
         /\ Cardinality(S) \in Nat /\ Cardinality(S) <= Len(rows)
<1>1. DOMAIN rows = 1 .. Len(rows) /\ Len(rows) \in Nat
  BY DEF ListsTypeOK
<1>2. IsFiniteSet(DOMAIN rows) /\ Cardinality(DOMAIN rows) = Len(rows)
  <2> DEFINE n == Len(rows)
  <2>1. 1 \in Int /\ n \in Int /\ n \in Nat
    BY <1>1
  <2> HIDE DEF n
  <2>2. IsFiniteSet(1 .. n) /\ Cardinality(1 .. n) = IF 1 > n THEN 0 ELSE n - 1 + 1
    BY <2>1, FS_Interval
  <2>3. Cardinality(1 .. n) = n
    BY <2>1, <2>2
  <2>4. QED
    BY <1>1, <2>2, <2>3 DEF n
<1>3. Selected(filtered) \in SUBSET DOMAIN rows /\ DOMAIN rows \in SUBSET Nat
  BY <1>1 DEF Selected
<1> DEFINE S == Selected(filtered)
<1> HIDE DEF S
<1>4. S \in SUBSET DOMAIN rows
  BY <1>3 DEF S
<1>5. IsFiniteSet(S) /\ Cardinality(S) \in Nat /\ Cardinality(S) <= Len(rows)
  BY <1>2, <1>4, FS_Subset, FS_CardinalityType
<1>6. S \in SUBSET Nat
  BY <1>3, <1>4
<1>7. QED
  BY <1>4, <1>5, <1>6 DEF S

\* Where the row at m is after the one at i has moved to j.
Moved(i, j, m) == IF m < i \/ m > j THEN m ELSE IF m = i THEN j ELSE m - 1

\* Nobody moves up the list when one row moves towards its head.
LEMMA MoveKeepsPlaces ==
  ASSUME NEW S \in SUBSET Nat, IsFiniteSet(S), NEW T \in SUBSET Nat, IsFiniteSet(T),
         NEW i \in Nat, NEW j \in Nat, i <= j, \A m \in S : Moved(i, j, m) \in T,
         NEW n \in S, n # i
  PROVE  /\ Place(S, n) \in Nat /\ Place(T, Moved(i, j, n)) \in Nat
         /\ Place(S, n) <= Place(T, Moved(i, j, n))
<1> DEFINE A == {p \in S : p >= n}
           B == {p \in T : p >= Moved(i, j, n)}
           f == [p \in A |-> Moved(i, j, p)]
<1>1. IsFiniteSet(A) /\ IsFiniteSet(B)
  BY FS_Subset
<1>2. \A p \in A : Moved(i, j, p) \in B
  <2>1. \A p \in A : p \in Nat /\ p >= n /\ p \in S
    OBVIOUS
  <2>2. \A p \in Nat : p >= n => Moved(i, j, p) >= Moved(i, j, n)
    BY DEF Moved
  <2>3. QED
    BY <2>1, <2>2
<1>3. \A p, q \in A : Moved(i, j, p) = Moved(i, j, q) => p = q
  <2>1. \A p, q \in Nat : Moved(i, j, p) = Moved(i, j, q) => p = q
    BY DEF Moved
  <2>2. QED
    BY <2>1
<1> HIDE DEF A, B
<1>4. f \in Injection(A, B)
  BY <1>2, <1>3 DEF Injection, IsInjective
<1> HIDE DEF f
<1>5. Cardinality(A) <= Cardinality(B)
  BY <1>1, <1>4, FS_Injection
<1>6. Cardinality(A) \in Nat /\ Cardinality(B) \in Nat
  BY <1>1, FS_CardinalityType
<1>7. QED
  BY <1>5, <1>6 DEF Place, A, B

\* A change of the rows owes the walk nothing new, when whoever was ahead stays ahead.
LEMMA RowsChange ==
  ASSUME ListsInv, ListsTypeOK', RowsDistinct',
         NEW id, NEW leaves \in BOOLEAN,
         \/ walk' = walk
         \/ walk' = Touched(id, leaves),
         walk # NoWalk /\ ~walk.over /\ ~walk'.shrunk =>
           \A i \in Selected(walk.filtered) :
             rows[i].id \in walk'.owed =>
               \E j \in Selected(walk.filtered)' :
                 /\ rows'[j].id = rows[i].id
                 /\ Place(Selected(walk.filtered), i) <= Place(Selected(walk.filtered)', j)
  PROVE  ListsInv'
<1> DEFINE S == Selected(walk.filtered)
<1>1. ListsTypeOK /\ OwedAhead /\ WalkMissesNothing
  BY DEF ListsInv
<1>2. walk = NoWalk => walk' = NoWalk
  BY DEF Touched
<1>3. CASE walk = NoWalk
  BY <1>2, <1>3 DEF ListsInv, OwedAhead, WalkMissesNothing
<1>4. CASE walk # NoWalk /\ walk.over
  <2>1. walk' = walk
    BY <1>4 DEF Touched
  <2>2. ~walk.shrunk => walk.owed = {}
    BY <1>1, <1>4 DEF WalkMissesNothing
  <2>3. QED
    BY <2>1, <2>2 DEF ListsInv, OwedAhead, WalkMissesNothing
<1>5. CASE walk # NoWalk /\ ~walk.over
  <2>1. walk \in Walk
    BY <1>1, <1>5 DEF ListsTypeOK
  <2>2. /\ walk'.filtered = walk.filtered /\ walk'.at = walk.at /\ walk'.over = walk.over
        /\ walk'.owed \subseteq walk.owed /\ (~walk'.shrunk => ~walk.shrunk)
    <3>1. CASE walk' = walk
      BY <3>1
    <3>2. CASE walk' = [walk EXCEPT !.owed = @ \ {id}, !.shrunk = @ \/ (walk.filtered /\ leaves)]
      BY <2>1, <3>2 DEF Walk
    <3>3. QED
      BY <1>5, <3>1, <3>2 DEF Touched
  <2>3. WalkMissesNothing'
    BY <1>5, <2>2 DEF WalkMissesNothing
  <2>4. OwedAhead'
    <3>1. SUFFICES ASSUME ~walk'.shrunk, NEW x \in walk'.owed
                   PROVE  \E j \in Selected(walk.filtered)' :
                            rows'[j].id = x /\ Place(Selected(walk.filtered)', j) > walk'.at
      BY DEF OwedAhead
    <3>2. PICK i \in S : rows[i].id = x /\ Place(S, i) > walk.at
      BY <1>1, <1>5, <2>2, <3>1 DEF OwedAhead
    <3>3. PICK j \in Selected(walk.filtered)' :
            rows'[j].id = x /\ Place(S, i) <= Place(Selected(walk.filtered)', j)
      BY <1>5, <3>1, <3>2
    <3>4. Place(Selected(walk.filtered)', j) \in Nat /\ Place(S, i) \in Nat
      <4>1. IsFiniteSet(S)
        BY <1>1, SelectionFinds
      <4>2. DOMAIN rows' = 1 .. Len(rows') /\ Len(rows') \in Nat
        BY DEF ListsTypeOK
      <4>3. Selected(walk.filtered)' \in SUBSET DOMAIN rows' /\ IsFiniteSet(DOMAIN rows')
        BY <4>2, FS_Interval DEF Selected
      <4>4. IsFiniteSet(Selected(walk.filtered)')
        BY <4>3, FS_Subset
      <4> DEFINE T == Selected(walk.filtered)'
      <4>5. IsFiniteSet(T)
        BY <4>4
      <4> HIDE DEF S, T
      <4>6. Place(S, i) \in Nat /\ Place(T, j) \in Nat
        BY <4>1, <4>5, PlaceGrows
      <4>7. QED
        BY <4>6 DEF S, T
    <3>5. walk.at \in Nat
      BY <2>1 DEF Walk
    <3>6. QED
      BY <2>2, <3>2, <3>3, <3>4, <3>5
  <2>5. QED
    BY <2>3, <2>4 DEF ListsInv
<1>6. QED
  BY <1>3, <1>4, <1>5

LEMMA TouchedKeepsType ==
  ASSUME ListsTypeOK, NEW id, NEW leaves \in BOOLEAN
  PROVE  Touched(id, leaves) = NoWalk \/ Touched(id, leaves) \in Walk
<1>1. CASE walk = NoWalk \/ walk.over
  BY <1>1 DEF Touched, ListsTypeOK
<1>2. CASE walk \in Walk /\ walk # NoWalk /\ ~walk.over
  <2>1. Touched(id, leaves) =
          [walk EXCEPT !.owed = @ \ {id}, !.shrunk = @ \/ (walk.filtered /\ leaves)]
    BY <1>2 DEF Touched
  <2>2. walk.owed \ {id} \in SUBSET (1 .. MaxRows)
    BY <1>2 DEF Walk
  <2>3. (walk.shrunk \/ (walk.filtered /\ leaves)) \in BOOLEAN
    OBVIOUS
  <2> DEFINE owed == walk.owed \ {id}
             shrunk == walk.shrunk \/ (walk.filtered /\ leaves)
  <2>4. Touched(id, leaves) = [walk EXCEPT !.owed = owed, !.shrunk = shrunk]
    BY <2>1
  <2>5. owed \in SUBSET (1 .. MaxRows) /\ shrunk \in BOOLEAN
    BY <2>2, <2>3
  <2> HIDE DEF owed, shrunk
  <2>6. QED
    BY <1>2, <2>4, <2>5 DEF Walk
<1>3. QED
  BY <1>1, <1>2 DEF ListsTypeOK

LEMMA BeginRowKeepsLists ==
  ASSUME ListsInv, NEW fits \in BOOLEAN, BeginRow(fits)
  PROVE  ListsInv'
<1>1. ListsTypeOK /\ RowsDistinct
  BY DEF ListsInv
<1>2. /\ rows \in Seq(ListRow) /\ Len(rows) \in Nat /\ DOMAIN rows = 1 .. Len(rows)
      /\ Len(rows) <= MaxRows
  BY <1>1 DEF ListsTypeOK
<1> DEFINE row == [id |-> Len(rows) + 1, fits |-> fits, state |-> "begun"]
<1>3. rows' = Append(rows, row) /\ Len(rows) < MaxRows /\ walk' = walk /\ table' = table
  BY DEF BeginRow
<1>4. row \in ListRow
  BY <1>2, <1>3, ListsAssumption DEF ListsAssumption, ListRow
<1>5. row.id = Len(rows) + 1 /\ row.state = "begun"
  OBVIOUS
<1> HIDE DEF row
<1>6. /\ rows' \in Seq(ListRow) /\ Len(rows') = Len(rows) + 1
      /\ DOMAIN rows' = DOMAIN rows \cup {Len(rows) + 1}
      /\ \A i \in DOMAIN rows : rows'[i] = rows[i]
      /\ rows'[Len(rows) + 1] = row
  BY <1>2, <1>3, <1>4
<1>7. Len(rows') <= MaxRows
  BY <1>2, <1>3, <1>6, ListsAssumption DEF ListsAssumption
<1>8. ListsTypeOK'
  BY <1>1, <1>3, <1>6, <1>7 DEF ListsTypeOK
<1>9. RowsDistinct'
  <2>1. \A i \in DOMAIN rows : rows'[i].id \in Nat /\ rows'[i].id <= Len(rows)
    <3>1. \A i \in DOMAIN rows : rows[i] \in ListRow
      BY <1>2
    <3>2. \A i \in DOMAIN rows : rows[i].id \in Nat
      BY <3>1 DEF ListRow
    <3>3. QED
      BY <1>1, <1>6, <3>2 DEF RowsDistinct
  <2>2. \A i \in DOMAIN rows' : rows'[i].id <= Len(rows')
    BY <1>2, <1>5, <1>6, <2>1
  <2>3. \A i, j \in DOMAIN rows' : rows'[i].id = rows'[j].id => i = j
    <3>1. SUFFICES ASSUME NEW i \in DOMAIN rows', NEW j \in DOMAIN rows',
                          rows'[i].id = rows'[j].id
                   PROVE  i = j
      OBVIOUS
    <3>2. CASE i \in DOMAIN rows /\ j \in DOMAIN rows
      BY <1>1, <1>6, <3>1, <3>2 DEF RowsDistinct
    <3>3. CASE i \in DOMAIN rows /\ j = Len(rows) + 1
      BY <1>2, <1>5, <1>6, <2>1, <3>1, <3>3
    <3>4. CASE i = Len(rows) + 1 /\ j \in DOMAIN rows
      BY <1>2, <1>5, <1>6, <2>1, <3>1, <3>4
    <3>5. QED
      BY <1>6, <3>2, <3>3, <3>4
  <2>4. QED
    BY <2>2, <2>3 DEF RowsDistinct
<1>10. Selected(walk.filtered)' = Selected(walk.filtered)
  BY <1>3, <1>5, <1>6 DEF Selected
<1>11. \A i \in Selected(walk.filtered) : rows'[i] = rows[i]
  BY <1>6 DEF Selected
<1>12. \A i \in Selected(walk.filtered) :
         Place(Selected(walk.filtered), i) <= Place(Selected(walk.filtered), i)
  <2>1. \A i \in Selected(walk.filtered) : Place(Selected(walk.filtered), i) \in Nat
    BY <1>1, SelectionFinds, PlaceOrders
  <2>2. QED
    BY <2>1
<1>13. QED
  BY <1>3, <1>8, <1>9, <1>10, <1>11, <1>12, RowsChange

\* A row that changes in its place.
LEMMA RowInPlace ==
  ASSUME ListsInv, NEW i \in DOMAIN rows, NEW row \in ListRow, row.id = rows[i].id,
         rows' = [rows EXCEPT ![i] = row], table' = table,
         NEW leaves \in BOOLEAN,
         \/ walk' = walk /\ (rows[i].state # "committed" \/ rows[i] = row)
         \/ walk' = Touched(rows[i].id, leaves) /\ row.state = "committed"
            /\ (~leaves => row.fits)
  PROVE  ListsInv'
<1>1. ListsTypeOK /\ RowsDistinct
  BY DEF ListsInv
<1>2. /\ rows \in Seq(ListRow) /\ Len(rows) \in Nat /\ DOMAIN rows = 1 .. Len(rows)
      /\ Len(rows) <= MaxRows
  BY <1>1 DEF ListsTypeOK
<1>3. /\ rows' \in Seq(ListRow) /\ Len(rows') = Len(rows) /\ DOMAIN rows' = DOMAIN rows
      /\ \A k \in DOMAIN rows : k # i => rows'[k] = rows[k]
      /\ rows'[i] = row
      /\ \A k \in DOMAIN rows : rows'[k].id = rows[k].id
  BY <1>2
<1>4. walk' = NoWalk \/ walk' \in Walk
  BY <1>1, TouchedKeepsType DEF ListsTypeOK
<1>5. ListsTypeOK'
  BY <1>1, <1>2, <1>3, <1>4 DEF ListsTypeOK
<1>6. RowsDistinct'
  BY <1>1, <1>3 DEF RowsDistinct
<1>7. ASSUME walk # NoWalk, ~walk.over, ~walk'.shrunk
      PROVE  \A k \in Selected(walk.filtered) :
               rows[k].id \in walk'.owed =>
                 \E j \in Selected(walk.filtered)' :
                   /\ rows'[j].id = rows[k].id
                   /\ Place(Selected(walk.filtered), k) <= Place(Selected(walk.filtered)', j)
  <2> DEFINE S == Selected(walk.filtered)
             T == Selected(walk.filtered)'
  <2>1. walk \in Walk
    BY <1>1, <1>7 DEF ListsTypeOK
  <2>2. walk'.filtered = walk.filtered
    BY <1>7, <2>1 DEF Touched, Walk
  <2>3. \/ rows[i].state # "committed" \/ rows[i] = row
        \/ row.state = "committed" /\ (walk.filtered => row.fits)
    <3>1. ASSUME walk' = Touched(rows[i].id, leaves), walk.filtered, leaves
          PROVE  walk'.shrunk
      BY <1>7, <2>1, <3>1 DEF Touched, Walk
    <3>2. QED
      BY <1>7, <3>1
  <2>4. S \subseteq T
    <3>1. T = {k \in DOMAIN rows : rows'[k].state = "committed"
                                   /\ (walk.filtered => rows'[k].fits)}
      BY <1>3, <2>2 DEF Selected
    <3>2. S = {k \in DOMAIN rows : rows[k].state = "committed"
                                   /\ (walk.filtered => rows[k].fits)}
      BY DEF Selected
    <3> HIDE DEF S, T
    <3>3. CASE rows[i].state # "committed" \/ rows[i] = row
      BY <1>3, <3>1, <3>2, <3>3
    <3>4. CASE row.state = "committed" /\ (walk.filtered => row.fits)
      BY <1>3, <3>1, <3>2, <3>4
    <3>5. QED
      BY <2>3, <3>3, <3>4
  <2>5. S \in SUBSET DOMAIN rows
    BY DEF Selected
  <2>6. IsFiniteSet(T)
    <3>1. IsFiniteSet(DOMAIN rows) /\ T \in SUBSET DOMAIN rows
      BY <1>2, <1>3, FS_Interval DEF Selected
    <3> HIDE DEF T
    <3>2. QED
      BY <3>1, FS_Subset
  <2> HIDE DEF S, T
  <2>7. \A k \in S : k \in T /\ rows'[k].id = rows[k].id /\ Place(S, k) <= Place(T, k)
    BY <1>3, <2>4, <2>5, <2>6, PlaceGrows
  <2>8. QED
    BY <2>7 DEF S, T
<1>8. rows[i].id = rows[i].id /\ (walk' = walk \/ walk' = Touched(rows[i].id, leaves))
  OBVIOUS
<1>9. QED
  BY <1>5, <1>6, <1>7, <1>8, RowsChange

LEMMA RowsInPlaceKeepLists ==
  ASSUME ListsInv, NEW i \in DOMAIN rows, CommitRow(i) \/ RollBackRow(i) \/ ChangeReport(i)
  PROVE  ListsInv'
<1>1. rows \in Seq(ListRow) /\ rows[i] \in ListRow
  BY DEF ListsInv, ListsTypeOK
<1>2. CASE CommitRow(i)
  <2> DEFINE row == [rows[i] EXCEPT !.state = "committed"]
  <2>1. row \in ListRow /\ row.id = rows[i].id
    BY <1>1 DEF ListRow
  <2>2. /\ rows[i].state = "begun" /\ rows' = [rows EXCEPT ![i] = row]
        /\ table' = table /\ walk' = walk
    BY <1>1, <1>2 DEF CommitRow
  <2> HIDE DEF row
  <2>3. rows[i].state # "committed" /\ FALSE \in BOOLEAN
    BY <2>2
  <2>4. QED
    BY <2>1, <2>2, <2>3, RowInPlace
<1>3. CASE RollBackRow(i)
  <2> DEFINE row == [rows[i] EXCEPT !.state = "undone"]
  <2>1. row \in ListRow /\ row.id = rows[i].id
    BY <1>1 DEF ListRow
  <2>2. /\ rows[i].state = "begun" /\ rows' = [rows EXCEPT ![i] = row]
        /\ table' = table /\ walk' = walk
    BY <1>1, <1>3 DEF RollBackRow
  <2> HIDE DEF row
  <2>3. rows[i].state # "committed" /\ FALSE \in BOOLEAN
    BY <2>2
  <2>4. QED
    BY <2>1, <2>2, <2>3, RowInPlace
<1>4. CASE ChangeReport(i)
  <2> DEFINE row == [rows[i] EXCEPT !.fits = ~rows[i].fits]
             leaves == rows[i].fits
  <2>1. row \in ListRow /\ row.id = rows[i].id /\ leaves \in BOOLEAN
    BY <1>1 DEF ListRow
  <2>2. /\ rows[i].state = "committed" /\ rows' = [rows EXCEPT ![i] = row]
        /\ table' = table /\ walk' = Touched(rows[i].id, leaves)
    BY <1>1, <1>4 DEF ChangeReport
  <2>3. row.state = "committed" /\ (~leaves => row.fits)
    BY <1>1, <2>2 DEF ListRow
  <2> HIDE DEF row, leaves
  <2>4. QED
    BY <2>1, <2>2, <2>3, RowInPlace
<1>5. QED
  BY <1>2, <1>3, <1>4

\* Moving one row behind others puts no two rows in one place.
LEMMA ShiftIsInjective ==
  ASSUME NEW i \in Int, NEW j \in Int, NEW k \in Int, NEW m \in Int, i <= j,
         (IF k < i \/ k > j THEN k ELSE IF k < j THEN k + 1 ELSE i)
           = (IF m < i \/ m > j THEN m ELSE IF m < j THEN m + 1 ELSE i)
  PROVE  k = m
  OBVIOUS

LEMMA MoveCaseKeepsLists ==
  ASSUME ListsInv, NEW i \in DOMAIN rows, NEW j \in DOMAIN rows, NEW fits \in BOOLEAN,
         MoveCase(i, j, fits)
  PROVE  ListsInv'
<1> DEFINE row == [rows[i] EXCEPT !.fits = fits]
           leaves == rows[i].fits /\ ~fits
           from(k) == IF k < i \/ k > j THEN k ELSE IF k < j THEN k + 1 ELSE i
<1>1. ListsTypeOK /\ RowsDistinct
  BY DEF ListsInv
<1>2. /\ rows \in Seq(ListRow) /\ Len(rows) \in Nat /\ DOMAIN rows = 1 .. Len(rows)
      /\ Len(rows) <= MaxRows
  BY <1>1 DEF ListsTypeOK
<1>3. /\ rows[i] \in ListRow /\ rows[i].state = "committed" /\ i <= j
      /\ i \in 1 .. Len(rows) /\ j \in 1 .. Len(rows)
      /\ table' = table /\ walk' = Touched(rows[i].id, leaves)
  BY <1>2 DEF MoveCase
<1>4. /\ row \in ListRow /\ row.id = rows[i].id /\ row.state = "committed"
      /\ row.fits = fits /\ leaves \in BOOLEAN
  BY <1>3 DEF ListRow
<1>5. rows' = [k \in DOMAIN rows |->
         IF k < i \/ k > j THEN rows[k] ELSE IF k < j THEN rows[k + 1] ELSE row]
  BY DEF MoveCase
<1> HIDE DEF row, leaves
<1>6. \A k \in 1 .. Len(rows) : from(k) \in 1 .. Len(rows)
  BY <1>2, <1>3
<1>7. \A k \in 1 .. Len(rows) :
        /\ rows'[k] \in ListRow
        /\ rows'[k].id = rows[from(k)].id
  <2>1. \A k \in 1 .. Len(rows) : rows[k] \in ListRow
    BY <1>2
  <2>2. \A k \in 1 .. Len(rows) : rows'[k] = rows[from(k)] \/ (from(k) = i /\ rows'[k] = row)
    BY <1>2, <1>3, <1>5
  <2>3. QED
    BY <1>4, <1>6, <2>1, <2>2
<1>8. rows' \in [1 .. Len(rows) -> ListRow]
  BY <1>2, <1>5, <1>7
<1>9. rows' \in Seq(ListRow) /\ Len(rows') = Len(rows) /\ DOMAIN rows' = 1 .. Len(rows)
  BY <1>2, <1>8, SequenceOf
<1>10. ListsTypeOK'
  <2>1. walk' = NoWalk \/ walk' \in Walk
    BY <1>1, <1>3, <1>4, TouchedKeepsType
  <2>2. QED
    BY <1>1, <1>2, <1>3, <1>9, <2>1 DEF ListsTypeOK
<1>11. RowsDistinct'
  <2>1. \A k \in 1 .. Len(rows) : rows'[k].id <= Len(rows')
    BY <1>1, <1>2, <1>6, <1>7, <1>9 DEF RowsDistinct
  <2>2. \A k, m \in 1 .. Len(rows) : rows'[k].id = rows'[m].id => k = m
    <3>1. ASSUME NEW k \in 1 .. Len(rows), NEW m \in 1 .. Len(rows), from(k) = from(m)
          PROVE  k = m
      <4>1. i \in Int /\ j \in Int /\ k \in Int /\ m \in Int /\ i <= j
        BY <1>2, <1>3
      <4>2. QED
        BY <3>1, <4>1, ShiftIsInjective
    <3> HIDE DEF from
    <3>2. \A k, m \in 1 .. Len(rows) : rows[from(k)].id = rows[from(m)].id => from(k) = from(m)
      BY <1>1, <1>2, <1>6 DEF RowsDistinct
    <3>3. QED
      BY <1>7, <3>1, <3>2
  <2>3. QED
    BY <1>9, <2>1, <2>2 DEF RowsDistinct
<1>12. \A k \in 1 .. Len(rows) :
         /\ Moved(i, j, k) \in 1 .. Len(rows)
         /\ k # i => rows'[Moved(i, j, k)] = rows[k]
         /\ k = i => rows'[Moved(i, j, k)] = row
  <2>1. \A k \in 1 .. Len(rows) : Moved(i, j, k) \in 1 .. Len(rows)
    BY <1>2, <1>3 DEF Moved
  <2>2. ASSUME NEW k \in 1 .. Len(rows), k # i PROVE rows'[Moved(i, j, k)] = rows[k]
    <3>1. CASE k < i \/ k > j
      BY <1>2, <1>3, <1>5, <3>1 DEF Moved
    <3>2. CASE ~(k < i \/ k > j)
      <4>1. Moved(i, j, k) = k - 1 /\ k - 1 \in 1 .. Len(rows)
            /\ ~(k - 1 < i \/ k - 1 > j) /\ k - 1 < j /\ (k - 1) + 1 = k
        BY <1>2, <1>3, <2>2, <3>2 DEF Moved
      <4>2. QED
        BY <1>2, <1>5, <4>1
    <3>3. QED
      BY <3>1, <3>2
  <2>3. rows'[Moved(i, j, i)] = row
    <3>1. Moved(i, j, i) = j /\ ~(j < i \/ j > j) /\ ~(j < j)
      BY <1>2, <1>3 DEF Moved
    <3>2. QED
      BY <1>2, <1>3, <1>5, <3>1
  <2>4. QED
    BY <2>1, <2>2, <2>3
<1>13. ASSUME walk # NoWalk, ~walk.over, ~walk'.shrunk
       PROVE  \A k \in Selected(walk.filtered) :
                rows[k].id \in walk'.owed =>
                  \E m \in Selected(walk.filtered)' :
                    /\ rows'[m].id = rows[k].id
                    /\ Place(Selected(walk.filtered), k) <= Place(Selected(walk.filtered)', m)
  <2> DEFINE S == Selected(walk.filtered)
             T == Selected(walk.filtered)'
  <2>1. walk \in Walk
    BY <1>1, <1>13 DEF ListsTypeOK
  <2>2. /\ walk'.filtered = walk.filtered /\ walk'.owed = walk.owed \ {rows[i].id}
        /\ ~(walk.filtered /\ leaves)
    BY <1>3, <1>13, <2>1 DEF Touched, Walk
  <2>3. S \in SUBSET (1 .. Len(rows)) /\ IsFiniteSet(S) /\ S \in SUBSET Nat
    BY <1>1, <1>2, SelectionFinds
  <2>4. T \in SUBSET (1 .. Len(rows)) /\ IsFiniteSet(T) /\ T \in SUBSET Nat
    <3>1. T \in SUBSET (1 .. Len(rows)) /\ IsFiniteSet(1 .. Len(rows))
      BY <1>2, <1>9, FS_Interval DEF Selected
    <3> HIDE DEF T
    <3>2. IsFiniteSet(T)
      BY <3>1, FS_Subset
    <3>3. T \in SUBSET Nat
      BY <1>2, <3>1
    <3>4. QED
      BY <3>1, <3>2, <3>3
  <2>5. \A k \in S : Moved(i, j, k) \in T
    <3>1. \A k \in S : rows[k].state = "committed" /\ (walk.filtered => rows[k].fits)
      BY DEF Selected
    <3>2. \A m \in 1 .. Len(rows) :
            rows'[m].state = "committed" /\ (walk.filtered => rows'[m].fits) => m \in T
      BY <1>9, <2>2 DEF Selected
    <3>3. i \in S /\ walk.filtered => fits
      BY <2>2, <3>1 DEF leaves
    <3> HIDE DEF S, T
    <3>4. QED
      BY <1>4, <1>12, <2>3, <3>1, <3>2, <3>3
  <2> HIDE DEF S, T
  <2>6. SUFFICES ASSUME NEW k \in S, rows[k].id \in walk'.owed
                 PROVE  \E m \in T : rows'[m].id = rows[k].id /\ Place(S, k) <= Place(T, m)
    BY DEF S, T
  <2>7. k # i
    BY <2>2, <2>6
  <2>8. i \in Nat /\ j \in Nat /\ i <= j
    BY <1>3
  <2>9. Place(S, k) <= Place(T, Moved(i, j, k))
    BY <2>3, <2>4, <2>5, <2>7, <2>8, MoveKeepsPlaces
  <2>10. QED
    BY <1>12, <2>3, <2>5, <2>7, <2>9
<1>14. QED
  BY <1>3, <1>4, <1>10, <1>11, <1>13, RowsChange

LEMMA WalkingKeepsLists ==
  ASSUME ListsInv,
         \/ \E filtered \in BOOLEAN, asked \in Asked : BeginWalk(filtered, asked)
         \/ NextPage \/ EndWalk
  PROVE  ListsInv'
<1>1. ListsTypeOK /\ RowsDistinct /\ OwedAhead /\ WalkMissesNothing
  BY DEF ListsInv
<1>2. /\ rows \in Seq(ListRow) /\ Len(rows) \in Nat /\ DOMAIN rows = 1 .. Len(rows)
      /\ Len(rows) <= MaxRows /\ MaxRows \in Nat
  BY <1>1, ListsAssumption DEF ListsTypeOK, ListsAssumption
<1>3. rows' = rows /\ table' = table /\ RowsDistinct'
  BY <1>1 DEF BeginWalk, NextPage, EndWalk, RowsDistinct
<1>4. ASSUME NEW filtered \in BOOLEAN, NEW asked \in Asked, BeginWalk(filtered, asked)
      PROVE  ListsInv'
  <2> DEFINE S == Selected(filtered)
             owed == {rows[i].id : i \in S}
             limit == Lesser(asked, MaxLimit)
  <2>1. walk' = [filtered |-> filtered, limit |-> limit, at |-> 0, over |-> FALSE,
                 shrunk |-> FALSE, owed |-> owed]
    BY <1>4 DEF BeginWalk
  <2>2. limit \in 1 .. MaxLimit
    BY ListsAssumption, PagesAssumption DEF ListsAssumption, PagesAssumption, Lesser
  <2>3. S \in SUBSET DOMAIN rows /\ S \in SUBSET Nat /\ IsFiniteSet(S)
    BY <1>1, SelectionFinds
  <2>4. owed \in SUBSET (1 .. MaxRows)
    <3>1. \A i \in DOMAIN rows : rows[i] \in ListRow
      BY <1>2
    <3>2. \A i \in DOMAIN rows : rows[i].id \in 1 .. MaxRows
      BY <3>1 DEF ListRow
    <3>3. QED
      BY <2>3, <3>2
  <2>5. \A x \in owed : \E i \in S : rows[i].id = x /\ Place(S, i) > 0
    <3>1. \A i \in S : Place(S, i) \in 1 .. Cardinality(S) /\ Cardinality(S) \in Nat
      BY <2>3, PlaceOrders
    <3>2. \A i \in S : Place(S, i) > 0
      BY <3>1
    <3>3. QED
      BY <3>2
  <2> HIDE DEF limit, owed
  <2>6. walk' \in Walk
    BY <1>2, <2>1, <2>2, <2>4 DEF Walk
  <2>7. Selected(filtered)' = S
    BY <1>3 DEF Selected
  <2>8. OwedAhead'
    <3>1. Selected(walk.filtered)' = S
      BY <1>3, <2>1 DEF Selected
    <3>2. QED
      BY <1>3, <2>1, <2>5, <3>1 DEF OwedAhead, Place
  <2>9. WalkMissesNothing'
    BY <2>1 DEF WalkMissesNothing
  <2>10. QED
    BY <1>1, <1>3, <2>6, <2>8, <2>9 DEF ListsInv, ListsTypeOK
<1>5. CASE NextPage
  <2> DEFINE S == Selected(walk.filtered)
             page == Cut(S, walk.at, walk.limit)
             shown == {rows[i].id : i \in page}
             at == walk.at
             limit == walk.limit
  <2>1. /\ walk # NoWalk /\ ~walk.over
        /\ walk' = [walk EXCEPT !.at = @ + Cardinality(page), !.owed = @ \ shown,
                                !.over = page = {}]
    BY <1>5 DEF NextPage
  <2>2. walk \in Walk
    BY <1>1, <2>1 DEF ListsTypeOK
  <2>3. at \in Nat /\ at <= MaxRows /\ limit \in Nat /\ limit >= 1
    <3>1. at \in 0 .. MaxRows /\ limit \in 1 .. MaxLimit
      BY <2>2 DEF Walk
    <3>2. QED
      BY <1>2, <3>1
  <2>4. /\ S \in SUBSET Nat /\ IsFiniteSet(S)
        /\ Cardinality(S) \in Nat /\ Cardinality(S) <= Len(rows)
    BY <1>1, SelectionFinds
  <2> HIDE DEF S, at, limit
  <2> DEFINE cut == Cut(S, at, limit)
  <2>5. page = cut
    BY DEF at, limit
  <2>6. /\ IsFiniteSet(cut) /\ Cardinality(cut) \in Nat
        /\ Cardinality(S) <= at => Cardinality(cut) = 0
        /\ Cardinality(S) > at => Cardinality(cut) = Lesser(limit, Cardinality(S) - at)
    BY <2>3, <2>4, CutSize
  <2>7. \A i \in S : Place(S, i) \in Nat /\ Place(S, i) <= Cardinality(S)
    <3>1. \A i \in S : Place(S, i) \in Nat /\ Place(S, i) \in 1 .. Cardinality(S)
      BY <2>4, PlaceOrders
    <3>2. QED
      BY <2>4, <3>1
  <2>8. \A i \in S : i \in cut <=> Place(S, i) \in at + 1 .. at + limit
    BY DEF Cut
  <2> HIDE DEF cut, page
  <2>9. at + Cardinality(cut) \in 0 .. MaxRows /\ Cardinality(cut) <= limit
    BY <1>2, <2>3, <2>4, <2>6 DEF Lesser
  <2>10. ASSUME NEW i \in S, Place(S, i) > at, i \notin cut
         PROVE  Place(S, i) > at + Cardinality(cut)
    BY <2>3, <2>6, <2>7, <2>8, <2>9, <2>10
  <2>11. ASSUME NEW i \in S, Place(S, i) > at PROVE cut # {}
    <3>1. Cardinality(cut) # 0
      BY <2>3, <2>4, <2>6, <2>7, <2>11 DEF Lesser
    <3>2. QED
      BY <3>1, FS_EmptySet
  <2> DEFINE next == at + Cardinality(cut)
             owed == walk.owed \ shown
             over == cut = {}
  <2>12. walk' = [walk EXCEPT !.at = next, !.owed = owed, !.over = over]
    BY <2>1, <2>5 DEF at
  <2>13. next \in 0 .. MaxRows /\ owed \in SUBSET (1 .. MaxRows) /\ over \in BOOLEAN
    BY <2>2, <2>9 DEF Walk
  <2>14. \A x \in owed : x \in walk.owed /\ \A i \in cut : rows[i].id # x
    BY <2>5
  <2>15. over <=> cut = {}
    OBVIOUS
  <2>16. next = at + Cardinality(cut)
    OBVIOUS
  <2> HIDE DEF next, owed, over
  <2>17. /\ walk' \in Walk /\ walk'.filtered = walk.filtered /\ walk'.shrunk = walk.shrunk
         /\ walk'.at = next /\ walk'.owed = owed /\ walk'.over = over
    BY <2>2, <2>12, <2>13 DEF Walk
  <2>18. ~walk.shrunk => \A x \in walk.owed : \E i \in S : rows[i].id = x /\ Place(S, i) > at
    BY <1>1, <2>1 DEF OwedAhead, S, at
  <2>19. Selected(walk.filtered)' = S
    BY <1>3, <2>17 DEF Selected, S
  <2>20. OwedAhead'
    <3>1. ~walk.shrunk => \A x \in owed : \E i \in S : rows[i].id = x /\ Place(S, i) > next
      BY <2>10, <2>14, <2>16, <2>18
    <3>2. QED
      BY <1>3, <2>17, <2>19, <3>1 DEF OwedAhead, Place
  <2>21. WalkMissesNothing'
    <3>1. over /\ ~walk.shrunk => owed = {}
      BY <2>11, <2>14, <2>15, <2>18
    <3>2. QED
      BY <2>17, <3>1 DEF WalkMissesNothing
  <2>22. QED
    BY <1>1, <1>3, <2>17, <2>20, <2>21 DEF ListsInv, ListsTypeOK
<1>6. CASE EndWalk
  <2>1. walk' = NoWalk
    BY <1>6 DEF EndWalk
  <2>2. QED
    BY <1>1, <1>3, <2>1 DEF ListsInv, ListsTypeOK, OwedAhead, WalkMissesNothing
<1>7. QED
  BY <1>4, <1>5, <1>6

LEMMA ListsInductive ==
  /\ ListsInit => ListsInv
  /\ ListsInv /\ [ListsNext]_listVars => ListsInv'
<1>1. ASSUME ListsInit PROVE ListsInv
  <2>1. rows = <<>> /\ walk = NoWalk /\ table \in Table
    BY <1>1 DEF ListsInit
  <2>2. <<>> \in Seq(ListRow) /\ Len(<<>>) <= MaxRows /\ DOMAIN <<>> = {}
    BY ListsAssumption DEF ListsAssumption
  <2>3. QED
    BY <2>1, <2>2 DEF ListsInv, ListsTypeOK, RowsDistinct, OwedAhead, WalkMissesNothing
<1>2. ASSUME ListsInv, [ListsNext]_listVars
      PROVE  ListsInv'
  <2>1. ASSUME NEW fits \in BOOLEAN, BeginRow(fits) PROVE ListsInv'
    BY <1>2, <2>1, BeginRowKeepsLists
  <2>2. ASSUME NEW i \in DOMAIN rows, CommitRow(i) \/ RollBackRow(i) \/ ChangeReport(i)
        PROVE  ListsInv'
    BY <1>2, <2>2, RowsInPlaceKeepLists
  <2>3. ASSUME NEW i \in DOMAIN rows, NEW j \in DOMAIN rows, NEW fits \in BOOLEAN,
               MoveCase(i, j, fits)
        PROVE  ListsInv'
    BY <1>2, <2>3, MoveCaseKeepsLists
  <2>4. CASE \/ \E filtered \in BOOLEAN, asked \in Asked : BeginWalk(filtered, asked)
             \/ NextPage \/ EndWalk
    BY <1>2, <2>4, WalkingKeepsLists
  <2>5. CASE UNCHANGED listVars
    <3>1. table' = table /\ rows' = rows /\ walk' = walk
      BY <2>5 DEF listVars
    <3>2. Selected(walk.filtered)' = Selected(walk.filtered)
      BY <3>1 DEF Selected
    <3>3. OwedAhead'
      BY <1>2, <3>1, <3>2 DEF ListsInv, OwedAhead, Place
    <3>4. ListsTypeOK' /\ RowsDistinct' /\ WalkMissesNothing'
      BY <1>2, <3>1 DEF ListsInv, ListsTypeOK, RowsDistinct, WalkMissesNothing
    <3>5. QED
      BY <3>3, <3>4 DEF ListsInv
  <2>6. QED
    BY <1>2, <2>1, <2>2, <2>3, <2>4, <2>5 DEF ListsNext
<1>3. QED
  BY <1>1, <1>2

-----------------------------------------------------------------------------
(* Theorems. *)

\* The board of alerts and the requests that read it keep their types.
THEOREM PagesTypeHolds == PagesSpec => []PagesTypeOK
<1>1. PagesInv => PagesTypeOK
  BY DEF PagesInv
<1>2. QED
  BY <1>1, PagesInductive, PTL DEF PagesSpec

\* list_alerts answers, however it is cut into queries, the page that one query would have
\* answered if nothing changed, lacks none from its beginning while alerts only appear, and
\* never shows what its reader may not read.
THEOREM PagesFaithfulHolds == PagesSpec => []PagesFaithful
BY PagesInductive, PagesInvFaithful, PTL DEF PagesSpec

\* The tables of the other lists keep theirs, and so do the walks through them.
THEOREM ListsTypeHolds == ListsSpec => []ListsTypeOK
<1>1. ListsInv => ListsTypeOK
  BY DEF ListsInv
<1>2. QED
  BY <1>1, ListsInductive, PTL DEF ListsSpec

\* Who reads list_audit_events, list_reports or list_cases on to an empty page has seen every
\* row that was there at the beginning and did not change, unless the list became shorter.
THEOREM WalkMissesNothingHolds == ListsSpec => []WalkMissesNothing
<1>1. ListsInv => WalkMissesNothing
  BY DEF ListsInv
<1>2. QED
  BY <1>1, ListsInductive, PTL DEF ListsSpec

\* The pages of alerts and those of the other lists.
THEOREM ListsFaithfulHolds == PagesSpec /\ ListsSpec => []ListsFaithful
<1>1. PagesFaithful /\ WalkMissesNothing => ListsFaithful
  BY DEF ListsFaithful
<1>2. QED
  BY <1>1, PagesFaithfulHolds, WalkMissesNothingHolds, PTL

-----------------------------------------------------------------------------
(* What an alert says. *)

\* A list of fields that may be told to the community.
Publishable(fields) ==
  /\ fields \in Seq(FieldValue)
  /\ \A i, j \in DOMAIN fields : fields[i].field = fields[j].field => i = j
  /\ \A i \in DOMAIN fields : ~IsForbidden(fields[i].field) /\ ~IsRestricted(fields[i].field)

FieldsPublishable ==
  /\ draft # NoDraft => Publishable(draft)
  /\ alert # NoAlertYet => Publishable(alert)

\* What the policy admits may be told.
LEMMA AdmittedIsPublishable ==
  ASSUME NEW fields \in FieldLists, NEW id, NEW p \in ResolvePolicy(id),
         FieldsAdmitted(p, fields)
  PROVE  Publishable(fields)
<1>1. p = MissingChildCommunity
  BY DEF ResolvePolicy
<1>2. \A field \in MissingChildCommunity.allows : ~IsForbidden(field) /\ ~IsRestricted(field)
  BY DEF MissingChildCommunity, IsForbidden, IsRestricted
<1>3. fields \in Seq(FieldValue)
  BY MessagesAssumption
<1>4. QED
  BY <1>1, <1>2, <1>3 DEF FieldsAdmitted, Publishable

\* Where each field is there once, what is found of one that is there is its value.
LEMMA FoundOnce ==
  ASSUME NEW fields, Publishable(fields), NEW field
  PROVE  /\ field \notin {fields[i].field : i \in DOMAIN fields} => Found(fields, field) = {}
         /\ \A i \in DOMAIN fields : fields[i].field = field =>
              Found(fields, field) = {fields[i]}
<1>1. \A i \in DOMAIN fields : fields[i].field = field =>
        {j \in DOMAIN fields : fields[j].field = field} = {i}
  BY DEF Publishable
<1>2. QED
  BY <1>1 DEF Found

\* A description that is written in words is told, and no other.
LEMMA OneDescription ==
  ASSUME NEW fields, Publishable(fields), NEW locale \in {"none", "fr", "en"},
         \A i \in DOMAIN fields : fields[i].value = "text"
  PROVE  LET told == {v \in OutboundMessage(fields, locale) : v.field \in Descriptions}
             written == {fields[i].field : i \in DOMAIN fields} \cap Descriptions
             spoken == IF locale = "fr" THEN "SAFE_DESCRIPTION_FR" ELSE "SAFE_DESCRIPTION_EN"
         IN IF written = {} THEN told = {}
            ELSE \E v \in told : told = {v} /\ (spoken \in written => v.field = spoken)
<1> DEFINE written == {fields[i].field : i \in DOMAIN fields} \cap Descriptions
           spoken == IF locale = "fr" THEN "SAFE_DESCRIPTION_FR" ELSE "SAFE_DESCRIPTION_EN"
           second == IF locale = "fr" THEN "SAFE_DESCRIPTION_EN" ELSE "SAFE_DESCRIPTION_FR"
           told == {v \in OutboundMessage(fields, locale) : v.field \in Descriptions}
           chosen == DescriptionFor(fields, locale)
<1>1. Descriptions = {spoken, second, "SAFE_DESCRIPTION"}
  BY DEF Descriptions
<1>2. chosen = IF Found(fields, spoken) # {} THEN Found(fields, spoken)
               ELSE IF Found(fields, second) # {} THEN Found(fields, second)
               ELSE Found(fields, "SAFE_DESCRIPTION")
  BY DEF DescriptionFor
<1>3. \A field, v : v \in Found(fields, field) => v.field = field /\ v.value = "text"
  BY DEF Found
<1>4. told = chosen
  <2>1. OutboundMessage(fields, locale)
          = {v \in chosen : v.value = "text"}
            \cup Found(fields, "OFFICIAL_CONTACT") \cup Found(fields, "CASE_REFERENCE")
    BY DEF OutboundMessage
  <2>2. \A v \in chosen : v.field \in Descriptions /\ v.value = "text"
    BY <1>1, <1>2, <1>3
  <2>3. "OFFICIAL_CONTACT" \notin Descriptions /\ "CASE_REFERENCE" \notin Descriptions
    BY DEF Descriptions
  <2>4. QED
    BY <1>3, <2>1, <2>2, <2>3
<1>5. \A field : field \in Descriptions /\ field \notin written => Found(fields, field) = {}
  BY FoundOnce
<1>6. \A field \in written :
        \E v : Found(fields, field) = {v} /\ v.field = field
  BY FoundOnce
<1>7. written \subseteq Descriptions
  OBVIOUS
<1> HIDE DEF written, spoken, second, told, chosen
<1>8. CASE written = {}
  BY <1>1, <1>2, <1>4, <1>5, <1>8 DEF told, written, spoken
<1>9. CASE written # {}
  <2>1. \E v : chosen = {v} /\ (spoken \in written => v.field = spoken)
    <3>1. CASE spoken \in written
      BY <1>2, <1>6, <3>1
    <3>2. CASE spoken \notin written /\ second \in written
      BY <1>1, <1>2, <1>5, <1>6, <3>2
    <3>3. CASE spoken \notin written /\ second \notin written
      BY <1>1, <1>2, <1>5, <1>6, <1>7, <1>9, <3>3
    <3>4. QED
      BY <3>1, <3>2, <3>3
  <2>2. \E v \in told : told = {v} /\ (spoken \in written => v.field = spoken)
    BY <1>4, <2>1
  <2>3. QED
    BY <1>9, <2>2 DEF told, written, spoken
<1>10. QED
  BY <1>8, <1>9

\* What may be told is all that is told.
LEMMA PublishedOnly == ASSUME FieldsPublishable PROVE NothingUnpublished
<1>1. SUFFICES ASSUME alert # NoAlertYet PROVE NothingUnpublished
  BY DEF NothingUnpublished
<1>2. Publishable(alert)
  BY <1>1 DEF FieldsPublishable
<1>3. /\ \A i, j \in DOMAIN alert : alert[i].field = alert[j].field => i = j
      /\ \A i \in DOMAIN alert : ~IsForbidden(alert[i].field) /\ ~IsRestricted(alert[i].field)
  BY <1>2 DEF Publishable
<1>4. QED
  BY <1>2, <1>3, OneDescription DEF NothingUnpublished
-----------------------------------------------------------------------------
(* How it is sent. *)

\* What an attempt ended with says whether a retry can mend it.
Outcome ==
  {Sent} \cup {o \in [result : {"failed"}, retryable : BOOLEAN,
                      status : {"none", "local"} \cup ProviderStatus] :
                 /\ o.retryable => o.status \notin Reasons
                 /\ ~o.retryable => o.status \in Reasons \cup {"409"}}

\* An attempt is under way exactly while the delivery is SENDING.
ExchangeOK ==
  /\ exchange.stage \in {"idle", "local", "wire", "over"}
  /\ exchange.stage = "idle" => exchange = Idle
  /\ exchange.stage = "idle" <=> delivery.status # "SENDING"
  /\ exchange.stage = "over" => exchange.outcome \in Outcome
  /\ exchange.stage = "wire" => Valid

\* Attempts are counted, and every one but the last was followed by a wait.
AttemptsCounted ==
  /\ delivery.attempt_count <= RetryLimit
  /\ delivery.status = "ABSENT" => delivery = Life!NoRow
  /\ delivery.status \in {"ABSENT", "QUEUED"} => delivery.attempt_count = 0
  /\ delivery.status = "SENDING" => delivery.attempt_count > 0
  /\ delivery.status = "RETRYING" => delivery.attempt_count < RetryLimit
  /\ delivery.status \in {"ABSENT", "QUEUED", "RETRYING"} =>
       Len(waits) = delivery.attempt_count
  /\ delivery.status = "SENDING" => Len(waits) = delivery.attempt_count - 1
  /\ taken + (IF exchange.stage \in {"local", "wire"} THEN 1 ELSE 0)
       <= delivery.attempt_count

WaitsBackOff == \A i \in 1 .. Len(waits) : waits[i] = BackoffAfterAttempt(i)

\* The parts of AttemptsAccounted but the last, which follows from WaitsBackOff.
CopiesAccounted ==
  taken = unheard + (IF \/ Life!Reached(delivery)
                        \/ exchange.stage = "over" /\ exchange.outcome.result = "sent"
                     THEN 1 ELSE 0)
EndsAccounted ==
  /\ delivery.status = "FAILED_PERMANENTLY" =>
       delivery.attempt_count = RetryLimit \/ heard \in Reasons \cup {"409"}
  /\ delivery.status = "RETRYING" => heard \notin Reasons
  /\ taken > 0 => ValidateEndpoint(target.channel, target.address)

SendingInv ==
  /\ ExchangeOK /\ AttemptsCounted /\ WaitsBackOff /\ CopiesAccounted /\ EndsAccounted

MessagesInv == MessagesTypeOK /\ FieldsPublishable /\ SendingInv

\* The waits double from 30 seconds up to 30 minutes.
LEMMA BackoffDoubles ==
  /\ BackoffAfterAttempt(1) = 30
  /\ \A i \in Nat \ {0} :
       /\ BackoffAfterAttempt(i) \in Nat
       /\ BackoffAfterAttempt(i + 1) =
            IF 2 * BackoffAfterAttempt(i) < 1800 THEN 2 * BackoffAfterAttempt(i) ELSE 1800
<1> DEFINE B(i) == BackoffAfterAttempt(i)
<1>1. /\ Multipliers[1] = 1 /\ Multipliers[2] = 2 /\ Multipliers[3] = 4
      /\ Multipliers[4] = 8 /\ Multipliers[5] = 16 /\ Multipliers[6] = 32
      /\ Multipliers[7] = 64
  BY DEF Multipliers
<1>2. /\ B(1) = 30 /\ B(2) = 60 /\ B(3) = 120 /\ B(4) = 240 /\ B(5) = 480 /\ B(6) = 960
  BY <1>1 DEF BackoffAfterAttempt, Exponent
<1>3. \A i \in Nat : i > 6 => B(i) = 1800
  BY <1>1 DEF BackoffAfterAttempt, Exponent
<1>4. \A i \in Nat \ {0} : i \in {1, 2, 3, 4, 5, 6} \/ i > 6
  OBVIOUS
<1> HIDE DEF B
<1>5. ASSUME NEW i \in Nat \ {0}
      PROVE  B(i) \in Nat /\ B(i + 1) = IF 2 * B(i) < 1800 THEN 2 * B(i) ELSE 1800
  <2>1. CASE i > 6
    BY <1>3, <2>1
  <2>2. CASE i = 6
    BY <1>2, <1>3, <2>2
  <2>3. CASE i \in {1, 2, 3, 4, 5}
    BY <1>2, <2>3
  <2>4. QED
    BY <1>4, <2>1, <2>2, <2>3
<1>6. QED
  BY <1>2, <1>5 DEF B

\* Waits that follow backoff_after_attempt double as AttemptsAccounted says.
LEMMA WaitsDouble ==
  ASSUME waits \in Seq(Nat), WaitsBackOff
  PROVE  \A i \in DOMAIN waits :
           waits[i] = IF i = 1 THEN 30
                      ELSE IF 2 * waits[i - 1] < 1800 THEN 2 * waits[i - 1] ELSE 1800
<1>1. TAKE i \in DOMAIN waits
<1>2. i \in 1 .. Len(waits) /\ Len(waits) \in Nat
  OBVIOUS
<1>3. CASE i = 1
  BY <1>2, <1>3, BackoffDoubles DEF WaitsBackOff
<1>4. CASE i # 1
  <2>1. PICK k \in Nat \ {0} : k = i - 1 /\ k \in 1 .. Len(waits) /\ k + 1 = i
    BY <1>2, <1>4
  <2>2. /\ waits[i] = BackoffAfterAttempt(k + 1) /\ waits[k] = BackoffAfterAttempt(k)
    BY <1>2, <2>1 DEF WaitsBackOff
  <2>3. BackoffAfterAttempt(k + 1)
          = IF 2 * BackoffAfterAttempt(k) < 1800 THEN 2 * BackoffAfterAttempt(k) ELSE 1800
    BY BackoffDoubles
  <2>4. waits[i] = IF 2 * waits[k] < 1800 THEN 2 * waits[k] ELSE 1800
    BY <2>2, <2>3
  <2>5. QED
    BY <1>4, <2>1, <2>4
<1>5. QED
  BY <1>3, <1>4

\* The same, for one attempt.
LEMMA BackoffIsNat ==
  ASSUME NEW i \in Nat, 0 < i
  PROVE  BackoffAfterAttempt(i) \in Nat
BY BackoffDoubles

\* What AttemptsAccounted says follows from the inductive invariant.
LEMMA AccountedFor ==
  ASSUME MessagesInv
  PROVE  AttemptsAccounted
<1>1. waits \in Seq(Nat)
  BY DEF MessagesInv, MessagesTypeOK
<1>2. QED
  BY <1>1, WaitsDouble
  DEF MessagesInv, SendingInv, CopiesAccounted, EndsAccounted, AttemptsAccounted

\* The steps before a delivery is planned.
LEMMA IssuingKeeps ==
  ASSUME MessagesInv, UNCHANGED adapters, UNCHANGED sending,
         \/ UNCHANGED <<draft, alert>>
         \/ StoreAlert
         \/ \E id \in {"MISSING_CHILD_COMMUNITY", "unknown"},
               actor \in {"reviewer", "automated"},
               status \in {"UNDER_REVIEW", "VERIFIED"},
               incident \in {"MISSING_CHILD", "OTHER_PROTECTION_INCIDENT"},
               fields \in FieldLists :
              DraftAlert(id, actor, [status |-> status, incident |-> incident], fields)
  PROVE  MessagesInv'
<1>1. /\ adapters' = adapters /\ target' = target /\ delivery' = delivery
      /\ exchange' = exchange /\ taken' = taken /\ unheard' = unheard /\ heard' = heard
      /\ waits' = waits
  BY DEF sending
<1>2. /\ draft' = NoDraft \/ draft' \in FieldLists
      /\ alert' = NoAlertYet \/ alert' \in FieldLists \cup LegacyLists
      /\ FieldsPublishable'
  <2>1. CASE UNCHANGED <<draft, alert>>
    BY <2>1 DEF MessagesInv, MessagesTypeOK, FieldsPublishable
  <2>2. CASE StoreAlert
    BY <2>2 DEF StoreAlert, MessagesInv, MessagesTypeOK, FieldsPublishable
  <2>3. ASSUME NEW id, NEW actor, NEW case, NEW fields \in FieldLists,
               DraftAlert(id, actor, case, fields)
        PROVE  draft' = fields /\ alert' = alert /\ Publishable(fields)
    BY <2>3, AdmittedIsPublishable DEF DraftAlert, CreatesFromCase
  <2>4. QED
    BY <2>1, <2>2, <2>3 DEF MessagesInv, MessagesTypeOK, FieldsPublishable
<1>3. MessagesTypeOK'
  BY <1>1, <1>2 DEF MessagesInv, MessagesTypeOK
<1>4. ExchangeOK'
  BY <1>1 DEF MessagesInv, SendingInv, ExchangeOK, Valid
<1>5. AttemptsCounted' /\ WaitsBackOff'
  BY <1>1 DEF MessagesInv, SendingInv, AttemptsCounted, WaitsBackOff
<1>6. CopiesAccounted' /\ EndsAccounted'
  BY <1>1 DEF MessagesInv, SendingInv, CopiesAccounted, EndsAccounted
<1>7. QED
  BY <1>2, <1>3, <1>4, <1>5, <1>6 DEF MessagesInv, SendingInv

\* One more is not fewer.
LEMMA NoFewer ==
  \A copies, lost \in Nat : copies = lost + 1 \/ copies = lost + 0 => lost <= copies
OBVIOUS

\* What is left to see of a step of the delivery.
LEMMA SendingKeeps ==
  ASSUME MessagesInv, UNCHANGED <<draft, alert, adapters>>,
         target' = NoAdapterYet \/ target' \in [channel : ChannelType, address : Address],
         delivery' \in Life!Row, taken' \in Nat, unheard' \in Nat,
         heard' \in ProviderStatus \cup {"none", "local"}, waits' \in Seq(Nat),
         SendingInv'
  PROVE  MessagesInv'
<1>1. /\ taken' <= delivery'.attempt_count /\ delivery'.attempt_count <= RetryLimit
      /\ delivery'.attempt_count \in Nat
  BY DEF SendingInv, AttemptsCounted, Life!Row
<1>2. unheard' <= taken'
  <2>1. taken' = unheard' + 1 \/ taken' = unheard' + 0
    BY DEF SendingInv, CopiesAccounted
  <2>2. QED
    BY <2>1, NoFewer, Zenon
<1>3. taken' \in 0 .. RetryLimit /\ unheard' \in 0 .. RetryLimit
  BY <1>1, <1>2, MessagesAssumption
<1>4. exchange'.stage \in {"idle", "local", "wire", "over"}
  BY DEF SendingInv, ExchangeOK
<1>5. MessagesTypeOK'
  BY <1>3, <1>4 DEF MessagesInv, MessagesTypeOK
<1>6. FieldsPublishable'
  BY DEF MessagesInv, FieldsPublishable
<1>7. QED
  BY <1>5, <1>6 DEF MessagesInv

\* The statuses of a row.
LEMMA RowTyped ==
  ASSUME MessagesInv
  PROVE  /\ delivery.status \in {"ABSENT", "QUEUED", "SENDING", "SENT", "DELIVERED",
                                 "RETRYING", "FAILED_PERMANENTLY"}
         /\ delivery.attempt_count \in Nat /\ delivery.version \in Nat
         /\ taken \in Nat /\ unheard \in Nat /\ RetryLimit \in Nat \ {0}
         /\ waits \in Seq(Nat) /\ Len(waits) \in Nat
         /\ delivery \in Life!Row /\ heard \in ProviderStatus \cup {"none", "local"}
         /\ target = NoAdapterYet \/ target \in [channel : ChannelType, address : Address]
BY MessagesAssumption
DEF MessagesInv, MessagesTypeOK, Life!Row, Life!DeliveryStatus

\* Planning the one delivery.
LEMMA PlanDeliveryKeeps ==
  ASSUME MessagesInv, NEW channel \in ChannelType, NEW address \in Address,
         PlanDelivery(channel, address)
  PROVE  MessagesInv'
<1>1. /\ target' = [channel |-> channel, address |-> address]
      /\ delivery = Life!NoRow /\ delivery' = Life!PlanOne
      /\ exchange' = exchange /\ taken' = taken /\ unheard' = unheard /\ heard' = heard
      /\ waits' = waits /\ UNCHANGED <<draft, alert, adapters>>
  BY DEF PlanDelivery
<1>2. /\ delivery.status = "ABSENT" /\ delivery.attempt_count = 0
      /\ delivery'.status = "QUEUED" /\ delivery'.attempt_count = 0
      /\ delivery' \in Life!Row
  BY <1>1 DEF Life!NoRow, Life!PlanOne, Life!Row, Life!DeliveryStatus
<1>3. exchange = Idle /\ taken = 0 /\ Len(waits) = 0 /\ exchange.stage = "idle"
  BY <1>2, RowTyped DEF MessagesInv, SendingInv, ExchangeOK, AttemptsCounted, Idle
<1>4. ExchangeOK'
  BY <1>1, <1>2, <1>3 DEF ExchangeOK
<1>5. AttemptsCounted' /\ WaitsBackOff'
  BY <1>1, <1>2, <1>3, RowTyped DEF AttemptsCounted, WaitsBackOff
<1>6. CopiesAccounted' /\ EndsAccounted'
  BY <1>1, <1>2, <1>3
  DEF MessagesInv, SendingInv, CopiesAccounted, EndsAccounted, Life!Reached
<1>7. QED
  BY <1>1, <1>2, <1>4, <1>5, <1>6, RowTyped, SendingKeeps DEF SendingInv

\* The claim that begins an attempt.
LEMMA ClaimToSendKeeps == ASSUME MessagesInv, ClaimToSend PROVE MessagesInv'
<1>1. /\ delivery' = Life!StartAttempt(delivery) /\ exchange = Idle
      /\ exchange' = [stage |-> "local"] /\ delivery.status \in {"QUEUED", "RETRYING"}
      /\ target' = target /\ taken' = taken /\ unheard' = unheard /\ heard' = heard
      /\ waits' = waits /\ UNCHANGED <<draft, alert, adapters>>
  BY DEF ClaimToSend, Life!CanStartAttempt
<1>2. /\ delivery'.status = "SENDING" /\ delivery' \in Life!Row
      /\ delivery'.attempt_count = delivery.attempt_count + 1
  BY <1>1, RowTyped DEF Life!StartAttempt, Life!Row, Life!DeliveryStatus
<1>3. exchange'.stage = "local"
  BY <1>1
<1>4. ExchangeOK'
  BY <1>2, <1>3 DEF ExchangeOK
<1>5. delivery.attempt_count < RetryLimit
  BY <1>1, RowTyped DEF MessagesInv, SendingInv, AttemptsCounted
<1>6. AttemptsCounted' /\ WaitsBackOff'
  BY <1>1, <1>2, <1>3, <1>5, RowTyped
  DEF MessagesInv, SendingInv, AttemptsCounted, WaitsBackOff, Idle
<1>7. CopiesAccounted' /\ EndsAccounted'
  BY <1>1, <1>2, <1>3
  DEF MessagesInv, SendingInv, CopiesAccounted, EndsAccounted, Life!Reached, Idle
<1>8. QED
  BY <1>1, <1>2, <1>4, <1>6, <1>7, RowTyped, SendingKeeps DEF SendingInv

\* The steps of an attempt: another stage, and perhaps a copy that is taken.
LEMMA AttemptKeeps ==
  ASSUME MessagesInv,
         UNCHANGED <<draft, alert, adapters, target, delivery, heard, waits>>,
         exchange.stage \in {"local", "wire"},
         exchange'.stage \in {"wire", "over"},
         exchange'.stage = "wire" => Valid,
         exchange'.stage = "over" => exchange'.outcome \in Outcome,
         \/ taken' = taken /\ unheard' = unheard
            /\ ~(exchange'.stage = "over" /\ exchange'.outcome.result = "sent")
         \/ /\ taken' = taken + 1 /\ Valid /\ exchange'.stage = "over"
            /\ unheard' = unheard + (IF exchange'.outcome.result = "sent" THEN 0 ELSE 1)
  PROVE  MessagesInv'
<1>1. delivery.status = "SENDING"
  BY DEF MessagesInv, SendingInv, ExchangeOK
<1>2. ExchangeOK'
  BY <1>1 DEF ExchangeOK, Valid
<1>3. AttemptsCounted' /\ WaitsBackOff'
  BY <1>1, RowTyped DEF MessagesInv, SendingInv, AttemptsCounted, WaitsBackOff
<1>4. taken = unheard
  BY <1>1, RowTyped DEF MessagesInv, SendingInv, CopiesAccounted, Life!Reached
<1>5. CopiesAccounted'
  BY <1>1, <1>4, RowTyped DEF CopiesAccounted, Life!Reached
<1>6. EndsAccounted'
  BY <1>1, RowTyped DEF MessagesInv, SendingInv, EndsAccounted, Valid
<1>7. QED
  BY <1>2, <1>3, <1>5, <1>6, RowTyped, SendingKeeps DEF SendingInv
\* What an adapter can make of an attempt.
LEMMA OutcomesAre ==
  /\ Sent \in Outcome /\ Sent.result = "sent"
  /\ Failed(FALSE, "local") \in Outcome /\ Failed(TRUE, "none") \in Outcome
  /\ \A adapter : \A status \in ProviderStatus \ {"2xx"} :
       Failed(Retryable(adapter, status), status) \in Outcome
  /\ \A retryable, status : Failed(retryable, status).result = "failed"
<1>1. ASSUME NEW adapter, NEW status \in ProviderStatus \ {"2xx"}
      PROVE  Failed(Retryable(adapter, status), status) \in Outcome
  <2> DEFINE r == Retryable(adapter, status)
  <2>1. r \in BOOLEAN /\ (r => status \notin Reasons) /\ (~r => status \in Reasons \cup {"409"})
    BY DEF Retryable, ProviderStatus, Reasons
  <2> HIDE DEF r
  <2>2. Failed(r, status) \in Outcome
    BY <2>1 DEF Failed, Outcome
  <2>3. QED
    BY <2>2 DEF r
<1>2. Failed(FALSE, "local") \in Outcome /\ Failed(TRUE, "none") \in Outcome
  BY DEF Failed, Outcome, Reasons
<1>3. QED
  BY <1>1, <1>2 DEF Sent, Failed, Outcome

\* Each way an attempt goes on or ends.
LEMMA AttemptSteps ==
  ASSUME MessagesInv,
         \/ RefuseLocally \/ PrintInSandbox \/ PostToProvider \/ ProviderTakes \/ Unreachable
         \/ \E status \in ProviderStatus : ProviderRefuses(status)
  PROVE  MessagesInv'
<1>1. ASSUME NEW o \in Outcome, Over(o)
      PROVE  exchange'.stage = "over" /\ exchange'.outcome = o
  BY <1>1 DEF Over
<1>2. CASE RefuseLocally
  <2>1. /\ exchange.stage = "local" /\ exchange'.stage = "over"
        /\ exchange'.outcome = Failed(FALSE, "local")
    BY <1>1, <1>2, OutcomesAre DEF RefuseLocally
  <2>2. QED
    BY <1>2, <2>1, OutcomesAre, AttemptKeeps DEF RefuseLocally
<1>3. CASE PrintInSandbox
  <2>1. /\ exchange.stage = "local" /\ exchange'.stage = "over"
        /\ exchange'.outcome = Sent /\ Valid
    BY <1>1, <1>3, OutcomesAre DEF PrintInSandbox
  <2>2. unheard' = unheard + 0
    BY <1>3, RowTyped DEF PrintInSandbox
  <2>3. QED
    BY <1>3, <2>1, <2>2, OutcomesAre, AttemptKeeps DEF PrintInSandbox
<1>4. CASE PostToProvider
  BY <1>4, AttemptKeeps DEF PostToProvider
<1>5. CASE ProviderTakes
  <2>0. Valid
    BY <1>5 DEF ProviderTakes, MessagesInv, SendingInv, ExchangeOK
  <2>1. CASE Over(Sent) /\ UNCHANGED unheard
    <3>1. exchange'.stage = "over" /\ exchange'.outcome = Sent /\ unheard' = unheard + 0
      BY <1>1, <2>1, OutcomesAre, RowTyped
    <3>2. QED
      BY <1>5, <2>0, <3>1, OutcomesAre, AttemptKeeps DEF ProviderTakes
  <2>2. CASE Over(Failed(TRUE, "none")) /\ unheard' = unheard + 1
    <3>1. /\ exchange'.stage = "over" /\ exchange'.outcome = Failed(TRUE, "none")
          /\ exchange'.outcome.result = "failed"
      BY <1>1, <2>2, OutcomesAre
    <3>2. QED
      BY <1>5, <2>0, <2>2, <3>1, OutcomesAre, AttemptKeeps DEF ProviderTakes
  <2>3. QED
    BY <1>5, <2>1, <2>2 DEF ProviderTakes
<1>6. CASE Unreachable
  <2>1. /\ exchange'.stage = "over" /\ exchange'.outcome = Failed(TRUE, "none")
        /\ exchange'.outcome.result = "failed"
    BY <1>1, <1>6, OutcomesAre DEF Unreachable
  <2>2. QED
    BY <1>6, <2>1, OutcomesAre, AttemptKeeps DEF Unreachable
<1>7. ASSUME NEW status \in ProviderStatus, ProviderRefuses(status) PROVE MessagesInv'
  <2>1. /\ exchange'.stage = "over" /\ exchange'.outcome \in Outcome
        /\ exchange'.outcome.result = "failed"
    BY <1>1, <1>7, OutcomesAre DEF ProviderRefuses
  <2>2. QED
    BY <1>7, <2>1, AttemptKeeps DEF ProviderRefuses
<1>8. QED
  BY <1>2, <1>3, <1>4, <1>5, <1>6, <1>7

\* Recording how it ended, and the wait before the next.
LEMMA RecordOutcomeKeeps == ASSUME MessagesInv, RecordOutcome PROVE MessagesInv'
<1> DEFINE n == delivery.attempt_count
           row == IF exchange.outcome.result = "sent" THEN Life!RecordSuccess(delivery)
                  ELSE Life!RecordFailure(delivery, exchange.outcome.retryable)
<1>1. /\ exchange.stage = "over" /\ delivery' = row
      /\ waits' = IF delivery'.status = "RETRYING"
                  THEN Append(waits, BackoffAfterAttempt(n)) ELSE waits
      /\ heard' = exchange.outcome.status /\ exchange' = Idle
      /\ target' = target /\ taken' = taken /\ unheard' = unheard
      /\ UNCHANGED <<draft, alert, adapters>>
  BY DEF RecordOutcome
<1>2. /\ delivery.status = "SENDING" /\ exchange.outcome \in Outcome
      /\ n \in Nat /\ 0 < n /\ n <= RetryLimit /\ Len(waits) = n - 1 /\ taken <= n
  BY <1>1, RowTyped DEF MessagesInv, SendingInv, ExchangeOK, AttemptsCounted
<1>3. /\ row.attempt_count = n /\ row \in Life!Row
      /\ row.status \in {"SENT", "RETRYING", "FAILED_PERMANENTLY"}
      /\ row.status = "SENT" <=> exchange.outcome.result = "sent"
      /\ row.status = "RETRYING" => exchange.outcome.retryable /\ n < RetryLimit
      /\ row.status = "FAILED_PERMANENTLY" => ~exchange.outcome.retryable \/ n = RetryLimit
  BY <1>2, RowTyped DEF Life!RecordSuccess, Life!RecordFailure, Life!WillRetry, Life!Row,
    Life!DeliveryStatus
<1> HIDE DEF row
<1>4. n' = n /\ delivery'.status = row.status
  BY <1>1, <1>3
<1>5. waits' = IF row.status = "RETRYING" THEN Append(waits, BackoffAfterAttempt(n)) ELSE waits
  BY <1>1, <1>4
<1>6. BackoffAfterAttempt(n) \in Nat
  BY <1>2, BackoffIsNat
<1>7. /\ waits' \in Seq(Nat)
      /\ row.status = "RETRYING" => Len(waits') = n
  BY <1>2, <1>5, <1>6, RowTyped
<1>8. WaitsBackOff'
  <2>1. \A i \in 1 .. Len(waits) : waits[i] = BackoffAfterAttempt(i)
    BY DEF MessagesInv, SendingInv, WaitsBackOff
  <2>2. CASE row.status = "RETRYING"
    <3>1. /\ Len(waits') = n /\ waits'[n] = BackoffAfterAttempt(n)
          /\ \A i \in 1 .. n - 1 : waits'[i] = waits[i]
      BY <1>2, <1>5, <2>2, <1>6, RowTyped
    <3>2. \A i \in 1 .. n : i = n \/ i \in 1 .. n - 1
      BY <1>2
    <3>3. \A i \in 1 .. n : waits'[i] = BackoffAfterAttempt(i)
      BY <1>2, <2>1, <3>1, <3>2
    <3>4. QED
      BY <3>1, <3>3 DEF WaitsBackOff
  <2>3. CASE row.status # "RETRYING"
    BY <1>5, <2>1, <2>3 DEF WaitsBackOff
  <2>4. QED
    BY <2>2, <2>3
<1>9. /\ exchange.outcome.status \in ProviderStatus \cup {"none", "local"}
      /\ exchange.outcome.result # "sent" /\ exchange.outcome.retryable =>
           exchange.outcome.status \notin Reasons
      /\ exchange.outcome.result # "sent" /\ ~exchange.outcome.retryable =>
           exchange.outcome.status \in Reasons \cup {"409"}
  BY <1>2 DEF Outcome, Sent, ProviderStatus
<1>10. ExchangeOK'
  BY <1>1, <1>3, <1>4 DEF ExchangeOK, Idle
<1>11. exchange'.stage = "idle"
  BY <1>1 DEF Idle
<1>12. AttemptsCounted'
  BY <1>1, <1>2, <1>3, <1>4, <1>7, <1>11, RowTyped DEF AttemptsCounted
<1>13. CopiesAccounted'
  BY <1>1, <1>2, <1>3, <1>4, <1>11
  DEF MessagesInv, SendingInv, CopiesAccounted, Life!Reached
<1>14. EndsAccounted'
  BY <1>1, <1>3, <1>4, <1>9 DEF MessagesInv, SendingInv, EndsAccounted
<1>15. delivery' \in Life!Row /\ heard' \in ProviderStatus \cup {"none", "local"}
  BY <1>1, <1>3, <1>9
<1>16. QED
  BY <1>1, <1>7, <1>8, <1>10, <1>12, <1>13, <1>14, <1>15, RowTyped, SendingKeeps DEF SendingInv

\* The inductive invariant holds at first.
LEMMA MessagesBegin == ASSUME MessagesInit PROVE MessagesInv
<1>1. /\ draft = NoDraft /\ alert \in {NoAlertYet} \cup LegacyLists
      /\ adapters \in Registries
      /\ target = NoAdapterYet /\ delivery = Life!NoRow /\ exchange = Idle
      /\ taken = 0 /\ unheard = 0 /\ heard = "none" /\ waits = <<>>
  BY DEF MessagesInit
<1>2. /\ delivery.status = "ABSENT" /\ delivery.attempt_count = 0
      /\ delivery \in Life!Row /\ exchange.stage = "idle" /\ Len(waits) = 0
  BY <1>1 DEF Life!NoRow, Life!Row, Life!DeliveryStatus, Idle
<1>3. MessagesTypeOK
  BY <1>1, <1>2, MessagesAssumption DEF MessagesTypeOK
<1>4. \A fields \in LegacyLists : Publishable(fields)
  BY MessagesAssumption, LegacyAssumption DEF Publishable, StoresFields
<1>5. FieldsPublishable
  BY <1>1, <1>4 DEF FieldsPublishable
<1>6. SendingInv
  BY <1>1, <1>2, MessagesAssumption
  DEF SendingInv, ExchangeOK, AttemptsCounted, WaitsBackOff, CopiesAccounted, EndsAccounted,
    Life!Reached
<1>7. QED
  BY <1>3, <1>5, <1>6 DEF MessagesInv

\* Every step keeps the inductive invariant.
LEMMA MessagesStep == ASSUME MessagesInv, [MessagesNext]_messageVars PROVE MessagesInv'
<1>1. CASE UNCHANGED messageVars
  <2>1. UNCHANGED adapters /\ UNCHANGED sending /\ UNCHANGED <<draft, alert>>
    BY <1>1 DEF messageVars, sending
  <2>2. QED
    BY <2>1, IssuingKeeps
<1>2. CASE MessagesNext
  <2>1. ASSUME NEW id \in {"MISSING_CHILD_COMMUNITY", "unknown"},
               NEW actor \in {"reviewer", "automated"},
               NEW status \in {"UNDER_REVIEW", "VERIFIED"},
               NEW incident \in {"MISSING_CHILD", "OTHER_PROTECTION_INCIDENT"},
               NEW fields \in FieldLists,
               DraftAlert(id, actor, [status |-> status, incident |-> incident], fields)
        PROVE  MessagesInv'
    <3>1. UNCHANGED adapters /\ UNCHANGED sending
      BY <2>1 DEF DraftAlert
    <3>2. QED
      BY <2>1, <3>1, IssuingKeeps
  <2>2. CASE StoreAlert
    <3>1. UNCHANGED adapters /\ UNCHANGED sending
      BY <2>2 DEF StoreAlert
    <3>2. QED
      BY <2>2, <3>1, IssuingKeeps
  <2>3. QED
    BY <1>2, <2>1, <2>2, PlanDeliveryKeeps, ClaimToSendKeeps, AttemptSteps, RecordOutcomeKeeps
    DEF MessagesNext
<1>3. QED
  BY <1>1, <1>2

\* The inductive invariant of one alert and one delivery of it (domain/src/alert.rs, the
\* channel adapters and RetryPolicy).
THEOREM MessagesInvariant == MessagesSpec => []MessagesInv
BY MessagesBegin, MessagesStep, PTL DEF MessagesSpec

\* What the community is told holds nothing forbidden or restricted, and the one description
\* that its reader understands best, for any lists of fields that are posted and any rows of
\* an earlier policy (Alert::create_from_case, build_outbound_message).
THEOREM NothingUnpublishedHolds == MessagesSpec => []NothingUnpublished
<1>1. MessagesInv => NothingUnpublished
  BY PublishedOnly DEF MessagesInv
<1>2. QED
  BY <1>1, MessagesInvariant, PTL

\* Every copy beyond the first is one whose answer nobody read, and no delivery is given up or
\* retried against the policy, for any limit of attempts (RetryPolicy, channel adapters).
THEOREM AttemptsAccountedHolds == MessagesSpec => []AttemptsAccounted
<1>1. MessagesInv => AttemptsAccounted
  BY AccountedFor
<1>2. QED
  BY <1>1, MessagesInvariant, PTL

-----------------------------------------------------------------------------
(* Alerts, lists and messages side by side. *)

LEMMA EachRunsAsSpecified == AlertsSpec => Spec /\ PagesSpec /\ ListsSpec /\ MessagesSpec
<1>1. AlertsInit => Init /\ PagesInit /\ ListsInit /\ MessagesInit
  BY DEF AlertsInit
<1>2. [AlertsNext]_alertsVars =>
        [Next]_vars /\ [PagesNext]_pageVars /\ [ListsNext]_listVars /\ [MessagesNext]_messageVars
  BY DEF AlertsNext, alertsVars
<1> QED
  BY <1>1, <1>2, PTL DEF AlertsSpec, Spec, PagesSpec, ListsSpec, MessagesSpec

\* Cases, alerts, their lists and their messages keep their types (the types of the tables,
\* domain/src/case.rs, alert.rs, delivery.rs and audit.rs).
THEOREM AlertsTypeHolds == AlertsSpec => []AlertsTypeOK
<1>1. AlertInv => CaseTypeOK /\ AlertTypeOK
  BY DEF AlertInv, CaseInv
<1>2. MessagesInv => MessagesTypeOK
  BY DEF MessagesInv
<1>3. CaseTypeOK /\ AlertTypeOK /\ PagesTypeOK /\ ListsTypeOK /\ MessagesTypeOK => AlertsTypeOK
  BY DEF AlertsTypeOK
<1> QED
  BY <1>1, <1>2, <1>3, EachRunsAsSpecified, AlertInvariant, PagesTypeHolds, ListsTypeHolds,
     MessagesInvariant, PTL
=============================================================================
