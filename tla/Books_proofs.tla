--------------------------- MODULE Books_proofs ----------------------------
(***************************************************************************)
(* The order book of src/book/book.c is correct for every depth, set of    *)
(* symbols, prices and sizes, and the reversed one of bench/book_rev.c     *)
(* mirrors it.  The argument runs on one array first: what a deletion, an  *)
(* insertion and the loss of the last level do to its order and to the map *)
(* it stands for.                                                          *)
(***************************************************************************)
EXTENDS BookLayouts, Facts

Entry == [price : Int, size : Nat]
Array == [Pos -> Entry]

(* The first k entries of an array of a book, as OrderBook reads them.     *)
Ordered(b, lv, k) ==
    \A i, j \in 0 .. k - 1 : i < j => Key(b, lv[i].price) < Key(b, lv[j].price)

PricesOf(lv, k) == {lv[i].price : i \in 0 .. k - 1}

MapOf(lv, k) ==
    [p \in PricesOf(lv, k) |->
       lv[CHOOSE i \in 0 .. k - 1 : lv[i].price = p].size]

(* The array after a level was put at i, where k entries moved or stayed.   *)
Inserted(lv, k, i, p, s) ==
    [Move(lv, i + 1, i, k - i) EXCEPT ![i] = [price |-> p, size |-> s]]

(* The scan for p in an ordered array stops at i.                          *)
StopsAt(b, lv, k, p, i) ==
    /\ i \in 0 .. k
    /\ \A j \in 0 .. i - 1 : Key(b, lv[j].price) < Key(b, p)
    /\ \A j \in i .. k - 1 : Key(b, lv[j].price) >= Key(b, p)

Without(f, p) == Abstract!Without(f, p)
With(f, p, s) == Abstract!With(f, p, s)

-----------------------------------------------------------------------------
(* Keys are integers that tell prices apart.                               *)
LEMMA KeyFacts ==
  ASSUME NEW b, NEW p \in Int, NEW q \in Int
  PROVE  /\ Key(b, p) \in Int
         /\ Key(b, p) = Key(b, q) => p = q
         /\ Better(b, p, q) <=> Key(b, p) < Key(b, q)
BY DEF Key, Better

(* In an ordered array a price has one place, so the map is what the       *)
(* entries say.                                                            *)
LEMMA MapOfEntry ==
  ASSUME NEW b, NEW lv \in Array, NEW k \in 0 .. MaxLevels, Ordered(b, lv, k)
  PROVE  /\ \A i, j \in 0 .. k - 1 : lv[i].price = lv[j].price => i = j
         /\ \A i \in 0 .. k - 1 : MapOf(lv, k)[lv[i].price] = lv[i].size
         /\ DOMAIN MapOf(lv, k) = PricesOf(lv, k)
<1>0. 0 .. k - 1 \subseteq Pos /\ k \in Nat
  BY BookAssumption DEF Pos
<1>1. ASSUME NEW i \in 0 .. k - 1, NEW j \in 0 .. k - 1, lv[i].price = lv[j].price
      PROVE  i = j
  <2>1. lv[i].price \in Int /\ lv[j].price \in Int
    BY <1>0 DEF Array, Entry
  <2>2. Key(b, lv[i].price) \in Int /\ Key(b, lv[j].price) \in Int
    BY <2>1, KeyFacts
  <2>3. ~(i < j) /\ ~(j < i)
    BY <1>1, <2>2 DEF Ordered
  <2> QED
    BY <2>3, <1>0
<1>2. ASSUME NEW i \in 0 .. k - 1
      PROVE  MapOf(lv, k)[lv[i].price] = lv[i].size
  <2>1. (CHOOSE j \in 0 .. k - 1 : lv[j].price = lv[i].price) = i
    BY <1>1
  <2> QED
    BY <2>1 DEF MapOf, PricesOf
<1> QED
  BY <1>1, <1>2 DEF MapOf

(* ... and a function is that map when it agrees with every entry.         *)
LEMMA MapOfIs ==
  ASSUME NEW b, NEW lv \in Array, NEW k \in 0 .. MaxLevels, Ordered(b, lv, k),
         NEW D, NEW f, f = [p \in D |-> f[p]],
         D = PricesOf(lv, k),
         \A i \in 0 .. k - 1 : f[lv[i].price] = lv[i].size
  PROVE  f = MapOf(lv, k)
<1>1. ASSUME NEW p \in D
      PROVE  f[p] = MapOf(lv, k)[p]
  <2>1. PICK i \in 0 .. k - 1 : p = lv[i].price
    BY DEF PricesOf
  <2>2. MapOf(lv, k)[lv[i].price] = lv[i].size
    BY MapOfEntry
  <2> QED
    BY <2>1, <2>2
<1>2. MapOf(lv, k) = [p \in D |-> MapOf(lv, k)[p]]
  BY DEF MapOf
<1> HIDE DEF PricesOf
<1>3. [p \in D |-> f[p]] = [p \in D |-> MapOf(lv, k)[p]]
  BY <1>1
<1> QED
  BY <1>2, <1>3

(* k levels.                                                               *)
LEMMA MapOfDepth ==
  ASSUME NEW b, NEW lv \in Array, NEW k \in 0 .. MaxLevels, Ordered(b, lv, k)
  PROVE  /\ IsFiniteSet(DOMAIN MapOf(lv, k))
         /\ Cardinality(DOMAIN MapOf(lv, k)) = k
<1>1. IsFiniteSet(0 .. k - 1) /\ Cardinality(0 .. k - 1) = k
  BY FS_Interval, BookAssumption
<1> DEFINE g == [i \in 0 .. k - 1 |-> lv[i].price]
           T == {g[i] : i \in 0 .. k - 1}
<1>2. \A i, j \in 0 .. k - 1 : g[i] = g[j] => i = j
  BY MapOfEntry
<1>3. T = DOMAIN MapOf(lv, k)
  BY DEF MapOf, PricesOf
<1> HIDE DEF g
<1>4. IsFiniteSet(T) /\ Cardinality(T) = Cardinality(0 .. k - 1)
  BY <1>1, <1>2, InjectiveImage
<1> QED
  BY <1>1, <1>3, <1>4

(* The scan of an ordered array finds the price exactly when it is there.  *)
LEMMA FoundAt ==
  ASSUME NEW b, NEW lv \in Array, NEW k \in 0 .. MaxLevels, Ordered(b, lv, k),
         NEW p \in Int, NEW i, StopsAt(b, lv, k, p, i)
  PROVE  /\ (i < k /\ lv[i].price = p) <=> p \in PricesOf(lv, k)
         /\ ~(i < k /\ lv[i].price = p) =>
              \A j \in i .. k - 1 : Key(b, p) < Key(b, lv[j].price)
<1>0. 0 .. k - 1 \subseteq Pos /\ k \in Nat /\ i \in 0 .. k
  BY BookAssumption DEF Pos, StopsAt
<1>1. \A j \in 0 .. k - 1 : lv[j].price \in Int /\ Key(b, lv[j].price) \in Int
  BY <1>0, KeyFacts DEF Array, Entry
<1>2. Key(b, p) \in Int
  BY KeyFacts
<1>3. ASSUME NEW j \in 0 .. k - 1, lv[j].price = p
      PROVE  j = i
  <2>1. j >= i
    BY <1>0, <1>2, <1>3 DEF StopsAt
  <2>2. CASE j > i
    <3>1. Key(b, lv[i].price) < Key(b, lv[j].price)
      BY <1>0, <2>2 DEF Ordered
    <3>2. Key(b, lv[i].price) >= Key(b, p)
      BY <1>0, <2>2 DEF StopsAt
    <3> QED
      BY <1>0, <1>1, <1>2, <1>3, <2>2, <3>1, <3>2
  <2> QED
    BY <1>0, <2>1, <2>2
<1>4. ASSUME ~(i < k /\ lv[i].price = p), NEW j \in i .. k - 1
      PROVE  Key(b, p) < Key(b, lv[j].price)
  <2>1. j \in 0 .. k - 1 /\ Key(b, lv[j].price) >= Key(b, p)
    BY <1>0 DEF StopsAt
  <2>2. lv[j].price # p
    BY <1>3, <1>4, <2>1, <1>0
  <2>3. Key(b, lv[j].price) # Key(b, p)
    BY <1>1, <2>1, <2>2, KeyFacts
  <2> QED
    BY <1>1, <1>2, <2>1, <2>3
<1> QED
  BY <1>0, <1>3, <1>4 DEF PricesOf

(* Moving the entries behind i up by one takes level i away.               *)
LEMMA DeleteFromArray ==
  ASSUME NEW b, NEW lv \in Array, NEW k \in 0 .. MaxLevels, Ordered(b, lv, k),
         NEW i \in 0 .. k - 1
  PROVE  LET lv2 == Move(lv, i, i + 1, k - i - 1)
         IN  /\ lv2 \in Array
             /\ Ordered(b, lv2, k - 1)
             /\ MapOf(lv2, k - 1) = Without(MapOf(lv, k), lv[i].price)
<1> DEFINE lv2 == Move(lv, i, i + 1, k - i - 1)
           f == Without(MapOf(lv, k), lv[i].price)
<1>0. 0 .. k - 1 \subseteq Pos /\ k \in Nat /\ k - 1 \in 0 .. MaxLevels /\ i \in Nat
  BY BookAssumption DEF Pos
<1>1. \A j \in 0 .. k - 2 : lv2[j] = IF j < i THEN lv[j] ELSE lv[j + 1]
  BY <1>0 DEF Move
<1>2. lv2 \in Array
  <2>1. ASSUME NEW j \in Pos
        PROVE  lv2[j] \in Entry
    BY <1>0 DEF Move, Array, Pos
  <2> QED
    BY <2>1 DEF Move, Array
<1> HIDE DEF lv2
<1>3. Ordered(b, lv2, k - 1)
  BY <1>0, <1>1 DEF Ordered
<1>4. DOMAIN f = PricesOf(lv2, k - 1)
  <2>1. DOMAIN f = PricesOf(lv, k) \ {lv[i].price}
    BY DEF Without, Abstract!Without, MapOf
  <2>2. ASSUME NEW j \in 0 .. k - 2
        PROVE  lv2[j].price \in PricesOf(lv, k) \ {lv[i].price}
    <3>1. PICK m \in 0 .. k - 1 : m # i /\ lv2[j] = lv[m]
      BY <1>0, <1>1
    <3>2. lv[m].price # lv[i].price
      <4>1. \A a, c \in 0 .. k - 1 : lv[a].price = lv[c].price => a = c
        BY MapOfEntry
      <4> QED
        BY <3>1, <4>1
    <3> QED
      BY <3>1, <3>2 DEF PricesOf
  <2>3. ASSUME NEW j \in 0 .. k - 1, lv[j].price # lv[i].price
        PROVE  lv[j].price \in PricesOf(lv2, k - 1)
    <3>1. CASE j < i
      BY <1>0, <1>1, <3>1 DEF PricesOf
    <3>2. CASE j > i
      <4>1. j - 1 \in 0 .. k - 2 /\ lv2[j - 1] = lv[j]
        BY <1>0, <1>1, <3>2
      <4> QED
        BY <1>0, <4>1 DEF PricesOf
    <3> QED
      BY <1>0, <2>3, <3>1, <3>2
  <2> QED
    BY <1>0, <2>1, <2>2, <2>3 DEF PricesOf
<1>5. \A j \in 0 .. k - 2 : f[lv2[j].price] = lv2[j].size
  <2> SUFFICES ASSUME NEW j \in 0 .. k - 2
               PROVE  f[lv2[j].price] = lv2[j].size
    OBVIOUS
  <2>1. PICK m \in 0 .. k - 1 : lv2[j] = lv[m]
    BY <1>0, <1>1
  <2>2. lv2[j].price \in DOMAIN f
    BY <1>0, <1>4 DEF PricesOf
  <2>3. f[lv2[j].price] = MapOf(lv, k)[lv2[j].price]
    BY <2>2 DEF Without, Abstract!Without
  <2> QED
    BY <2>1, <2>3, MapOfEntry
<1>6. f = [p \in DOMAIN f |-> f[p]]
  BY DEF Without, Abstract!Without
<1> HIDE DEF f
<1>7. f = MapOf(lv2, k - 1)
  <2>1. k - 1 - 1 = k - 2
    BY <1>0
  <2> QED
    BY <1>0, <1>2, <1>3, <1>4, <1>5, <1>6, <2>1, MapOfIs
<1> QED
  BY <1>2, <1>3, <1>7 DEF lv2, f

(* Forgetting the last entry gives up the worst price.                     *)
LEMMA DropLast ==
  ASSUME NEW b, NEW lv \in Array, NEW k \in 1 .. MaxLevels, Ordered(b, lv, k)
  PROVE  /\ Ordered(b, lv, k - 1)
         /\ MapOf(lv, k - 1) = Without(MapOf(lv, k), lv[k - 1].price)
         /\ lv[k - 1].price \in PricesOf(lv, k)
         /\ \A p \in PricesOf(lv, k) : Key(b, p) <= Key(b, lv[k - 1].price)
<1>0. k \in Nat /\ k \in 0 .. MaxLevels /\ k - 1 \in 0 .. k - 1
  BY BookAssumption
<1>1. Move(lv, k - 1, k - 1 + 1, k - (k - 1) - 1) = lv
  <2>1. \A j \in Pos : Move(lv, k - 1, k - 1 + 1, k - (k - 1) - 1)[j] = lv[j]
    BY <1>0 DEF Move
  <2> QED
    BY <2>1 DEF Move, Array
<1>2. /\ Ordered(b, lv, k - 1)
      /\ MapOf(lv, k - 1) = Without(MapOf(lv, k), lv[k - 1].price)
  <2> DEFINE i == k - 1
  <2>1. i \in 0 .. k - 1 /\ Move(lv, i, i + 1, k - i - 1) = lv
    BY <1>0, <1>1
  <2> HIDE DEF i
  <2>2. /\ Ordered(b, lv, k - 1)
        /\ MapOf(lv, k - 1) = Without(MapOf(lv, k), lv[i].price)
    BY <1>0, <2>1, DeleteFromArray
  <2> QED
    BY <2>2 DEF i
<1>3. ASSUME NEW p \in PricesOf(lv, k)
      PROVE  Key(b, p) <= Key(b, lv[k - 1].price)
  <2>1. PICK i \in 0 .. k - 1 : p = lv[i].price
    BY DEF PricesOf
  <2>2. i \in Pos /\ k - 1 \in Pos
    BY <1>0, BookAssumption DEF Pos
  <2>3. Key(b, lv[i].price) \in Int /\ Key(b, lv[k - 1].price) \in Int
    BY <2>2, KeyFacts DEF Array, Entry
  <2>4. CASE i = k - 1
    BY <2>1, <2>3, <2>4
  <2>5. CASE i < k - 1
    BY <1>0, <2>1, <2>3, <2>5 DEF Ordered
  <2> QED
    BY <1>0, <2>4, <2>5
<1> QED
  BY <1>0, <1>2, <1>3 DEF PricesOf

(* Opening a gap where the scan stopped and filling it adds a price.       *)
LEMMA InsertIntoArray ==
  ASSUME NEW b, NEW lv \in Array, NEW k \in 0 .. MaxLevels - 1,
         Ordered(b, lv, k),
         NEW p \in Int, NEW s \in Nat, NEW i, StopsAt(b, lv, k, p, i),
         p \notin PricesOf(lv, k)
  PROVE  /\ Ordered(b, Inserted(lv, k, i, p, s), k + 1)
         /\ MapOf(Inserted(lv, k, i, p, s), k + 1) = With(MapOf(lv, k), p, s)
<1> DEFINE e == [price |-> p, size |-> s]
           lv2 == Inserted(lv, k, i, p, s)
           f == With(MapOf(lv, k), p, s)
<1>0. /\ 0 .. k - 1 \subseteq Pos /\ k \in Nat /\ k + 1 \in 0 .. MaxLevels
      /\ k \in 0 .. MaxLevels /\ i \in 0 .. k /\ i \in Pos
  BY BookAssumption DEF Pos, StopsAt
<1>1. /\ \A j \in 0 .. i - 1 : lv2[j] = lv[j]
      /\ lv2[i] = e
      /\ \A j \in i + 1 .. k : lv2[j] = lv[j - 1]
  BY <1>0, BookAssumption DEF Inserted, Move, Pos
<1>2. lv2 \in Array
  <2>1. ASSUME NEW j \in Pos
        PROVE  lv2[j] \in Entry
    <3>1. e \in Entry
      BY DEF Entry
    <3>2. lv2[j] \in {e, lv[j]} \/ (j \in i + 1 .. k /\ lv2[j] = lv[j - 1])
      BY <1>0, <1>1 DEF Inserted, Move
    <3>3. j \in i + 1 .. k => j - 1 \in Pos
      BY <1>0
    <3> HIDE DEF e, lv2
    <3> QED
      BY <3>1, <3>2, <3>3 DEF Array
  <2> QED
    BY <2>1 DEF Inserted, Move, Array
<1>3. /\ \A j \in 0 .. i - 1 : Key(b, lv[j].price) < Key(b, p)
      /\ \A j \in i .. k - 1 : Key(b, p) < Key(b, lv[j].price)
  BY <1>0, FoundAt DEF StopsAt
<1>4. \A j \in 0 .. k - 1 : lv[j].price \in Int /\ Key(b, lv[j].price) \in Int
  BY <1>0, KeyFacts DEF Array, Entry
<1>5. Key(b, p) \in Int /\ e.price = p /\ e.size = s
  BY KeyFacts
<1> HIDE DEF lv2, e
<1>6. Ordered(b, lv2, k + 1)
  <2> SUFFICES ASSUME NEW j \in 0 .. k, NEW m \in 0 .. k, j < m
               PROVE  Key(b, lv2[j].price) < Key(b, lv2[m].price)
    BY <1>0 DEF Ordered
  <2>1. CASE m < i
    BY <1>0, <1>1, <2>1 DEF Ordered
  <2>2. CASE m = i
    BY <1>0, <1>1, <1>3, <1>5, <2>2
  <2>3. CASE m > i /\ j < i
    <3>1. lv2[j] = lv[j] /\ lv2[m] = lv[m - 1] /\ m - 1 \in i .. k - 1
      BY <1>0, <1>1, <2>3
    <3>2. Key(b, lv[j].price) < Key(b, p) /\ Key(b, p) < Key(b, lv[m - 1].price)
      BY <1>0, <1>3, <2>3, <3>1
    <3> QED
      BY <1>0, <1>4, <1>5, <3>1, <3>2
  <2>4. CASE m > i /\ j = i
    <3>1. lv2[m] = lv[m - 1] /\ m - 1 \in i .. k - 1
      BY <1>0, <1>1, <2>4
    <3> QED
      BY <1>0, <1>1, <1>3, <1>5, <2>4, <3>1
  <2>5. CASE j > i
    <3>1. /\ lv2[m] = lv[m - 1] /\ m - 1 \in 0 .. k - 1
          /\ lv2[j] = lv[j - 1] /\ j - 1 \in 0 .. k - 1 /\ j - 1 < m - 1
      BY <1>0, <1>1, <2>5
    <3> QED
      BY <3>1 DEF Ordered
  <2> QED
    BY <1>0, <2>1, <2>2, <2>3, <2>4, <2>5
<1>7. DOMAIN f = PricesOf(lv2, k + 1)
  <2>1. DOMAIN f = PricesOf(lv, k) \cup {p}
    BY DEF With, Abstract!With, MapOf
  <2>2. ASSUME NEW j \in 0 .. k
        PROVE  lv2[j].price \in PricesOf(lv, k) \cup {p}
    <3>1. CASE j < i
      BY <1>0, <1>1, <3>1 DEF PricesOf
    <3>2. CASE j = i
      BY <1>1, <1>5, <3>2
    <3>3. CASE j > i
      <4>1. lv2[j] = lv[j - 1] /\ j - 1 \in 0 .. k - 1
        BY <1>0, <1>1, <3>3
      <4> QED
        BY <4>1 DEF PricesOf
    <3> QED
      BY <1>0, <3>1, <3>2, <3>3
  <2>3. ASSUME NEW j \in 0 .. k - 1
        PROVE  lv[j].price \in PricesOf(lv2, k + 1)
    <3>1. CASE j < i
      BY <1>0, <1>1, <3>1 DEF PricesOf
    <3>2. CASE j >= i
      <4>1. j + 1 \in 0 .. k /\ lv2[j + 1] = lv[j]
        BY <1>0, <1>1, <3>2
      <4> QED
        BY <1>0, <4>1 DEF PricesOf
    <3> QED
      BY <1>0, <3>1, <3>2
  <2>4. p \in PricesOf(lv2, k + 1)
    BY <1>0, <1>1, <1>5 DEF PricesOf
  <2> QED
    BY <1>0, <2>1, <2>2, <2>3, <2>4 DEF PricesOf
<1>8. \A j \in 0 .. k : f[lv2[j].price] = lv2[j].size
  <2> SUFFICES ASSUME NEW j \in 0 .. k
               PROVE  f[lv2[j].price] = lv2[j].size
    OBVIOUS
  <2>1. CASE j = i
    BY <1>1, <1>5, <2>1 DEF With, Abstract!With
  <2>2. CASE j # i
    <3>1. PICK m \in 0 .. k - 1 : lv2[j] = lv[m]
      BY <1>0, <1>1, <2>2
    <3>2. lv[m].price \in PricesOf(lv, k)
      BY DEF PricesOf
    <3>3. f[lv[m].price] = MapOf(lv, k)[lv[m].price]
      BY <3>2 DEF With, Abstract!With, MapOf
    <3>4. MapOf(lv, k)[lv[m].price] = lv[m].size
      BY <1>0, MapOfEntry
    <3> QED
      BY <3>1, <3>3, <3>4
  <2> QED
    BY <2>1, <2>2
<1>9. f = [q \in DOMAIN f |-> f[q]]
  BY DEF With, Abstract!With
<1> HIDE DEF f
<1>10. f = MapOf(lv2, k + 1)
  <2>1. k + 1 - 1 = k
    BY <1>0
  <2> QED
    BY <1>0, <1>2, <1>6, <1>7, <1>8, <1>9, <2>1, MapOfIs
<1> QED
  BY <1>6, <1>10 DEF lv2, f

-----------------------------------------------------------------------------
(* The state: counts and arrays of the right shape, and in order.          *)
Shape ==
    /\ n \in [Books -> 0 .. MaxLevels]
    /\ level \in [Books -> [Pos -> [price : Prices \cup {0}, size : Sizes \cup {0}]]]

Maps == [b \in Books |-> AsMap(b)]

(* A level of the model, dead or live, is an entry.                        *)
LEMMA LevelsAreEntries ==
  [price : Prices \cup {0}, size : Sizes \cup {0}] \subseteq Entry
<1>1. Prices \cup {0} \subseteq Int /\ Sizes \cup {0} \subseteq Nat
  BY BookAssumption
<1> QED
  BY <1>1 DEF Entry

(* What the shape of a side says of its array, in the terms of the lemmas. *)
LEMMA ShapeFacts ==
  ASSUME Shape, NEW b \in Books
  PROVE  /\ n[b] \in 0 .. MaxLevels /\ level[b] \in Array
         /\ SortedFromBest => Ordered(b, level[b], n[b])
         /\ AsMap(b) = MapOf(level[b], n[b])
         /\ LivePrices(b) = PricesOf(level[b], n[b])
<1>1. n[b] \in 0 .. MaxLevels
  BY DEF Shape
<1>2. level[b] \in Array
  <2>1. ASSUME NEW j \in Pos
        PROVE  level[b][j] \in Entry
    BY LevelsAreEntries DEF Shape
  <2> QED
    BY <2>1 DEF Shape, Array
<1>3. ASSUME SortedFromBest
      PROVE  Ordered(b, level[b], n[b])
  <2> SUFFICES ASSUME NEW i \in 0 .. n[b] - 1, NEW j \in 0 .. n[b] - 1, i < j
               PROVE  Key(b, level[b][i].price) < Key(b, level[b][j].price)
    BY DEF Ordered
  <2>1. i \in Pos /\ j \in Pos
    BY <1>1, BookAssumption DEF Pos
  <2>2. level[b][i].price \in Int /\ level[b][j].price \in Int
    BY <1>2, <2>1 DEF Array, Entry
  <2> QED
    BY <1>3, <2>2, KeyFacts DEF SortedFromBest
<1> QED
  BY <1>1, <1>2, <1>3 DEF AsMap, LivePrices, MapOf, PricesOf

(* The linear scan.                                                        *)
LEMMA FindStops ==
  ASSUME Shape, SortedFromBest, NEW b \in Books, NEW p \in Int
  PROVE  StopsAt(b, level[b], n[b], p, Find(b, p))
<1> DEFINE lv == level[b]
           k == n[b]
           stop == NotBetter(b, p)
<1>1. k \in 0 .. MaxLevels /\ k \in Nat /\ lv \in Array /\ Ordered(b, lv, k)
  BY ShapeFacts, BookAssumption
<1>2. \A j \in 0 .. k - 1 : Key(b, lv[j].price) \in Int
  <2>1. 0 .. k - 1 \subseteq Pos
    BY <1>1, BookAssumption DEF Pos
  <2> QED
    BY <1>1, <2>1, KeyFacts DEF Array, Entry
<1>3. Key(b, p) \in Int
  BY KeyFacts
<1>4. stop = {i \in 0 .. k - 1 : Key(b, lv[i].price) >= Key(b, p)}
  BY DEF NotBetter
<1>5. Find(b, p) = IF stop = {} THEN k ELSE Min(stop)
  BY DEF Find
<1> HIDE DEF lv, k, stop
<1>6. CASE stop = {}
  BY <1>1, <1>2, <1>3, <1>4, <1>5, <1>6 DEF StopsAt, lv, k
<1>7. CASE stop # {}
  <2> DEFINE i == Min(stop)
  <2>1. i \in stop /\ \A m \in stop : i <= m
    BY <1>1, <1>4, <1>7, MinIsLeast
  <2> HIDE DEF i
  <2>2. i \in 0 .. k - 1 /\ Key(b, lv[i].price) >= Key(b, p)
    BY <1>4, <2>1
  <2>3. ASSUME NEW j \in 0 .. i - 1
        PROVE  Key(b, lv[j].price) < Key(b, p)
    <3>1. j \in 0 .. k - 1 /\ j \notin stop
      BY <1>1, <2>1, <2>2
    <3> QED
      BY <1>2, <1>3, <1>4, <3>1
  <2>4. ASSUME NEW j \in i .. k - 1
        PROVE  Key(b, lv[j].price) >= Key(b, p)
    <3>1. CASE j = i
      BY <2>2, <3>1
    <3>2. CASE i < j
      <4>1. j \in 0 .. k - 1 /\ Key(b, lv[i].price) < Key(b, lv[j].price)
        BY <1>1, <2>2, <3>2 DEF Ordered
      <4> QED
        BY <1>2, <1>3, <2>2, <4>1
    <3> QED
      BY <1>1, <2>2, <3>1, <3>2
  <2>5. StopsAt(b, lv, k, p, i)
    BY <1>1, <2>2, <2>3, <2>4 DEF StopsAt
  <2> QED
    BY <1>5, <1>7, <2>5 DEF i, lv, k
<1> QED
  BY <1>6, <1>7

(* An update touches the array of one book; the others stay as they are.   *)
LEMMA OneBookChanges ==
  ASSUME Shape, SortedFromBest, NEW b \in Books,
         NEW k2 \in 0 .. MaxLevels, n' = [n EXCEPT ![b] = k2],
         NEW lv2, level' = [level EXCEPT ![b] = lv2],
         lv2 \in [Pos -> [price : Prices \cup {0}, size : Sizes \cup {0}]],
         Ordered(b, lv2, k2)
  PROVE  /\ Shape'
         /\ SortedFromBest'
         /\ Maps' = [Maps EXCEPT ![b] = MapOf(lv2, k2)]
<1>1. Shape'
  BY DEF Shape
<1>2. lv2 \in Array
  <2>1. ASSUME NEW j \in Pos
        PROVE  lv2[j] \in Entry
    BY LevelsAreEntries
  <2> QED
    BY <2>1 DEF Array
<1>3. ASSUME NEW c \in Books
      PROVE  Ordered(c, level'[c], n'[c])
  BY <1>2, ShapeFacts DEF Shape
<1>4. SortedFromBest'
  <2> SUFFICES ASSUME NEW c \in Books,
                      NEW i \in 0 .. n'[c] - 1, NEW j \in 0 .. n'[c] - 1, i < j
               PROVE  Better(c, level'[c][i].price, level'[c][j].price)
    BY DEF SortedFromBest
  <2>1. n'[c] \in 0 .. MaxLevels /\ level'[c] \in Array
    BY <1>2, ShapeFacts DEF Shape
  <2>2. i \in Pos /\ j \in Pos
    BY <2>1, BookAssumption DEF Pos
  <2>3. level'[c][i].price \in Int /\ level'[c][j].price \in Int
    BY <2>1, <2>2 DEF Array, Entry
  <2> QED
    BY <1>3, <2>3, KeyFacts DEF Ordered
<1>5. ASSUME NEW c \in Books
      PROVE  AsMap(c)' = IF c = b THEN MapOf(lv2, k2) ELSE AsMap(c)
  <2>1. AsMap(c)' = MapOf(level'[c], n'[c]) /\ AsMap(c) = MapOf(level[c], n[c])
    BY DEF AsMap, LivePrices, MapOf, PricesOf
  <2>2. /\ level'[c] = IF c = b THEN lv2 ELSE level[c]
        /\ n'[c] = IF c = b THEN k2 ELSE n[c]
    BY DEF Shape
  <2> QED
    BY <2>1, <2>2
<1>6. Maps' = [Maps EXCEPT ![b] = MapOf(lv2, k2)]
  BY <1>5 DEF Maps
<1> QED
  BY <1>1, <1>4, <1>6

(* PriceBook brings in its own copies of these operators.                  *)
LEMMA SameOperators ==
  /\ \A S : Abstract!Cardinality(S) = Cardinality(S)
  /\ \A c, fields, depth : Abstract!Counted(c, fields, depth) = Counted(c, fields, depth)
  /\ \A b, p : Abstract!Key(b, p) = Key(b, p)
BY DEF Abstract!Cardinality, Cardinality, Abstract!Counted, Counted, Abstract!Key, Key

(* What the scan tells of the map.                                         *)
LEMMA ScanFacts ==
  ASSUME Shape, SortedFromBest, NEW b \in Books, NEW p \in Prices, NEW i, i = Find(b, p)
  PROVE  /\ p \in Int /\ i \in 0 .. n[b]
         /\ StopsAt(b, level[b], n[b], p, i)
         /\ Found(b, p, i) <=> p \in DOMAIN Maps[b]
         /\ DOMAIN Maps[b] = PricesOf(level[b], n[b])
         /\ Maps[b] = MapOf(level[b], n[b])
         /\ Abstract!Depth(Maps[b]) = n[b]
<1>1. p \in Int
  BY BookAssumption
<1>2. StopsAt(b, level[b], n[b], p, i)
  BY <1>1, FindStops
<1>3. /\ level[b] \in Array /\ n[b] \in 0 .. MaxLevels
      /\ Ordered(b, level[b], n[b])
  BY ShapeFacts
<1>4. Maps[b] = MapOf(level[b], n[b])
  BY ShapeFacts DEF Maps
<1>5. DOMAIN Maps[b] = PricesOf(level[b], n[b])
  BY <1>4 DEF MapOf
<1>6. Found(b, p, i) <=> p \in PricesOf(level[b], n[b])
  BY <1>1, <1>2, <1>3, FoundAt DEF Found
<1>7. Abstract!Depth(Maps[b]) = n[b]
  BY <1>3, <1>4, MapOfDepth, SameOperators DEF Abstract!Depth
<1> QED
  BY <1>1, <1>2, <1>4, <1>5, <1>6, <1>7 DEF StopsAt

(* The branches of book_apply, each a step of PriceBook.                   *)
LEMMA DeleteMissingStep ==
  ASSUME Shape, SortedFromBest, NEW b \in Books, NEW p \in Prices,
         DeleteMissing(b, p, Find(b, p))
  PROVE  Shape' /\ SortedFromBest' /\ Abstract!DeleteMissing(b, p)
<1>1. p \notin DOMAIN Maps[b]
  BY ScanFacts DEF DeleteMissing
<1>2. UNCHANGED <<n, level>> /\ st' = Counted(st, {"delete_missing"}, 0)
  BY DEF DeleteMissing, Count
<1>3. Shape' /\ SortedFromBest' /\ Maps' = Maps
  BY <1>2 DEF Shape, SortedFromBest, Maps, AsMap, LivePrices
<1>4. UNCHANGED [c \in Books |-> AsMap(c)] /\ p \notin DOMAIN [c \in Books |-> AsMap(c)][b]
  BY <1>1, <1>3 DEF Maps
<1> QED
  BY <1>2, <1>3, <1>4, SameOperators DEF Abstract!DeleteMissing, Abstract!Count

(* Closing up over a deleted level leaves a side sorted; it is the map     *)
(* without that price.                                                     *)
LEMMA DeleteStep ==
  ASSUME Shape, SortedFromBest, NEW b \in Books, NEW p \in Prices,
         Delete(b, p, Find(b, p))
  PROVE  Shape' /\ SortedFromBest' /\ Abstract!Delete(b, p)
<1> DEFINE i == Find(b, p)
           lv2 == Move(level[b], i, i + 1, n[b] - i - 1)
<1>1. p \in DOMAIN Maps[b] /\ Abstract!Depth(Maps[b]) = n[b]
  BY ScanFacts DEF Delete
<1>2. i \in 0 .. n[b] - 1 /\ level[b][i].price = p
  <2>1. i \in 0 .. n[b] /\ n[b] \in 0 .. MaxLevels
    BY ScanFacts, ShapeFacts
  <2>2. i < n[b] /\ level[b][i].price = p
    BY DEF Delete, Found
  <2> QED
    BY <2>1, <2>2, BookAssumption
<1>3. /\ level' = [level EXCEPT ![b] = lv2]
      /\ n' = [n EXCEPT ![b] = n[b] - 1]
      /\ st' = Counted(st, {"deleted"}, n[b] - 1)
  BY DEF Delete, Count
<1>4. n[b] \in 0 .. MaxLevels /\ n[b] - 1 \in 0 .. MaxLevels
  BY <1>2, ShapeFacts, BookAssumption
<1>5. lv2 \in [Pos -> [price : Prices \cup {0}, size : Sizes \cup {0}]]
  <2>1. ASSUME NEW j \in Pos
        PROVE  lv2[j] \in [price : Prices \cup {0}, size : Sizes \cup {0}]
    <3>1. j \in i .. n[b] - 2 => j + 1 \in Pos
      BY <1>2, <1>4, BookAssumption DEF Pos
    <3>2. lv2[j] = level[b][j] \/ (j \in i .. n[b] - 2 /\ lv2[j] = level[b][j + 1])
      BY <1>2, <1>4, BookAssumption DEF Move, Pos
    <3> HIDE DEF lv2
    <3> QED
      BY <3>1, <3>2 DEF Shape
  <2> QED
    BY <2>1 DEF Move
<1>6. /\ Ordered(b, lv2, n[b] - 1)
      /\ MapOf(lv2, n[b] - 1) = Without(MapOf(level[b], n[b]), p)
  <2>1. level[b] \in Array /\ Ordered(b, level[b], n[b]) /\ n[b] \in 0 .. MaxLevels
    BY ShapeFacts
  <2> HIDE DEF i
  <2>2. /\ Ordered(b, lv2, n[b] - 1)
        /\ MapOf(lv2, n[b] - 1) = Without(MapOf(level[b], n[b]), level[b][i].price)
    BY <1>2, <2>1, DeleteFromArray
  <2> QED
    BY <1>2, <2>2
<1> HIDE DEF lv2
<1>7. Shape' /\ SortedFromBest' /\ Maps' = [Maps EXCEPT ![b] = Without(Maps[b], p)]
  <2>1. Shape' /\ SortedFromBest' /\ Maps' = [Maps EXCEPT ![b] = MapOf(lv2, n[b] - 1)]
    BY <1>3, <1>4, <1>5, <1>6, OneBookChanges
  <2>2. MapOf(level[b], n[b]) = Maps[b]
    BY ScanFacts
  <2> QED
    BY <1>6, <2>1, <2>2
<1> QED
  BY <1>1, <1>3, <1>7, SameOperators DEF Abstract!Delete, Abstract!Count, Maps, Without

(* A new size in place leaves a side sorted; it is the map with that size. *)
LEMMA UpdateStep ==
  ASSUME Shape, SortedFromBest, NEW b \in Books, NEW p \in Prices, NEW s \in Sizes,
         Update(b, p, s, Find(b, p))
  PROVE  Shape' /\ SortedFromBest' /\ Abstract!Update(b, p, s)
<1> DEFINE i == Find(b, p)
           lv == level[b]
           lv2 == [lv EXCEPT ![i].size = s]
           k == n[b]
           m == MapOf(lv, k)
           f == [m EXCEPT ![p] = s]
<1>1. p \in DOMAIN Maps[b] /\ Abstract!Depth(Maps[b]) = n[b] /\ Maps[b] = m
  BY ScanFacts DEF Update
<1>2. i \in 0 .. k - 1 /\ lv[i].price = p
  <2>1. i \in 0 .. n[b] /\ n[b] \in 0 .. MaxLevels
    BY ScanFacts, ShapeFacts
  <2>2. i < n[b] /\ level[b][i].price = p
    BY DEF Update, Found
  <2> QED
    BY <2>1, <2>2, BookAssumption
<1>3. /\ level' = [level EXCEPT ![b] = lv2]
      /\ n' = [n EXCEPT ![b] = k]
      /\ st' = Counted(st, {"updated"}, n[b])
  BY DEF Update, Count, Shape
<1>4. /\ k \in 0 .. MaxLevels /\ i \in Pos /\ 0 .. k - 1 \subseteq Pos
      /\ lv \in Array /\ Ordered(b, lv, k)
  BY <1>2, ShapeFacts, BookAssumption DEF Pos
<1>5. lv2 \in [Pos -> [price : Prices \cup {0}, size : Sizes \cup {0}]]
  <2>1. lv \in [Pos -> [price : Prices \cup {0}, size : Sizes \cup {0}]]
    BY DEF Shape
  <2> HIDE DEF lv, i
  <2> QED
    BY <1>4, <2>1
<1>6. \A j \in Pos : /\ lv2[j].price = lv[j].price
                      /\ lv2[j].size = IF j = i THEN s ELSE lv[j].size
  BY <1>4 DEF Shape
<1>7. Ordered(b, lv2, k)
  BY <1>4, <1>6 DEF Ordered
<1>8. lv2 \in Array
  BY <1>5, LevelsAreEntries DEF Array
<1> HIDE DEF lv2
<1>9. MapOf(lv2, k) = f
  <2>0. m = [q \in PricesOf(lv, k) |-> m[q]] /\ DOMAIN m = PricesOf(lv, k)
    BY DEF MapOf
  <2>1. PricesOf(lv2, k) = PricesOf(lv, k)
    BY <1>4, <1>6 DEF PricesOf
  <2> HIDE DEF lv, k, i
  <2>2. \A a, c \in 0 .. k - 1 : lv[a].price = lv[c].price => a = c
    BY <1>4, MapOfEntry
  <2>3. ASSUME NEW j \in 0 .. k - 1
        PROVE  lv[j].price \in PricesOf(lv, k) /\ m[lv[j].price] = lv[j].size
    BY <1>4, MapOfEntry DEF PricesOf
  <2> HIDE DEF m
  <2>4. ASSUME NEW j \in 0 .. k - 1
        PROVE  f[lv2[j].price] = lv2[j].size
    <3>1. lv[j].price = p <=> j = i
      BY <1>2, <2>2
    <3>2. f[lv[j].price] = IF j = i THEN s ELSE lv[j].size
      BY <2>0, <2>3, <3>1
    <3> QED
      BY <1>4, <1>6, <3>2
  <2>5. f = [q \in PricesOf(lv2, k) |-> f[q]]
    BY <2>0, <2>1
  <2> HIDE DEF f
  <2> QED
    BY <1>4, <1>7, <1>8, <2>4, <2>5, MapOfIs
<1> HIDE DEF f, m
<1>10. Shape' /\ SortedFromBest' /\ Maps' = [Maps EXCEPT ![b] = f]
  BY <1>3, <1>4, <1>5, <1>7, <1>9, OneBookChanges
<1>11. Maps' = [Maps EXCEPT ![b] = [Maps[b] EXCEPT ![p] = s]]
  BY <1>1, <1>10 DEF f
<1> QED
  BY <1>1, <1>3, <1>10, <1>11, SameOperators DEF Abstract!Update, Abstract!Count, Maps

(* The entries an insertion leaves in the array.                           *)
LEMMA PutShape ==
  ASSUME Shape, NEW b \in Books, NEW p \in Prices, NEW s \in Sizes,
         NEW k \in 0 .. MaxLevels - 1, NEW i \in 0 .. k
  PROVE  Inserted(level[b], k, i, p, s)
           \in [Pos -> [price : Prices \cup {0}, size : Sizes \cup {0}]]
<1> DEFINE e == [price |-> p, size |-> s]
           lv == level[b]
           lv2 == Inserted(lv, k, i, p, s)
<1>1. e \in [price : Prices \cup {0}, size : Sizes \cup {0}]
  OBVIOUS
<1>2. lv \in [Pos -> [price : Prices \cup {0}, size : Sizes \cup {0}]]
  BY DEF Shape
<1> HIDE DEF e, lv
<1>3. ASSUME NEW j \in Pos
      PROVE  lv2[j] \in [price : Prices \cup {0}, size : Sizes \cup {0}]
  <2>1. lv2[j] \in {e, lv[j]} \/ (j \in i + 1 .. k /\ lv2[j] = lv[j - 1])
    BY BookAssumption DEF Inserted, Move, e
  <2>2. j \in i + 1 .. k => j - 1 \in Pos
    BY BookAssumption DEF Pos
  <2> HIDE DEF lv2
  <2> QED
    BY <1>1, <1>2, <2>1, <2>2
<1>4. lv2 \in [Pos -> [price : Prices \cup {0}, size : Sizes \cup {0}]]
  BY <1>3 DEF Inserted, Move
<1> QED
  BY <1>4 DEF lv2, lv

(* A level opened where the scan stopped leaves a side sorted; it is the   *)
(* map with that price.                                                    *)
LEMMA InsertStep ==
  ASSUME Shape, SortedFromBest, NEW b \in Books, NEW p \in Prices, NEW s \in Sizes,
         Insert(b, p, s, Find(b, p))
  PROVE  Shape' /\ SortedFromBest' /\ Abstract!Insert(b, p, s)
<1> DEFINE i == Find(b, p)
           k == n[b]
           lv == level[b]
           lv2 == Inserted(lv, k, i, p, s)
<1>1. /\ p \notin DOMAIN Maps[b] /\ Abstract!Depth(Maps[b]) = k /\ p \in Int
      /\ Maps[b] = MapOf(lv, k) /\ p \notin PricesOf(lv, k)
      /\ StopsAt(b, lv, k, p, i)
  BY ScanFacts DEF Insert
<1>2. k \in 0 .. MaxLevels /\ lv \in Array /\ Ordered(b, lv, k)
  BY ShapeFacts
<1>3. k # MaxLevels
  BY DEF Insert, Full
<1>4. k \in 0 .. MaxLevels - 1 /\ k + 1 \in 0 .. MaxLevels /\ i \in 0 .. k
  BY <1>1, <1>2, <1>3, BookAssumption DEF StopsAt
<1>5. /\ level' = [level EXCEPT ![b] = lv2]
      /\ n' = [n EXCEPT ![b] = k + 1]
      /\ st' = Counted(st, {"inserted"}, k + 1)
  BY DEF Insert, Put, Count, Inserted
<1>6. lv2 \in [Pos -> [price : Prices \cup {0}, size : Sizes \cup {0}]]
  <2> HIDE DEF i
  <2> QED
    BY <1>4, PutShape
<1>7. s \in Nat
  BY BookAssumption
<1> HIDE DEF i, k, lv
<1>8. Ordered(b, lv2, k + 1) /\ MapOf(lv2, k + 1) = With(MapOf(lv, k), p, s)
  BY <1>1, <1>2, <1>4, <1>7, InsertIntoArray
<1> HIDE DEF lv2
<1>9. Shape' /\ SortedFromBest' /\ Maps' = [Maps EXCEPT ![b] = With(Maps[b], p, s)]
  <2>1. Shape' /\ SortedFromBest' /\ Maps' = [Maps EXCEPT ![b] = MapOf(lv2, k + 1)]
    BY <1>4, <1>5, <1>6, <1>8, OneBookChanges
  <2> QED
    BY <1>1, <1>8, <2>1
<1>10. Abstract!Depth(Maps[b]) < MaxLevels /\ Abstract!Depth(Maps[b]) + 1 = k + 1
  BY <1>1, <1>4, BookAssumption
<1> QED
  BY <1>1, <1>5, <1>9, <1>10, SameOperators
  DEF Abstract!Insert, Abstract!Count, Maps, With

(* On a full side the last level, the worst price of the map, makes room   *)
(* for the new one.                                                        *)
LEMMA DisplaceStep ==
  ASSUME Shape, SortedFromBest, NEW b \in Books, NEW p \in Prices, NEW s \in Sizes,
         Displace(b, p, s, Find(b, p))
  PROVE  Shape' /\ SortedFromBest' /\ Abstract!Displace(b, p, s)
<1> DEFINE i == Find(b, p)
           k == MaxLevels - 1
           lv == level[b]
           q == lv[k].price
           lv2 == Inserted(lv, k, i, p, s)
<1>0. n[b] = MaxLevels /\ i # n[b] /\ MaxLevels \in Nat \ {0}
  BY BookAssumption DEF Displace, Full
<1>1. /\ p \notin DOMAIN Maps[b] /\ Abstract!Depth(Maps[b]) = MaxLevels /\ p \in Int
      /\ Maps[b] = MapOf(lv, MaxLevels) /\ p \notin PricesOf(lv, MaxLevels)
      /\ DOMAIN Maps[b] = PricesOf(lv, MaxLevels)
      /\ StopsAt(b, lv, MaxLevels, p, i)
      /\ ~(i < MaxLevels /\ lv[i].price = p)
  BY <1>0, ScanFacts DEF Displace, Found
<1>2. lv \in Array /\ Ordered(b, lv, MaxLevels)
  BY <1>0, ShapeFacts
<1>3. i \in 0 .. k /\ k \in 0 .. MaxLevels - 1 /\ k + 1 = MaxLevels
  BY <1>0, <1>1 DEF StopsAt
<1>4. /\ level' = [level EXCEPT ![b] = lv2]
      /\ n' = [n EXCEPT ![b] = MaxLevels]
      /\ st' = Counted(st, {"overflow", "inserted"}, MaxLevels)
  <2>1. n[b] - 1 - i = k - i
    BY <1>0
  <2> QED
    BY <1>0, <2>1 DEF Displace, Put, Count, Dropped, Shape, Inserted
<1>5. lv2 \in [Pos -> [price : Prices \cup {0}, size : Sizes \cup {0}]]
  <2> HIDE DEF i, k
  <2> QED
    BY <1>3, PutShape
<1> HIDE DEF i, lv
<1>6. /\ Ordered(b, lv, k)
      /\ MapOf(lv, k) = Without(MapOf(lv, MaxLevels), q)
      /\ q \in PricesOf(lv, MaxLevels)
      /\ \A r \in PricesOf(lv, MaxLevels) : Key(b, r) <= Key(b, q)
  BY <1>0, <1>2, DropLast
<1>7. StopsAt(b, lv, k, p, i) /\ p \notin PricesOf(lv, k)
  BY <1>0, <1>1, <1>3 DEF StopsAt, PricesOf
<1>8. Key(b, p) < Key(b, q)
  <2>1. \A j \in i .. MaxLevels - 1 : Key(b, p) < Key(b, lv[j].price)
    BY <1>0, <1>1, <1>2, FoundAt
  <2> QED
    BY <1>3, <2>1
<1>9. s \in Nat
  BY BookAssumption
<1> HIDE DEF k, q
<1>10. /\ Ordered(b, lv2, MaxLevels)
       /\ MapOf(lv2, MaxLevels) = With(Without(Maps[b], q), p, s)
  BY <1>1, <1>2, <1>3, <1>6, <1>7, <1>9, InsertIntoArray
<1> HIDE DEF lv2
<1>11. /\ Shape' /\ SortedFromBest'
       /\ Maps' = [Maps EXCEPT ![b] = With(Without(Maps[b], q), p, s)]
  <2>1. MaxLevels \in 0 .. MaxLevels
    BY <1>0
  <2> QED
    BY <1>4, <1>5, <1>10, <2>1, OneBookChanges
<1>12. \E r \in DOMAIN Maps[b] :
          /\ \A t \in DOMAIN Maps[b] : Key(b, r) >= Key(b, t)
          /\ Key(b, p) < Key(b, r)
          /\ Maps' = [Maps EXCEPT ![b] = With(Without(Maps[b], r), p, s)]
  <2>1. \A r \in PricesOf(lv, MaxLevels) : Key(b, r) \in Int
    <3>1. \A j \in Pos : lv[j].price \in Int
      BY <1>2 DEF Array, Entry
    <3> QED
      BY <1>0, <3>1, KeyFacts DEF PricesOf, Pos
  <2>2. \A r \in PricesOf(lv, MaxLevels) : Key(b, q) >= Key(b, r)
    BY <1>6, <2>1
  <2> QED
    BY <1>1, <1>6, <1>8, <1>11, <2>2
<1>13. st' = Counted(st, {"inserted", "overflow"}, MaxLevels)
  <2>1. {"inserted", "overflow"} = {"overflow", "inserted"}
    OBVIOUS
  <2> QED
    BY <1>4, <2>1
<1> QED
  BY <1>1, <1>11, <1>12, <1>13, SameOperators
  DEF Abstract!Displace, Abstract!IsWorst, Abstract!Count, Maps, With, Without

(* A price behind the last level of a full side is worse than all of them: *)
(* nothing changes.                                                        *)
LEMMA RefuseStep ==
  ASSUME Shape, SortedFromBest, NEW b \in Books, NEW p \in Prices,
         Refuse(b, p, Find(b, p))
  PROVE  Shape' /\ SortedFromBest' /\ Abstract!Refuse(b, p)
<1> DEFINE i == Find(b, p)
           lv == level[b]
<1>0. n[b] = MaxLevels /\ i = MaxLevels /\ MaxLevels \in Nat \ {0}
  BY BookAssumption DEF Refuse, Full
<1>1. /\ p \notin DOMAIN Maps[b] /\ Abstract!Depth(Maps[b]) = MaxLevels /\ p \in Int
      /\ DOMAIN Maps[b] = PricesOf(lv, MaxLevels)
      /\ StopsAt(b, lv, MaxLevels, p, i)
  BY <1>0, ScanFacts DEF Refuse
<1>2. lv \in Array
  BY ShapeFacts
<1>3. UNCHANGED <<n, level>> /\ st' = Counted(st, {"overflow"}, 0)
  BY DEF Refuse, Count
<1>4. Shape' /\ SortedFromBest' /\ Maps' = Maps
  BY <1>3 DEF Shape, SortedFromBest, Maps, AsMap, LivePrices
<1> HIDE DEF i, lv
<1>5. ASSUME NEW r \in DOMAIN Maps[b]
      PROVE  Key(b, p) >= Key(b, r)
  <2>1. PICK j \in 0 .. MaxLevels - 1 : r = lv[j].price
    BY <1>1 DEF PricesOf
  <2>2. Key(b, lv[j].price) < Key(b, p)
    BY <1>0, <1>1 DEF StopsAt
  <2>3. lv[j].price \in Int
    BY <1>0, <1>2 DEF Array, Entry, Pos
  <2> QED
    BY <1>1, <2>1, <2>2, <2>3, KeyFacts
<1>6. UNCHANGED [c \in Books |-> AsMap(c)] /\ [c \in Books |-> AsMap(c)] = Maps
  BY <1>4 DEF Maps
<1> QED
  BY <1>1, <1>3, <1>4, <1>5, <1>6, SameOperators
  DEF Abstract!Refuse, Abstract!IsWorst, Abstract!Count

(* An update of book.c is one of PriceBook, and keeps the arrays in order. *)
LEMMA ApplyRefines ==
  ASSUME Shape, SortedFromBest, NEW b \in Books, NEW p \in Prices,
         NEW s \in Sizes \cup {0}, Apply(b, p, s)
  PROVE  Shape' /\ SortedFromBest' /\ Abstract!Apply(b, p, s)
<1> DEFINE i == Find(b, p)
<1>1. CASE s = 0 /\ DeleteMissing(b, p, i)
  BY <1>1, DeleteMissingStep DEF Abstract!Apply
<1>2. CASE s = 0 /\ Delete(b, p, i)
  BY <1>2, DeleteStep DEF Abstract!Apply
<1>3. CASE s # 0 /\ Update(b, p, s, i)
  BY <1>3, UpdateStep DEF Abstract!Apply
<1>4. CASE s # 0 /\ Insert(b, p, s, i)
  BY <1>4, InsertStep DEF Abstract!Apply
<1>5. CASE s # 0 /\ Displace(b, p, s, i)
  BY <1>5, DisplaceStep DEF Abstract!Apply
<1>6. CASE s # 0 /\ Refuse(b, p, i)
  BY <1>6, RefuseStep DEF Abstract!Apply
<1> QED
  BY <1>1, <1>2, <1>3, <1>4, <1>5, <1>6 DEF Apply

(* A reset of the counts alone empties the map, whatever the arrays still  *)
(* hold.                                                                   *)
LEMMA ResetRefines ==
  ASSUME Shape, Reset
  PROVE  Shape' /\ SortedFromBest' /\ Abstract!Reset
<1>1. n' = [b \in Books |-> 0] /\ UNCHANGED level /\ st' = ZeroStats
  BY DEF Reset, SetReset, Cleared
<1>2. Shape' /\ SortedFromBest'
  BY <1>1, BookAssumption DEF Shape, SortedFromBest
<1>3. ASSUME NEW b \in Books
      PROVE  AsMap(b)' = [p \in {} |-> 0]
  <2>1. LivePrices(b)' = {}
    BY <1>1 DEF LivePrices
  <2> QED
    BY <2>1 DEF AsMap
<1>4. [b \in Books |-> AsMap(b)]' = [b \in Books |-> [p \in {} |-> 0]]
  BY <1>3
<1> QED
  BY <1>1, <1>2, <1>4 DEF Abstract!Reset, Abstract!ZeroStats, ZeroStats,
     Abstract!Books, Books, Abstract!Sides, Sides

-----------------------------------------------------------------------------
(* The reference.                                                          *)

References ==
    /\ reference = [b \in Books |-> reference[b]]
    /\ \A b \in Books : /\ DOMAIN reference[b] \subseteq Prices
                        /\ reference[b] \in [DOMAIN reference[b] -> Sizes]

(* No level is stale.                                                      *)
Agrees ==
    \A b \in Books : \A q \in DOMAIN Maps[b] :
      q \in DOMAIN reference[b] /\ Maps[b][q] = reference[b][q]

(* Each missing one was counted.                                           *)
Accounted == IsFiniteSet(Missing) /\ Cardinality(Missing) <= st.overflow

StatsTyped == st \in [DOMAIN ZeroStats -> Nat]

(* What this says of positions is what MissingOnlyByOverflow says.         *)
LEMMA AgreementByPosition ==
  ASSUME Shape, SortedFromBest
  PROVE  (Agrees /\ Accounted) <=> (MissingOnlyByOverflow /\ IsFiniteSet(Missing))
<1>1. ASSUME NEW b \in Books
      PROVE  /\ DOMAIN Maps[b] = {level[b][i].price : i \in 0 .. n[b] - 1}
             /\ \A i \in 0 .. n[b] - 1 : Maps[b][level[b][i].price] = level[b][i].size
  <2> DEFINE lv == level[b]
             k == n[b]
  <2>1. lv \in Array /\ k \in 0 .. MaxLevels /\ Ordered(b, lv, k) /\ Maps[b] = MapOf(lv, k)
    BY ShapeFacts DEF Maps
  <2> HIDE DEF lv, k
  <2>2. DOMAIN MapOf(lv, k) = PricesOf(lv, k)
    BY DEF MapOf
  <2>3. \A i \in 0 .. k - 1 : MapOf(lv, k)[lv[i].price] = lv[i].size
    BY <2>1, MapOfEntry
  <2> QED
    BY <2>1, <2>2, <2>3 DEF PricesOf, lv, k
<1>2. ASSUME NEW b \in Books
      PROVE  (\A q \in DOMAIN Maps[b] : q \in DOMAIN reference[b] /\ Maps[b][q] = reference[b][q])
               <=> \A i \in 0 .. n[b] - 1 :
                     /\ level[b][i].price \in DOMAIN reference[b]
                     /\ level[b][i].size = reference[b][level[b][i].price]
  BY <1>1
<1> QED
  BY <1>2 DEF Agrees, Accounted, MissingOnlyByOverflow

(* One more update, on both sides.                                         *)
LEMMA AgreementKept ==
  ASSUME Shape, Shape', References, Agrees, Accounted, StatsTyped, StatsTyped',
         NEW b \in Books, NEW lost,
         \A c \in Books \ {b} : Maps'[c] = Maps[c] /\ reference'[c] = reference[c],
         \A q \in DOMAIN Maps'[b] :
           q \in DOMAIN reference'[b] /\ Maps'[b][q] = reference'[b][q],
         st'.overflow >= st.overflow,
         \A q \in DOMAIN reference'[b] \ DOMAIN Maps'[b] :
           \/ q \in DOMAIN reference[b] \ DOMAIN Maps[b]
           \/ q = lost /\ st'.overflow = st.overflow + 1
  PROVE  Agrees' /\ Accounted'
<1>1. \A c \in Books : c # b => Maps'[c] = Maps[c] /\ reference'[c] = reference[c]
  OBVIOUS
<1>2. Agrees'
  <2> SUFFICES ASSUME NEW c \in Books, NEW q \in DOMAIN Maps'[c]
               PROVE  q \in DOMAIN reference'[c] /\ Maps'[c][q] = reference'[c][q]
    BY DEF Agrees
  <2>1. CASE c = b
    BY <1>1, <2>1
  <2>2. CASE c # b
    BY <1>1, <2>2 DEF Agrees
  <2> QED
    BY <2>1, <2>2
<1>3. /\ Missing = {bp \in Books \X Prices :
                     bp[2] \in DOMAIN reference[bp[1]] \ DOMAIN Maps[bp[1]]}
      /\ Missing' = {bp \in Books \X Prices :
                     bp[2] \in DOMAIN reference'[bp[1]] \ DOMAIN Maps'[bp[1]]}
  BY DEF Missing, Maps, AsMap
<1>4. ASSUME NEW x \in Missing', x \notin Missing
      PROVE  x = <<b, lost>> /\ st'.overflow = st.overflow + 1
  <2>1. x \in Books \X Prices /\ x = <<x[1], x[2]>> /\ x[1] \in Books
    BY <1>3
  <2>2. x[1] = b
    BY <1>1, <1>3, <1>4, <2>1
  <2>3. x[2] \in DOMAIN reference'[b] \ DOMAIN Maps'[b]
    BY <1>1, <1>3, <1>4, <2>1, <2>2
  <2>4. x[2] \notin DOMAIN reference[b] \ DOMAIN Maps[b]
    BY <1>3, <1>4, <2>1, <2>2
  <2> QED
    BY <2>1, <2>2, <2>3, <2>4
<1>5. st.overflow \in Nat /\ st'.overflow \in Nat
  BY DEF StatsTyped, ZeroStats
<1>6. IsFiniteSet(Missing) /\ Cardinality(Missing) <= st.overflow /\ Cardinality(Missing) \in Nat
  BY FS_CardinalityType DEF Accounted
<1>7. CASE Missing' \subseteq Missing
  <2>1. IsFiniteSet(Missing') /\ Cardinality(Missing') <= Cardinality(Missing)
    BY <1>6, <1>7, FS_Subset
  <2>2. Cardinality(Missing') \in Nat
    BY <2>1, FS_CardinalityType
  <2> QED
    BY <1>2, <1>5, <1>6, <2>1, <2>2 DEF Accounted
<1>8. CASE \E x \in Missing' : x \notin Missing
  <2> DEFINE M == Missing \cup {<<b, lost>>}
  <2>1. Missing' \subseteq M /\ st'.overflow = st.overflow + 1
    BY <1>4, <1>8
  <2>2. IsFiniteSet(M) /\ Cardinality(M) <= Cardinality(Missing) + 1 /\ Cardinality(M) \in Nat
    <3>1. IsFiniteSet(M) /\ Cardinality(M) \in {Cardinality(Missing), Cardinality(Missing) + 1}
      BY <1>6, FS_AddElement
    <3> QED
      BY <1>6, <3>1
  <2> HIDE DEF M
  <2>3. IsFiniteSet(Missing') /\ Cardinality(Missing') <= Cardinality(M)
    BY <2>1, <2>2, FS_Subset
  <2>4. Cardinality(Missing') \in Nat
    BY <2>3, FS_CardinalityType
  <2> QED
    BY <1>2, <1>5, <1>6, <2>1, <2>2, <2>3, <2>4 DEF Accounted
<1> QED
  BY <1>7, <1>8

(* The reference's own step.                                               *)
LEMMA ReferenceStep ==
  ASSUME References, NEW b \in Books, NEW p \in Prices, NEW s \in Sizes \cup {0},
         Reference(b, p, s)
  PROVE  LET r == IF s = 0 THEN Without(reference[b], p) ELSE With(reference[b], p, s)
         IN  References' /\ reference' = [reference EXCEPT ![b] = r]
<1> DEFINE r == IF s = 0 THEN Without(reference[b], p) ELSE With(reference[b], p, s)
<1>1. reference' = [reference EXCEPT ![b] = r]
  BY DEF Reference, Without, With, Abstract!Without, Abstract!With
<1>2. DOMAIN r \subseteq Prices /\ r \in [DOMAIN r -> Sizes]
  <2>1. DOMAIN reference[b] \subseteq Prices /\ reference[b] \in [DOMAIN reference[b] -> Sizes]
    BY DEF References
  <2>2. CASE s = 0
    BY <2>1, <2>2 DEF Without, Abstract!Without
  <2>3. CASE s # 0
    BY <2>1, <2>3 DEF With, Abstract!With
  <2> QED
    BY <2>2, <2>3
<1> HIDE DEF r
<1>3. References'
  BY <1>1, <1>2 DEF References
<1> QED
  BY <1>1, <1>3 DEF r

(* What counting an update does to the counters.                           *)
LEMMA CountedFacts ==
  ASSUME StatsTyped, NEW fields \in SUBSET {"inserted", "updated", "deleted",
                                            "delete_missing", "overflow"},
         NEW depth \in Nat, st' = Counted(st, fields, depth)
  PROVE  /\ StatsTyped'
         /\ st'.applied = st.applied + 1
         /\ st'.overflow = IF "overflow" \in fields THEN st.overflow + 1 ELSE st.overflow
         /\ \A c \in DOMAIN ZeroStats :
              st'[c] <= st[c] + 1 \/ (c = "max_depth" /\ st'[c] = depth)
<1>1. DOMAIN st = DOMAIN ZeroStats /\ \A c \in DOMAIN ZeroStats : st[c] \in Nat
  BY DEF StatsTyped
<1>2. DOMAIN ZeroStats = {"applied", "inserted", "updated", "deleted",
                          "delete_missing", "overflow", "max_depth"}
  BY DEF ZeroStats
<1>3. \A c \in DOMAIN ZeroStats :
        st'[c] = IF c = "max_depth" THEN IF depth > st[c] THEN depth ELSE st[c]
                 ELSE IF c \in fields \cup {"applied"} THEN st[c] + 1 ELSE st[c]
  BY <1>1 DEF Counted
<1>4. StatsTyped'
  BY <1>1, <1>3 DEF StatsTyped, Counted
<1>5. st'.applied = st.applied + 1
  BY <1>2, <1>3
<1>6. st'.overflow = IF "overflow" \in fields THEN st.overflow + 1 ELSE st.overflow
  BY <1>2, <1>3
<1>7. ASSUME NEW c \in DOMAIN ZeroStats
      PROVE  st'[c] <= st[c] + 1 \/ (c = "max_depth" /\ st'[c] = depth)
  BY <1>1, <1>3
<1> QED
  BY <1>4, <1>5, <1>6, <1>7

(* One update keeps the book a part of the reference.                      *)
LEMMA ApplyKeepsAgreement ==
  ASSUME Shape, SortedFromBest, References, Agrees, Accounted, StatsTyped,
         NEW b \in Books, NEW p \in Prices, NEW s \in Sizes \cup {0},
         Apply(b, p, s)
  PROVE  References' /\ Agrees' /\ Accounted' /\ StatsTyped'
<1> DEFINE R == reference[b]
           R2 == reference'[b]
           M == Maps[b]
           M2 == Maps'[b]
           Grown(lost) == \A q \in DOMAIN R2 \ DOMAIN M2 :
                             \/ q \in DOMAIN R \ DOMAIN M
                             \/ q = lost /\ st'.overflow = st.overflow + 1
           Matches == \A q \in DOMAIN M2 : q \in DOMAIN R2 /\ M2[q] = R2[q]
           Others == \A c \in Books \ {b} : Maps'[c] = Maps[c]
<1>1. Shape' /\ Abstract!Apply(b, p, s) /\ MaxLevels \in Nat
  BY ApplyRefines, BookAssumption
<1>2. /\ References'
      /\ R2 = IF s = 0 THEN Without(R, p) ELSE With(R, p, s)
      /\ \A c \in Books \ {b} : reference'[c] = reference[c]
  BY ReferenceStep DEF Apply, References
<1>3. st.overflow \in Nat
  BY DEF StatsTyped, ZeroStats
<1>4. \A q \in DOMAIN M : q \in DOMAIN R /\ M[q] = R[q]
  BY DEF Agrees
<1>5. /\ Abstract!Depth(M) \in Nat
      /\ p \in DOMAIN M => Abstract!Depth(M) - 1 \in Nat
  <2>1. /\ IsFiniteSet(DOMAIN M) /\ Abstract!Depth(M) = Cardinality(DOMAIN M)
    BY ShapeFacts, MapOfDepth, SameOperators DEF Maps, Abstract!Depth
  <2>2. Cardinality(DOMAIN M) \in Nat /\ (DOMAIN M # {} => Cardinality(DOMAIN M) # 0)
    BY <2>1, FS_EmptySet, FS_CardinalityType
  <2> QED
    BY <2>1, <2>2
<1>6. [c \in Books |-> AsMap(c)] = Maps /\ [c \in Books |-> AsMap(c)]' = Maps'
  BY DEF Maps
<1>7. /\ DOMAIN Without(R, p) = DOMAIN R \ {p}
      /\ \A q \in DOMAIN R \ {p} : Without(R, p)[q] = R[q]
      /\ DOMAIN With(R, p, s) = DOMAIN R \cup {p} /\ With(R, p, s)[p] = s
      /\ \A q \in DOMAIN R \ {p} : With(R, p, s)[q] = R[q]
  BY DEF Without, With, Abstract!Without, Abstract!With
<1> DEFINE Goal == \E lost : Grown(lost) /\ Matches /\ Others /\ StatsTyped'
                              /\ st'.overflow >= st.overflow
<1>8. ASSUME s = 0, Abstract!DeleteMissing(b, p)
      PROVE  Goal
  <2>1. Maps' = Maps /\ p \notin DOMAIN M /\ st' = Counted(st, {"delete_missing"}, 0)
    BY <1>6, <1>8, SameOperators DEF Abstract!DeleteMissing, Abstract!Count
  <2>2. StatsTyped' /\ st'.overflow = st.overflow
    BY <2>1, CountedFacts
  <2>3. Matches /\ Grown(p) /\ Others
    BY <1>2, <1>4, <1>7, <1>8, <2>1
  <2> HIDE DEF Grown, Matches, Others
  <2> QED
    BY <1>3, <2>2, <2>3
<1>9. ASSUME s = 0, Abstract!Delete(b, p)
      PROVE  Goal
  <2>1. /\ p \in DOMAIN M /\ Maps' = [Maps EXCEPT ![b] = Without(M, p)]
        /\ st' = Counted(st, {"deleted"}, Abstract!Depth(M) - 1)
    BY <1>6, <1>9, SameOperators DEF Abstract!Delete, Abstract!Count, Without
  <2>2. StatsTyped' /\ st'.overflow = st.overflow
    BY <1>5, <2>1, CountedFacts
  <2>3. M2 = Without(M, p) /\ Others
    BY <2>1 DEF Maps
  <2>4. Matches /\ Grown(p)
    BY <1>2, <1>4, <1>7, <1>9, <2>3 DEF Without, Abstract!Without
  <2> HIDE DEF Grown, Matches, Others
  <2> QED
    BY <1>3, <2>2, <2>3, <2>4
<1>10. ASSUME s # 0, Abstract!Update(b, p, s)
      PROVE  Goal
  <2>1. /\ p \in DOMAIN M /\ Maps' = [Maps EXCEPT ![b] = [M EXCEPT ![p] = s]]
        /\ st' = Counted(st, {"updated"}, Abstract!Depth(M))
    BY <1>6, <1>10, SameOperators DEF Abstract!Update, Abstract!Count
  <2>2. StatsTyped' /\ st'.overflow = st.overflow
    <3> DEFINE d == Abstract!Depth(M)
    <3>1. d \in Nat /\ st' = Counted(st, {"updated"}, d)
      BY <1>5, <2>1
    <3> HIDE DEF d
    <3> QED
      BY <3>1, CountedFacts
  <2>3. M2 = [M EXCEPT ![p] = s] /\ Others
    BY <2>1 DEF Maps
  <2>4. /\ DOMAIN M2 = DOMAIN M
        /\ \A q \in DOMAIN M : M2[q] = IF q = p THEN s ELSE M[q]
    <3> HIDE DEF M, M2
    <3> QED
      BY <2>3
  <2>5. Matches /\ Grown(p)
    BY <1>2, <1>4, <1>7, <1>10, <2>1, <2>4
  <2> HIDE DEF Grown, Matches, Others
  <2> QED
    BY <1>3, <2>2, <2>3, <2>5
<1>11. ASSUME s # 0, Abstract!Insert(b, p, s)
      PROVE  Goal
  <2>1. /\ p \notin DOMAIN M /\ Maps' = [Maps EXCEPT ![b] = With(M, p, s)]
        /\ st' = Counted(st, {"inserted"}, Abstract!Depth(M) + 1)
    BY <1>6, <1>11, SameOperators DEF Abstract!Insert, Abstract!Count, With
  <2>2. StatsTyped' /\ st'.overflow = st.overflow
    <3> DEFINE d == Abstract!Depth(M) + 1
    <3>1. d \in Nat /\ st' = Counted(st, {"inserted"}, d)
      BY <1>5, <2>1
    <3>2. /\ {"inserted"} \in SUBSET {"inserted", "updated", "deleted",
                                      "delete_missing", "overflow"}
          /\ "overflow" \notin {"inserted"}
      OBVIOUS
    <3> DEFINE fields == {"inserted"}
    <3> HIDE DEF d, fields
    <3>3. StatsTyped' /\ st'.overflow = IF "overflow" \in fields THEN st.overflow + 1 ELSE st.overflow
      BY <3>1, <3>2, CountedFacts DEF fields
    <3> QED
      BY <3>2, <3>3 DEF fields
  <2>3. M2 = With(M, p, s) /\ Others
    BY <2>1 DEF Maps
  <2>4. Matches /\ Grown(p)
    BY <1>2, <1>4, <1>7, <1>11, <2>1, <2>3 DEF With, Abstract!With
  <2> HIDE DEF Grown, Matches, Others
  <2> QED
    BY <1>3, <2>2, <2>3, <2>4
<1>12. ASSUME s # 0, Abstract!Displace(b, p, s)
      PROVE  Goal
  <2>1. PICK q \in DOMAIN M : Maps' = [Maps EXCEPT ![b] = With(Without(M, q), p, s)]
    BY <1>6, <1>12 DEF Abstract!Displace, With, Without
  <2>2. st' = Counted(st, {"inserted", "overflow"}, MaxLevels)
    BY <1>12, SameOperators DEF Abstract!Displace, Abstract!Count
  <2>3. StatsTyped' /\ st'.overflow = st.overflow + 1
    BY <1>1, <2>2, CountedFacts
  <2>4. M2 = With(Without(M, q), p, s) /\ Others
    BY <2>1 DEF Maps
  <2>5. Matches /\ Grown(q)
    BY <1>2, <1>4, <1>7, <1>12, <2>3, <2>4
    DEF With, Abstract!With, Without, Abstract!Without
  <2> HIDE DEF Grown, Matches, Others
  <2> QED
    BY <1>3, <2>3, <2>4, <2>5
<1>13. ASSUME s # 0, Abstract!Refuse(b, p)
      PROVE  Goal
  <2>1. Maps' = Maps /\ p \notin DOMAIN M /\ st' = Counted(st, {"overflow"}, 0)
    BY <1>6, <1>13, SameOperators DEF Abstract!Refuse, Abstract!Count
  <2>2. StatsTyped' /\ st'.overflow = st.overflow + 1
    BY <2>1, CountedFacts
  <2>3. Matches /\ Grown(p) /\ Others
    BY <1>2, <1>4, <1>7, <1>13, <2>1, <2>2
  <2> HIDE DEF Grown, Matches, Others
  <2> QED
    BY <1>3, <2>2, <2>3
<1>14. Goal
  <2> HIDE DEF Goal
  <2> QED
    BY <1>1, <1>8, <1>9, <1>10, <1>11, <1>12, <1>13 DEF Abstract!Apply
<1>15. PICK lost : Grown(lost) /\ Matches /\ Others /\ StatsTyped'
                   /\ st'.overflow >= st.overflow
  BY <1>14
<1> QED
  BY <1>1, <1>2, <1>15, AgreementKept

-----------------------------------------------------------------------------
(* Over all replays together there were `updates` updates, so no counter   *)
(* and no depth is above that.                                             *)
Bounded ==
    /\ updates \in 0 .. MaxApplied
    /\ st \in [DOMAIN ZeroStats -> 0 .. updates]
    /\ \A b \in Books : n[b] <= updates

BookInv ==
    /\ Shape /\ SortedFromBest
    /\ References /\ Agrees /\ Accounted
    /\ Bounded

(* Counters that the updates bound are numbers.                            *)
LEMMA BoundedIsTyped ==
  ASSUME Bounded
  PROVE  StatsTyped /\ updates \in Nat /\ MaxApplied \in Nat
BY BookAssumption DEF Bounded, StatsTyped

(* Counting one update in some of the counters keeps them within the       *)
(* updates applied.                                                        *)
LEMMA CountedBounded ==
  ASSUME Bounded, NEW fields \in SUBSET {"inserted", "updated", "deleted",
                                         "delete_missing", "overflow"},
         NEW depth \in Nat, depth <= updates + 1,
         st' = Counted(st, fields, depth),
         updates < MaxApplied, updates' = updates + 1,
         \A b \in Books : n'[b] <= updates + 1
  PROVE  Bounded'
<1>1. StatsTyped /\ updates \in Nat /\ MaxApplied \in Nat
  BY BoundedIsTyped
<1>2. /\ StatsTyped'
      /\ \A c \in DOMAIN ZeroStats :
           st'[c] <= st[c] + 1 \/ (c = "max_depth" /\ st'[c] = depth)
  BY <1>1, CountedFacts
<1>3. \A c \in DOMAIN ZeroStats : st[c] \in 0 .. updates /\ st'[c] \in Nat
  BY <1>2 DEF Bounded, StatsTyped
<1>4. \A c \in DOMAIN ZeroStats : st'[c] \in 0 .. updates + 1
  BY <1>1, <1>2, <1>3
<1>5. st' \in [DOMAIN ZeroStats -> 0 .. updates + 1]
  BY <1>2, <1>4 DEF StatsTyped
<1>6. updates + 1 \in 0 .. MaxApplied
  BY <1>1
<1> QED
  BY <1>5, <1>6 DEF Bounded

(* Every branch of book_apply keeps counters and depth within the updates  *)
(* applied.                                                                *)
LEMMA ApplyKeepsBounded ==
  ASSUME Shape, SortedFromBest, Bounded, NEW b \in Books, NEW p \in Prices,
         NEW s \in Sizes \cup {0}, Apply(b, p, s)
  PROVE  Bounded'
<1> DEFINE i == Find(b, p)
           Below == /\ updates \in Nat
                    /\ n[b] \in 0 .. updates
                    /\ \A c \in Books : n[c] \in 0 .. updates
<1>1. Below
  BY ShapeFacts, BoundedIsTyped, BookAssumption DEF Bounded
<1>2. i \in 0 .. n[b] /\ MaxLevels \in Nat
  BY ScanFacts, BookAssumption
<1>3. updates < MaxApplied /\ updates' = updates + 1
  BY DEF Apply
<1>4. ASSUME \E fields \in SUBSET {"inserted", "updated", "deleted",
                                   "delete_missing", "overflow"} :
             \E depth \in 0 .. updates + 1 : Count(fields, depth),
             \A c \in Books : n'[c] <= updates + 1
      PROVE  Bounded'
  <2>1. PICK fields \in SUBSET {"inserted", "updated", "deleted",
                                "delete_missing", "overflow"},
             depth \in 0 .. updates + 1 : st' = Counted(st, fields, depth)
    BY <1>4 DEF Count
  <2>2. depth \in Nat /\ depth <= updates + 1
    BY <1>1, <2>1
  <2> QED
    BY <1>3, <1>4, <2>1, <2>2, CountedBounded
<1> DEFINE Goal == Bounded'
<1>5. ASSUME DeleteMissing(b, p, i)
      PROVE  Goal
  <2>1. Count({"delete_missing"}, 0) /\ n' = n /\ 0 \in 0 .. updates + 1
    BY <1>1, <1>5 DEF DeleteMissing
  <2>2. \A c \in Books : n'[c] <= updates + 1
    BY <1>1, <2>1
  <2> QED
    BY <1>4, <2>1, <2>2
<1>6. ASSUME Delete(b, p, i)
      PROVE  Goal
  <2>1. /\ Count({"deleted"}, n[b] - 1) /\ n' = [n EXCEPT ![b] = n[b] - 1]
        /\ n[b] - 1 \in 0 .. updates + 1
    BY <1>1, <1>2, <1>6 DEF Delete, Found
  <2>2. \A c \in Books : n'[c] <= updates + 1
    BY <1>1, <2>1 DEF Shape
  <2> QED
    BY <1>4, <2>1, <2>2
<1>7. ASSUME Update(b, p, s, i)
      PROVE  Goal
  <2>1. Count({"updated"}, n[b]) /\ n' = n /\ n[b] \in 0 .. updates + 1
    BY <1>1, <1>7 DEF Update
  <2>2. \A c \in Books : n'[c] <= updates + 1
    BY <1>1, <2>1
  <2> QED
    BY <1>4, <2>1, <2>2
<1>8. ASSUME Insert(b, p, s, i)
      PROVE  Goal
  <2>1. /\ Count({"inserted"}, n[b] + 1) /\ n' = [n EXCEPT ![b] = n[b] + 1]
        /\ n[b] + 1 \in 0 .. updates + 1
    BY <1>1, <1>8 DEF Insert
  <2>2. \A c \in Books : n'[c] <= updates + 1
    BY <1>1, <2>1 DEF Shape
  <2> QED
    BY <1>4, <2>1, <2>2
<1>9. ASSUME Displace(b, p, s, i)
      PROVE  Goal
  <2>1. /\ Count({"overflow", "inserted"}, MaxLevels) /\ n' = n
        /\ MaxLevels \in 0 .. updates + 1
    BY <1>1, <1>9 DEF Displace, Full, Dropped
  <2>2. \A c \in Books : n'[c] <= updates + 1
    BY <1>1, <2>1
  <2> QED
    BY <1>4, <2>1, <2>2
<1>10. ASSUME Refuse(b, p, i)
       PROVE  Goal
  <2>1. Count({"overflow"}, 0) /\ n' = n /\ 0 \in 0 .. updates + 1
    BY <1>1, <1>10 DEF Refuse
  <2>2. \A c \in Books : n'[c] <= updates + 1
    BY <1>1, <2>1
  <2> QED
    BY <1>4, <2>1, <2>2
<1> QED
  BY <1>5, <1>6, <1>7, <1>8, <1>9, <1>10 DEF Apply

(* An empty book satisfies the invariant and is the empty map.             *)
LEMMA InitEstablishes == Init => BookInv /\ Abstract!Init
<1> SUFFICES ASSUME Init
             PROVE  BookInv /\ Abstract!Init
  OBVIOUS
<1>1. /\ n = [b \in Books |-> 0] /\ st = ZeroStats /\ updates = 0
      /\ level = [b \in Books |-> [j \in Pos |-> [price |-> 0, size |-> 0]]]
      /\ reference = [b \in Books |-> EmptyBook]
  BY DEF Init, SetInit
<1>2. Shape /\ SortedFromBest
  BY <1>1, BookAssumption DEF Shape, SortedFromBest
<1>3. References
  BY <1>1 DEF References, EmptyBook
<1>4. ASSUME NEW b \in Books
      PROVE  LivePrices(b) = {} /\ AsMap(b) = [p \in {} |-> 0]
  <2>1. LivePrices(b) = {}
    BY <1>1 DEF LivePrices
  <2> QED
    BY <2>1 DEF AsMap
<1>5. Agrees
  BY <1>4 DEF Agrees, Maps
<1>6. Accounted
  <2>1. Missing = {}
    BY <1>1 DEF Missing, EmptyBook
  <2> QED
    BY <1>1, <2>1, FS_EmptySet DEF Accounted, ZeroStats
<1>7. Bounded
  BY <1>1, BookAssumption DEF Bounded, ZeroStats
<1>8. [b \in Books |-> AsMap(b)] = [b \in Books |-> [p \in {} |-> 0]]
  BY <1>4
<1>9. Abstract!Init
  BY <1>1, <1>8 DEF Abstract!Init, Abstract!ZeroStats, ZeroStats,
     Abstract!Books, Books, Abstract!Sides, Sides
<1> QED
  BY <1>2, <1>3, <1>5, <1>6, <1>7, <1>9 DEF BookInv

(* A reset keeps the invariant.                                            *)
LEMMA ResetKeeps == BookInv /\ Reset => BookInv'
<1> SUFFICES ASSUME BookInv, Reset
             PROVE  BookInv'
  OBVIOUS
<1>1. /\ n' = [b \in Books |-> 0] /\ st' = ZeroStats /\ updates' = updates
      /\ reference' = [b \in Books |-> EmptyBook]
  BY DEF Reset, SetReset, Cleared
<1>2. Shape' /\ SortedFromBest'
  BY ResetRefines DEF BookInv
<1>3. References'
  BY <1>1 DEF References, EmptyBook
<1>4. Agrees'
  <2>1. ASSUME NEW b \in Books
        PROVE  LivePrices(b)' = {}
    BY <1>1 DEF LivePrices
  <2> QED
    BY <2>1 DEF Agrees, Maps, AsMap
<1>5. Accounted'
  <2>1. Missing' = {}
    BY <1>1 DEF Missing, EmptyBook
  <2> QED
    BY <1>1, <2>1, FS_EmptySet DEF Accounted, ZeroStats
<1>6. Bounded'
  BY <1>1 DEF BookInv, Bounded, ZeroStats
<1> QED
  BY <1>2, <1>3, <1>4, <1>5, <1>6 DEF BookInv

(* An update keeps the invariant and is the update of the map.             *)
LEMMA ApplyKeeps ==
  ASSUME BookInv, NEW b \in Books, NEW p \in Prices, NEW s \in Sizes \cup {0},
         Apply(b, p, s)
  PROVE  BookInv' /\ Abstract!Apply(b, p, s)
<1>1. /\ Shape /\ SortedFromBest /\ References /\ Agrees /\ Accounted /\ Bounded
      /\ StatsTyped
  BY BoundedIsTyped DEF BookInv
<1>2. Shape' /\ SortedFromBest' /\ Abstract!Apply(b, p, s)
  BY <1>1, ApplyRefines
<1>3. References' /\ Agrees' /\ Accounted'
  BY <1>1, ApplyKeepsAgreement
<1>4. Bounded'
  BY <1>1, ApplyKeepsBounded
<1> QED
  BY <1>2, <1>3, <1>4 DEF BookInv

(* A step that changes nothing keeps the invariant.                        *)
LEMMA StutterKeeps == BookInv /\ UNCHANGED vars => BookInv'
<1> SUFFICES ASSUME BookInv, UNCHANGED vars
             PROVE  BookInv'
  OBVIOUS
<1>1. UNCHANGED <<n, level, st, reference, updates>>
  BY DEF vars, bookVars
<1>2. Maps' = Maps /\ Missing' = Missing
  BY <1>1 DEF Maps, AsMap, Missing, LivePrices
<1> QED
  BY <1>1, <1>2 DEF BookInv, Shape, SortedFromBest, References, Agrees,
     Accounted, Bounded

(* The invariant of the book.                                              *)
THEOREM BookInvariant == Spec => []BookInv
<1>1. Init => BookInv
  BY InitEstablishes
<1>2. BookInv /\ [Next]_vars => BookInv'
  BY ApplyKeeps, ResetKeeps, StutterKeeps DEF Next
<1> QED
  BY <1>1, <1>2, PTL DEF Spec

(* Counters, depths and positions stay in range, the reference included.   *)
THEOREM BookTyped == Spec => []TypeOK
<1>1. BookInv => TypeOK
  <2> SUFFICES ASSUME BookInv
               PROVE  TypeOK
    OBVIOUS
  <2>1. st \in [DOMAIN ZeroStats -> 0 .. MaxApplied]
    <3>1. 0 .. updates \subseteq 0 .. MaxApplied
      BY BookAssumption DEF BookInv, Bounded
    <3> QED
      BY <3>1 DEF BookInv, Bounded
  <2> QED
    BY <2>1 DEF BookInv, Shape, References, TypeOK
<1> QED
  BY <1>1, BookInvariant, PTL

(* The live levels of every book stay strictly ordered from the best,      *)
(* whatever an earlier replay left behind them.                            *)
THEOREM BookSorted == Spec => []SortedFromBest
<1>1. BookInv => SortedFromBest
  BY DEF BookInv
<1> QED
  BY <1>1, BookInvariant, PTL

(* The array is a part of the reference book, and there are at most as     *)
(* many levels missing from it as updates counted an overflow: without one *)
(* book and reference are equal.                                           *)
THEOREM BookAgrees == Spec => []MissingOnlyByOverflow
<1>1. BookInv => MissingOnlyByOverflow
  BY AgreementByPosition DEF BookInv
<1> QED
  BY <1>1, BookInvariant, PTL

(* The sorted array implements the bounded price map: a full book gives up *)
(* its worst price only, and the counters tell what was done.              *)
THEOREM BookRefines == Spec => PriceBookSpec
<1>1. Init => Abstract!Init
  BY InitEstablishes
<1>2. BookInv /\ [Next]_vars => [Abstract!Next]_Abstract!vars
  <2> SUFFICES ASSUME BookInv, [Next]_vars
               PROVE  [Abstract!Next]_Abstract!vars
    OBVIOUS
  <2>1. ASSUME NEW b \in Books, NEW p \in Prices, NEW s \in Sizes \cup {0},
               Apply(b, p, s)
        PROVE  Abstract!Next
    <3>1. Abstract!Apply(b, p, s)
      BY <2>1, ApplyKeeps
    <3> QED
      BY <3>1 DEF Abstract!Next, Abstract!Books, Books, Abstract!Sides, Sides
  <2>2. ASSUME Reset
        PROVE  Abstract!Next
    BY <2>2, ResetRefines DEF BookInv, Abstract!Next
  <2>3. ASSUME UNCHANGED vars
        PROVE  UNCHANGED Abstract!vars
    <3>1. [b \in Books |-> AsMap(b)]' = [b \in Books |-> AsMap(b)]
      BY <2>3 DEF vars, bookVars, AsMap, LivePrices
    <3> QED
      BY <2>3, <3>1 DEF vars, bookVars, Abstract!vars
  <2> QED
    BY <2>1, <2>2, <2>3 DEF Next
<1> QED
  BY <1>1, <1>2, BookInvariant, PTL DEF Spec, PriceBookSpec, Abstract!Spec

-----------------------------------------------------------------------------
(* The level an update displaces is never the best.                        *)
LEMMA DisplaceKeepsBest ==
  ASSUME Shape, SortedFromBest, NEW b \in Books, NEW p \in Prices, NEW s \in Sizes,
         Displace(b, p, s, Find(b, p)), NEW c \in Books
  PROVE  Bbo(c)' = Bbo(c) \/ (Bbo(c)'.has /\ Better(c, Bbo(c)'.px, Bbo(c).px))
<1> DEFINE i == Find(b, p)
           k == MaxLevels - 1
           lv == level[b]
           lv2 == Inserted(lv, k, i, p, s)
<1>0. n[b] = MaxLevels /\ i # n[b] /\ MaxLevels \in Nat \ {0} /\ n' = n
  BY BookAssumption DEF Displace, Full
<1>1. /\ p \in Int /\ StopsAt(b, lv, MaxLevels, p, i)
      /\ ~(i < MaxLevels /\ lv[i].price = p)
      /\ lv \in Array /\ Ordered(b, lv, MaxLevels)
  BY <1>0, ScanFacts, ShapeFacts DEF Displace, Found
<1>2. i \in 0 .. k /\ 0 \in Pos
  BY <1>0, <1>1 DEF StopsAt, Pos
<1>3. level' = [level EXCEPT ![b] = lv2]
  <2>1. n[b] - 1 - i = k - i
    BY <1>0
  <2> QED
    BY <2>1 DEF Displace, Put, Inserted
<1>4. c # b => level'[c] = level[c]
  BY <1>3 DEF Shape
<1>5. level'[b] = lv2
  BY <1>3 DEF Shape
<1> HIDE DEF i, lv
<1>6. i # 0 => lv2[0] = lv[0]
  BY <1>0, <1>2 DEF Inserted, Move
<1>7. i = 0 => lv2[0].price = p
  BY <1>0, <1>2 DEF Inserted, Move
<1>8. i = 0 => Better(b, p, lv[0].price)
  <2>1. \A j \in i .. MaxLevels - 1 : Key(b, p) < Key(b, lv[j].price)
    BY <1>0, <1>1, FoundAt
  <2>2. lv[0].price \in Int
    BY <1>1, <1>2 DEF Array, Entry
  <2> QED
    BY <1>0, <1>1, <2>1, <2>2, KeyFacts
<1> HIDE DEF lv2
<1>9. CASE c # b
  BY <1>0, <1>4, <1>9 DEF Bbo
<1>10. CASE c = b /\ i # 0
  BY <1>0, <1>5, <1>6, <1>10 DEF Bbo, lv
<1>11. CASE c = b /\ i = 0
  <2>1. /\ Bbo(c)'.has /\ Bbo(c)'.px = p /\ Bbo(c).px = lv[0].price
    BY <1>0, <1>5, <1>7, <1>11 DEF Bbo, lv
  <2> QED
    BY <1>8, <1>11, <2>1
<1> QED
  BY <1>9, <1>10, <1>11

(* A step that drops a level leaves every BBO as it was, or better.        *)
THEOREM BookDropKeepsBest == Spec => DropKeepsBest
<1> DEFINE Kept == st'.overflow > st.overflow =>
                     \A b \in Books :
                       Bbo(b)' = Bbo(b) \/ (Bbo(b)'.has /\ Better(b, Bbo(b)'.px, Bbo(b).px))
<1>1. BookInv /\ [Next]_vars => [Kept]_vars
  <2> SUFFICES ASSUME BookInv, Next
               PROVE  Kept
    OBVIOUS
  <2>0. StatsTyped /\ st.overflow \in Nat
    BY BoundedIsTyped DEF BookInv, StatsTyped, ZeroStats
  <2>1. ASSUME NEW b \in Books, NEW p \in Prices, NEW s \in Sizes \cup {0},
               Apply(b, p, s)
        PROVE  Kept
    <3> DEFINE i == Find(b, p)
    <3>1. ASSUME n' = n, level' = level
          PROVE  Kept
      BY <3>1 DEF Bbo
    <3>2. ASSUME NEW fields \in SUBSET {"inserted", "updated", "deleted"},
                 NEW depth \in Nat, Count(fields, depth)
          PROVE  Kept
      <4>1. st'.overflow = st.overflow
        BY <2>0, <3>2, CountedFacts DEF Count
      <4> QED
        BY <2>0, <4>1
    <3>3. n[b] \in Nat /\ i \in 0 .. n[b]
      BY ScanFacts, ShapeFacts, BookAssumption DEF BookInv
    <3>4. CASE DeleteMissing(b, p, i)
      BY <3>1, <3>4 DEF DeleteMissing
    <3>5. CASE Delete(b, p, i)
      <4>1. n[b] - 1 \in Nat /\ Count({"deleted"}, n[b] - 1)
        BY <3>3, <3>5 DEF Delete, Found
      <4> HIDE DEF Kept
      <4> QED
        BY <3>2, <4>1
    <3>6. CASE Update(b, p, s, i)
      <4>1. Count({"updated"}, n[b])
        BY <3>6 DEF Update
      <4> HIDE DEF Kept
      <4> QED
        BY <3>2, <3>3, <4>1
    <3>7. CASE Insert(b, p, s, i)
      <4>1. n[b] + 1 \in Nat /\ Count({"inserted"}, n[b] + 1)
        BY <3>3, <3>7 DEF Insert
      <4> HIDE DEF Kept
      <4> QED
        BY <3>2, <4>1
    <3>8. CASE s # 0 /\ Displace(b, p, s, i)
      BY <3>8, DisplaceKeepsBest DEF BookInv
    <3>9. CASE Refuse(b, p, i)
      BY <3>1, <3>9 DEF Refuse
    <3> HIDE DEF Kept
    <3> QED
      BY <2>1, <3>4, <3>5, <3>6, <3>7, <3>8, <3>9 DEF Apply
  <2>2. CASE Reset
    <3>1. st'.overflow = 0
      BY <2>2 DEF Reset, SetReset, ZeroStats
    <3> QED
      BY <2>0, <3>1
  <2> QED
    BY <2>1, <2>2 DEF Next
<1> QED
  BY <1>1, BookInvariant, PTL DEF Spec, DropKeepsBest

-----------------------------------------------------------------------------
(* The reversed book: rv shows the first k entries of lv back to front.    *)
MirrorOf(lv, rv, k) == \A i \in 0 .. k - 1 : lv[i] = rv[k - 1 - i]

Stored == [Pos -> [price : Prices \cup {0}, size : Sizes \cup {0}]]

RevInv ==
    /\ revLevel \in [Books -> Stored]
    /\ revN = n /\ revSt = st
    /\ \A b \in Books : MirrorOf(level[b], revLevel[b], n[b])

(* What BookRev takes from the same modules is the same.                   *)
LEMMA SameRevOperators ==
  /\ \A c, fields, depth : Rev!Counted(c, fields, depth) = Counted(c, fields, depth)
  /\ \A b, p : Rev!Key(b, p) = Key(b, p)
  /\ \A lv, dst, src, k : Rev!Move(lv, dst, src, k) = Move(lv, dst, src, k)
  /\ Rev!Books = Books /\ Rev!ZeroStats = ZeroStats /\ Rev!Pos = Pos
BY DEF Rev!Counted, Counted, Rev!Key, Key, Rev!Move, Move, Rev!Pos, Pos,
   Rev!Books, Books, Rev!Sides, Sides, Rev!ZeroStats, ZeroStats

(* Deleting level i of one is deleting level k - i - 1 of the other.       *)
LEMMA MirrorDelete ==
  ASSUME NEW lv, NEW rv, NEW k \in 1 .. MaxLevels, MirrorOf(lv, rv, k),
         NEW i \in 0 .. k - 1
  PROVE  MirrorOf(Move(lv, i, i + 1, k - i - 1),
                  Move(rv, k - i - 1, k - i, k - (k - i)), k - 1)
<1> DEFINE lv2 == Move(lv, i, i + 1, k - i - 1)
           rv2 == Move(rv, k - i - 1, k - i, k - (k - i))
<1>1. ASSUME NEW t \in 0 .. (k - 1) - 1
      PROVE  lv2[t] = rv2[(k - 1) - 1 - t]
  <2>1. t \in Pos /\ (k - 1) - 1 - t \in Pos /\ MaxLevels \in Nat
    BY BookAssumption DEF Pos
  <2>2. lv2[t] = IF t >= i THEN lv[t + 1] ELSE lv[t]
    BY <2>1 DEF Move
  <2>3. rv2[(k - 1) - 1 - t] = IF t >= i THEN rv[k - 2 - t] ELSE rv[k - 1 - t]
    BY <2>1 DEF Move
  <2>4. lv[t] = rv[k - 1 - t] /\ lv[t + 1] = rv[k - 1 - (t + 1)]
    BY <2>1 DEF MirrorOf
  <2> QED
    BY <2>1, <2>2, <2>3, <2>4
<1> QED
  BY <1>1 DEF MirrorOf

(* Inserting at i of one is inserting at k - i of the other.               *)
LEMMA MirrorInsert ==
  ASSUME NEW lv, NEW rv, NEW k \in 0 .. MaxLevels - 1, MirrorOf(lv, rv, k),
         NEW i \in 0 .. k, NEW p, NEW s
  PROVE  MirrorOf(Inserted(lv, k, i, p, s),
                  [Move(rv, k - i + 1, k - i, k - (k - i))
                     EXCEPT ![k - i] = [price |-> p, size |-> s]], k + 1)
<1> DEFINE e == [price |-> p, size |-> s]
           lv2 == Inserted(lv, k, i, p, s)
           rv2 == [Move(rv, k - i + 1, k - i, k - (k - i)) EXCEPT ![k - i] = e]
<1> HIDE DEF e
<1>1. ASSUME NEW t \in 0 .. (k + 1) - 1
      PROVE  lv2[t] = rv2[(k + 1) - 1 - t]
  <2>1. t \in Pos /\ (k + 1) - 1 - t \in Pos /\ MaxLevels \in Nat
    BY BookAssumption DEF Pos
  <2>2. lv2[t] = IF t = i THEN e ELSE IF t > i THEN lv[t - 1] ELSE lv[t]
    BY <2>1 DEF Inserted, Move, e
  <2>3. rv2[(k + 1) - 1 - t] =
          IF t = i THEN e ELSE IF t > i THEN rv[k - t] ELSE rv[k - 1 - t]
    BY <2>1 DEF Move
  <2>4. /\ t < k => lv[t] = rv[k - 1 - t]
        /\ t > 0 => lv[t - 1] = rv[k - 1 - (t - 1)]
    BY <2>1 DEF MirrorOf
  <2> QED
    BY <2>1, <2>2, <2>3, <2>4
<1> HIDE DEF lv2, rv2
<1>2. MirrorOf(lv2, rv2, k + 1)
  BY <1>1 DEF MirrorOf
<1> QED
  BY <1>2 DEF lv2, rv2, e

(* In a full pair of arrays the one drops its last entry, the other its    *)
(* first, and what closes up in one is what moves back in the other.       *)
LEMMA MirrorDisplace ==
  ASSUME NEW lv, NEW rv, MirrorOf(lv, rv, MaxLevels),
         NEW i \in 0 .. MaxLevels - 1, NEW p, NEW s
  PROVE  MirrorOf(Inserted(lv, MaxLevels - 1, i, p, s),
                  [Move(rv, 0, 1, MaxLevels - i - 1)
                     EXCEPT ![MaxLevels - i - 1] = [price |-> p, size |-> s]], MaxLevels)
<1> DEFINE e == [price |-> p, size |-> s]
           k == MaxLevels
           lv2 == Inserted(lv, k - 1, i, p, s)
           rv2 == [Move(rv, 0, 1, k - i - 1) EXCEPT ![k - i - 1] = e]
<1> HIDE DEF e
<1>1. ASSUME NEW t \in 0 .. k - 1
      PROVE  lv2[t] = rv2[k - 1 - t]
  <2>1. t \in Pos /\ k - 1 - t \in Pos /\ MaxLevels \in Nat
    BY BookAssumption DEF Pos
  <2>2. lv2[t] = IF t = i THEN e ELSE IF t > i THEN lv[t - 1] ELSE lv[t]
    BY <2>1 DEF Inserted, Move, e
  <2>3. rv2[k - 1 - t] = IF t = i THEN e ELSE IF t > i THEN rv[k - t] ELSE rv[k - 1 - t]
    BY <2>1 DEF Move
  <2>4. /\ lv[t] = rv[k - 1 - t]
        /\ t > 0 => lv[t - 1] = rv[k - 1 - (t - 1)]
    BY <2>1 DEF MirrorOf
  <2> QED
    BY <2>1, <2>2, <2>3, <2>4
<1> HIDE DEF lv2, rv2
<1>2. MirrorOf(lv2, rv2, k)
  BY <1>1 DEF MirrorOf
<1> QED
  BY <1>2 DEF lv2, rv2, e

(* The backward scan stops as many levels from the end as the forward scan *)
(* from the beginning, and both find the price or neither does.            *)
LEMMA MirrorScan ==
  ASSUME Shape, SortedFromBest, RevInv, NEW b \in Books, NEW p \in Prices
  PROVE  /\ Find(b, p) \in 0 .. n[b]
         /\ Rev!Find(b, p) = n[b] - Find(b, p)
         /\ Rev!Found(b, p, Rev!Find(b, p)) <=> Found(b, p, Find(b, p))
<1> DEFINE k == n[b]
           i == Find(b, p)
           lv == level[b]
           rv == revLevel[b]
           j == Rev!Find(b, p)
           stop == Rev!NotBetter(b, p)
<1>1. k \in 0 .. MaxLevels /\ MaxLevels \in Nat /\ k \in Nat
  BY ShapeFacts, BookAssumption
<1>2. i \in 0 .. k /\ StopsAt(b, lv, k, p, i) /\ lv \in Array
  BY ScanFacts, ShapeFacts
<1>3. MirrorOf(lv, rv, k) /\ revN[b] = k
  BY DEF RevInv
<1>4. \A t \in 0 .. k - 1 : Key(b, lv[t].price) \in Int /\ Key(b, p) \in Int
  <2>1. \A t \in 0 .. k - 1 : lv[t].price \in Int
    BY <1>1, <1>2 DEF Array, Entry, Pos
  <2>2. p \in Int
    BY BookAssumption
  <2> QED
    BY <2>1, <2>2, KeyFacts
<1>5. stop = {t \in 0 .. k - 1 : Key(b, rv[t].price) >= Key(b, p)}
  BY <1>3, SameRevOperators DEF Rev!NotBetter
<1> HIDE DEF k, i, lv, rv, stop
<1>6. ASSUME NEW t \in 0 .. k - 1
      PROVE  t \in stop <=> t <= k - 1 - i
  <2>1. k - 1 - t \in 0 .. k - 1 /\ lv[k - 1 - t] = rv[k - 1 - (k - 1 - t)]
    BY <1>1, <1>3 DEF MirrorOf
  <2>2. k - 1 - (k - 1 - t) = t
    BY <1>1
  <2>3. rv[t] = lv[k - 1 - t]
    BY <2>1, <2>2
  <2>4. k - 1 - t < i => Key(b, rv[t].price) < Key(b, p)
    BY <1>1, <1>2, <2>1, <2>3 DEF StopsAt
  <2>5. k - 1 - t >= i => Key(b, rv[t].price) >= Key(b, p)
    BY <1>1, <1>2, <2>1, <2>3 DEF StopsAt
  <2>6. Key(b, rv[t].price) \in Int
    BY <1>4, <2>1, <2>3
  <2> QED
    BY <1>1, <1>2, <1>4, <1>5, <2>1, <2>4, <2>5, <2>6
<1>7. j = k - i
  <2>1. j = IF stop = {} THEN 0 ELSE Rev!Max(stop) + 1
    BY DEF Rev!Find, stop
  <2>2. CASE i = k
    <3>1. stop = {}
      BY <1>1, <1>5, <1>6, <2>2
    <3> QED
      BY <1>1, <2>1, <2>2, <3>1
  <2>3. CASE i # k
    <3>1. k - 1 - i \in stop /\ \A t \in stop : t <= k - 1 - i
      BY <1>1, <1>2, <1>5, <1>6, <2>3
    <3>2. stop \subseteq Int
      BY <1>1, <1>5
    <3>3. Rev!Max(stop) = k - 1 - i
      <4>1. Rev!Max(stop) = CHOOSE x \in stop : \A y \in stop : x >= y
        BY DEF Rev!Max
      <4>2. \A x \in stop : (\A y \in stop : x >= y) => x = k - 1 - i
        BY <1>1, <1>2, <3>1, <3>2
      <4>3. \A y \in stop : k - 1 - i >= y
        BY <1>1, <1>2, <3>1, <3>2
      <4> QED
        BY <3>1, <4>1, <4>2, <4>3
    <3> QED
      BY <1>1, <1>2, <2>1, <3>1, <3>3
  <2> QED
    BY <2>2, <2>3
<1> HIDE DEF j
<1>8. Rev!Found(b, p, j) <=> Found(b, p, i)
  <2>1. i < k => lv[i] = rv[k - 1 - i]
    BY <1>1, <1>2, <1>3 DEF MirrorOf
  <2>2. j - 1 = k - 1 - i /\ (j > 0 <=> i < k)
    BY <1>1, <1>2, <1>7
  <2> QED
    BY <2>1, <2>2 DEF Rev!Found, Found, rv, lv, k
<1> QED
  BY <1>2, <1>7, <1>8 DEF i, j, k

(* When book b changes in both, and the new arrays mirror each other, the  *)
(* two sets of books still do.                                             *)
LEMMA MirrorOneBook ==
  ASSUME Shape, RevInv, NEW b \in Books, NEW k2,
         n' = [n EXCEPT ![b] = k2], revN' = [revN EXCEPT ![b] = k2],
         NEW lv2, level' = [level EXCEPT ![b] = lv2],
         NEW rv2 \in Stored, revLevel' = [revLevel EXCEPT ![b] = rv2],
         MirrorOf(lv2, rv2, k2), st' = revSt'
  PROVE  RevInv'
<1>1. revLevel' \in [Books -> Stored] /\ revN' = n' /\ revSt' = st'
  BY DEF RevInv
<1>2. ASSUME NEW c \in Books
      PROVE  MirrorOf(level'[c], revLevel'[c], n'[c])
  <2>1. CASE c = b
    BY <2>1 DEF Shape, RevInv
  <2>2. CASE c # b
    <3>1. n'[c] = n[c] /\ level'[c] = level[c] /\ revLevel'[c] = revLevel[c]
      BY <2>2 DEF Shape, RevInv
    <3> QED
      BY <3>1 DEF RevInv
  <2> QED
    BY <2>1, <2>2
<1> QED
  BY <1>1, <1>2 DEF RevInv, Stored, Pos, MirrorOf

(* An array written at one position keeps its shape.                       *)
LEMMA StoredAt ==
  ASSUME NEW rv \in Stored, NEW dst \in Nat, NEW src \in Nat, NEW k \in Int,
         \A j \in Pos : j \in dst .. dst + k - 1 => j - dst + src \in Pos,
         NEW j \in Int, NEW p \in Prices, NEW s \in Sizes
  PROVE  /\ Move(rv, dst, src, k) \in Stored
         /\ [Move(rv, dst, src, k) EXCEPT ![j] = [price |-> p, size |-> s]] \in Stored
<1>1. Move(rv, dst, src, k) \in Stored
  BY DEF Move, Stored
<1> DEFINE e == [price |-> p, size |-> s]
           mv == Move(rv, dst, src, k)
<1>2. e \in [price : Prices \cup {0}, size : Sizes \cup {0}]
  OBVIOUS
<1> HIDE DEF e, mv
<1>3. mv \in Stored => [mv EXCEPT ![j] = e] \in Stored
  BY <1>2 DEF Stored
<1> QED
  BY <1>1, <1>3 DEF mv, e

(* The same update in both layouts keeps the mirror.                       *)
LEMMA MirrorApply ==
  ASSUME Shape, SortedFromBest, RevInv, NEW b \in Books, NEW p \in Prices,
         NEW s \in Sizes \cup {0}, Apply(b, p, s), Rev!Apply(b, p, s)
  PROVE  RevInv'
<1> DEFINE i == Find(b, p)
           j == Rev!Find(b, p)
           k == n[b]
           lv == level[b]
           rv == revLevel[b]
<1>1. /\ i \in 0 .. k /\ j = k - i
      /\ Rev!Found(b, p, j) <=> Found(b, p, i)
  BY MirrorScan
<1>2. /\ k \in 0 .. MaxLevels /\ MaxLevels \in Nat \ {0} /\ k \in Nat
      /\ revN[b] = k /\ MirrorOf(lv, rv, k) /\ rv \in Stored /\ st = revSt
      /\ Rev!Pos = Pos
  BY ShapeFacts, BookAssumption, SameRevOperators DEF RevInv
<1>3. \/ s = 0 /\ (DeleteMissing(b, p, i) \/ Delete(b, p, i))
      \/ s # 0 /\ (\/ Update(b, p, s, i) \/ Insert(b, p, s, i)
                   \/ Displace(b, p, s, i) \/ Refuse(b, p, i))
  BY DEF Apply
<1>4. \/ s = 0 /\ (Rev!DeleteMissing(b, p, j) \/ Rev!Delete(b, p, j))
      \/ s # 0 /\ (\/ Rev!Update(b, p, s, j) \/ Rev!Insert(b, p, s, j)
                   \/ Rev!Displace(b, p, s, j) \/ Rev!Refuse(b, p, j))
  BY DEF Rev!Apply
<1> HIDE DEF i, j
<1>5. /\ Found(b, p, i) => i < k
      /\ j # 0 <=> i # k
  BY <1>1, <1>2 DEF Found
<1>6. /\ DeleteMissing(b, p, i) => ~Found(b, p, i)
      /\ Delete(b, p, i) => Found(b, p, i)
      /\ Update(b, p, s, i) => Found(b, p, i)
      /\ Insert(b, p, s, i) => ~Found(b, p, i) /\ k # MaxLevels
      /\ Displace(b, p, s, i) => ~Found(b, p, i) /\ k = MaxLevels /\ i # k
      /\ Refuse(b, p, i) => ~Found(b, p, i) /\ k = MaxLevels /\ i = k
  BY DEF DeleteMissing, Delete, Update, Insert, Displace, Refuse, Full
<1>7. /\ Rev!DeleteMissing(b, p, j) => ~Rev!Found(b, p, j)
      /\ Rev!Delete(b, p, j) => Rev!Found(b, p, j)
      /\ Rev!Update(b, p, s, j) => Rev!Found(b, p, j)
      /\ Rev!Insert(b, p, s, j) => ~Rev!Found(b, p, j) /\ k # MaxLevels
      /\ Rev!Displace(b, p, s, j) => ~Rev!Found(b, p, j) /\ k = MaxLevels /\ j # 0
      /\ Rev!Refuse(b, p, j) => ~Rev!Found(b, p, j) /\ k = MaxLevels /\ j = 0
  BY <1>2 DEF Rev!DeleteMissing, Rev!Delete, Rev!Update, Rev!Insert, Rev!Displace,
     Rev!Refuse
<1> DEFINE Goal == RevInv'
<1>8. ASSUME UNCHANGED <<n, level, revN, revLevel>>, st' = revSt'
      PROVE  Goal
  BY <1>8 DEF RevInv, MirrorOf
<1>9. ASSUME DeleteMissing(b, p, i), Rev!DeleteMissing(b, p, j)
      PROVE  Goal
  <2>1. UNCHANGED <<n, level, revN, revLevel>> /\ st' = revSt'
    BY <1>2, <1>9, SameRevOperators DEF DeleteMissing, Rev!DeleteMissing, Count, Rev!Count
  <2> QED
    BY <1>8, <2>1
<1>10. ASSUME Delete(b, p, i), Rev!Delete(b, p, j)
       PROVE  Goal
  <2> DEFINE lv2 == Move(lv, i, i + 1, k - i - 1)
             rv2 == Move(rv, j - 1, j, k - j)
  <2>1. i \in 0 .. k - 1 /\ k \in 1 .. MaxLevels
    BY <1>1, <1>2, <1>5, <1>6, <1>10
  <2>2. /\ n' = [n EXCEPT ![b] = k - 1] /\ revN' = [revN EXCEPT ![b] = k - 1]
        /\ level' = [level EXCEPT ![b] = lv2]
        /\ revLevel' = [revLevel EXCEPT ![b] = rv2]
        /\ st' = revSt'
    BY <1>2, <1>10, SameRevOperators DEF Delete, Rev!Delete, Count, Rev!Count
  <2>3. rv2 \in Stored
    <3>1. \A t \in Pos : t \in j - 1 .. j - 1 + (k - j) - 1 => t - (j - 1) + j \in Pos
      <4>1. j \in 1 .. k
        BY <1>1, <1>2, <2>1
      <4> HIDE DEF k
      <4>2. ASSUME NEW t \in Pos, t \in j - 1 .. j - 1 + (k - j) - 1
            PROVE  t - (j - 1) + j \in Pos
        <5>1. j \in Int /\ k \in Int /\ t \in Int /\ t <= k - 2 /\ t >= 0
          BY <1>2, <4>1, <4>2 DEF Pos
        <5>2. t - (j - 1) + j = t + 1
          BY <5>1
        <5> QED
          BY <1>2, <5>1, <5>2 DEF Pos
      <4> QED
        BY <4>2
    <3>3. \A t \in Pos : t \in j - 1 .. j - 1 + (k - j) - 1 => rv[t - (j - 1) + j] \in
                 [price : Prices \cup {0}, size : Sizes \cup {0}]
      BY <1>2, <3>1 DEF Stored
    <3> QED
      BY <1>2, <3>3 DEF Move, Stored
  <2>4. MirrorOf(lv2, rv2, k - 1)
    <3>1. j - 1 = k - i - 1
      BY <1>1, <1>2
    <3> HIDE DEF lv, rv, k
    <3> QED
      BY <1>1, <1>2, <2>1, <3>1, MirrorDelete
  <2> HIDE DEF lv2, rv2, k
  <2> QED
    BY <2>2, <2>3, <2>4, MirrorOneBook
<1>11. ASSUME s # 0, Update(b, p, s, i), Rev!Update(b, p, s, j)
       PROVE  Goal
  <2> DEFINE lv2 == [lv EXCEPT ![i].size = s]
             rv2 == [rv EXCEPT ![j - 1].size = s]
  <2>1. i \in 0 .. k - 1 /\ k \in 1 .. MaxLevels /\ j - 1 = k - 1 - i
    BY <1>1, <1>2, <1>5, <1>6, <1>11
  <2>2. /\ n' = [n EXCEPT ![b] = k] /\ revN' = [revN EXCEPT ![b] = k]
        /\ level' = [level EXCEPT ![b] = lv2]
        /\ revLevel' = [revLevel EXCEPT ![b] = rv2]
        /\ st' = revSt'
    BY <1>2, <1>11, SameRevOperators DEF Update, Rev!Update, Count, Rev!Count, Shape, RevInv
  <2>3. rv2 \in Stored
    <3> HIDE DEF rv
    <3> QED
      BY <1>2, <2>1 DEF Stored, Pos
  <2>4. MirrorOf(lv2, rv2, k)
    <3>1. lv \in Stored
      BY DEF Shape, Stored
    <3> HIDE DEF rv, lv, k
    <3>2. ASSUME NEW t \in 0 .. k - 1
          PROVE  lv2[t] = rv2[k - 1 - t]
      <4>1. t \in Pos /\ k - 1 - t \in Pos /\ i \in Pos /\ (t = i <=> k - 1 - t = j - 1)
        BY <1>1, <1>2, <2>1 DEF Pos
      <4>2. lv[t] = rv[k - 1 - t]
        BY <1>2 DEF MirrorOf
      <4>3. lv2[t] = IF t = i THEN [lv[t] EXCEPT !.size = s] ELSE lv[t]
        BY <3>1, <4>1 DEF Stored
      <4>4. rv2[k - 1 - t] = IF k - 1 - t = j - 1 THEN [rv[k - 1 - t] EXCEPT !.size = s]
                             ELSE rv[k - 1 - t]
        BY <1>2, <4>1 DEF Stored
      <4> QED
        BY <4>1, <4>2, <4>3, <4>4
    <3> QED
      BY <3>2 DEF MirrorOf
  <2> HIDE DEF lv2, rv2, k
  <2> QED
    BY <2>2, <2>3, <2>4, MirrorOneBook
<1>12. ASSUME s # 0, Insert(b, p, s, i), Rev!Insert(b, p, s, j)
       PROVE  Goal
  <2> DEFINE lv2 == Inserted(lv, k, i, p, s)
             rv2 == [Move(rv, j + 1, j, k - j) EXCEPT ![j] = [price |-> p, size |-> s]]
  <2>1. k \in 0 .. MaxLevels - 1 /\ s \in Sizes
    BY <1>2, <1>6, <1>12
  <2>2. /\ n' = [n EXCEPT ![b] = k + 1] /\ revN' = [revN EXCEPT ![b] = k + 1]
        /\ level' = [level EXCEPT ![b] = lv2]
        /\ revLevel' = [revLevel EXCEPT ![b] = rv2]
        /\ st' = revSt'
    BY <1>2, <1>12, SameRevOperators
    DEF Insert, Put, Inserted, Rev!Insert, Rev!PutAt, Count, Rev!Count
  <2>3. rv2 \in Stored
    <3>1. \A t \in Pos : t \in j + 1 .. j + 1 + (k - j) - 1 => t - (j + 1) + j \in Pos
      BY <1>1, <1>2, <2>1 DEF Pos
    <3>2. j + 1 \in Nat /\ j \in Nat /\ j \in Int /\ k - j \in Int
      BY <1>1, <1>2, <2>1
    <3> HIDE DEF rv, k
    <3> QED
      BY <1>2, <2>1, <3>1, <3>2, StoredAt
  <2>4. MirrorOf(lv2, rv2, k + 1)
    <3> HIDE DEF lv, rv, k
    <3> QED
      BY <1>1, <1>2, <2>1, MirrorInsert
  <2> HIDE DEF lv2, rv2, k
  <2> QED
    BY <2>2, <2>3, <2>4, MirrorOneBook
<1>13. ASSUME s # 0, Displace(b, p, s, i), Rev!Displace(b, p, s, j)
       PROVE  Goal
  <2> DEFINE lv2 == Inserted(lv, MaxLevels - 1, i, p, s)
             rv2 == [Move(rv, 0, 1, j - 1) EXCEPT ![j - 1] = [price |-> p, size |-> s]]
  <2>1. k = MaxLevels /\ i \in 0 .. MaxLevels - 1 /\ s \in Sizes /\ j = MaxLevels - i
    BY <1>1, <1>2, <1>6, <1>13
  <2>2. /\ n' = [n EXCEPT ![b] = MaxLevels] /\ revN' = [revN EXCEPT ![b] = MaxLevels]
        /\ level' = [level EXCEPT ![b] = lv2]
        /\ revLevel' = [revLevel EXCEPT ![b] = rv2]
        /\ st' = revSt'
    <3>1. k - 1 - i = MaxLevels - 1 - i
      BY <2>1
    <3>2. level' = [level EXCEPT ![b] = lv2]
      BY <1>13, <2>1, <3>1 DEF Displace, Put, Inserted
    <3>3. revLevel' = [revLevel EXCEPT ![b] = rv2]
      BY <1>13, SameRevOperators DEF Rev!Displace, Rev!PutAt, Rev!CloseUp
    <3>4. n' = n /\ revN' = revN /\ st' = revSt'
      BY <1>2, <1>13, <2>1, SameRevOperators
      DEF Displace, Rev!Displace, Count, Rev!Count, Dropped
    <3> QED
      BY <1>2, <2>1, <3>2, <3>3, <3>4 DEF Shape, RevInv
  <2>3. rv2 \in Stored
    <3>1. \A t \in Pos : t \in 0 .. 0 + (j - 1) - 1 => t - 0 + 1 \in Pos
      BY <1>2, <2>1 DEF Pos
    <3>2. 0 \in Nat /\ 1 \in Nat /\ j - 1 \in Int
      BY <1>2, <2>1
    <3> HIDE DEF rv
    <3> QED
      BY <1>2, <2>1, <3>1, <3>2, StoredAt
  <2>4. MirrorOf(lv2, rv2, MaxLevels)
    <3>1. j - 1 = MaxLevels - i - 1 /\ MirrorOf(lv, rv, MaxLevels)
      BY <1>2, <2>1
    <3> HIDE DEF lv, rv
    <3> QED
      BY <2>1, <3>1, MirrorDisplace
  <2> HIDE DEF lv2, rv2
  <2> QED
    BY <2>2, <2>3, <2>4, MirrorOneBook
<1>14. ASSUME Refuse(b, p, i), Rev!Refuse(b, p, j)
       PROVE  Goal
  <2>1. UNCHANGED <<n, level, revN, revLevel>> /\ st' = revSt'
    BY <1>2, <1>14, SameRevOperators DEF Refuse, Rev!Refuse, Count, Rev!Count
  <2> QED
    BY <1>8, <2>1
<1> HIDE DEF k, Goal
<1>15. Goal
  BY <1>1, <1>3, <1>4, <1>5, <1>6, <1>7, <1>9, <1>10, <1>11, <1>12, <1>13, <1>14
<1> QED
  BY <1>15 DEF Goal

(* Both layouts reset their counts and leave their arrays: mirror images   *)
(* still.                                                                  *)
LEMMA MirrorReset ==
  ASSUME Shape, RevInv, Reset, Rev!SetReset
  PROVE  RevInv'
<1>1. /\ n' = [b \in Books |-> 0] /\ revN' = [b \in Books |-> 0]
      /\ st' = revSt' /\ UNCHANGED <<level, revLevel>>
  BY SameRevOperators DEF Reset, SetReset, Cleared, Rev!SetReset, Rev!Cleared
<1> QED
  BY <1>1 DEF RevInv, MirrorOf

(* Two empty books are mirror images.                                      *)
LEMMA MirrorInit == LayoutInit => RevInv
<1> SUFFICES ASSUME LayoutInit
             PROVE  RevInv
  OBVIOUS
<1>1. /\ n = [b \in Books |-> 0] /\ revN = [b \in Books |-> 0] /\ st = revSt
      /\ revLevel = [b \in Books |-> [j \in Pos |-> [price |-> 0, size |-> 0]]]
  BY SameRevOperators DEF LayoutInit, Init, SetInit, Rev!SetInit
<1> QED
  BY <1>1 DEF RevInv, MirrorOf, Stored

(* A book that mirrors the other shows the same best level.                *)
LEMMA MirrorShows == Shape /\ RevInv => Mirrored
<1> SUFFICES ASSUME Shape, RevInv
             PROVE  Mirrored
  OBVIOUS
<1>1. ASSUME NEW b \in Books
      PROVE  Bbo(b) = Rev!Bbo(b)
  <2>1. n[b] \in Nat /\ revN[b] = n[b]
    BY ShapeFacts, BookAssumption DEF RevInv
  <2>2. n[b] > 0 => level[b][0] = revLevel[b][n[b] - 1]
    <3>1. n[b] > 0 => 0 \in 0 .. n[b] - 1 /\ n[b] - 1 - 0 = n[b] - 1
      BY <2>1
    <3> QED
      BY <3>1 DEF RevInv, MirrorOf
  <2> QED
    BY <2>1, <2>2 DEF Bbo, NoLevel, Rev!Bbo
<1> QED
  BY <1>1 DEF Mirrored, RevInv, MirrorOf

(* The two layouts show the same book, the same best levels and the same   *)
(* counters after every update, however often the arrays were reused.      *)
THEOREM LayoutsMirror == LayoutSpec => []Mirrored
<1>1. LayoutInit => BookInv /\ RevInv
  BY InitEstablishes, MirrorInit DEF LayoutInit
<1>2. BookInv /\ RevInv /\ [LayoutNext]_layoutVars => BookInv' /\ RevInv'
  <2> SUFFICES ASSUME BookInv, RevInv, [LayoutNext]_layoutVars
               PROVE  BookInv' /\ RevInv'
    OBVIOUS
  <2>1. CASE LayoutApply
    BY <2>1, ApplyKeeps, MirrorApply DEF LayoutApply, BookInv
  <2>2. CASE LayoutReset
    BY <2>2, ResetKeeps, MirrorReset DEF LayoutReset, BookInv
  <2>3. CASE UNCHANGED layoutVars
    <3>1. UNCHANGED vars /\ UNCHANGED <<n, level, st, revN, revLevel, revSt>>
      BY <2>3 DEF layoutVars, vars, bookVars
    <3> QED
      BY <3>1, StutterKeeps DEF RevInv, MirrorOf
  <2> QED
    BY <2>1, <2>2, <2>3 DEF LayoutNext
<1>3. BookInv /\ RevInv => Mirrored
  BY MirrorShows DEF BookInv
<1> QED
  BY <1>1, <1>2, <1>3, PTL DEF LayoutSpec
=============================================================================
