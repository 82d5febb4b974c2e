-------------------------- MODULE Freelist_proofs --------------------------
(***************************************************************************)
(* The free list of include/ll/mempool_freelist.h is a pool, for every     *)
(* capacity and any number of threads that free, as long as only one       *)
(* allocates.                                                              *)
(***************************************************************************)
EXTENDS Freelist, Facts

OneAllocator == \A a, b \in Allocators : a = b

SlotOrNil == Slots \cup {NIL}

-----------------------------------------------------------------------------
(* Linked lists.                                                           *)

(* From h, the links nx lead through n different slots to NIL: l has them  *)
(* in order.                                                               *)
Chain(h, nx, n, l) ==
    /\ n \in 0 .. Capacity
    /\ l \in [0 .. n -> SlotOrNil]
    /\ l[0] = h /\ l[n] = NIL
    /\ \A k \in 0 .. n - 1 : l[k] \in Slots /\ nx[l[k]] = l[k + 1]
    /\ \A j, k \in 0 .. n - 1 : l[j] = l[k] => j = k

Elems(n, l) == {l[k] : k \in 0 .. n - 1}

(* Listed, of any list.                                                    *)
ListOf(h, nx) ==
    LET at[k \in 0 .. Capacity] ==
          IF k = 0 THEN h
          ELSE IF at[k - 1] = NIL THEN NIL ELSE nx[at[k - 1]]
    IN  at

ElemsOf(h, nx) == {ListOf(h, nx)[k] : k \in 0 .. Capacity} \ {NIL}

(* NIL is no slot.                                                         *)
LEMMA NilFacts ==
  /\ Capacity \in Nat /\ Capacity > 0
  /\ NIL \notin Slots /\ Slots \subseteq Nat
BY FreelistAssumption DEF Slots

(* Following the links gives the chain.                                    *)
LEMMA ChainIsList ==
  ASSUME NEW h, NEW nx, NEW n, NEW l, Chain(h, nx, n, l)
  PROVE  /\ \A k \in 0 .. Capacity :
              ListOf(h, nx)[k] = IF k <= n THEN l[k] ELSE NIL
         /\ ListOf(h, nx)[Capacity] = NIL
         /\ ElemsOf(h, nx) = Elems(n, l)
<1> DEFINE F(g) == [k \in 0 .. Capacity |->
                      IF k = 0 THEN h
                      ELSE IF g[k - 1] = NIL THEN NIL ELSE nx[g[k - 1]]]
           A == [k \in 0 .. Capacity |-> IF k <= n THEN l[k] ELSE NIL]
           at == CHOOSE g : g = F(g)
<1>0. /\ Capacity \in Nat /\ NIL \notin Slots /\ n \in Nat /\ n <= Capacity
      /\ l[0] = h /\ l[n] = NIL
      /\ \A k \in Nat : k < n => l[k] \in Slots /\ nx[l[k]] = l[k + 1]
  BY NilFacts DEF Chain
<1>1. A = F(A)
  <2> SUFFICES ASSUME NEW k \in 0 .. Capacity
               PROVE  A[k] = IF k = 0 THEN h
                             ELSE IF A[k - 1] = NIL THEN NIL ELSE nx[A[k - 1]]
    OBVIOUS
  <2>1. CASE k = 0
    BY <1>0, <2>1
  <2>2. CASE k # 0
    <3>1. k - 1 \in 0 .. Capacity /\ k - 1 \in Nat /\ k \in Nat /\ (k - 1) + 1 = k
      BY <1>0, <2>2
    <3>2. CASE k <= n
      <4>1. l[k - 1] \in Slots /\ nx[l[k - 1]] = l[(k - 1) + 1]
        BY <1>0, <3>1, <3>2
      <4>2. A[k] = l[k] /\ A[k - 1] = l[k - 1]
        BY <1>0, <3>1, <3>2
      <4> HIDE DEF A
      <4> QED
        BY <1>0, <2>2, <3>1, <4>1, <4>2
    <3>3. CASE ~(k <= n)
      <4>1. A[k] = NIL
        BY <3>3
      <4>2. A[k - 1] = NIL
        <5>1. CASE k - 1 = n
          BY <1>0, <3>1, <5>1
        <5>2. CASE k - 1 # n
          BY <1>0, <3>1, <3>3, <5>2
        <5> QED
          BY <5>1, <5>2
      <4> HIDE DEF A
      <4> QED
        BY <2>2, <4>1, <4>2
    <3> QED
      BY <3>2, <3>3
  <2> QED
    BY <2>1, <2>2
<1>2. at = F(at)
  <2> HIDE DEF A, F
  <2> QED
    BY <1>1
<1>3. ListOf(h, nx) = at
  BY DEF ListOf
<1>4. \A k \in 0 .. Capacity : at[k] = A[k]
  <2> DEFINE S == {k \in Nat : k <= Capacity => at[k] = A[k]}
  <2>1. \A k \in 0 .. Capacity :
          at[k] = IF k = 0 THEN h ELSE IF at[k - 1] = NIL THEN NIL ELSE nx[at[k - 1]]
    <3> HIDE DEF at
    <3> QED
      BY <1>2
  <2>2. \A k \in 0 .. Capacity :
          A[k] = IF k = 0 THEN h ELSE IF A[k - 1] = NIL THEN NIL ELSE nx[A[k - 1]]
    <3> HIDE DEF A
    <3> QED
      BY <1>1
  <2> HIDE DEF at, A
  <2>3. 0 \in S
    <3>1. 0 \in 0 .. Capacity
      BY <1>0
    <3> QED
      BY <2>1, <2>2, <3>1
  <2>4. ASSUME NEW k \in Nat, k \in S
        PROVE  k + 1 \in S
    <3> SUFFICES ASSUME k + 1 <= Capacity
                 PROVE  at[k + 1] = A[k + 1]
      OBVIOUS
    <3>1. k + 1 \in 0 .. Capacity /\ k + 1 # 0 /\ (k + 1) - 1 = k /\ k <= Capacity
      BY <1>0
    <3>2. at[k] = A[k]
      BY <2>4, <3>1
    <3> QED
      BY <2>1, <2>2, <3>1, <3>2
  <2>5. Nat \subseteq S
    <3> HIDE DEF S
    <3> QED
      BY <2>3, <2>4, InductionOnSet
  <2> QED
    BY <1>0, <2>5
<1>5. \A k \in 0 .. Capacity :
        ListOf(h, nx)[k] = IF k <= n THEN l[k] ELSE NIL
  BY <1>3, <1>4
<1>6. ListOf(h, nx)[Capacity] = NIL
  <2>1. Capacity \in 0 .. Capacity
    BY <1>0
  <2>2. Capacity <= n => Capacity = n
    BY <1>0
  <2> QED
    BY <1>0, <1>5, <2>1, <2>2
<1>7. ElemsOf(h, nx) = Elems(n, l)
  <2> DEFINE L == ListOf(h, nx)
  <2>1. \A k \in 0 .. Capacity : L[k] = IF k <= n THEN l[k] ELSE NIL
    BY <1>5
  <2> HIDE DEF L
  <2>2. ASSUME NEW x \in {L[k] : k \in 0 .. Capacity} \ {NIL}
        PROVE  x \in Elems(n, l)
    <3>1. PICK k \in 0 .. Capacity : x = L[k]
      BY <2>2
    <3>2. k <= n /\ x = l[k] /\ k # n
      BY <1>0, <2>1, <2>2, <3>1
    <3>3. k \in 0 .. n - 1
      BY <1>0, <3>1, <3>2
    <3> QED
      BY <3>2, <3>3 DEF Elems
  <2>3. ASSUME NEW x \in Elems(n, l)
        PROVE  x \in {L[k] : k \in 0 .. Capacity} \ {NIL}
    <3>1. PICK k \in 0 .. n - 1 : x = l[k]
      BY <2>3 DEF Elems
    <3>2. k \in 0 .. Capacity /\ k <= n /\ k \in Nat /\ k < n
      BY <1>0, <3>1
    <3>3. L[k] = l[k] /\ x \in Slots
      BY <1>0, <2>1, <3>1, <3>2
    <3> QED
      BY <1>0, <3>1, <3>2, <3>3
  <2> QED
    BY <2>2, <2>3 DEF ElemsOf, L
<1> QED
  BY <1>5, <1>6, <1>7

IsList(h, nx) == \E n, l : Chain(h, nx, n, l)

(* A list of slots has room for a slot it does not have.                   *)
LEMMA ChainHasRoom ==
  ASSUME NEW h, NEW nx, NEW n, NEW l, Chain(h, nx, n, l),
         NEW s \in Slots, s \notin Elems(n, l)
  PROVE  n + 1 \in 0 .. Capacity
<1>1. n \in Nat /\ n <= Capacity /\ Capacity \in Nat
  BY NilFacts DEF Chain
<1> DEFINE D == 0 .. n - 1
           E == {l[x] : x \in D}
<1>2. IsFiniteSet(D) /\ Cardinality(D) = n
  <2> DEFINE m == n - 1
  <2>1. m \in Int /\ 0 \in Int
    BY <1>1
  <2> HIDE DEF m
  <2>2. IsFiniteSet(0 .. m) /\ Cardinality(0 .. m) = IF 0 > m THEN 0 ELSE m - 0 + 1
    BY <2>1, FS_Interval
  <2> QED
    BY <1>1, <2>2 DEF m
<1>3. \A x, y \in D : l[x] = l[y] => x = y
  BY DEF Chain
<1>4. E = Elems(n, l) /\ E \subseteq Slots
  BY DEF Elems, Chain
<1> HIDE DEF D
<1>5. Cardinality(E) = n
  BY <1>2, <1>3, InjectiveImage
<1>6. IsFiniteSet(Slots) /\ Cardinality(Slots) = Capacity
  <2> DEFINE m == Capacity - 1
  <2>1. m \in Int /\ 0 \in Int
    BY <1>1
  <2> HIDE DEF m
  <2>2. IsFiniteSet(0 .. m) /\ Cardinality(0 .. m) = IF 0 > m THEN 0 ELSE m - 0 + 1
    BY <2>1, FS_Interval
  <2> QED
    BY <1>1, <2>2, NilFacts DEF m, Slots
<1>7. IsFiniteSet(Slots \ {s}) /\ Cardinality(Slots \ {s}) = Capacity - 1
  BY <1>6, FS_RemoveElement
<1>8. E \subseteq Slots \ {s}
  BY <1>4
<1> HIDE DEF E
<1>9. Cardinality(E) <= Cardinality(Slots \ {s})
  BY <1>7, <1>8, FS_Subset
<1> QED
  BY <1>1, <1>5, <1>7, <1>9

(* A slot whose link leads to the head becomes the new head.               *)
LEMMA PushOnList ==
  ASSUME NEW h, NEW nx, IsList(h, nx),
         NEW s \in Slots, s \notin ElemsOf(h, nx), nx[s] = h
  PROVE  IsList(s, nx) /\ ElemsOf(s, nx) = ElemsOf(h, nx) \cup {s}
<1>1. PICK n, l : Chain(h, nx, n, l)
  BY DEF IsList
<1>2. ElemsOf(h, nx) = Elems(n, l) /\ s \notin Elems(n, l)
  BY <1>1, ChainIsList
<1>3. n + 1 \in 0 .. Capacity /\ n \in Nat
  BY <1>1, <1>2, ChainHasRoom DEF Chain
<1> DEFINE m == [k \in 0 .. n + 1 |-> IF k = 0 THEN s ELSE l[k - 1]]
<1>4. /\ l \in [0 .. n -> SlotOrNil] /\ l[0] = h /\ l[n] = NIL
      /\ \A k \in 0 .. n - 1 : l[k] \in Slots /\ nx[l[k]] = l[k + 1]
      /\ \A j, k \in 0 .. n - 1 : l[j] = l[k] => j = k
  BY <1>1 DEF Chain
<1>5. \A k \in 0 .. n - 1 : l[k] # s
  BY <1>2 DEF Elems
<1>6. \A k \in 1 .. n + 1 : /\ k # 0 /\ k - 1 \in 0 .. n /\ k \in 0 .. n + 1
                            /\ k <= n => k - 1 \in 0 .. n - 1
                            /\ (k - 1) + 1 = k
  BY <1>3
<1>7. /\ m[0] = s /\ \A k \in 1 .. n + 1 : m[k] = l[k - 1]
      /\ m \in [0 .. n + 1 -> SlotOrNil]
  <2>1. 0 \in 0 .. n + 1 /\ \A k \in 0 .. n + 1 : k # 0 => k \in 1 .. n + 1
    BY <1>3
  <2>2. \A k \in 0 .. n + 1 : (IF k = 0 THEN s ELSE l[k - 1]) \in SlotOrNil
    BY <1>4, <1>6, <2>1 DEF SlotOrNil
  <2> QED
    BY <1>6, <2>1, <2>2
<1> HIDE DEF m
<1>8. m[n + 1] = NIL
  <2>1. n + 1 \in 1 .. n + 1 /\ (n + 1) - 1 = n
    BY <1>3
  <2> QED
    BY <1>4, <1>7, <2>1
<1>9. \A k \in 0 .. n : k = 0 \/ (k \in 1 .. n + 1 /\ k <= n)
  BY <1>3
<1>10. ASSUME NEW k \in 0 .. n
       PROVE  m[k] \in Slots /\ nx[m[k]] = m[k + 1]
  <2>1. CASE k = 0
    <3>1. 1 \in 1 .. n + 1 /\ 1 - 1 = 0 /\ 0 + 1 = 1
      BY <1>3
    <3> QED
      BY <1>4, <1>7, <2>1, <3>1
  <2>2. CASE k \in 1 .. n + 1 /\ k <= n
    <3>1. /\ m[k] = l[k - 1] /\ k - 1 \in 0 .. n - 1 /\ (k - 1) + 1 = k
          /\ k + 1 \in 1 .. n + 1 /\ (k + 1) - 1 = k
      BY <1>3, <1>6, <1>7, <2>2
    <3>2. m[k + 1] = l[k]
      BY <1>7, <3>1
    <3> QED
      BY <1>4, <3>1, <3>2
  <2> QED
    BY <1>9, <2>1, <2>2
<1>11. ASSUME NEW j \in 0 .. n, NEW k \in 0 .. n, m[j] = m[k]
       PROVE  j = k
  <2>1. \A x \in 0 .. n : x # 0 => /\ m[x] = l[x - 1] /\ x - 1 \in 0 .. n - 1
                                   /\ m[x] # s /\ x \in Int
    BY <1>5, <1>6, <1>7, <1>9
  <2>2. CASE j = 0 \/ k = 0
    BY <1>7, <1>11, <2>1, <2>2
  <2>3. CASE j # 0 /\ k # 0
    <3>1. j - 1 = k - 1
      BY <1>4, <1>11, <2>1, <2>3
    <3> QED
      BY <2>1, <2>3, <3>1
  <2> QED
    BY <2>2, <2>3
<1>12. Chain(s, nx, n + 1, m)
  <2>1. (n + 1) - 1 = n
    BY <1>3
  <2> QED
    BY <1>3, <1>7, <1>8, <1>10, <1>11, <2>1 DEF Chain
<1>13. Elems(n + 1, m) = Elems(n, l) \cup {s}
  <2>1. (n + 1) - 1 = n /\ 0 \in 0 .. n
    BY <1>3
  <2>2. ASSUME NEW x \in Elems(n + 1, m)
        PROVE  x \in Elems(n, l) \cup {s}
    <3>1. PICK k \in 0 .. n : x = m[k]
      BY <2>1, <2>2 DEF Elems
    <3> QED
      BY <1>6, <1>7, <1>9, <3>1 DEF Elems
  <2>3. ASSUME NEW x \in Elems(n, l) \cup {s}
        PROVE  x \in Elems(n + 1, m)
    <3>1. CASE x = s
      BY <1>7, <2>1, <3>1 DEF Elems
    <3>2. CASE x \in Elems(n, l)
      <4>1. PICK k \in 0 .. n - 1 : x = l[k]
        BY <3>2 DEF Elems
      <4>2. k + 1 \in 1 .. n + 1 /\ k + 1 \in 0 .. n /\ (k + 1) - 1 = k
        BY <1>3
      <4>3. m[k + 1] = x
        BY <1>7, <4>1, <4>2
      <4> QED
        BY <2>1, <4>2, <4>3 DEF Elems
    <3> QED
      BY <2>3, <3>1, <3>2
  <2> QED
    BY <2>2, <2>3
<1> QED
  BY <1>2, <1>12, <1>13, ChainIsList DEF IsList

(* The head is taken off.                                                  *)
LEMMA PopOffList ==
  ASSUME NEW h \in Slots, NEW nx, IsList(h, nx)
  PROVE  /\ h \in ElemsOf(h, nx)
         /\ IsList(nx[h], nx) /\ ElemsOf(nx[h], nx) = ElemsOf(h, nx) \ {h}
<1>1. PICK n, l : Chain(h, nx, n, l)
  BY DEF IsList
<1>2. /\ l \in [0 .. n -> SlotOrNil] /\ l[0] = h /\ l[n] = NIL
      /\ \A k \in 0 .. n - 1 : l[k] \in Slots /\ nx[l[k]] = l[k + 1]
      /\ \A j, k \in 0 .. n - 1 : l[j] = l[k] => j = k
      /\ n \in 0 .. Capacity
  BY <1>1 DEF Chain
<1>3. n \in Nat /\ n # 0 /\ n - 1 \in 0 .. Capacity
  BY <1>2, NilFacts
<1> DEFINE m == [k \in 0 .. n - 1 |-> l[k + 1]]
<1>4. \A k \in 0 .. n - 1 : k + 1 \in 0 .. n /\ k \in Int
  BY <1>3
<1>5. /\ m \in [0 .. n - 1 -> SlotOrNil]
      /\ \A k \in 0 .. n - 1 : m[k] = l[k + 1]
  BY <1>2, <1>4
<1> HIDE DEF m
<1>6. 0 \in 0 .. n - 1 /\ n - 1 \in 0 .. n - 1 /\ (n - 1) + 1 = n /\ 0 + 1 = 1
  BY <1>3
<1>7. m[0] = nx[h] /\ m[n - 1] = NIL
  BY <1>2, <1>5, <1>6
<1>8. \A k \in 0 .. (n - 1) - 1 : k \in 0 .. n - 1 /\ k + 1 \in 0 .. n - 1 /\ k \in Int
  BY <1>3
<1>9. Chain(nx[h], nx, n - 1, m)
  <2>1. \A k \in 0 .. (n - 1) - 1 : m[k] \in Slots /\ nx[m[k]] = m[k + 1]
    BY <1>2, <1>5, <1>8
  <2>2. ASSUME NEW j \in 0 .. (n - 1) - 1, NEW k \in 0 .. (n - 1) - 1, m[j] = m[k]
        PROVE  j = k
    <3>1. l[j + 1] = l[k + 1] /\ j + 1 \in 0 .. n - 1 /\ k + 1 \in 0 .. n - 1
          /\ j \in Int /\ k \in Int
      BY <1>5, <1>8, <2>2
    <3>2. j + 1 = k + 1
      BY <1>2, <3>1
    <3> QED
      BY <3>1, <3>2
  <2> QED
    BY <1>3, <1>5, <1>7, <2>1, <2>2 DEF Chain
<1>10. h \in Elems(n, l) /\ Elems(n - 1, m) = Elems(n, l) \ {h}
  <2>1. h \in Elems(n, l)
    BY <1>2, <1>6 DEF Elems
  <2>2. ASSUME NEW x \in Elems(n - 1, m)
        PROVE  x \in Elems(n, l) \ {h}
    <3>1. PICK k \in 0 .. (n - 1) - 1 : x = m[k]
      BY <2>2 DEF Elems
    <3>2. x = l[k + 1] /\ k + 1 \in 0 .. n - 1 /\ k + 1 # 0
      <4>1. k >= 0
        BY <1>3, <3>1
      <4> QED
        BY <1>5, <1>8, <3>1, <4>1
    <3>3. x # h
      BY <1>2, <1>6, <3>2
    <3> QED
      BY <3>2, <3>3 DEF Elems
  <2>3. ASSUME NEW x \in Elems(n, l) \ {h}
        PROVE  x \in Elems(n - 1, m)
    <3>1. PICK k \in 0 .. n - 1 : x = l[k]
      BY <2>3 DEF Elems
    <3>2. k # 0
      BY <1>2, <2>3, <3>1
    <3>3. k - 1 \in 0 .. (n - 1) - 1 /\ k - 1 \in 0 .. n - 1 /\ (k - 1) + 1 = k
      BY <1>3, <3>1, <3>2
    <3>4. m[k - 1] = x
      BY <1>5, <3>1, <3>3
    <3> QED
      BY <3>3, <3>4 DEF Elems
  <2> QED
    BY <2>1, <2>2, <2>3
<1> QED
  BY <1>1, <1>9, <1>10, ChainIsList DEF IsList

(* A link of a slot that is not in the list does not matter.               *)
LEMMA WriteOffList ==
  ASSUME NEW h, NEW nx \in [Slots -> SlotOrNil], IsList(h, nx),
         NEW s \in Slots, s \notin ElemsOf(h, nx), NEW v
  PROVE  LET ny == [nx EXCEPT ![s] = v]
         IN  IsList(h, ny) /\ ElemsOf(h, ny) = ElemsOf(h, nx)
<1> DEFINE ny == [nx EXCEPT ![s] = v]
<1>1. PICK n, l : Chain(h, nx, n, l)
  BY DEF IsList
<1>2. ElemsOf(h, nx) = Elems(n, l) /\ s \notin Elems(n, l)
  BY <1>1, ChainIsList
<1>3. \A x \in Slots : x # s => ny[x] = nx[x]
  OBVIOUS
<1> HIDE DEF ny
<1>4. \A k \in 0 .. n - 1 : l[k] # s
  BY <1>2 DEF Elems
<1>5. Chain(h, ny, n, l)
  BY <1>1, <1>3, <1>4 DEF Chain
<1>6. IsList(h, ny) /\ ElemsOf(h, ny) = Elems(n, l)
  BY <1>5, ChainIsList DEF IsList
<1> QED
  BY <1>2, <1>6 DEF ny

(* The list after init: all the slots.                                     *)
LEMMA FirstList ==
  LET nx == [i \in Slots |-> NextOf(i)]
  IN  IsList(0, nx) /\ ElemsOf(0, nx) = Slots
<1> DEFINE nx == [i \in Slots |-> NextOf(i)]
           n == Capacity
           l == [k \in 0 .. n |-> IF k < Capacity THEN k ELSE NIL]
<1>1. Capacity \in Nat /\ Capacity > 0 /\ Slots = 0 .. n - 1
  BY NilFacts DEF Slots
<1>2. /\ l \in [0 .. n -> SlotOrNil] /\ l[0] = 0 /\ l[n] = NIL
      /\ \A k \in 0 .. n - 1 : l[k] = k
  <2>1. \A k \in 0 .. n : k < Capacity => k \in 0 .. n - 1
    BY <1>1
  <2>2. \A k \in 0 .. n - 1 : k \in 0 .. n /\ k < Capacity
    BY <1>1
  <2>3. \A k \in 0 .. n : (IF k < Capacity THEN k ELSE NIL) \in SlotOrNil
    BY <1>1, <2>1 DEF SlotOrNil
  <2>4. 0 \in 0 .. n /\ n \in 0 .. n /\ 0 < Capacity /\ ~(n < Capacity)
    BY <1>1
  <2> QED
    BY <2>2, <2>3, <2>4
<1>3. \A k \in 0 .. n - 1 : nx[k] = l[k + 1]
  <2> SUFFICES ASSUME NEW k \in 0 .. n - 1
               PROVE  nx[k] = l[k + 1]
    OBVIOUS
  <2>1. nx[k] = IF k + 1 < Capacity THEN k + 1 ELSE NIL
    BY <1>1 DEF NextOf
  <2>2. k + 1 \in 0 .. n
    BY <1>1
  <2> QED
    BY <2>1, <2>2
<1> HIDE DEF l, nx
<1>4. Chain(0, nx, n, l)
  <2>1. n \in 0 .. Capacity
    BY <1>1
  <2> QED
    BY <1>1, <1>2, <1>3, <2>1 DEF Chain
<1>5. Elems(n, l) = Slots
  BY <1>1, <1>2 DEF Elems
<1>6. IsList(0, nx) /\ ElemsOf(0, nx) = Slots
  BY <1>4, <1>5, ChainIsList DEF IsList
<1> QED
  BY <1>6 DEF nx

-----------------------------------------------------------------------------
(* The pool.                                                               *)

Types ==
    /\ free_head \in SlotOrNil /\ next \in [Slots -> SlotOrNil]
    /\ pc \in [Threads -> {"idle", "next", "take", "link", "put"}]
    /\ head \in [Threads -> SlotOrNil] /\ link \in [Threads -> SlotOrNil]
    /\ slot \in [Threads -> SlotOrNil]
    /\ out \in [Slots -> {0, 1}]

(* A slot is in the list, in one holder's hands or in one free.            *)
Places ==
    /\ \A s \in FreeSlots : out[s] = 0 /\ \A t \in Threads : slot[t] # s
    /\ \A s \in Slots : out[s] = 1 => \A t \in Threads : slot[t] # s
    /\ \A s \in Slots : s \in FreeSlots \/ out[s] = 1 \/ \E t \in Threads : slot[t] = s
    /\ \A t, v \in Threads : (slot[t] = slot[v] /\ slot[t] \in Slots) => t = v

(* What a thread relies on between its steps: the head an allocator read   *)
(* is still in the list, with the link it read, and the slot being freed   *)
(* leads to the head its thread read.                                      *)
Relies(t) ==
    /\ pc[t] \in {"next", "take"} => t \in Allocators /\ head[t] \in FreeSlots
    /\ pc[t] = "take" => link[t] = next[head[t]]
    /\ pc[t] \in {"link", "put"} <=> slot[t] \in Slots
    /\ pc[t] = "put" => next[slot[t]] = head[t]

FreeInv == /\ Types /\ IsList(free_head, next) /\ Places
           /\ \A t \in Threads : Relies(t)

(* The free slots are the elements of the list, before a step and after.   *)
LEMMA FreeSlotsFacts ==
  /\ FreeSlots = ElemsOf(free_head, next)
  /\ FreeSlots' = ElemsOf(free_head', next')
BY DEF FreeSlots, Listed, ElemsOf, ListOf

(* A list holds slots.                                                     *)
LEMMA ListFacts ==
  ASSUME NEW h, NEW nx, IsList(h, nx)
  PROVE  ElemsOf(h, nx) \subseteq Slots
<1>1. PICK n, l : Chain(h, nx, n, l)
  BY DEF IsList
<1>2. Elems(n, l) \subseteq Slots
  BY <1>1 DEF Chain, Elems
<1> QED
  BY <1>1, <1>2, ChainIsList

(* NIL may stand for a link, never for a slot.                             *)
LEMMA NilNotSlot == NIL \notin Slots /\ NIL \in SlotOrNil /\ Slots \subseteq SlotOrNil
BY NilFacts DEF SlotOrNil

(* init fills the list.                                                    *)
LEMMA FreeInit ==
  Init => FreeInv /\ FreeSlots = Slots
<1> SUFFICES ASSUME Init PROVE FreeInv /\ FreeSlots = Slots
  OBVIOUS
<1>1. /\ free_head = 0 /\ next = [i \in Slots |-> NextOf(i)]
      /\ pc = [t \in Threads |-> "idle"]
      /\ head = [t \in Threads |-> NIL] /\ link = [t \in Threads |-> NIL]
      /\ slot = [t \in Threads |-> NIL]
      /\ out = [i \in Slots |-> 0]
  BY DEF Init
<1>2. IsList(free_head, next) /\ ElemsOf(free_head, next) = Slots
  BY <1>1, FirstList
<1>3. FreeSlots = Slots
  BY <1>2, FreeSlotsFacts
<1>4. Types
  <2>1. 0 \in Slots /\ \A i \in Slots : NextOf(i) \in SlotOrNil
    BY NilFacts DEF Slots, SlotOrNil, NextOf
  <2> QED
    BY <1>1, <2>1, NilNotSlot DEF Types
<1>5. \A t \in Threads : pc[t] = "idle" /\ slot[t] = NIL
  BY <1>1
<1>6. Places
  BY <1>1, <1>3, <1>5, NilNotSlot DEF Places
<1>7. \A t \in Threads : Relies(t)
  BY <1>5, NilNotSlot DEF Relies
<1> QED
  BY <1>2, <1>3, <1>4, <1>6, <1>7 DEF FreeInv

(* alloc reads the head.                                                   *)
LEMMA AllocLoadStep ==
  ASSUME FreeInv, NEW t \in Threads, AllocBegin(t) \/ AllocRetry(t)
  PROVE  FreeInv' /\ FreeSlots' = FreeSlots
<1>1. /\ head' = [head EXCEPT ![t] = free_head]
      /\ pc' = [pc EXCEPT ![t] = IF free_head = NIL THEN "idle" ELSE "next"]
      /\ UNCHANGED <<free_head, next, link, slot, out>>
      /\ t \in Allocators /\ slot[t] \notin Slots
  BY DEF AllocBegin, AllocRetry, AllocLoad, Goto, FreeInv, Relies
<1>2. FreeSlots' = FreeSlots
  BY <1>1, FreeSlotsFacts
<1>3. Types' /\ IsList(free_head', next') /\ Places'
  BY <1>1, <1>2 DEF FreeInv, Types, Places
<1>4. /\ head'[t] = free_head
      /\ pc'[t] = IF free_head = NIL THEN "idle" ELSE "next"
      /\ \A v \in Threads : v # t => pc'[v] = pc[v] /\ head'[v] = head[v]
  BY <1>1 DEF FreeInv, Types
<1>5. free_head # NIL => free_head \in FreeSlots
  <2>1. free_head # NIL => free_head \in Slots
    BY DEF FreeInv, Types, SlotOrNil
  <2> QED
    BY <2>1, PopOffList, FreeSlotsFacts DEF FreeInv
<1>6. ASSUME NEW v \in Threads
      PROVE  Relies(v)'
  <2>1. CASE v = t
    BY <1>1, <1>2, <1>4, <1>5, <2>1 DEF Relies
  <2>2. CASE v # t
    BY <1>1, <1>2, <1>4, <2>2 DEF FreeInv, Relies
  <2> QED
    BY <2>1, <2>2
<1> QED
  BY <1>2, <1>3, <1>6 DEF FreeInv

(* alloc reads the link of the head.                                       *)
LEMMA AllocNextStep ==
  ASSUME FreeInv, NEW t \in Threads, AllocNext(t)
  PROVE  FreeInv' /\ FreeSlots' = FreeSlots
<1>1. /\ pc[t] = "next" /\ link' = [link EXCEPT ![t] = next[head[t]]]
      /\ pc' = [pc EXCEPT ![t] = "take"]
      /\ UNCHANGED <<free_head, next, head, slot, out>>
  BY DEF AllocNext, Goto
<1>2. FreeSlots' = FreeSlots
  BY <1>1, FreeSlotsFacts
<1>3. head[t] \in FreeSlots /\ head[t] \in Slots /\ t \in Allocators
      /\ slot[t] \notin Slots
  BY <1>1, ListFacts, FreeSlotsFacts DEF FreeInv, Relies
<1>4. next[head[t]] \in SlotOrNil
  BY <1>3 DEF FreeInv, Types
<1>5. Types' /\ IsList(free_head', next') /\ Places'
  BY <1>1, <1>2, <1>4 DEF FreeInv, Types, Places
<1>6. /\ pc'[t] = "take" /\ link'[t] = next[head[t]]
      /\ \A v \in Threads : v # t => pc'[v] = pc[v] /\ link'[v] = link[v]
  BY <1>1 DEF FreeInv, Types
<1>7. ASSUME NEW v \in Threads
      PROVE  Relies(v)'
  <2>1. CASE v = t
    BY <1>1, <1>2, <1>3, <1>6, <2>1 DEF Relies
  <2>2. CASE v # t
    BY <1>1, <1>2, <1>6, <2>2 DEF FreeInv, Relies
  <2> QED
    BY <2>1, <2>2
<1> QED
  BY <1>2, <1>5, <1>7 DEF FreeInv

(* alloc takes the head off: as nobody else allocates, what it read of the *)
(* link still is so.                                                       *)
LEMMA AllocTakeStep ==
  ASSUME OneAllocator, FreeInv, NEW t \in Threads, AllocTake(t)
  PROVE  FreeInv' /\ \E s \in FreeSlots : FreeSlots' = FreeSlots \ {s}
<1> DEFINE s == head[t]
<1>1. /\ pc[t] = "take" /\ free_head = s /\ free_head' = link[t]
      /\ out' = [out EXCEPT ![s] = @ + 1]
      /\ pc' = [pc EXCEPT ![t] = "idle"]
      /\ UNCHANGED <<next, head, link, slot>>
  BY DEF AllocTake, Goto
<1>2. /\ s \in FreeSlots /\ s \in Slots /\ t \in Allocators
      /\ slot[t] \notin Slots /\ link[t] = next[s]
  BY <1>1, ListFacts, FreeSlotsFacts DEF FreeInv, Relies
<1> HIDE DEF s
<1>3. IsList(free_head', next') /\ FreeSlots' = FreeSlots \ {s}
  <2>1. free_head \in Slots /\ IsList(free_head, next)
    BY <1>1, <1>2 DEF FreeInv
  <2>2. /\ IsList(next[free_head], next)
        /\ ElemsOf(next[free_head], next) = ElemsOf(free_head, next) \ {free_head}
    BY <2>1, PopOffList
  <2> QED
    BY <1>1, <1>2, <2>2, FreeSlotsFacts
<1>4. out[s] = 0 /\ \A v \in Threads : slot[v] # s
  BY <1>2 DEF FreeInv, Places
<1>5. out'[s] = 1 /\ (\A x \in Slots : x # s => out'[x] = out[x])
      /\ out' \in [Slots -> {0, 1}]
  BY <1>1, <1>2, <1>4 DEF FreeInv, Types
<1>6. Types'
  <2>1. next[s] \in SlotOrNil
    BY <1>2 DEF FreeInv, Types
  <2> QED
    BY <1>1, <1>2, <1>5, <2>1 DEF FreeInv, Types
<1>7. Places'
  BY <1>1, <1>2, <1>3, <1>4, <1>5 DEF FreeInv, Places
<1>8. /\ pc'[t] = "idle"
      /\ \A v \in Threads : v # t => pc'[v] = pc[v]
  BY <1>1 DEF FreeInv, Types
<1>9. ASSUME NEW v \in Threads
      PROVE  Relies(v)'
  <2>1. CASE v = t
    BY <1>1, <1>2, <1>8, <2>1 DEF Relies
  <2>2. CASE v # t
    <3>1. pc[v] \notin {"next", "take"}
      BY <1>2, <2>2 DEF FreeInv, Relies, OneAllocator
    <3> QED
      BY <1>1, <1>8, <2>2, <3>1 DEF FreeInv, Relies
  <2> QED
    BY <2>1, <2>2
<1> QED
  BY <1>2, <1>3, <1>6, <1>7, <1>9 DEF FreeInv

(* free begins: the slot goes from its holder's hands into the free.       *)
LEMMA FreeBeginStep ==
  ASSUME FreeInv, NEW t \in Threads, NEW s \in Slots, FreeBegin(t, s)
  PROVE  FreeInv' /\ FreeSlots' = FreeSlots
<1>1. /\ pc[t] = "idle" /\ out[s] > 0
      /\ out' = [out EXCEPT ![s] = @ - 1]
      /\ slot' = [slot EXCEPT ![t] = s]
      /\ head' = [head EXCEPT ![t] = free_head]
      /\ pc' = [pc EXCEPT ![t] = "link"]
      /\ UNCHANGED <<free_head, next, link>>
  BY DEF FreeBegin, Goto
<1>2. FreeSlots' = FreeSlots
  BY <1>1, FreeSlotsFacts
<1>3. out[s] = 1 /\ s \notin FreeSlots /\ slot[t] \notin Slots
      /\ \A v \in Threads : slot[v] # s
  <2>1. out[s] = 1
    BY <1>1 DEF FreeInv, Types
  <2> QED
    BY <1>1, <2>1 DEF FreeInv, Places, Relies
<1>4. /\ out'[s] = 0 /\ (\A x \in Slots : x # s => out'[x] = out[x])
      /\ out' \in [Slots -> {0, 1}]
      /\ slot'[t] = s /\ \A v \in Threads : v # t => slot'[v] = slot[v]
      /\ pc'[t] = "link" /\ \A v \in Threads : v # t => pc'[v] = pc[v]
      /\ \A v \in Threads : v # t => head'[v] = head[v]
  BY <1>1, <1>3 DEF FreeInv, Types
<1>5. Types'
  BY <1>1, <1>4, NilNotSlot DEF FreeInv, Types
<1>6. Places'
  <2>1. \A x \in FreeSlots' : out'[x] = 0 /\ \A v \in Threads : slot'[v] # x
    <3>1. \A x \in FreeSlots : x \in Slots
      BY ListFacts, FreeSlotsFacts DEF FreeInv
    <3> QED
      BY <1>2, <1>3, <1>4, <3>1 DEF FreeInv, Places
  <2>2. \A x \in Slots : out'[x] = 1 => \A v \in Threads : slot'[v] # x
    BY <1>4 DEF FreeInv, Places
  <2>3. \A x \in Slots : x \in FreeSlots' \/ out'[x] = 1
                         \/ \E v \in Threads : slot'[v] = x
    <3> SUFFICES ASSUME NEW x \in Slots, x # s, x \notin FreeSlots, out[x] # 1
                 PROVE  \E v \in Threads : slot'[v] = x
      BY <1>2, <1>4
    <3>1. PICK v \in Threads : slot[v] = x
      BY DEF FreeInv, Places
    <3> QED
      BY <1>3, <1>4, <3>1
  <2>4. \A v, w \in Threads : (slot'[v] = slot'[w] /\ slot'[v] \in Slots) => v = w
    BY <1>3, <1>4 DEF FreeInv, Places
  <2> QED
    BY <2>1, <2>2, <2>3, <2>4 DEF Places
<1>7. ASSUME NEW v \in Threads
      PROVE  Relies(v)'
  <2>1. CASE v = t
    BY <1>4, <2>1 DEF Relies
  <2>2. CASE v # t
    BY <1>1, <1>2, <1>4, <2>2 DEF FreeInv, Relies
  <2> QED
    BY <2>1, <2>2
<1>8. IsList(free_head', next')
  BY <1>1 DEF FreeInv
<1> QED
  BY <1>2, <1>5, <1>6, <1>7, <1>8 DEF FreeInv

(* free links its slot, which is in no list, to the head it read.          *)
LEMMA FreeLinkStep ==
  ASSUME FreeInv, NEW t \in Threads, FreeLink(t)
  PROVE  FreeInv' /\ FreeSlots' = FreeSlots
<1> DEFINE s == slot[t]
<1>1. /\ pc[t] = "link" /\ next' = [next EXCEPT ![s] = head[t]]
      /\ pc' = [pc EXCEPT ![t] = "put"]
      /\ UNCHANGED <<free_head, head, link, slot, out>>
  BY DEF FreeLink, Goto
<1>2. s \in Slots /\ s \notin FreeSlots
      /\ \A v \in Threads : v # t => slot[v] # s
  BY <1>1 DEF FreeInv, Relies, Places
<1>3. FreeSlots' = FreeSlots /\ IsList(free_head', next')
  <2>1. next \in [Slots -> SlotOrNil] /\ IsList(free_head, next)
    BY DEF FreeInv, Types
  <2>2. /\ IsList(free_head, [next EXCEPT ![s] = head[t]])
        /\ ElemsOf(free_head, [next EXCEPT ![s] = head[t]]) = ElemsOf(free_head, next)
    <3> HIDE DEF s
    <3> QED
      BY <1>2, <2>1, WriteOffList, FreeSlotsFacts
  <2> QED
    BY <1>1, <2>2, FreeSlotsFacts
<1> HIDE DEF s
<1>4. /\ next'[s] = head[t] /\ \A x \in Slots : x # s => next'[x] = next[x]
      /\ pc'[t] = "put" /\ \A v \in Threads : v # t => pc'[v] = pc[v]
  BY <1>1, <1>2 DEF FreeInv, Types
<1>5. Types'
  BY <1>1, <1>2 DEF FreeInv, Types
<1>6. Places'
  BY <1>1, <1>3 DEF FreeInv, Places
<1>7. ASSUME NEW v \in Threads
      PROVE  Relies(v)'
  <2>1. CASE v = t
    BY <1>1, <1>2, <1>4, <2>1 DEF Relies, s
  <2>2. CASE v # t
    <3>1. pc[v] = "take" => head[v] \in Slots /\ head[v] # s
      BY <1>2, ListFacts, FreeSlotsFacts DEF FreeInv, Relies
    <3>2. pc[v] = "put" => slot[v] \in Slots /\ slot[v] # s
      BY <1>2, <2>2 DEF FreeInv, Relies
    <3>3. Relies(v)
      BY DEF FreeInv
    <3> QED
      BY <1>1, <1>3, <1>4, <2>2, <3>1, <3>2, <3>3 DEF Relies
  <2> QED
    BY <2>1, <2>2
<1> QED
  BY <1>3, <1>5, <1>6, <1>7 DEF FreeInv

(* free makes its slot the head.                                           *)
LEMMA FreePutStep ==
  ASSUME FreeInv, NEW t \in Threads, FreePut(t)
  PROVE  FreeInv' /\ \E s \in Slots \ FreeSlots : FreeSlots' = FreeSlots \cup {s}
<1> DEFINE s == slot[t]
<1>1. /\ pc[t] = "put" /\ free_head = head[t] /\ free_head' = s
      /\ slot' = [slot EXCEPT ![t] = NIL]
      /\ pc' = [pc EXCEPT ![t] = "idle"]
      /\ UNCHANGED <<next, head, link, out>>
  BY DEF FreePut, Goto
<1>2. /\ s \in Slots /\ s \notin FreeSlots /\ out[s] = 0
      /\ next[s] = free_head
      /\ \A v \in Threads : v # t => slot[v] # s
  <2>1. s \in Slots /\ next[s] = free_head /\ s \notin FreeSlots
        /\ \A v \in Threads : v # t => slot[v] # s
    BY <1>1 DEF FreeInv, Relies, Places
  <2>2. out[s] # 1
    BY <2>1 DEF FreeInv, Places
  <2> QED
    BY <2>1, <2>2 DEF FreeInv, Types
<1>3. /\ slot'[t] = NIL /\ \A v \in Threads : v # t => slot'[v] = slot[v]
      /\ pc'[t] = "idle" /\ \A v \in Threads : v # t => pc'[v] = pc[v]
  BY <1>1 DEF FreeInv, Types
<1>4. slot[t] = s
  OBVIOUS
<1> HIDE DEF s
<1>5. FreeSlots' = FreeSlots \cup {s} /\ IsList(free_head', next')
  <2>1. IsList(free_head, next) /\ s \notin ElemsOf(free_head, next)
    BY <1>2, FreeSlotsFacts DEF FreeInv
  <2>2. IsList(s, next) /\ ElemsOf(s, next) = ElemsOf(free_head, next) \cup {s}
    BY <1>2, <2>1, PushOnList
  <2> QED
    BY <1>1, <2>2, FreeSlotsFacts
<1>6. Types'
  BY <1>1, <1>2, NilNotSlot DEF FreeInv, Types
<1>7. Places'
  <2>1. \A x \in FreeSlots' : out'[x] = 0 /\ \A v \in Threads : slot'[v] # x
    <3>1. \A x \in FreeSlots' : x \in Slots
      BY <1>2, <1>5, ListFacts, FreeSlotsFacts DEF FreeInv
    <3> QED
      BY <1>1, <1>2, <1>3, <1>5, <3>1, NilNotSlot DEF FreeInv, Places
  <2>2. \A x \in Slots : out'[x] = 1 => \A v \in Threads : slot'[v] # x
    BY <1>1, <1>3, NilNotSlot DEF FreeInv, Places
  <2>3. \A x \in Slots : x \in FreeSlots' \/ out'[x] = 1
                         \/ \E v \in Threads : slot'[v] = x
    <3> SUFFICES ASSUME NEW x \in Slots, x # s, x \notin FreeSlots, out[x] # 1
                 PROVE  \E v \in Threads : slot'[v] = x
      BY <1>1, <1>5
    <3>1. PICK v \in Threads : slot[v] = x
      BY DEF FreeInv, Places
    <3> QED
      BY <1>3, <1>4, <3>1
  <2>4. \A v, w \in Threads : (slot'[v] = slot'[w] /\ slot'[v] \in Slots) => v = w
    BY <1>3, NilNotSlot DEF FreeInv, Places
  <2> QED
    BY <2>1, <2>2, <2>3, <2>4 DEF Places
<1>8. ASSUME NEW v \in Threads
      PROVE  Relies(v)'
  <2>1. CASE v = t
    BY <1>3, <2>1, NilNotSlot DEF Relies
  <2>2. CASE v # t
    BY <1>1, <1>3, <1>5, <2>2 DEF FreeInv, Relies
  <2> QED
    BY <2>1, <2>2
<1> QED
  BY <1>2, <1>5, <1>6, <1>7, <1>8 DEF FreeInv

(* free has to try again, with the new head.                               *)
LEMMA FreeRetryStep ==
  ASSUME FreeInv, NEW t \in Threads, FreeRetry(t)
  PROVE  FreeInv' /\ FreeSlots' = FreeSlots
<1>1. /\ pc[t] = "put" /\ head' = [head EXCEPT ![t] = free_head]
      /\ pc' = [pc EXCEPT ![t] = "link"]
      /\ UNCHANGED <<free_head, next, link, slot, out>>
  BY DEF FreeRetry, Goto
<1>2. FreeSlots' = FreeSlots
  BY <1>1, FreeSlotsFacts
<1>3. Types' /\ IsList(free_head', next') /\ Places'
  BY <1>1, <1>2 DEF FreeInv, Types, Places
<1>4. /\ pc'[t] = "link"
      /\ \A v \in Threads : v # t => pc'[v] = pc[v] /\ head'[v] = head[v]
  BY <1>1 DEF FreeInv, Types
<1>5. ASSUME NEW v \in Threads
      PROVE  Relies(v)'
  <2>1. CASE v = t
    BY <1>1, <1>4, <2>1 DEF FreeInv, Relies
  <2>2. CASE v # t
    BY <1>1, <1>2, <1>4, <2>2 DEF FreeInv, Relies
  <2> QED
    BY <2>1, <2>2
<1> QED
  BY <1>2, <1>3, <1>5 DEF FreeInv

(* Every step keeps the invariant, and takes a slot from the list, adds    *)
(* one, or leaves them as they are.                                        *)
LEMMA FreeStep ==
  ASSUME OneAllocator, FreeInv, [Next]_vars
  PROVE  /\ FreeInv'
         /\ \/ \E s \in FreeSlots : FreeSlots' = FreeSlots \ {s}
            \/ \E s \in Slots \ FreeSlots : FreeSlots' = FreeSlots \cup {s}
            \/ FreeSlots' = FreeSlots
<1>1. CASE Next
  <2>1. PICK t \in Threads :
          \/ AllocBegin(t) \/ AllocNext(t) \/ AllocTake(t) \/ AllocRetry(t)
          \/ \E s \in Slots : FreeBegin(t, s)
          \/ FreeLink(t) \/ FreePut(t) \/ FreeRetry(t)
    BY <1>1 DEF Next
  <2> QED
    BY <2>1, AllocLoadStep, AllocNextStep, AllocTakeStep, FreeBeginStep,
       FreeLinkStep, FreePutStep, FreeRetryStep
<1>2. CASE UNCHANGED vars
  <2>1. FreeSlots' = FreeSlots
    BY <1>2, FreeSlotsFacts DEF vars
  <2>2. FreeInv'
    BY <1>2, <2>1 DEF vars, FreeInv, Types, Places, Relies
  <2> QED
    BY <2>1, <2>2
<1> QED
  BY <1>1, <1>2

(* The list holds together however the frees race with each other and with *)
(* the one allocator: what a thread read of it is still so when its CAS    *)
(* succeeds.                                                               *)
THEOREM FreelistInvariant ==
  ASSUME OneAllocator
  PROVE  Spec => []FreeInv
<1>1. Init => FreeInv
  BY FreeInit
<1>2. FreeInv /\ [Next]_vars => FreeInv'
  BY FreeStep
<1> QED
  BY <1>1, <1>2, PTL DEF Spec

(* A thread only follows links of slots, and only a free has a slot to put *)
(* back.                                                                   *)
THEOREM FreelistTyped ==
  ASSUME OneAllocator
  PROVE  Spec => []TypeOK
<1>1. FreeInv => TypeOK
  <2> SUFFICES ASSUME FreeInv PROVE TypeOK
    OBVIOUS
  <2>1. FreeSlots \subseteq Slots
    BY FreeSlotsFacts, ListFacts DEF FreeInv
  <2>2. ASSUME NEW t \in Threads
        PROVE  /\ pc[t] \in {"next", "take"} => head[t] \in Slots
               /\ pc[t] \in {"link", "put"} <=> slot[t] \in Slots
    BY <2>1 DEF FreeInv, Relies
  <2> QED
    BY <2>2 DEF FreeInv, Types, TypeOK, SlotOrNil
<1> QED
  BY <1>1, FreelistInvariant, PTL

(* A slot that no thread frees, and one that a single thread frees.        *)
LEMMA FreeingCount ==
  ASSUME Places, NEW s \in Slots
  PROVE  Cardinality(Freeing(s)) = IF \E t \in Threads : slot[t] = s THEN 1 ELSE 0
<1>1. CASE \E t \in Threads : slot[t] = s
  <2>1. PICK t \in Threads : slot[t] = s
    BY <1>1
  <2>2. Freeing(s) = {t}
    BY <2>1 DEF Freeing, Places
  <2>3. Cardinality({t}) = 1
    BY FS_Singleton
  <2> QED
    BY <1>1, <2>2, <2>3
<1>2. CASE ~\E t \in Threads : slot[t] = s
  <2>1. Freeing(s) = {}
    BY <1>2 DEF Freeing
  <2>2. Cardinality({}) = 0
    BY FS_EmptySet
  <2> QED
    BY <1>2, <2>1, <2>2
<1> QED
  BY <1>1, <1>2

(* Every slot is in exactly one place: nothing is given out twice and      *)
(* nothing leaks, whatever the capacity and the number of threads freeing. *)
THEOREM FreelistOnePlace ==
  ASSUME OneAllocator
  PROVE  Spec => []OnePlace
<1>1. FreeInv => OnePlace
  <2> SUFFICES ASSUME FreeInv PROVE OnePlace
    OBVIOUS
  <2>1. Listed[Capacity] = NIL
    <3>1. PICK n, l : Chain(free_head, next, n, l)
      BY DEF FreeInv, IsList
    <3>2. ListOf(free_head, next)[Capacity] = NIL
      BY <3>1, ChainIsList
    <3> QED
      BY <3>2 DEF Listed, ListOf
  <2>2. ASSUME NEW s \in Slots
        PROVE  (IF s \in FreeSlots THEN 1 ELSE 0) + out[s] + Cardinality(Freeing(s)) = 1
    <3>1. Cardinality(Freeing(s)) = IF \E t \in Threads : slot[t] = s THEN 1 ELSE 0
      BY FreeingCount DEF FreeInv
    <3>2. /\ out[s] \in {0, 1}
          /\ s \in FreeSlots => out[s] = 0 /\ ~\E t \in Threads : slot[t] = s
          /\ out[s] = 1 => ~\E t \in Threads : slot[t] = s
          /\ s \in FreeSlots \/ out[s] = 1 \/ \E t \in Threads : slot[t] = s
      BY DEF FreeInv, Types, Places
    <3> DEFINE card == Cardinality(Freeing(s))
               busy == \E t \in Threads : slot[t] = s
    <3>3. card = (IF busy THEN 1 ELSE 0)
      BY <3>1
    <3>4. CASE s \in FreeSlots
      <4>1. out[s] = 0 /\ card = 0
        BY <3>2, <3>3, <3>4
      <4> HIDE DEF card
      <4>2. (IF s \in FreeSlots THEN 1 ELSE 0) + out[s] + card = 1
        BY <3>4, <4>1
      <4> QED
        BY <4>2 DEF card
    <3>5. CASE s \notin FreeSlots /\ out[s] = 1
      <4>1. card = 0
        BY <3>2, <3>3, <3>5
      <4> HIDE DEF card
      <4>2. (IF s \in FreeSlots THEN 1 ELSE 0) + out[s] + card = 1
        BY <3>5, <4>1
      <4> QED
        BY <4>2 DEF card
    <3>6. CASE s \notin FreeSlots /\ out[s] = 0
      <4>1. card = 1
        BY <3>2, <3>3, <3>6
      <4> HIDE DEF card
      <4>2. (IF s \in FreeSlots THEN 1 ELSE 0) + out[s] + card = 1
        BY <3>6, <4>1
      <4> QED
        BY <4>2 DEF card
    <3> QED
      BY <3>2, <3>4, <3>5, <3>6
  <2> QED
    BY <2>1, <2>2 DEF OnePlace
<1> QED
  BY <1>1, FreelistInvariant, PTL

(* The slots out of the list are the pool's blocks in hand, before a step  *)
(* and after.                                                              *)
LEMMA HeldSlots ==
  /\ FreeInv => {s \in Slots : out[s] > 0 \/ Freeing(s) # {}} = Slots \ FreeSlots
  /\ FreeInv' => {s \in Slots : out'[s] > 0 \/ Freeing(s)' # {}} = Slots \ FreeSlots'
<1>1. ASSUME NEW o, NEW f, NEW sl,
             \A s \in Slots : o[s] \in {0, 1},
             \A s \in f : o[s] = 0 /\ \A t \in Threads : sl[t] # s,
             \A s \in Slots : s \in f \/ o[s] = 1 \/ \E t \in Threads : sl[t] = s
      PROVE  {s \in Slots : o[s] > 0 \/ {t \in Threads : sl[t] = s} # {}} = Slots \ f
  <2>1. ASSUME NEW s \in Slots
        PROVE  (o[s] > 0 \/ {t \in Threads : sl[t] = s} # {}) <=> s \notin f
    <3>1. o[s] > 0 <=> o[s] = 1
      BY <1>1
    <3>2. {t \in Threads : sl[t] = s} # {} <=> \E t \in Threads : sl[t] = s
      OBVIOUS
    <3> QED
      BY <1>1, <3>1, <3>2
  <2> QED
    BY <2>1
<1>2. FreeInv => {s \in Slots : out[s] > 0 \/ Freeing(s) # {}} = Slots \ FreeSlots
  <2> SUFFICES ASSUME FreeInv
               PROVE  {s \in Slots : out[s] > 0 \/ Freeing(s) # {}} = Slots \ FreeSlots
    OBVIOUS
  <2>1. /\ \A s \in Slots : out[s] \in {0, 1}
        /\ \A s \in FreeSlots : out[s] = 0 /\ \A t \in Threads : slot[t] # s
        /\ \A s \in Slots : s \in FreeSlots \/ out[s] = 1 \/ \E t \in Threads : slot[t] = s
    BY DEF FreeInv, Types, Places
  <2> QED
    BY <1>1, <2>1 DEF Freeing
<1>3. FreeInv' => {s \in Slots : out'[s] > 0 \/ Freeing(s)' # {}} = Slots \ FreeSlots'
  <2> SUFFICES ASSUME FreeInv'
               PROVE  {s \in Slots : out'[s] > 0 \/ Freeing(s)' # {}} = Slots \ FreeSlots'
    OBVIOUS
  <2>1. /\ \A s \in Slots : out'[s] \in {0, 1}
        /\ \A s \in FreeSlots' : out'[s] = 0 /\ \A t \in Threads : slot'[t] # s
        /\ \A s \in Slots : s \in FreeSlots' \/ out'[s] = 1 \/ \E t \in Threads : slot'[t] = s
    BY DEF FreeInv, Types, Places
  <2> QED
    BY <1>1, <2>1 DEF Freeing
<1> QED
  BY <1>2, <1>3

(* The lock-free list is a pool: a successful alloc takes one free block,  *)
(* a finished free puts one back, and every other step changes neither.    *)
THEOREM FreelistIsPool ==
  ASSUME OneAllocator
  PROVE  Spec => PoolSpec
<1> DEFINE inHand == {s \in Slots : out[s] > 0 \/ Freeing(s) # {}}
<1>1. Init => Abstract!Init
  <2> SUFFICES ASSUME Init PROVE FreeSlots = Slots /\ inHand = {}
    BY DEF Abstract!Init
  <2>1. FreeSlots = Slots /\ inHand = Slots \ FreeSlots
    BY FreeInit, HeldSlots
  <2> QED
    BY <2>1
<1>2. FreeInv /\ [Next]_vars => [Abstract!Alloc \/ Abstract!Free]_Abstract!vars
  <2> SUFFICES ASSUME FreeInv, [Next]_vars
               PROVE  [Abstract!Alloc \/ Abstract!Free]_Abstract!vars
    OBVIOUS
  <2>1. FreeInv' /\ FreeSlots \subseteq Slots
    BY FreeStep, FreeSlotsFacts, ListFacts DEF FreeInv
  <2>2. inHand = Slots \ FreeSlots
    BY HeldSlots
  <2>3. inHand' = Slots \ FreeSlots'
    BY <2>1, HeldSlots
  <2> HIDE DEF inHand
  <2>4. ASSUME NEW s \in FreeSlots, FreeSlots' = FreeSlots \ {s}
        PROVE  Abstract!Alloc
    <3>1. inHand' = inHand \cup {s}
      BY <2>1, <2>2, <2>3, <2>4
    <3> QED
      BY <2>4, <3>1 DEF Abstract!Alloc, inHand
  <2>5. ASSUME NEW s \in Slots \ FreeSlots, FreeSlots' = FreeSlots \cup {s}
        PROVE  Abstract!Free
    <3>1. inHand' = inHand \ {s} /\ s \in inHand
      BY <2>1, <2>2, <2>3, <2>5
    <3> QED
      BY <2>5, <3>1 DEF Abstract!Free, inHand
  <2>6. ASSUME FreeSlots' = FreeSlots
        PROVE  UNCHANGED Abstract!vars
    <3>1. inHand' = inHand
      BY <2>2, <2>3, <2>6
    <3> QED
      BY <2>6, <3>1 DEF Abstract!vars, inHand
  <2> QED
    BY <2>4, <2>5, <2>6, FreeStep
<1> QED
  BY <1>1, <1>2, FreelistInvariant, PTL DEF Spec, PoolSpec, Abstract!Spec
=============================================================================
