------------------------------- MODULE Facts -------------------------------
(***************************************************************************)
(* Facts the proofs share: remainders, for indices that wrap or are        *)
(* masked; least elements; sets counted through a function.                *)
(***************************************************************************)
EXTENDS Integers, FiniteSetsExt, FiniteSetTheorems, FunctionTheorems, TLAPS

-----------------------------------------------------------------------------
(* Remainders.                                                             *)

(* Division with remainder.                                                *)
LEMMA DivMod ==
  ASSUME NEW M \in Nat \ {0}, NEW n \in Int
  PROVE  /\ \E q \in Int : n = M * q + (n % M)
         /\ n % M \in 0 .. M - 1
<1>1. n % M \in 0 .. M - 1
  BY Z3
<1>2. n \div M \in Int /\ n = M * (n \div M) + (n % M)
  BY Z3
<1> QED
  BY <1>1, <1>2

(* The remainder is the only one in range.                                 *)
LEMMA ModUnique ==
  ASSUME NEW M \in Nat \ {0}, NEW q \in Int, NEW r \in 0 .. M - 1
  PROVE  (M * q + r) % M = r
  OBVIOUS

(* A multiple of the modulus does not change the remainder.                *)
LEMMA ModCong ==
  ASSUME NEW M \in Nat \ {0}, NEW a \in Int, NEW b \in Int, NEW k \in Int,
         a = b + (M * k)
  PROVE  a % M = b % M
<1>1. PICK q \in Int : b = M * q + (b % M)
  BY DivMod
<1>2. b % M \in 0 .. M - 1
  BY DivMod
<1>3. q + k \in Int /\ a = M * (q + k) + (b % M)
  BY <1>1, <1>2
<1> QED
  BY <1>2, <1>3, ModUnique

(* Incrementing a wrapped index.                                           *)
LEMMA ModInc ==
  ASSUME NEW M \in Nat \ {0}, NEW n \in Int
  PROVE  ((n % M) + 1) % M = (n + 1) % M
<1>1. PICK q \in Int : n = M * q + (n % M)
  BY DivMod
<1>2. n % M \in Int
  BY DivMod
<1> DEFINE a == (n % M) + 1
           b == n + 1
           k == -q
<1>3. a \in Int /\ b \in Int /\ k \in Int /\ a = b + (M * k)
  BY <1>1, <1>2
<1> HIDE DEF a, b, k
<1>4. a % M = b % M
  BY <1>3, ModCong
<1> QED
  BY <1>4 DEF a, b

(* The modular difference of two wrapped indices less than M apart is      *)
(* their true difference.                                                  *)
LEMMA ModDistance ==
  ASSUME NEW M \in Nat \ {0}, NEW a \in Int, NEW b \in Int,
         a - b \in 0 .. M - 1
  PROVE  ((a % M) - (b % M)) % M = a - b
<1> DEFINE am == a % M
           bm == b % M
<1>1. PICK q \in Int : a = M * q + am
  BY DivMod
<1>2. PICK p \in Int : b = M * p + bm
  BY DivMod
<1>3. am \in Int /\ bm \in Int
  BY DivMod
<1> HIDE DEF am, bm
<1> DEFINE k == p - q
           r == a - b
           d == am - bm
<1>4. k \in Int /\ M * k = (M * p) - (M * q)
  OBVIOUS
<1> HIDE DEF k
<1>5. r \in 0 .. M - 1 /\ d = M * k + r
  BY <1>1, <1>2, <1>3, <1>4
<1> HIDE DEF r, d
<1>6. d % M = r
  BY <1>4, <1>5, ModUnique
<1> QED
  BY <1>6 DEF r, d, am, bm

(* Masking a wrapped index masks the unwrapped one, when the number of     *)
(* slots divides the modulus.                                              *)
LEMMA ModNested ==
  ASSUME NEW C \in Nat \ {0}, NEW j \in Nat \ {0}, NEW n \in Int, NEW i \in Int
  PROVE  ((n % (j * C)) + i) % C = (n + i) % C
<1> DEFINE M == j * C
<1>0. M \in Nat \ {0}
  OBVIOUS
<1> HIDE DEF M
<1>1. PICK q \in Int : n = M * q + (n % M)
  BY <1>0, DivMod
<1>2. n % M \in Int
  BY <1>0, DivMod
<1> DEFINE k == -(j * q)
           a == (n % M) + i
           b == n + i
<1>3. k \in Int /\ C * k = -(M * q)
  BY DEF M
<1>4. a \in Int /\ b \in Int /\ a = b + (C * k)
  <2> HIDE DEF k
  <2> QED
    BY <1>0, <1>1, <1>2, <1>3
<1> HIDE DEF k, a, b
<1>5. a % C = b % C
  BY <1>3, <1>4, ModCong
<1> QED
  BY <1>5 DEF a, b, M

(* Two congruent numbers less than the modulus apart.                      *)
LEMMA ModGap ==
  ASSUME NEW C \in Nat \ {0}, NEW a \in Int, NEW b \in Int,
         a % C = b % C, a < b + C
  PROVE  a <= b
<1>1. PICK q \in Int : a = C * q + (a % C)
  BY DivMod
<1>2. PICK p \in Int : b = C * p + (b % C)
  BY DivMod
<1>3. a % C \in Int
  BY DivMod
<1>4. q - p \in Int /\ a - b = C * (q - p)
  BY <1>1, <1>2, <1>3
<1>5. CASE q - p <= 0
  BY <1>4, <1>5
<1>6. CASE q - p >= 1
  <2>1. C * (q - p) >= C
    BY <1>4, <1>6
  <2> QED
    BY <2>1, <1>4
<1> QED
  BY <1>4, <1>5, <1>6

(* The smaller of two different congruent numbers is a modulus away.       *)
LEMMA ModGapStrict ==
  ASSUME NEW C \in Nat \ {0}, NEW a \in Int, NEW b \in Int,
         a % C = b % C, a < b
  PROVE  a <= b - C
<1> DEFINE c == b - C
<1>1. c \in Int /\ -1 \in Int /\ c = b + (C * (-1)) /\ a < c + C
  OBVIOUS
<1> HIDE DEF c
<1>2. c % C = b % C
  BY <1>1, ModCong
<1>3. a <= c
  BY <1>1, <1>2, ModGap
<1> QED
  BY <1>3 DEF c

(* A factor with an inverse can be cancelled.                              *)
LEMMA ModCancel ==
  ASSUME NEW P \in Nat \ {0}, NEW s \in Int, NEW u \in Int, (u * s) % P = 1,
         NEW d \in 0 .. P - 1, (d * s) % P = 0
  PROVE  d = 0
<1> DEFINE a == u * s
           b == d * s
<1>0. a \in Int /\ b \in Int /\ d \in Int
  OBVIOUS
<1>1. PICK q \in Int : a = P * q + 1
  <2>1. a % P = 1
    OBVIOUS
  <2> HIDE DEF a
  <2>2. \E q \in Int : a = P * q + (a % P)
    BY <1>0, DivMod
  <2> QED
    BY <2>1, <2>2
<1>2. PICK r \in Int : b = P * r
  <2>1. b % P = 0
    OBVIOUS
  <2> HIDE DEF b
  <2>2. PICK r \in Int : b = P * r + (b % P)
    BY <1>0, DivMod
  <2>3. P * r + 0 = P * r
    BY <1>0, <2>2
  <2> QED
    BY <2>1, <2>2, <2>3
<1>3. d * (P * q + 1) = u * (P * r)
  <2>1. d * (u * s) = u * (d * s)
    BY <1>0
  <2> QED
    BY <1>1, <1>2, <2>1
<1> DEFINE m == u * r - d * q
<1>4. m \in Int /\ d = P * m
  <2>1. u * (P * r) = P * (u * r) /\ d * (P * q + 1) = P * (d * q) + d
    BY <1>0, <1>1, <1>2
  <2>2. u * r \in Int /\ d * q \in Int
    BY <1>0, <1>1, <1>2
  <2>3. P * (u * r - d * q) = P * (u * r) - P * (d * q)
    BY <2>2
  <2>4. P * (u * r) \in Int /\ P * (d * q) \in Int
    BY <2>2
  <2> QED
    BY <1>0, <1>3, <2>1, <2>2, <2>3, <2>4
<1> HIDE DEF m
<1>5. m <= 0
  <2>1. m >= 1 => P * m >= P
    BY <1>4
  <2> QED
    BY <1>0, <1>4, <2>1
<1>6. m >= 0
  <2>1. m <= -1 => P * m <= -P
    BY <1>4
  <2> QED
    BY <1>0, <1>4, <2>1
<1> QED
  BY <1>4, <1>5, <1>6

-----------------------------------------------------------------------------
(* Least elements and counting.                                            *)

(* A non-empty set of naturals has a least element.                        *)
LEMMA LeastNatural ==
  ASSUME NEW A, A \subseteq Nat, A # {}
  PROVE  \E n \in A : \A m \in A : n <= m
<1> DEFINE Below(n) == 0 .. n - 1
           T == {Below(n) : n \in A}
<1>1. T \subseteq FiniteSubsetsOf(Nat) /\ T # {}
  <2>1. ASSUME NEW n \in A
        PROVE  Below(n) \in SUBSET Nat /\ IsFiniteSet(Below(n))
    BY FS_Interval
  <2> QED
    BY <2>1 DEF FiniteSubsetsOf
<1>2. IsWellFoundedOn(StrictSubsetOrdering(Nat), FiniteSubsetsOf(Nat))
  BY FS_StrictSubsetOrderingWellFounded
<1>3. PICK x \in T : \A y \in T : <<y, x>> \notin StrictSubsetOrdering(Nat)
  <2> HIDE DEF T
  <2> QED
    BY <1>1, <1>2, WFMin
<1>4. PICK n \in A : x = Below(n)
  BY <1>3
<1>5. ASSUME NEW m \in A, m < n
      PROVE  FALSE
  <2>1. Below(m) \subseteq Below(n) /\ Below(m) # Below(n)
    <3>1. m \in Below(n) /\ m \notin Below(m)
      BY <1>5
    <3> QED
      BY <3>1, <1>5
  <2>2. <<Below(m), x>> \in StrictSubsetOrdering(Nat)
    BY <1>4, <2>1 DEF StrictSubsetOrdering
  <2> QED
    BY <1>3, <2>2
<1> QED
  BY <1>5

(* Induction, for a property given as a set.                               *)
LEMMA InductionOnSet ==
  ASSUME NEW S, 0 \in S, \A n \in Nat : n \in S => n + 1 \in S
  PROVE  Nat \subseteq S
<1> SUFFICES ASSUME Nat \ S # {}
             PROVE  FALSE
  OBVIOUS
<1>1. PICK n \in Nat \ S : \A m \in Nat \ S : n <= m
  BY LeastNatural
<1>2. n # 0 /\ n - 1 \in Nat /\ ~(n <= n - 1)
  BY <1>1
<1> QED
  BY <1>1, <1>2

(* Min, of naturals.                                                       *)
LEMMA MinIsLeast ==
  ASSUME NEW A, A \subseteq Nat, A # {}
  PROVE  Min(A) \in A /\ \A m \in A : Min(A) <= m
BY LeastNatural DEF Min

(* Max, of naturals with a bound.                                          *)
LEMMA MaxIsGreatest ==
  ASSUME NEW N \in Nat, NEW A, A \subseteq 0 .. N, A # {}
  PROVE  Max(A) \in A /\ \A m \in A : m <= Max(A)
<1> DEFINE B == {N - a : a \in A}
<1>1. B \subseteq Nat /\ B # {}
  OBVIOUS
<1>2. PICK n \in B : \A m \in B : n <= m
  <2> HIDE DEF B
  <2> QED
    BY <1>1, LeastNatural
<1>3. PICK a \in A : n = N - a
  OBVIOUS
<1>4. \A m \in A : a >= m
  <2> SUFFICES ASSUME NEW m \in A PROVE a >= m
    OBVIOUS
  <2>1. n <= N - m
    BY <1>2
  <2>2. 0 .. N \subseteq Int
    OBVIOUS
  <2>3. a \in Int /\ m \in Int
    BY <2>2
  <2> QED
    BY <1>3, <2>1, <2>3
<1>5. \E x \in A : \A y \in A : x >= y
  BY <1>4
<1> QED
  BY <1>5 DEF Max

(* As many values as arguments, where no two arguments share one.          *)
LEMMA InjectiveImage ==
  ASSUME NEW S, IsFiniteSet(S), NEW f,
         \A x, y \in S : f[x] = f[y] => x = y
  PROVE  LET T == {f[x] : x \in S}
         IN  IsFiniteSet(T) /\ Cardinality(T) = Cardinality(S)
<1> DEFINE T == {f[x] : x \in S}
           g == [x \in S |-> f[x]]
<1>1. g \in Bijection(S, T)
  BY Fun_IsBij
<1>2. ExistsBijection(S, T)
  BY <1>1, Fun_ExistsBij
<1> QED
  BY <1>2, FS_Bijection

(* What is least is the minimum.                                           *)
LEMMA LeastIs ==
  ASSUME NEW A, A \subseteq Int, NEW x \in A, \A y \in A : x <= y
  PROVE  Min(A) = x
<1>1. Min(A) \in A /\ \A y \in A : Min(A) <= y
  BY DEF Min
<1> DEFINE m == Min(A)
<1> HIDE DEF m
<1>2. m \in Int /\ x \in Int /\ m <= x /\ x <= m
  BY <1>1 DEF m
<1> QED
  BY <1>2 DEF m

(* What is greatest is the maximum.                                        *)
LEMMA GreatestIs ==
  ASSUME NEW A, A \subseteq Int, NEW x \in A, \A y \in A : y <= x
  PROVE  Max(A) = x
<1>0. \A y \in A : x >= y
  OBVIOUS
<1>1. Max(A) \in A /\ \A y \in A : Max(A) >= y
  BY <1>0 DEF Max
<1> DEFINE m == Max(A)
<1> HIDE DEF m
<1>2. m \in Int /\ x \in Int /\ m >= x /\ m <= x
  BY <1>1 DEF m
<1> QED
  BY <1>2 DEF m

(* The first n numbers.                                                    *)
LEMMA FirstNumbers ==
  ASSUME NEW n \in Nat
  PROVE  IsFiniteSet(1 .. n) /\ Cardinality(1 .. n) = n
<1>1. /\ IsFiniteSet(1 .. n)
      /\ Cardinality(1 .. n) = IF 1 > n THEN 0 ELSE n - 1 + 1
  BY FS_Interval
<1> QED
  BY <1>1

(* A finite set has finitely many values.                                  *)
LEMMA FiniteImage ==
  ASSUME NEW S, IsFiniteSet(S), NEW f
  PROVE  IsFiniteSet({f[x] : x \in S})
<1> DEFINE T == {f[x] : x \in S}
           g == [x \in S |-> f[x]]
<1>1. g \in Surjection(S, T)
  BY DEF Surjection
<1> QED
  BY <1>1, FS_Surjection

(* A finite set of integers has a minimum and a maximum.                   *)
LEMMA FiniteExtremes ==
  ASSUME NEW A, A \subseteq Int, IsFiniteSet(A), A # {}
  PROVE  /\ Max(A) \in A /\ \A y \in A : Max(A) >= y
         /\ Min(A) \in A /\ \A y \in A : Min(A) <= y
<1> DEFINE Has(S) == /\ \E x \in S : \A y \in S : x >= y
                     /\ \E x \in S : \A y \in S : x <= y
           G == {n \in Nat : \A S \in SUBSET Int :
                   IsFiniteSet(S) /\ Cardinality(S) = n /\ S # {} => Has(S)}
<1>1. 0 \in G
  BY FS_EmptySet
<1>2. ASSUME NEW n \in Nat, n \in G
      PROVE  n + 1 \in G
  <2> SUFFICES ASSUME NEW S \in SUBSET Int,
                      IsFiniteSet(S), Cardinality(S) = n + 1, S # {}
               PROVE  Has(S)
    OBVIOUS
  <2>1. PICK x \in S : TRUE
    OBVIOUS
  <2> DEFINE T == S \ {x}
  <2>2. IsFiniteSet(T) /\ Cardinality(T) = n /\ T \in SUBSET Int
    <3>1. IsFiniteSet(T) /\ Cardinality(T) = Cardinality(S) - 1
      BY FS_RemoveElement
    <3>2. T \in SUBSET Int
      OBVIOUS
    <3> HIDE DEF T
    <3> QED
      BY <3>1, <3>2
  <2>3. S = T \cup {x} /\ x \in Int
    OBVIOUS
  <2> HIDE DEF T
  <2>4. CASE T = {}
    BY <2>3, <2>4
  <2>5. CASE T # {}
    <3>1. Has(T)
      BY <1>2, <2>2, <2>5
    <3>2. PICK h \in T : \A y \in T : h >= y
      BY <3>1
    <3>3. PICK l \in T : \A y \in T : l <= y
      BY <3>1
    <3>4. h \in Int /\ l \in Int /\ \A y \in T : y \in Int
      BY <2>2
    <3>5. \E z \in S : \A y \in S : z >= y
      <4>1. CASE h >= x
        BY <2>3, <3>2, <4>1
      <4>2. CASE ~(h >= x)
        <5>1. x >= x /\ \A y \in T : x >= y
          BY <2>3, <3>2, <3>4, <4>2
        <5> QED
          BY <2>3, <5>1
      <4> QED
        BY <4>1, <4>2
    <3>6. \E z \in S : \A y \in S : z <= y
      <4>1. CASE l <= x
        BY <2>3, <3>3, <4>1
      <4>2. CASE ~(l <= x)
        <5>1. x <= x /\ \A y \in T : x <= y
          BY <2>3, <3>3, <3>4, <4>2
        <5> QED
          BY <2>3, <5>1
      <4> QED
        BY <4>1, <4>2
    <3> QED
      BY <3>5, <3>6
  <2> QED
    BY <2>4, <2>5
<1> HIDE DEF Has
<1>3. Cardinality(A) \in Nat
  BY FS_CardinalityType
<1>4. Nat \subseteq G
  <2> HIDE DEF G
  <2> QED
    BY <1>1, <1>2, InductionOnSet
<1>5. Has(A)
  BY <1>3, <1>4
<1> QED
  BY <1>5 DEF Max, Min, Has
=============================================================================
