-------------------------- MODULE PoolQueue_proofs --------------------------
(***************************************************************************)
(* test/bench/slot_vs_index.c: for every ring size, every stride without a *)
(* divisor in common with the pool and any number of messages, no place of *)
(* the pool is used again before it was read.                              *)
(***************************************************************************)
EXTENDS PoolQueue, Facts

Places == 0 .. PoolSize - 1

(* What makes InFlightIntact and ReadInOrder inductive: each thread's step *)
(* tells how far the other can be, and the ring still has the indices of   *)
(* the messages in flight.                                                 *)
QueueInv ==
    /\ variant \in {"index", "scatter"}
    /\ ppc \in {"claim", "fill", "filling", "commit"}
    /\ cpc \in {"claim", "read", "end"}
    /\ sent \in 0 .. NumItems /\ taken \in 0 .. sent /\ sent - taken <= Cap
    /\ ring \in [0 .. Cap - 1 -> Places]
    /\ pool \in [Places -> 0 .. NumItems \cup {Torn}]
    /\ got \in 0 .. NumItems \cup {Torn}
    /\ ppc # "claim" => sent - taken < Cap /\ sent < NumItems
    /\ ppc = "commit" => pool[pool_index(sent)] = sent
    /\ cpc # "claim" => taken < sent
    /\ \A i \in taken .. sent - 1 : ring[i % Cap] = pool_index(i)
    /\ InFlightIntact
    /\ ReadInOrder

(* The sizes of ring and pool.                                             *)
LEMMA Sizes ==
  /\ Cap \in Nat \ {0} /\ Stride \in Nat \ {0} /\ NumItems \in Nat
  /\ PoolSize \in Nat \ {0} /\ PoolSize >= Cap
BY PoolAssumption DEF PoolSize

(* A message lives at a place of the pool, its index in a slot of the      *)
(* ring.                                                                   *)
LEMMA PlaceInPool ==
  ASSUME NEW i \in Nat, variant \in {"index", "scatter"}
  PROVE  pool_index(i) \in Places /\ i % Cap \in 0 .. Cap - 1
<1>1. i % Cap \in 0 .. Cap - 1
  BY Sizes, DivMod
<1> DEFINE m == i * Stride
<1>2. m \in Int
  BY Sizes
<1> HIDE DEF m
<1>3. m % PoolSize \in 0 .. PoolSize - 1
  BY <1>2, Sizes, DivMod
<1>4. 0 .. Cap - 1 \subseteq Places
  BY Sizes DEF Places
<1> QED
  BY <1>1, <1>3, <1>4 DEF pool_index, m, Places

(* Messages in flight together are less than Cap apart.                    *)
LEMMA SlotsApart ==
  ASSUME NEW i \in Nat, NEW j \in Nat, i < j, j < i + Cap
  PROVE  i % Cap # j % Cap
<1> SUFFICES ASSUME j % Cap = i % Cap
             PROVE  FALSE
  OBVIOUS
<1>1. Cap \in Nat \ {0} /\ i \in Int /\ j \in Int
  BY Sizes
<1>2. j <= i
  BY <1>1, ModGap
<1> QED
  BY <1>2

(* The places of a cyclic walk with that stride are all different.         *)
LEMMA StrideApart ==
  ASSUME NEW i \in Nat, NEW j \in Nat, i < j, j < i + PoolSize
  PROVE  (i * Stride) % PoolSize # (j * Stride) % PoolSize
<1> SUFFICES ASSUME (i * Stride) % PoolSize = (j * Stride) % PoolSize
             PROVE  FALSE
  OBVIOUS
<1> DEFINE a == i * Stride
           c == j * Stride
           d == j - i
           e == d * Stride
<1>1. a \in Int /\ c \in Int /\ d \in 0 .. PoolSize - 1 /\ d # 0 /\ e \in Int /\ e = c - a
  BY Sizes
<1>2. a % PoolSize = c % PoolSize
  OBVIOUS
<1> HIDE DEF a, c
<1>3. e % PoolSize = 0
  <2>1. PICK q \in Int : a = PoolSize * q + (a % PoolSize)
    BY <1>1, Sizes, DivMod
  <2>2. PICK r \in Int : c = PoolSize * r + (c % PoolSize)
    BY <1>1, Sizes, DivMod
  <2>3. a % PoolSize \in Int
    BY <1>1, Sizes, DivMod
  <2>4. e = PoolSize * (r - q) + 0
    <3>1. PoolSize * (r - q) = PoolSize * r - PoolSize * q
      BY <2>1, <2>2, Sizes
    <3>2. PoolSize * r \in Int /\ PoolSize * q \in Int
      BY <2>1, <2>2, Sizes
    <3> HIDE DEF e
    <3> QED
      BY <1>1, <1>2, <2>1, <2>2, <2>3, <3>1, <3>2
  <2>5. r - q \in Int /\ 0 \in 0 .. PoolSize - 1
    BY <2>1, <2>2, Sizes
  <2> HIDE DEF e
  <2> QED
    BY <2>4, <2>5, Sizes, ModUnique
<1>4. PICK u \in 0 .. PoolSize - 1 : (u * Stride) % PoolSize = 1
  BY StrideAssumption
<1>5. u \in Int /\ Stride \in Int /\ PoolSize \in Nat \ {0}
  BY <1>4, Sizes
<1>6. (d * Stride) % PoolSize = 0
  BY <1>3
<1> HIDE DEF d, e
<1> QED
  BY <1>1, <1>4, <1>5, <1>6, ModCancel

(* Messages in flight together are at different places.                    *)
LEMMA PlacesApart ==
  ASSUME NEW i \in Nat, NEW j \in Nat, i < j, j < i + Cap,
         variant \in {"index", "scatter"}
  PROVE  pool_index(i) # pool_index(j)
<1>1. j < i + PoolSize
  BY Sizes
<1> QED
  BY <1>1, SlotsApart, StrideApart DEF pool_index

(* With nothing sent nothing is in flight.                                 *)
LEMMA QueueInit == Init => QueueInv
<1> SUFFICES ASSUME Init
             PROVE  QueueInv
  OBVIOUS
<1>1. 0 \in Places
  BY Sizes DEF Places
<1>2. \A i : i \notin taken .. sent - 1
  BY DEF Init
<1> QED
  BY <1>1, <1>2, Sizes DEF Init, QueueInv, InFlightIntact, ReadInOrder, Places

(* A store to the place of the message that is being made leaves those in  *)
(* flight alone.                                                           *)
LEMMA FillIntact ==
  ASSUME QueueInv, ppc \in {"fill", "filling"}, NEW m \in 0 .. NumItems \cup {Torn},
         pool' = [pool EXCEPT ![pool_index(sent)] = m],
         UNCHANGED <<variant, sent, taken>>
  PROVE  /\ pool' \in [Places -> 0 .. NumItems \cup {Torn}]
         /\ pool'[pool_index(sent)] = m
         /\ InFlightIntact'
<1>1. /\ sent \in Nat /\ taken \in Nat /\ sent - taken < Cap /\ Cap \in Nat
      /\ variant \in {"index", "scatter"}
  BY Sizes DEF QueueInv
<1>2. pool_index(sent) \in Places
  BY <1>1, PlaceInPool
<1>3. pool' \in [Places -> 0 .. NumItems \cup {Torn}] /\ pool'[pool_index(sent)] = m
  BY <1>2 DEF QueueInv
<1>4. ASSUME NEW i \in taken .. sent - 1
      PROVE  pool'[pool_index(i)] = i
  <2>1. i \in Nat /\ i < sent /\ sent < i + Cap
    BY <1>1
  <2>2. pool_index(i) # pool_index(sent) /\ pool_index(i) \in Places
    BY <1>1, <2>1, PlacesApart, PlaceInPool
  <2>3. pool[pool_index(i)] = i
    BY DEF QueueInv, InFlightIntact
  <2> QED
    BY <2>2, <2>3 DEF QueueInv
<1> QED
  BY <1>3, <1>4 DEF InFlightIntact, pool_index

(* Neither thread disturbs a message in flight.                            *)
LEMMA QueueStep == QueueInv /\ [Next]_vars => QueueInv'
<1> SUFFICES ASSUME QueueInv, [Next]_vars
             PROVE  QueueInv'
  OBVIOUS
<1>0. /\ sent \in Nat /\ taken \in Nat /\ taken <= sent /\ sent <= NumItems
      /\ sent - taken <= Cap /\ Cap \in Nat \ {0} /\ NumItems \in Nat
      /\ variant \in {"index", "scatter"}
  BY Sizes DEF QueueInv
<1>1. CASE PushBegin
  BY <1>0, <1>1 DEF PushBegin, QueueInv, InFlightIntact, ReadInOrder, pool_index
<1>2. CASE FillBegin
  <2>1. /\ pool' \in [Places -> 0 .. NumItems \cup {Torn}] /\ InFlightIntact'
    BY <1>2, FillIntact DEF FillBegin
  <2> QED
    BY <1>2, <2>1 DEF FillBegin, QueueInv, ReadInOrder, pool_index
<1>3. CASE FillEnd
  <2>1. sent \in 0 .. NumItems \cup {Torn}
    BY <1>0
  <2>2. /\ pool' \in [Places -> 0 .. NumItems \cup {Torn}] /\ InFlightIntact'
        /\ pool'[pool_index(sent)] = sent
    BY <1>3, <2>1, FillIntact DEF FillEnd
  <2> QED
    BY <1>3, <2>2 DEF FillEnd, QueueInv, ReadInOrder, pool_index
<1>4. CASE PushCommit
  <2> DEFINE r == pool_index(sent)
             k == sent % Cap
  <2>1. /\ ring' = [ring EXCEPT ![k] = r] /\ sent' = sent + 1 /\ ppc' = "claim"
        /\ UNCHANGED <<variant, cpc, taken, pool, got>>
    BY <1>4 DEF PushCommit
  <2>2. sent - taken < Cap /\ sent < NumItems /\ pool[r] = sent
    BY <1>4 DEF PushCommit, QueueInv
  <2>3. r \in Places /\ k \in 0 .. Cap - 1
    BY <1>0, PlaceInPool
  <2>4. ring \in [0 .. Cap - 1 -> Places]
    BY DEF QueueInv
  <2> HIDE DEF r, k
  <2>5. ring' \in [0 .. Cap - 1 -> Places]
    BY <2>1, <2>3, <2>4
  <2>6. ASSUME NEW i \in taken .. sent
        PROVE  ring'[i % Cap] = pool_index(i) /\ pool[pool_index(i)] = i
    <3>1. CASE i = sent
      BY <2>1, <2>2, <2>3, <2>4, <3>1 DEF r, k
    <3>2. CASE i # sent
      <4>1. i \in taken .. sent - 1 /\ i \in Nat /\ i < sent /\ sent < i + Cap
        BY <1>0, <2>2, <3>2
      <4>2. i % Cap # k /\ i % Cap \in 0 .. Cap - 1
        BY <1>0, <4>1, SlotsApart, PlaceInPool DEF k
      <4>3. ring[i % Cap] = pool_index(i) /\ pool[pool_index(i)] = i
        BY <4>1 DEF QueueInv, InFlightIntact
      <4> QED
        BY <2>1, <2>3, <2>4, <4>2, <4>3
    <3> QED
      BY <3>1, <3>2
  <2>7. taken' .. sent' - 1 = taken .. sent /\ sent' \in 0 .. NumItems
        /\ taken' \in 0 .. sent' /\ sent' - taken' <= Cap
    BY <1>0, <2>1, <2>2
  <2>8. (cpc # "claim" => taken' < sent') /\ ReadInOrder'
    BY <1>0, <2>1 DEF QueueInv, ReadInOrder
  <2>9. \A i : pool_index(i)' = pool_index(i)
    BY <2>1 DEF pool_index
  <2>10. InFlightIntact' /\ \A i \in taken' .. sent' - 1 : ring'[i % Cap] = pool_index(i)'
    BY <2>1, <2>6, <2>7, <2>9 DEF InFlightIntact
  <2> QED
    BY <2>1, <2>5, <2>7, <2>8, <2>10 DEF QueueInv
<1>5. CASE PopBegin
  BY <1>5 DEF PopBegin, QueueInv, InFlightIntact, ReadInOrder, pool_index
<1>6. CASE Read
  <2>1. taken \in taken .. sent - 1 /\ taken < sent
    BY <1>0, <1>6 DEF Read, QueueInv
  <2>2. got' = taken
    BY <1>6, <2>1 DEF Read, QueueInv, InFlightIntact
  <2>3. got' \in 0 .. NumItems \cup {Torn}
    BY <1>0, <2>2
  <2> QED
    BY <1>6, <2>1, <2>2, <2>3 DEF Read, QueueInv, InFlightIntact, ReadInOrder, pool_index
<1>7. CASE PopEnd
  <2>1. taken < sent /\ taken' = taken + 1 /\ cpc' = "claim"
        /\ UNCHANGED <<variant, ppc, sent, ring, pool, got>>
    BY <1>7 DEF PopEnd, QueueInv
  <2>2. /\ taken' \in 0 .. sent /\ sent - taken' <= Cap
        /\ sent - taken < Cap => sent - taken' < Cap
        /\ taken' .. sent - 1 \subseteq taken .. sent - 1
    BY <1>0, <2>1
  <2>3. \A i : pool_index(i)' = pool_index(i)
    BY <2>1 DEF pool_index
  <2>4. InFlightIntact' /\ \A i \in taken' .. sent' - 1 : ring'[i % Cap] = pool_index(i)'
    BY <2>1, <2>2, <2>3 DEF QueueInv, InFlightIntact
  <2> QED
    BY <2>1, <2>2, <2>3, <2>4 DEF QueueInv, ReadInOrder
<1>8. CASE Joined \/ UNCHANGED vars
  BY <1>8 DEF Joined, vars, QueueInv, InFlightIntact, ReadInOrder, pool_index
<1> QED
  BY <1>1, <1>2, <1>3, <1>4, <1>5, <1>6, <1>7, <1>8 DEF Next

(* The invariant of the ring and its pool.                                 *)
THEOREM QueueInvariant == Spec => []QueueInv
BY QueueInit, QueueStep, PTL DEF Spec

(* Positions and places stay in range; the ring never holds more than Cap. *)
THEOREM QueueTyped == Spec => []TypeOK
<1>1. QueueInv => TypeOK
  BY DEF QueueInv, TypeOK, Places
<1> QED
  BY <1>1, QueueInvariant, PTL

(* No message in flight is overwritten although no place is ever marked.   *)
THEOREM QueueInFlightIntact == Spec => []InFlightIntact
<1>1. QueueInv => InFlightIntact
  BY DEF QueueInv
<1> QED
  BY <1>1, QueueInvariant, PTL

(* The consumer reads every message whole and in order.                    *)
THEOREM QueueReadsInOrder == Spec => []ReadInOrder
<1>1. QueueInv => ReadInOrder
  BY DEF QueueInv
<1> QED
  BY <1>1, QueueInvariant, PTL
=============================================================================
