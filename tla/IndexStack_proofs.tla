------------------------- MODULE IndexStack_proofs -------------------------
(***************************************************************************)
(* The stacks of include/ll/mempool_percore.h and mempool_indexstack.h are *)
(* pools, for every number of cores and every capacity.                    *)
(***************************************************************************)
EXTENDS IndexStack, Facts

(* Below top no index is there twice: the part of OnePlace that counts, in *)
(* a form that a step keeps.                                               *)
Distinct(c) == \A i, j \in 0 .. top[c] - 1 : free_idx[c][i] = free_idx[c][j] => i = j

StackInv ==
    /\ free_idx \in [Cores -> [Slots -> Slots]]
    /\ top \in [Cores -> 0 .. Capacity]
    /\ held \in [Cores -> SUBSET Slots]
    /\ \A c \in Cores : /\ Distinct(c)
                        /\ FreeSlots(c) \cap held[c] = {}
                        /\ FreeSlots(c) \cup held[c] = Slots

(* As many free slots as top says.                                         *)
LEMMA FreeCount ==
  ASSUME StackInv, NEW c \in Cores
  PROVE  IsFiniteSet(FreeSlots(c)) /\ Cardinality(FreeSlots(c)) = top[c]
<1> DEFINE S == 0 .. top[c] - 1
           f == free_idx[c]
<1>1. top[c] \in Nat
  BY StackAssumption DEF StackInv
<1>2. IsFiniteSet(S) /\ Cardinality(S) = top[c]
  <2> DEFINE m == top[c] - 1
  <2>1. m \in Int /\ 0 \in Int
    BY <1>1
  <2> HIDE DEF m
  <2>2. IsFiniteSet(0 .. m) /\ Cardinality(0 .. m) = IF 0 > m THEN 0 ELSE m - 0 + 1
    BY <2>1, FS_Interval
  <2> QED
    BY <1>1, <2>2 DEF m
<1>3. \A x, y \in S : f[x] = f[y] => x = y
  BY DEF StackInv, Distinct
<1>4. FreeSlots(c) = {f[x] : x \in S}
  BY DEF FreeSlots
<1> HIDE DEF S, f
<1>5. IsFiniteSet({f[x] : x \in S}) /\ Cardinality({f[x] : x \in S}) = Cardinality(S)
  BY <1>2, <1>3, InjectiveImage
<1> QED
  BY <1>2, <1>4, <1>5

(* While a slot is handed out, the stack has room for it.                  *)
LEMMA RoomToFree ==
  ASSUME StackInv, NEW c \in Cores, NEW s \in held[c]
  PROVE  top[c] \in 0 .. Capacity - 1
<1>1. Capacity \in Nat /\ s \in Slots /\ FreeSlots(c) \subseteq Slots \ {s}
  BY StackAssumption DEF StackInv
<1>2. IsFiniteSet(Slots) /\ Cardinality(Slots) = Capacity
  <2>1. IsFiniteSet(0 .. Capacity - 1)
        /\ Cardinality(0 .. Capacity - 1) = IF 0 > Capacity - 1 THEN 0 ELSE (Capacity - 1) - 0 + 1
    BY <1>1, FS_Interval
  <2> QED
    BY <1>1, <2>1, StackAssumption DEF Slots
<1>3. IsFiniteSet(Slots \ {s}) /\ Cardinality(Slots \ {s}) = Capacity - 1
  BY <1>1, <1>2, FS_RemoveElement
<1>4. Cardinality(FreeSlots(c)) <= Capacity - 1
  BY <1>1, <1>3, FS_Subset
<1>5. top[c] \in 0 .. Capacity /\ Cardinality(FreeSlots(c)) = top[c]
  BY FreeCount DEF StackInv
<1> QED
  BY <1>1, <1>4, <1>5

(* A full stack holds every slot once.                                     *)
LEMMA InitInv == Init => StackInv
<1> SUFFICES ASSUME Init
             PROVE  StackInv
  OBVIOUS
<1>1. Capacity \in Nat \ {0}
  BY StackAssumption
<1>2. ASSUME NEW c \in Cores
      PROVE  Distinct(c) /\ FreeSlots(c) = Slots /\ held[c] = {}
  <2>1. /\ top[c] = Capacity /\ held[c] = {}
        /\ \A i \in 0 .. Capacity - 1 : free_idx[c][i] = Capacity - 1 - i
    BY DEF Init, Slots
  <2>2. \A s \in Slots : Capacity - 1 - s \in Slots /\ s = Capacity - 1 - (Capacity - 1 - s)
    BY <1>1 DEF Slots
  <2>3. FreeSlots(c) = {Capacity - 1 - i : i \in Slots}
    BY <2>1 DEF FreeSlots, Slots
  <2>4. FreeSlots(c) = Slots
    BY <2>2, <2>3
  <2>5. Distinct(c)
    BY <1>1, <2>1 DEF Distinct
  <2> QED
    BY <2>1, <2>4, <2>5
<1>3. /\ free_idx \in [Cores -> [Slots -> Slots]]
      /\ top \in [Cores -> 0 .. Capacity] /\ held \in [Cores -> SUBSET Slots]
  BY <1>1 DEF Init, Slots
<1> QED
  BY <1>2, <1>3 DEF StackInv

(* alloc takes the slot on top, which is nowhere else.                     *)
LEMMA AllocStep ==
  ASSUME StackInv, NEW c \in Cores, Alloc(c)
  PROVE  /\ StackInv'
         /\ \E s \in FreeSlots(c) :
              /\ FreeSlots(c)' = FreeSlots(c) \ {s}
              /\ held' = [held EXCEPT ![c] = held[c] \cup {s}]
         /\ \A d \in Cores : d # c => FreeSlots(d)' = FreeSlots(d)
<1> DEFINE k == top[c] - 1
           s == free_idx[c][k]
<1>1. /\ top[c] \in 1 .. Capacity /\ k \in 0 .. Capacity - 1 /\ k \in 0 .. top[c] - 1
      /\ Capacity \in Nat /\ s \in Slots
  <2>1. Capacity \in Nat /\ top[c] \in 0 .. Capacity /\ top[c] # 0
    BY StackAssumption DEF StackInv, Alloc
  <2>2. k \in 0 .. Capacity - 1 /\ k \in 0 .. top[c] - 1 /\ top[c] \in 1 .. Capacity
    BY <2>1
  <2> HIDE DEF k
  <2> QED
    BY <2>1, <2>2 DEF StackInv, Slots
<1>2. /\ top' = [top EXCEPT ![c] = k] /\ held' = [held EXCEPT ![c] = held[c] \cup {s}]
      /\ free_idx' = free_idx
  BY DEF Alloc
<1>3. top'[c] = k /\ held'[c] = held[c] \cup {s}
  BY <1>2 DEF StackInv
<1>4. \A d \in Cores : d # c => top'[d] = top[d] /\ held'[d] = held[d]
  BY <1>2 DEF StackInv
<1>5. /\ free_idx' \in [Cores -> [Slots -> Slots]]
      /\ top' \in [Cores -> 0 .. Capacity] /\ held' \in [Cores -> SUBSET Slots]
  BY <1>1, <1>2 DEF StackInv
<1>6. \A d \in Cores : d # c => FreeSlots(d)' = FreeSlots(d)
  BY <1>2, <1>4 DEF FreeSlots
<1>7. s \in FreeSlots(c) /\ FreeSlots(c)' = FreeSlots(c) \ {s}
  <2>1. FreeSlots(c)' = {free_idx[c][i] : i \in 0 .. k - 1}
    BY <1>2, <1>3 DEF FreeSlots
  <2>2. \A i \in 0 .. top[c] - 1 : free_idx[c][i] = s => i = k
    BY <1>1 DEF StackInv, Distinct
  <2>3. \A i \in 0 .. top[c] - 1 : i \in 0 .. k - 1 \/ i = k
    BY <1>1
  <2>4. 0 .. k - 1 \subseteq 0 .. top[c] - 1 /\ k \notin 0 .. k - 1
    BY <1>1
  <2> HIDE DEF k, s
  <2>5. FreeSlots(c) = {free_idx[c][i] : i \in 0 .. top[c] - 1}
    BY DEF FreeSlots
  <2>6. s \in FreeSlots(c)
    BY <1>1, <2>5 DEF s
  <2>7. ASSUME NEW x
        PROVE  x \in FreeSlots(c)' <=> x \in FreeSlots(c) \ {s}
    BY <2>1, <2>2, <2>3, <2>4, <2>5 DEF s
  <2> QED
    BY <2>6, <2>7
<1> HIDE DEF s
<1>8. ASSUME NEW d \in Cores
      PROVE  /\ Distinct(d)'
             /\ FreeSlots(d)' \cap held'[d] = {}
             /\ FreeSlots(d)' \cup held'[d] = Slots
  <2>1. CASE d = c
    <3>1. Distinct(d)'
      BY <1>1, <1>2, <1>3, <2>1 DEF Distinct, StackInv
    <3> QED
      BY <1>3, <1>7, <2>1, <3>1 DEF StackInv
  <2>2. CASE d # c
    <3>1. Distinct(d)'
      BY <1>2, <1>4, <2>2 DEF Distinct, StackInv
    <3> QED
      BY <1>4, <1>6, <2>2, <3>1 DEF StackInv
  <2> QED
    BY <2>1, <2>2
<1> QED
  BY <1>2, <1>5, <1>6, <1>7, <1>8 DEF StackInv

(* free puts a slot on top, over whatever stale index lies there.          *)
LEMMA FreeStep ==
  ASSUME StackInv, NEW c \in Cores, NEW s \in Slots, Free(c, s)
  PROVE  /\ StackInv' /\ s \in held[c]
         /\ FreeSlots(c)' = FreeSlots(c) \cup {s}
         /\ held' = [held EXCEPT ![c] = held[c] \ {s}]
         /\ \A d \in Cores : d # c => FreeSlots(d)' = FreeSlots(d)
<1> DEFINE k == top[c]
           g == [free_idx[c] EXCEPT ![k] = s]
<1>1. k \in 0 .. Capacity - 1 /\ Capacity \in Nat /\ s \in held[c] /\ k \in Slots
  BY RoomToFree, StackAssumption DEF Free, Slots
<1>2. /\ top' = [top EXCEPT ![c] = k + 1] /\ held' = [held EXCEPT ![c] = held[c] \ {s}]
      /\ free_idx' = [free_idx EXCEPT ![c] = g]
  BY DEF Free
<1>3. free_idx[c] \in [Slots -> Slots]
  BY DEF StackInv
<1>4. g \in [Slots -> Slots] /\ g[k] = s /\ \A i \in Slots : i # k => g[i] = free_idx[c][i]
  <2> HIDE DEF k
  <2> QED
    BY <1>1, <1>3
<1> HIDE DEF g
<1>5. top'[c] = k + 1 /\ held'[c] = held[c] \ {s} /\ free_idx'[c] = g
  BY <1>2 DEF StackInv
<1>6. \A d \in Cores : d # c => /\ top'[d] = top[d] /\ held'[d] = held[d]
                                /\ free_idx'[d] = free_idx[d]
  BY <1>2 DEF StackInv
<1>7. /\ free_idx' \in [Cores -> [Slots -> Slots]]
      /\ top' \in [Cores -> 0 .. Capacity] /\ held' \in [Cores -> SUBSET Slots]
  BY <1>1, <1>2, <1>4 DEF StackInv
<1>8. \A d \in Cores : d # c => FreeSlots(d)' = FreeSlots(d)
  BY <1>6 DEF FreeSlots
<1>9. \A i \in 0 .. k - 1 : i \in Slots /\ g[i] = free_idx[c][i]
  <2>1. \A i \in 0 .. k - 1 : i \in Slots /\ i # k
    BY <1>1 DEF Slots
  <2> HIDE DEF k
  <2> QED
    BY <1>4, <2>1
<1>10. FreeSlots(c) = {free_idx[c][i] : i \in 0 .. k - 1}
  BY DEF FreeSlots
<1>11. FreeSlots(c)' = {g[i] : i \in 0 .. k}
  <2>1. (k + 1) - 1 = k
    BY <1>1
  <2>2. FreeSlots(c)' = {free_idx'[c][i] : i \in 0 .. top'[c] - 1}
    BY DEF FreeSlots
  <2> QED
    BY <1>5, <2>1, <2>2
<1>12. FreeSlots(c)' = FreeSlots(c) \cup {s}
  <2>1. /\ \A i \in 0 .. k : i \in 0 .. k - 1 \/ i = k
        /\ 0 .. k - 1 \subseteq 0 .. k /\ k \in 0 .. k
    BY <1>1
  <2> HIDE DEF k
  <2> QED
    BY <1>4, <1>9, <1>10, <1>11, <2>1
<1>13. s \notin FreeSlots(c)
  BY <1>1 DEF StackInv
<1>14. Distinct(c)'
  <2> SUFFICES ASSUME NEW i \in 0 .. k, NEW j \in 0 .. k, g[i] = g[j]
               PROVE  i = j
    <3>1. (k + 1) - 1 = k
      BY <1>1
    <3> QED
      BY <1>5, <3>1 DEF Distinct
  <2>1. \A m \in 0 .. k : m = k \/ (m \in 0 .. k - 1 /\ g[m] \in FreeSlots(c))
    <3>1. \A m \in 0 .. k : m \in 0 .. k - 1 \/ m = k
      BY <1>1
    <3> QED
      BY <1>9, <1>10, <3>1
  <2>2. CASE i = k \/ j = k
    BY <1>4, <1>13, <2>1, <2>2
  <2>3. CASE i # k /\ j # k
    <3>1. i \in 0 .. k - 1 /\ j \in 0 .. k - 1
      BY <2>1, <2>3
    <3>2. free_idx[c][i] = free_idx[c][j]
      BY <1>9, <3>1
    <3> QED
      BY <3>1, <3>2 DEF StackInv, Distinct
  <2> QED
    BY <2>2, <2>3
<1> HIDE DEF k
<1>15. ASSUME NEW d \in Cores
       PROVE  /\ Distinct(d)'
              /\ FreeSlots(d)' \cap held'[d] = {}
              /\ FreeSlots(d)' \cup held'[d] = Slots
  <2>1. CASE d = c
    <3>1. FreeSlots(c) \cap held[c] = {} /\ FreeSlots(c) \cup held[c] = Slots
      BY DEF StackInv
    <3> QED
      BY <1>5, <1>12, <1>14, <2>1, <3>1
  <2>2. CASE d # c
    <3>1. Distinct(d)'
      BY <1>6, <2>2 DEF Distinct, StackInv
    <3> QED
      BY <1>6, <1>8, <2>2, <3>1 DEF StackInv
  <2> QED
    BY <2>1, <2>2
<1> QED
  BY <1>1, <1>2, <1>7, <1>8, <1>12, <1>15 DEF StackInv

(* The invariant of the stacks.                                            *)
THEOREM StackInvariant == Spec => []StackInv
<1>1. StackInv /\ [Next]_vars => StackInv'
  <2>1. StackInv /\ Next => StackInv'
    BY AllocStep, FreeStep DEF Next
  <2>2. StackInv /\ UNCHANGED vars => StackInv'
    BY DEF vars, StackInv, Distinct, FreeSlots
  <2> QED
    BY <2>1, <2>2
<1> QED
  BY <1>1, InitInv, PTL DEF Spec

(* Every slot of every core is on its stack, once, or handed out.          *)
THEOREM StackOnePlace == Spec => []OnePlace
<1>1. StackInv => OnePlace
  BY FreeCount DEF StackInv, OnePlace
<1> QED
  BY <1>1, StackInvariant, PTL

(* The stacks of all cores together are one pool of all their blocks.      *)
THEOREM StackIsPool == Spec => PoolSpec
<1> DEFINE allFree == UNION {{c} \X FreeSlots(c) : c \in Cores}
           allHeld == UNION {{c} \X held[c] : c \in Cores}
<1>1. Init => Abstract!Init
  <2> SUFFICES ASSUME Init
               PROVE  allFree = Cores \X Slots /\ allHeld = {}
    BY DEF Abstract!Init
  <2>1. \A c \in Cores : held[c] = {} /\ FreeSlots(c) \cap held[c] = {}
                         /\ FreeSlots(c) \cup held[c] = Slots
    BY InitInv DEF Init, StackInv
  <2> QED
    BY <2>1
<1>2. StackInv /\ [Next]_vars => [Abstract!Alloc \/ Abstract!Free]_Abstract!vars
  <2> SUFFICES ASSUME StackInv, [Next]_vars
               PROVE  [Abstract!Alloc \/ Abstract!Free]_Abstract!vars
    OBVIOUS
  <2>1. ASSUME NEW c \in Cores, Alloc(c)
        PROVE  Abstract!Alloc
    <3>1. PICK s \in FreeSlots(c) :
            /\ FreeSlots(c)' = FreeSlots(c) \ {s}
            /\ held' = [held EXCEPT ![c] = held[c] \cup {s}]
      BY <2>1, AllocStep
    <3>2. \A d \in Cores : d # c => FreeSlots(d)' = FreeSlots(d) /\ held'[d] = held[d]
      BY <2>1, <3>1, AllocStep DEF StackInv
    <3>3. held'[c] = held[c] \cup {s}
      BY <3>1 DEF StackInv
    <3>4. <<c, s>> \in allFree
      OBVIOUS
    <3>5. allFree' = allFree \ {<<c, s>>}
      BY <3>1, <3>2
    <3>6. allHeld' = allHeld \cup {<<c, s>>}
      BY <3>2, <3>3
    <3> QED
      BY <3>4, <3>5, <3>6 DEF Abstract!Alloc
  <2>2. ASSUME NEW c \in Cores, NEW s \in Slots, Free(c, s)
        PROVE  Abstract!Free
    <3>1. /\ FreeSlots(c)' = FreeSlots(c) \cup {s} /\ s \in held[c]
          /\ held' = [held EXCEPT ![c] = held[c] \ {s}]
      BY <2>2, FreeStep
    <3>2. \A d \in Cores : d # c => FreeSlots(d)' = FreeSlots(d) /\ held'[d] = held[d]
      BY <2>2, <3>1, FreeStep DEF StackInv
    <3>3. held'[c] = held[c] \ {s}
      BY <3>1 DEF StackInv
    <3>4. <<c, s>> \in allHeld
      BY <3>1
    <3>5. allFree' = allFree \cup {<<c, s>>}
      BY <3>1, <3>2
    <3>6. allHeld' = allHeld \ {<<c, s>>}
      BY <3>2, <3>3
    <3> QED
      BY <3>4, <3>5, <3>6 DEF Abstract!Free
  <2>3. ASSUME UNCHANGED vars
        PROVE  UNCHANGED Abstract!vars
    <3>1. \A c \in Cores : FreeSlots(c)' = FreeSlots(c) /\ held'[c] = held[c]
      BY <2>3 DEF vars, FreeSlots
    <3>2. allFree' = allFree /\ allHeld' = allHeld
      BY <3>1
    <3> QED
      BY <3>2 DEF Abstract!vars
  <2> QED
    BY <2>1, <2>2, <2>3 DEF Next
<1> QED
  BY <1>1, <1>2, StackInvariant, PTL DEF Spec, PoolSpec, Abstract!Spec
=============================================================================
