--------------------------- MODULE SymTab_proofs ---------------------------
(***************************************************************************)
(* The symbol table of src/deep/symtab.c is correct for every hash, every  *)
(* size of the table and every set of symbols.                             *)
(***************************************************************************)
EXTENDS SymTab, Facts

Used == {i \in Places : slot[i].key # Empty}

Typed ==
    /\ hash \in [Keys -> Places]
    /\ slot \in [Places -> [key : Keys \cup {Empty}, idx : 0 .. MaxSymbols]]
    /\ name \in Seq(Keys) /\ count = Len(name) /\ count <= MaxSymbols
    /\ full_drops \in 0 .. MaxDrops

(* A slot tells its symbol's index, and every symbol named has a slot.     *)
Entries ==
    /\ \A i \in Places :
         IF slot[i].key = Empty THEN slot[i].idx = 0
         ELSE slot[i].idx < count /\ name[slot[i].idx + 1] = slot[i].key
    /\ \A j \in 1 .. count : \E i \in Places : slot[i].key = name[j]

Once == \A i, j \in Used : slot[i].key = slot[j].key => i = j

(* Between the home of a symbol and its slot nothing is empty: why a probe *)
(* may stop at the first empty slot.                                       *)
NoHoles ==
    \A k \in Keys : \A d \in Places :
        slot[At(k, d)].key = k =>
          \A e \in Places : e < d => slot[At(k, e)].key # Empty

TableInv == Typed /\ Entries /\ Once /\ NoHoles

-----------------------------------------------------------------------------
(* The sizes of the table.                                                 *)
LEMMA Table ==
  /\ Slots \in Nat \ {0} /\ MaxSymbols \in Nat /\ MaxSymbols < Slots
  /\ MaxDrops \in Nat /\ Empty \notin Keys /\ 0 \in Places /\ Places \subseteq Nat
BY TableAssumption DEF Places

(* A hash is a place of the table.                                         *)
LEMMA HashType ==
  ASSUME Typed, NEW k \in Keys \cup {Empty}
  PROVE  Hash(k) \in Places
BY Table DEF Hash, Typed

(* A probe stays in the table.                                             *)
LEMMA AtType ==
  ASSUME Typed, NEW k \in Keys \cup {Empty}, NEW d \in Places
  PROVE  At(k, d) \in Places
<1>1. Hash(k) + d \in Int
  <2>1. Hash(k) \in Nat /\ d \in Nat
    BY HashType, Table
  <2> QED
    BY <2>1
<1> DEFINE m == Hash(k) + d
<1> HIDE DEF m
<1>2. m \in Int => m % Slots \in 0 .. Slots - 1
  BY Table, DivMod
<1> QED
  BY <1>1, <1>2 DEF At, Places, m

(* A probe passes every place, and each at one distance only.              *)
LEMMA AtOnto ==
  ASSUME Typed, NEW k \in Keys \cup {Empty}, NEW i \in Places
  PROVE  \E d \in Places : At(k, d) = i
<1> DEFINE h == Hash(k)
<1>1. h \in Places
  BY HashType
<1> HIDE DEF h
<1>2. CASE i >= h
  <2>1. i - h \in Places /\ h + (i - h) = Slots * 0 + i /\ i \in 0 .. Slots - 1
    BY <1>1, <1>2, Table DEF Places
  <2>2. (Slots * 0 + i) % Slots = i
    BY <2>1, Table, ModUnique
  <2> QED
    BY <2>1, <2>2 DEF At, h
<1>3. CASE i < h
  <2>1. /\ i - h + Slots \in Places /\ h + (i - h + Slots) = Slots * 1 + i
        /\ i \in 0 .. Slots - 1
    BY <1>1, <1>3, Table DEF Places
  <2>2. (Slots * 1 + i) % Slots = i
    BY <2>1, Table, ModUnique
  <2> QED
    BY <2>1, <2>2 DEF At, h
<1>4. i >= h \/ i < h
  BY <1>1, Table
<1> QED
  BY <1>2, <1>3, <1>4

(* A probe visits no place twice.                                          *)
LEMMA AtOneToOne ==
  ASSUME Typed, NEW k \in Keys \cup {Empty}, NEW d \in Places, NEW e \in Places,
         At(k, d) = At(k, e)
  PROVE  d = e
<1> DEFINE h == Hash(k)
           a == h + d
           c == h + e
<1>1. a \in Int /\ c \in Int /\ a < c + Slots /\ c < a + Slots /\ a - c = d - e
      /\ d \in Int /\ e \in Int
  BY HashType, Table DEF Places
<1>2. a % Slots = c % Slots
  BY DEF At
<1> HIDE DEF a, c
<1>3. a <= c /\ c <= a
  BY <1>1, <1>2, Table, ModGap
<1> QED
  BY <1>1, <1>3

(* Two slots do not have the same index, so at most count are used.        *)
LEMMA EmptyIsLeft ==
  ASSUME TableInv
  PROVE  ProbeEnds
<1>1. Slots \in Nat \ {0} /\ count \in Nat /\ count < Slots
  BY Table DEF TableInv, Typed
<1>2. IsFiniteSet(Places) /\ Cardinality(Places) = Slots
  <2> DEFINE m == Slots - 1
  <2>1. m \in Int /\ 0 \in Int
    BY <1>1
  <2> HIDE DEF m
  <2>2. IsFiniteSet(0 .. m) /\ Cardinality(0 .. m) = IF 0 > m THEN 0 ELSE m - 0 + 1
    BY <2>1, FS_Interval
  <2> QED
    BY <1>1, <2>2 DEF m, Places
<1>3. IsFiniteSet(0 .. count - 1) /\ Cardinality(0 .. count - 1) = count
  <2> DEFINE m == count - 1
  <2>1. m \in Int /\ 0 \in Int
    BY <1>1
  <2> HIDE DEF m
  <2>2. IsFiniteSet(0 .. m) /\ Cardinality(0 .. m) = IF 0 > m THEN 0 ELSE m - 0 + 1
    BY <2>1, FS_Interval
  <2> QED
    BY <1>1, <2>2 DEF m
<1>4. IsFiniteSet(Used)
  BY <1>2, FS_Subset DEF Used
<1> DEFINE f == [i \in Used |-> slot[i].idx]
<1>5. \A i \in Used : slot[i].idx \in 0 .. count - 1 /\ name[slot[i].idx + 1] = slot[i].key
  BY <1>1 DEF Used, TableInv, Typed, Entries
<1>6. \A x, y \in Used : f[x] = f[y] => x = y
  BY <1>5 DEF TableInv, Once
<1>7. {f[x] : x \in Used} \subseteq 0 .. count - 1
  BY <1>5
<1> HIDE DEF f
<1>8. /\ IsFiniteSet({f[x] : x \in Used})
      /\ Cardinality({f[x] : x \in Used}) = Cardinality(Used)
  BY <1>4, <1>6, InjectiveImage
<1>9. Cardinality({f[x] : x \in Used}) <= count
  BY <1>3, <1>7, FS_Subset
<1>10. Used # Places
  BY <1>1, <1>2, <1>8, <1>9
<1> QED
  BY <1>10 DEF Used, ProbeEnds

(* What a probe tells: it ends at the key, if that is anywhere, or at an   *)
(* empty slot with no empty one before it.                                 *)
LEMMA ProbeFacts ==
  ASSUME TableInv, NEW k \in Keys \cup {Empty}
  PROVE  /\ Probe(k) \in Places
         /\ Found(k) <=> \E i \in Places : slot[i].key = k
         /\ ~Found(k) => slot[Probe(k)].key = Empty
         /\ \E d \in Places :
              /\ Probe(k) = At(k, d)
              /\ \A e \in Places : e < d => slot[At(k, e)].key \notin {k, Empty}
<1> DEFINE stop == {d \in Places : slot[At(k, d)].key \in {k, Empty}}
           m == Min(stop)
<1>0. Typed /\ Entries /\ Once /\ NoHoles
  BY DEF TableInv
<1>1. stop # {} /\ stop \subseteq Nat
  <2>1. PICK i \in Places : slot[i].key = Empty
    BY EmptyIsLeft DEF ProbeEnds
  <2>2. PICK d \in Places : At(k, d) = i
    BY <1>0, AtOnto
  <2> QED
    BY <2>1, <2>2, Table
<1>2. m \in stop /\ \A d \in stop : m <= d
  <2> HIDE DEF stop
  <2> QED
    BY <1>1, MinIsLeast
<1>3. Probe(k) = At(k, m)
  BY DEF Probe
<1>4. m \in Places /\ slot[At(k, m)].key \in {k, Empty}
  BY <1>2
<1>5. ASSUME NEW e \in Places, e < m
      PROVE  slot[At(k, e)].key \notin {k, Empty}
  <2>1. e \in Nat /\ m \in Nat
    BY <1>4, Table
  <2> HIDE DEF m
  <2>2. e \notin stop
    BY <1>2, <1>5, <2>1
  <2> QED
    BY <2>2
<1> HIDE DEF stop, m
<1>6. Probe(k) \in Places
  BY <1>0, <1>3, <1>4, AtType
<1>7. ASSUME NEW i \in Places, slot[i].key = k
      PROVE  Found(k)
  <2>1. CASE k = Empty
    BY <1>3, <1>4, <2>1 DEF Found
  <2>2. CASE k # Empty
    <3>1. PICK d \in Places : At(k, d) = i
      BY <1>0, AtOnto
    <3>2. k \in Keys
      BY <2>2
    <3>3. \A e \in Places : e < d => slot[At(k, e)].key # Empty
      BY <1>0, <1>7, <3>1, <3>2 DEF NoHoles
    <3>4. m <= d
      <4>1. d \in stop
        BY <1>7, <3>1 DEF stop
      <4> QED
        BY <1>2, <4>1
    <3>5. CASE m = d
      BY <1>3, <1>7, <3>1, <3>5 DEF Found
    <3>6. CASE m # d
      <4>1. m < d
        BY <1>4, <3>4, <3>6, Table
      <4>2. slot[At(k, m)].key = k
        BY <1>4, <3>3, <4>1
      <4> QED
        BY <1>3, <4>2 DEF Found
    <3> QED
      BY <3>5, <3>6
  <2> QED
    BY <2>1, <2>2
<1>8. Found(k) => \E i \in Places : slot[i].key = k
  BY <1>6 DEF Found
<1>9. ~Found(k) => slot[Probe(k)].key = Empty
  BY <1>3, <1>4 DEF Found
<1> QED
  BY <1>3, <1>4, <1>5, <1>6, <1>7, <1>8, <1>9

(* The key of zero bytes is always found, in an empty slot.                *)
LEMMA EmptyFound ==
  ASSUME TableInv
  PROVE  Found(Empty) /\ slot[Probe(Empty)].idx = 0
<1>1. Found(Empty)
  BY EmptyIsLeft, ProbeFacts DEF ProbeEnds
<1> QED
  BY <1>1, ProbeFacts DEF Found, TableInv, Entries

(* An empty table satisfies the invariant.                                 *)
LEMMA TableInit == Init => TableInv
<1> SUFFICES ASSUME Init
             PROVE  TableInv
  OBVIOUS
<1>1. \A i \in Places : slot[i].key = Empty /\ slot[i].idx = 0
  BY DEF Init
<1>2. /\ hash \in [Keys -> Places] /\ name = <<>> /\ count = 0 /\ full_drops = 0
      /\ slot \in [Places -> [key : Keys \cup {Empty}, idx : 0 .. MaxSymbols]]
  BY Table DEF Init
<1>3. Typed
  BY <1>2, Table DEF Typed
<1>4. Entries /\ Once
  BY <1>1, <1>2 DEF Entries, Once, Used
<1>5. NoHoles
  <2>1. \A k \in Keys : \A d \in Places : slot[At(k, d)].key = Empty /\ k # Empty
    BY <1>1, <1>3, AtType, Table
  <2> QED
    BY <2>1 DEF NoHoles
<1> QED
  BY <1>3, <1>4, <1>5 DEF TableInv

(* A new symbol goes to the end of its probe, which fills no hole of       *)
(* another and leaves none of its own.                                     *)
LEMMA InsertStep ==
  ASSUME TableInv, NEW k \in Keys \cup {Empty}, Insert(k)
  PROVE  /\ TableInv' /\ k \in Keys
         /\ name' = Append(name, k) /\ answer' = [key |-> k, idx |-> Len(name)]
         /\ \A j \in 1 .. Len(name) : name[j] # k
<1> DEFINE a == Probe(k)
           entry == [key |-> k, idx |-> count]
<1>0. Typed /\ Entries /\ Once /\ NoHoles
  BY DEF TableInv
<1>1. /\ slot' = [slot EXCEPT ![a] = entry]
      /\ name' = Append(name, k) /\ count' = count + 1
      /\ answer' = [key |-> k, idx |-> count]
      /\ hash' = hash /\ full_drops' = full_drops
      /\ ~Found(k) /\ count < MaxSymbols
  <2>1. ~(count >= MaxSymbols)
    BY DEF Insert, AllGiven
  <2>2. count < MaxSymbols
    BY <1>0, <2>1, Table DEF Typed
  <2> QED
    BY <2>2 DEF Insert, Place, Answer
<1>2. k \in Keys
  BY <1>1, EmptyFound
<1>3. /\ a \in Places /\ slot[a].key = Empty
      /\ \A i \in Places : slot[i].key # k
  BY <1>1, ProbeFacts
<1>4. PICK m \in Places :
        /\ a = At(k, m)
        /\ \A e \in Places : e < m => slot[At(k, e)].key \notin {k, Empty}
  BY ProbeFacts
<1>5. k # Empty
  BY <1>2, Table
<1> HIDE DEF a
<1>6. count \in Nat /\ count = Len(name) /\ name \in Seq(Keys)
  BY <1>0 DEF Typed
<1>7. \A i \in Places : slot'[i] = IF i = a THEN entry ELSE slot[i]
  BY <1>0, <1>1 DEF Typed
<1>8. \A i \in Places : /\ slot'[i].key = IF i = a THEN k ELSE slot[i].key
                        /\ slot'[i].idx = IF i = a THEN count ELSE slot[i].idx
  BY <1>7
<1>9. /\ name' \in Seq(Keys) /\ Len(name') = count + 1 /\ name'[count + 1] = k
      /\ \A j \in 1 .. count : name'[j] = name[j]
  BY <1>1, <1>2, <1>6
<1>10. Typed'
  <2>1. entry \in [key : Keys \cup {Empty}, idx : 0 .. MaxSymbols]
    BY <1>1, <1>2, <1>6, Table
  <2> HIDE DEF entry
  <2>2. slot' \in [Places -> [key : Keys \cup {Empty}, idx : 0 .. MaxSymbols]]
    BY <1>0, <1>1, <2>1 DEF Typed
  <2>3. count' <= MaxSymbols
    BY <1>1, <1>6, Table
  <2> QED
    BY <1>0, <1>1, <1>9, <2>2, <2>3 DEF Typed
<1> HIDE DEF entry
<1>11. Entries'
  <2>1. ASSUME NEW i \in Places
        PROVE  IF slot'[i].key = Empty THEN slot'[i].idx = 0
               ELSE slot'[i].idx < count' /\ name'[slot'[i].idx + 1] = slot'[i].key
    <3>1. CASE i = a
      BY <1>1, <1>5, <1>6, <1>8, <1>9, <3>1
    <3>2. CASE i # a
      <4>1. slot[i].idx \in Nat
        BY <1>0, Table DEF Typed
      <4>2. /\ slot'[i].key = slot[i].key /\ slot'[i].idx = slot[i].idx
        BY <1>8, <3>2
      <4>3. slot[i].key # Empty => slot[i].idx + 1 \in 1 .. count
        BY <1>0, <1>6, <4>1 DEF Entries
      <4> QED
        BY <1>0, <1>1, <1>6, <1>9, <4>1, <4>2, <4>3 DEF Entries
    <3> QED
      BY <3>1, <3>2
  <2>2. ASSUME NEW j \in 1 .. count'
        PROVE  \E i \in Places : slot'[i].key = name'[j]
    <3>1. CASE j = count + 1
      BY <1>3, <1>8, <1>9, <3>1
    <3>2. CASE j # count + 1
      <4>1. j \in 1 .. count
        BY <1>1, <1>6, <3>2
      <4>2. PICK i \in Places : slot[i].key = name[j]
        BY <1>0, <4>1 DEF Entries
      <4>3. name[j] \in Keys
        BY <1>6, <4>1
      <4>4. i # a
        BY <1>3, <4>2, <4>3, Table
      <4> QED
        BY <1>8, <1>9, <4>1, <4>2, <4>4
    <3> QED
      BY <3>1, <3>2
  <2> QED
    BY <2>1, <2>2 DEF Entries
<1>12. Once'
  <2> SUFFICES ASSUME NEW i \in Places, NEW j \in Places, slot'[i].key # Empty,
                      slot'[i].key = slot'[j].key
               PROVE  i = j
    BY DEF Once, Used
  <2>1. CASE i = a \/ j = a
    BY <1>3, <1>8, <2>1
  <2>2. CASE i # a /\ j # a
    <3>1. slot[i].key # Empty /\ slot[i].key = slot[j].key
      BY <1>8, <2>2
    <3> QED
      BY <1>0, <3>1 DEF Once, Used
  <2> QED
    BY <2>1, <2>2
<1>13. NoHoles'
  <2>1. \A x, d : At(x, d)' = At(x, d)
    BY <1>1 DEF At, Hash
  <2>2. ASSUME NEW x \in Keys, NEW d \in Places, slot'[At(x, d)].key = x,
               NEW e \in Places, e < d
        PROVE  slot'[At(x, e)].key # Empty
    <3>1. At(x, d) \in Places /\ At(x, e) \in Places
      BY <1>0, AtType
    <3>2. slot[At(x, e)].key # Empty => slot'[At(x, e)].key # Empty
      BY <1>5, <1>8, <3>1
    <3>3. CASE At(x, d) = a
      <4>1. x = k
        BY <1>3, <1>8, <2>2, <3>3
      <4>2. d = m
        BY <1>0, <1>4, <3>3, <4>1, AtOneToOne
      <4> QED
        BY <1>4, <2>2, <3>2, <4>1, <4>2
    <3>4. CASE At(x, d) # a
      <4>1. slot[At(x, d)].key = x
        BY <1>8, <2>2, <3>1, <3>4
      <4> QED
        BY <1>0, <2>2, <3>2, <4>1 DEF NoHoles
    <3> QED
      BY <3>3, <3>4
  <2> QED
    BY <2>1, <2>2 DEF NoHoles
<1>14. \A j \in 1 .. Len(name) : name[j] # k
  BY <1>0, <1>3, <1>6 DEF Entries
<1> QED
  BY <1>1, <1>2, <1>6, <1>10, <1>11, <1>12, <1>13, <1>14 DEF TableInv

(* A lookup, an insertion or a refusal keeps every name findable at its    *)
(* own index.                                                              *)
LEMMA TableStep == TableInv /\ [Next]_vars => TableInv'
<1> SUFFICES ASSUME TableInv, [Next]_vars
             PROVE  TableInv'
  OBVIOUS
<1>1. ASSUME UNCHANGED <<hash, slot, name, count>>, full_drops' \in 0 .. MaxDrops
      PROVE  TableInv'
  <2>1. \A x, d : At(x, d)' = At(x, d)
    BY <1>1 DEF At, Hash
  <2>2. NoHoles'
    BY <1>1, <2>1 DEF TableInv, NoHoles
  <2> QED
    BY <1>1, <2>2 DEF TableInv, Typed, Entries, Once, Used
<1>2. ASSUME NEW k \in Keys \cup {Empty}, Lookup(k)
      PROVE  TableInv'
  BY <1>1, <1>2 DEF Lookup, TableInv, Typed
<1>3. ASSUME NEW k \in Keys \cup {Empty}, Insert(k)
      PROVE  TableInv'
  BY <1>3, InsertStep
<1>4. ASSUME NEW k \in Keys \cup {Empty}, DropFull(k)
      PROVE  TableInv'
  <2>1. full_drops \in 0 .. MaxDrops /\ full_drops < MaxDrops /\ full_drops' = full_drops + 1
    BY <1>4 DEF DropFull, TableInv, Typed
  <2>2. full_drops' \in 0 .. MaxDrops
    BY <2>1, Table
  <2> QED
    BY <1>1, <1>4, <2>2 DEF DropFull
<1>5. CASE UNCHANGED vars
  BY <1>1, <1>5 DEF vars, TableInv, Typed
<1> QED
  BY <1>2, <1>3, <1>4, <1>5 DEF Next

(* The invariant of the table.                                             *)
THEOREM TableInvariant == Spec => []TableInv
BY TableInit, TableStep, PTL DEF Spec

(* Slots, indices and counters stay in range.                              *)
THEOREM TableTyped == Spec => []TypeOK
<1>1. TableInv => TypeOK
  BY DEF TableInv, Typed, TypeOK
<1> QED
  BY <1>1, TableInvariant, PTL

(* Every probe ends at the key or at an empty slot: symtab.c:42 is never   *)
(* reached.                                                                *)
THEOREM TableProbeEnds == Spec => []ProbeEnds
BY EmptyIsLeft, TableInvariant, PTL

(* A symbol has one slot and that its own index, whatever collides.        *)
THEOREM TableOneSlot == Spec => []OneSlotPerSymbol
<1>1. TableInv => OneSlotPerSymbol
  <2> SUFFICES ASSUME TableInv, NEW k \in Keys
               PROVE  LET at == {i \in Places : slot[i].key = k}
                      IN  /\ Cardinality(at) <= 1
                          /\ \A i \in at : slot[i].idx < count /\ name[slot[i].idx + 1] = k
    BY DEF OneSlotPerSymbol
  <2> DEFINE at == {i \in Places : slot[i].key = k}
  <2>1. k # Empty
    BY Table
  <2>2. \A i \in at : slot[i].idx < count /\ name[slot[i].idx + 1] = k
    BY <2>1 DEF TableInv, Entries
  <2>3. \A i, j \in at : i = j
    BY <2>1 DEF TableInv, Once, Used
  <2> HIDE DEF at
  <2>4. Cardinality({}) <= 1
    BY FS_EmptySet
  <2>5. ASSUME at # {}
        PROVE  Cardinality(at) <= 1
    <3>1. PICK i : at = {i}
      BY <2>3, <2>5
    <3>2. Cardinality({i}) = 1
      BY FS_Singleton
    <3> QED
      BY <3>1, <3>2
  <2>6. Cardinality(at) <= 1
    BY <2>4, <2>5
  <2> QED
    BY <2>2, <2>6 DEF at
<1> QED
  BY <1>1, TableInvariant, PTL

(* The table gives indices in order of appearance, and for ever.           *)
THEOREM TableIsNames == Spec => NamesSpec
<1>1. Init => Names!Init
  BY DEF Init, Names!Init, Names!NoCall
<1>2. TableInv /\ [Next]_vars => [Names!Next]_Names!vars
  <2> SUFFICES ASSUME TableInv, [Next]_vars
               PROVE  [Names!Next]_Names!vars
    OBVIOUS
  <2>0. Typed /\ Entries
    BY DEF TableInv
  <2>1. ASSUME NEW k \in Keys, Lookup(k)
        PROVE  Names!Old(k)
    <3> DEFINE j == slot[Probe(k)].idx + 1
    <3>1. k # Empty /\ slot[Probe(k)].key = k /\ Probe(k) \in Places
      BY <2>1, ProbeFacts, Table DEF Lookup, Found
    <3>2. slot[Probe(k)].idx < count /\ name[j] = k
      BY <2>0, <3>1 DEF Entries
    <3>3. slot[Probe(k)].idx \in Nat
      <4>1. \A i \in Places : slot[i].idx \in 0 .. MaxSymbols
        BY <2>0 DEF Typed
      <4>2. 0 .. MaxSymbols \subseteq Nat
        OBVIOUS
      <4> QED
        BY <3>1, <4>1, <4>2
    <3>4. j \in 1 .. Len(name) /\ j - 1 = slot[Probe(k)].idx
      BY <2>0, <3>2, <3>3 DEF Typed
    <3>5. answer' = [key |-> k, idx |-> j - 1] /\ UNCHANGED <<name, full_drops>>
      BY <2>1, <3>4 DEF Lookup, Answer
    <3> HIDE DEF j
    <3> QED
      BY <3>2, <3>4, <3>5 DEF Names!Old
  <2>2. ASSUME Lookup(Empty)
        PROVE  Names!Zero
    BY <2>2, EmptyFound DEF Lookup, Answer, Names!Zero
  <2>3. ASSUME NEW k \in Keys \cup {Empty}, Insert(k)
        PROVE  k \in Keys /\ Names!New(k)
    <3>1. Len(name) < MaxSymbols /\ full_drops' = full_drops
      BY <2>0, <2>3, Table DEF Typed, Insert, AllGiven
    <3> QED
      BY <2>3, <3>1, InsertStep DEF Names!New, Names!Known
  <2>4. ASSUME NEW k \in Keys \cup {Empty}, DropFull(k)
        PROVE  k \in Keys /\ Names!Refuse(k)
    <3>1. ~Found(k) /\ k \in Keys
      BY <2>4, EmptyFound DEF DropFull
    <3>2. \A j \in 1 .. Len(name) : name[j] # k
      BY <2>0, <3>1, ProbeFacts DEF Entries, Typed
    <3>3. Len(name) = MaxSymbols
      BY <2>0, <2>4, Table DEF Typed, DropFull, AllGiven
    <3> QED
      BY <2>4, <3>1, <3>2, <3>3 DEF DropFull, Answer, Names!Refuse, Names!Known
  <2>5. CASE UNCHANGED vars
    BY <2>5 DEF vars, Names!vars
  <2>6. ASSUME NEW k \in Keys \cup {Empty}, Lookup(k) \/ Insert(k) \/ DropFull(k)
        PROVE  Names!Next
    BY <2>1, <2>2, <2>3, <2>4, <2>6 DEF Names!Next
  <2> QED
    BY <2>5, <2>6 DEF Next
<1> QED
  BY <1>1, <1>2, TableInvariant, PTL DEF Spec, NamesSpec, Names!Spec
=============================================================================
