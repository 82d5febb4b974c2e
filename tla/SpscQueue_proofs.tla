-------------------------- MODULE SpscQueue_proofs --------------------------
(***************************************************************************)
(* The ring of SpscQueue is correct for every capacity, index width, slot  *)
(* layout and sequence of messages.  The argument is the inductive         *)
(* invariant IndInv of that module.                                        *)
(***************************************************************************)
EXTENDS SpscQueue, Facts, SequenceTheorems, TLAPS

(* The constants in the form the proofs use: capacity and index range are  *)
(* positive, and the capacity is the smaller.                              *)
LEMMA Constants ==
  /\ Capacity \in Nat \ {0}
  /\ IndexMod \in Nat \ {0}
  /\ Capacity < IndexMod
  /\ Items \in Seq(Message)
  /\ Len(Items) \in Nat
<1>1. PICK j \in 2 .. IndexMod : IndexMod = j * Capacity
  BY CapacityAssumption
<1>2. Capacity \in Nat \ {0} /\ IndexMod \in Nat \ {0} /\ j \in Nat \ {0}
  BY CapacityAssumption, <1>1
<1>3. Capacity < IndexMod
  <2>1. j * Capacity >= 2 * Capacity
    BY <1>1, <1>2
  <2> QED
    BY <1>1, <1>2, <2>1
<1> QED
  BY <1>2, <1>3, ItemsAssumption DEF Message

(* What the producer pushes, one after the other, are messages.            *)
LEMMA ItemIsMessage ==
  ASSUME NEW n \in 1 .. Len(Items)
  PROVE  Items[n] \in Message
BY Constants

-----------------------------------------------------------------------------
(* The wrapped index words, in terms of the ordinals of the stores.        *)

(* The word an ordinal is stored as fits an index word (size_t).           *)
LEMMA IndexAtIsIndex ==
  ASSUME NEW n \in Nat \ {0}
  PROVE  IndexAt(n) \in Index
<1> DEFINE x == n - 1
<1>1. x \in Int
  OBVIOUS
<1> HIDE DEF x
<1>2. x % IndexMod \in 0 .. IndexMod - 1
  BY <1>1, Constants, DivMod
<1> QED
  BY <1>2 DEF x, IndexAt, Wrap, Index

(* One more store increments the word.                                     *)
LEMMA IncIndexAt ==
  ASSUME NEW n \in Nat \ {0}
  PROVE  Inc(IndexAt(n)) = IndexAt(n + 1)
<1>1. n - 1 \in Int /\ (n - 1) + 1 = (n + 1) - 1
  OBVIOUS
<1> QED
  BY <1>1, Constants, ModInc DEF Inc, IndexAt, Wrap

(* tail - head in size_t is the number of stores between them.             *)
LEMMA DistanceIndexAt ==
  ASSUME NEW a \in Nat \ {0}, NEW b \in Nat \ {0}, a - b \in 0 .. Capacity
  PROVE  Distance(IndexAt(a), IndexAt(b)) = a - b
<1> DEFINE x == a - 1
           y == b - 1
<1>1. x \in Int /\ y \in Int /\ x - y = a - b /\ x - y \in 0 .. IndexMod - 1
  BY Constants
<1> HIDE DEF x, y
<1>2. ((x % IndexMod) - (y % IndexMod)) % IndexMod = x - y
  BY <1>1, Constants, ModDistance
<1> QED
  BY <1>1, <1>2 DEF x, y, Distance, IndexAt, Wrap

(* Two words less than a turn apart are equal only when no store separates *)
(* them.                                                                   *)
LEMMA IndexAtEqual ==
  ASSUME NEW a \in Nat \ {0}, NEW b \in Nat \ {0}, a - b \in 0 .. Capacity,
         IndexAt(a) = IndexAt(b)
  PROVE  a = b
<1> DEFINE x == a - 1
           y == b - 1
<1>1. x \in Int /\ y \in Int /\ x < y + IndexMod /\ y <= x
  BY Constants
<1>2. x % IndexMod = y % IndexMod
  BY DEF IndexAt, Wrap
<1> HIDE DEF x, y
<1>3. x <= y
  BY <1>1, <1>2, Constants, ModGap
<1> QED
  BY <1>1, <1>3 DEF x, y

(* The slot of an ordinal is what masking its wrapped index word gives.    *)
LEMMA SlotForIsMasked ==
  ASSUME NEW n \in Nat \ {0}
  PROVE  SlotFor(n) = (n - 1) % Capacity /\ SlotFor(n) \in Slots
<1> DEFINE x == n - 1
<1>1. PICK j \in 2 .. IndexMod : IndexMod = j * Capacity
  BY CapacityAssumption
<1>2. x \in Int /\ 0 \in Int /\ j \in Nat \ {0} /\ Capacity \in Nat \ {0}
  BY <1>1, Constants
<1> HIDE DEF x
<1>3. x % IndexMod \in 0 .. IndexMod - 1 /\ x % Capacity \in 0 .. Capacity - 1
  <2>1. x % IndexMod \in 0 .. IndexMod - 1
    BY <1>2, Constants, DivMod
  <2>2. x % Capacity \in 0 .. Capacity - 1
    BY <1>2, DivMod
  <2> QED
    BY <2>1, <2>2
<1>4. ((x % (j * Capacity)) + 0) % Capacity = (x + 0) % Capacity
  BY <1>2, ModNested
<1>5. (x % IndexMod) % Capacity = x % Capacity
  BY <1>1, <1>2, <1>3, <1>4
<1> QED
  BY <1>3, <1>5 DEF x, SlotFor, SlotOf, IndexAt, Wrap, Slots

(* Pushes that share a slot are at least Capacity apart.                   *)
LEMMA SlotForGap ==
  ASSUME NEW a \in Nat \ {0}, NEW b \in Nat \ {0},
         SlotFor(a) = SlotFor(b), a < b + Capacity
  PROVE  a <= b
<1> DEFINE x == a - 1
           y == b - 1
<1>1. x \in Int /\ y \in Int /\ x < y + Capacity
  BY Constants
<1>2. x % Capacity = y % Capacity
  BY SlotForIsMasked
<1> HIDE DEF x, y
<1>3. x <= y
  BY <1>1, <1>2, Constants, ModGap
<1> QED
  BY <1>3 DEF x, y

(* Two different pushes less than Capacity apart have different slots.     *)
LEMMA SlotForGapStrict ==
  ASSUME NEW a \in Nat \ {0}, NEW b \in Nat \ {0},
         SlotFor(a) = SlotFor(b), a < b
  PROVE  a <= b - Capacity
<1> DEFINE x == a - 1
           y == b - 1
<1>1. x \in Int /\ y \in Int /\ x < y
  OBVIOUS
<1>2. x % Capacity = y % Capacity
  BY SlotForIsMasked
<1> HIDE DEF x, y
<1>3. x <= y - Capacity
  BY <1>1, <1>2, Constants, ModGapStrict
<1> QED
  BY <1>3, Constants DEF x, y

-----------------------------------------------------------------------------
(* What the two threads see, in a state of the invariant.                  *)

(* What the two threads know, as ordinals instead of index words: the last *)
(* push, the last pop, what each thread has seen, and their slots.         *)
LEMMA Unwrapped ==
  ASSUME TypeOK, StoresNumbered
  PROVE  /\ Pushing \in Nat \ {0} /\ Popping \in Nat \ {0}
         /\ obsHead \in Nat \ {0} /\ obsTail \in Nat \ {0}
         /\ head = IndexAt(Popping) /\ tail = IndexAt(Pushing)
         /\ PushSlot = SlotFor(Pushing) /\ PushSlot \in Slots
         /\ PopSlot = SlotFor(Popping) /\ PopSlot \in Slots
<1>1. /\ Pushing \in Nat \ {0} /\ Popping \in Nat \ {0}
      /\ obsHead \in Nat \ {0} /\ obsTail \in Nat \ {0}
  BY DEF TypeOK, Pushing, Popping
<1>2. head = IndexAt(Popping) /\ tail = IndexAt(Pushing)
  <2>1. Popping \in 1 .. Len(headMO) /\ Pushing \in 1 .. Len(tailMO)
    BY <1>1 DEF Pushing, Popping
  <2>2. headMO[Popping].val = IndexAt(Popping)
    BY <2>1 DEF StoresNumbered
  <2>3. tailMO[Pushing].val = IndexAt(Pushing)
    BY <2>1 DEF StoresNumbered
  <2> QED
    BY <2>2, <2>3 DEF Pushing, Popping, head, tail
<1> QED
  BY <1>1, <1>2, SlotForIsMasked DEF PushSlot, PopSlot, SlotFor

(* The full test of push_begin, for any store of head it may have read.    *)
LEMMA FullTest ==
  ASSUME TypeOK, StoresNumbered, Positions, NEW k \in obsHead .. Popping
  PROVE  LooksFull(IndexAt(k)) <=> Pushing = k + Capacity
<1>1. /\ Pushing \in Nat \ {0} /\ k \in Nat \ {0}
      /\ Pushing - k \in 0 .. Capacity
  BY Unwrapped, Constants DEF Positions
<1>2. Distance(tail, IndexAt(k)) = Pushing - k
  BY <1>1, Unwrapped, DistanceIndexAt
<1> QED
  BY <1>1, <1>2, Constants DEF LooksFull

(* The empty test of pop_begin, for any store of tail it may have read.    *)
LEMMA EmptyTest ==
  ASSUME TypeOK, StoresNumbered, Positions, NEW k \in obsTail .. Pushing
  PROVE  LooksEmpty(IndexAt(k)) <=> k = Popping
<1>1. /\ Popping \in Nat \ {0} /\ k \in Nat \ {0}
      /\ k - Popping \in 0 .. Capacity
  BY Unwrapped, Constants DEF Positions
<1>2. IndexAt(k) = IndexAt(Popping) => k = Popping
  BY <1>1, IndexAtEqual
<1> QED
  BY <1>2, Unwrapped DEF LooksEmpty

-----------------------------------------------------------------------------
(* Every step preserves IndInv: one lemma per action.                      *)

(* The empty ring satisfies the invariant.                                 *)
LEMMA Initially == Init => IndInv
<1> SUFFICES ASSUME Init PROVE IndInv
  OBVIOUS
<1>1. Wrap(0) = 0 /\ 0 \in Index
  BY Constants DEF Wrap, Index
<1>2. IndexAt(1) = 0
  BY <1>1 DEF IndexAt
<1>3. TypeOK
  <2>1. [val |-> 0, view |-> 0] \in Store
    BY <1>1 DEF Store
  <2>2. headMO \in Seq(Store) /\ tailMO \in Seq(Store)
    BY <2>1 DEF Init
  <2> QED
    BY <1>1, <2>2 DEF Init, TypeOK, Message
<1>4. StoresNumbered
  BY <1>2 DEF Init, StoresNumbered
<1>5. Positions
  BY Constants DEF Init, Positions, Pushing, Popping
<1>6. SlotsHold
  BY DEF Init, SlotsHold, Pushing, Popping
<1>7. LastAccesses
  BY DEF Init, LastAccesses
<1> QED
  BY <1>3, <1>4, <1>5, <1>6, <1>7 DEF IndInv

(* Borrowing a slot on the cached head keeps the invariant.                *)
LEMMA PushBeginCachedStep ==
  ASSUME IndInv, PushBeginCached
  PROVE  IndInv'
<1> USE DEF PushBeginCached, consumerVars, raceVars, IndInv
<1>1. TypeOK'
  BY DEF TypeOK
<1>2. StoresNumbered'
  BY DEF StoresNumbered
<1>3. Positions'
  <2>1. Pushing < obsHead + Capacity
    <3>1. obsHead \in obsHead .. Popping /\ cachedHead = IndexAt(obsHead)
      BY Unwrapped DEF Positions, StoresNumbered
    <3>2. Pushing # obsHead + Capacity
      BY <3>1, FullTest
    <3> QED
      BY <3>2, Unwrapped, Constants DEF Positions
  <2> QED
    BY <2>1, Unwrapped DEF Positions, Pushing, Popping
<1>4. SlotsHold'
  BY DEF SlotsHold, Pushing, Popping
<1>5. LastAccesses'
  BY DEF LastAccesses, Pushing, Popping
<1> QED
  BY <1>1, <1>2, <1>3, <1>4, <1>5

(* Reloading head, and borrowing a slot or finding it full, keeps it.      *)
LEMMA PushBeginRefreshStep ==
  ASSUME IndInv, PushBeginRefresh
  PROVE  IndInv'
<1> USE DEF consumerVars, raceVars, IndInv
<1>1. PICK k \in obsHead .. Len(headMO) :
        /\ obsHead' = k
        /\ cachedHead' = headMO[k].val
        /\ viewP' = MaxView(viewP, headMO[k].view)
  BY DEF PushBeginRefresh
<1>2. /\ ppc = "idle" /\ Pushing <= Len(Items)
      /\ ppc' = IF LooksFull(cachedHead') THEN "idle" ELSE "fill"
      /\ filled' = {}
      /\ UNCHANGED <<variant, headMO, tailMO, buf, cachedTail, cpc, got,
                     obsTail, viewC, received, lastWrite, lastRead>>
  BY DEF PushBeginRefresh
<1>3. /\ k \in Nat \ {0} /\ k \in obsHead .. Popping /\ k \in 1 .. Len(headMO)
      /\ k \in 1 .. Len(headMO')
  BY <1>2, Unwrapped DEF Popping
<1>4. cachedHead' = IndexAt(k) /\ viewP' = k - 1
  <2>1. headMO[k].val = IndexAt(k) /\ headMO[k].view = k - 1
    BY <1>3 DEF StoresNumbered
  <2>2. viewP = obsHead - 1
    BY DEF StoresNumbered
  <2> QED
    BY <1>1, <1>3, <2>1, <2>2, Unwrapped DEF MaxView
<1>5. LooksFull(cachedHead') <=> Pushing = k + Capacity
  BY <1>3, <1>4, FullTest
<1>6. TypeOK'
  BY <1>1, <1>2, <1>3, <1>4, IndexAtIsIndex DEF TypeOK
<1>7. StoresNumbered'
  BY <1>1, <1>2, <1>4 DEF StoresNumbered
<1>8. Positions'
  BY <1>1, <1>2, <1>3, <1>5, Unwrapped, Constants
     DEF Positions, Pushing, Popping
<1>9. SlotsHold'
  BY <1>2 DEF SlotsHold, Pushing, Popping
<1>10. LastAccesses'
  <2>1. obsHead' >= obsHead
    BY <1>1, <1>3, Unwrapped
  <2>2. obsHead \in Nat /\ obsHead' \in Nat /\ Capacity \in Nat
    BY <1>1, <1>3, Unwrapped, Constants
  <2>3. lastWrite \in [Slots -> Nat]
    BY DEF TypeOK
  <2> QED
    BY <1>2, <2>1, <2>2, <2>3 DEF LastAccesses, Pushing, Popping
<1> QED
  BY <1>6, <1>7, <1>8, <1>9, <1>10

(* Giving a borrowed slot up without a commit keeps it.                    *)
LEMMA PushAbandonStep ==
  ASSUME IndInv, PushAbandon
  PROVE  IndInv'
<1> USE DEF PushAbandon, consumerVars, raceVars, IndInv
<1>1. TypeOK'
  BY DEF TypeOK
<1>2. StoresNumbered'
  BY DEF StoresNumbered
<1>3. Positions'
  BY DEF Positions, Pushing, Popping
<1>4. SlotsHold'
  BY DEF SlotsHold, Pushing, Popping
<1>5. LastAccesses'
  BY DEF LastAccesses, Pushing, Popping
<1> QED
  BY <1>1, <1>2, <1>3, <1>4, <1>5

(* A write to the borrowed slot misses every message in flight.            *)
LEMMA FillKeepsInFlight ==
  ASSUME IndInv, NEW w \in Words, FillWord(w),
         NEW n \in Popping .. Pushing - 1
  PROVE  buf'[SlotFor(n)] = buf[SlotFor(n)]
<1> USE DEF IndInv
<1>1. ppc = "fill" /\ buf' = [buf EXCEPT ![PushSlot][w] = Items[Pushing][w]]
  BY DEF FillWord
<1>2. n \in Nat \ {0} /\ n < Pushing /\ Pushing < n + Capacity
  BY <1>1, Unwrapped, Constants DEF Positions
<1>3. SlotFor(n) # SlotFor(Pushing)
  BY <1>2, Unwrapped, SlotForGap
<1>4. SlotFor(n) \in Slots
  BY <1>2, SlotForIsMasked
<1> QED
  BY <1>1, <1>3, <1>4, Unwrapped DEF TypeOK

(* Writing a word of the borrowed slot keeps it.                           *)
LEMMA FillWordStep ==
  ASSUME IndInv, NEW w \in Words, FillWord(w)
  PROVE  IndInv'
<1> USE DEF consumerVars, IndInv
<1>1. /\ ppc = "fill" /\ w \in Words \ filled
      /\ buf' = [buf EXCEPT ![PushSlot][w] = Items[Pushing][w]]
      /\ lastWrite' = [lastWrite EXCEPT ![PushSlot] = Pushing]
      /\ filled' = filled \cup {w}
      /\ UNCHANGED <<variant, headMO, tailMO, cachedHead, cachedTail, ppc,
                     cpc, got, obsHead, obsTail, viewP, viewC, received,
                     lastRead>>
  BY DEF FillWord
<1>2. /\ Pushing \in 1 .. Len(Items) /\ Pushing \in Nat \ {0}
      /\ PushSlot \in Slots /\ PushSlot = SlotFor(Pushing)
      /\ Items[Pushing] \in Message
      /\ Pushing < obsHead + Capacity
  <2>1. Pushing \in 1 .. Len(Items) /\ Pushing < obsHead + Capacity
    BY <1>1, Unwrapped, Constants DEF Positions
  <2> QED
    BY <2>1, Unwrapped, ItemIsMessage
<1>3. Pushing' = Pushing /\ Popping' = Popping
  BY <1>1 DEF Pushing, Popping
<1>4. /\ buf \in [Slots -> Message]
      /\ \A s \in Slots \ {PushSlot} : buf'[s] = buf[s]
      /\ buf'[PushSlot] = [buf[PushSlot] EXCEPT ![w] = Items[Pushing][w]]
  BY <1>1, <1>2 DEF TypeOK
<1>5. TypeOK'
  <2>1. buf'[PushSlot] \in Message
    BY <1>2, <1>4 DEF Message
  <2>2. buf' \in [Slots -> Message]
    BY <1>1, <1>4, <2>1
  <2> QED
    BY <1>1, <1>2, <2>2 DEF TypeOK
<1>6. StoresNumbered'
  BY <1>1 DEF StoresNumbered
<1>7. Positions'
  BY <1>1, <1>3 DEF Positions
<1>8. SlotsHold'
  <2>1. \A n \in Popping .. Pushing - 1 : buf'[SlotFor(n)] = buf[SlotFor(n)]
    BY FillKeepsInFlight
  <2>2. ASSUME NEW v \in filled'
        PROVE  buf'[SlotFor(Pushing)][v] = Items[Pushing][v]
    <3>1. buf[PushSlot] \in [Words -> Values] /\ filled \subseteq Words
      BY <1>2, <1>4 DEF Message, TypeOK
    <3>2. CASE v = w
      BY <1>2, <1>4, <3>1, <3>2
    <3>3. CASE v \in filled /\ v # w
      <4>1. buf[SlotFor(Pushing)][v] = Items[Pushing][v]
        BY <1>1, <3>3 DEF SlotsHold
      <4> QED
        BY <1>2, <1>4, <3>1, <3>3, <4>1
    <3> QED
      BY <1>1, <3>2, <3>3
  <2>3. \A n \in Popping' .. Pushing' - 1 : buf'[SlotFor(n)] = Items[n]
    BY <1>3, <2>1 DEF SlotsHold
  <2>4. \A v \in filled' : buf'[SlotFor(Pushing')][v] = Items[Pushing'][v]
    BY <1>3, <2>2
  <2>5. /\ cpc' = "read" => \A v \in DOMAIN got' : got'[v] = Items[Popping'][v]
        /\ Len(received') = Popping' - 1
        /\ \A n \in 1 .. Len(received') : received'[n] = Items[n]
    BY <1>1, <1>3 DEF SlotsHold
  <2> QED
    BY <2>3, <2>4, <2>5 DEF SlotsHold, SlotFor, IndexAt
<1>9. LastAccesses'
  <2>1. lastWrite'[PushSlot] = Pushing
    BY <1>1, <1>2 DEF TypeOK
  <2>2. \A s \in Slots \ {PushSlot} : lastWrite'[s] = lastWrite[s]
    BY <1>1, <1>2 DEF TypeOK
  <2>3. ASSUME NEW s \in Slots, lastWrite'[s] # 0
        PROVE  /\ SlotFor(lastWrite'[s]) = s
               /\ lastWrite'[s] <= Pushing
               /\ lastWrite'[s] < obsHead + Capacity
    <3>1. CASE s = PushSlot
      BY <1>2, <2>1, <3>1, Unwrapped
    <3>2. CASE s # PushSlot
      BY <2>2, <2>3, <3>2 DEF LastAccesses
    <3> QED
      BY <3>1, <3>2
  <2>4. \A s \in Slots : lastRead'[s] # 0 =>
          /\ SlotFor(lastRead'[s]) = s
          /\ lastRead'[s] <= Popping' /\ lastRead'[s] < obsTail'
    BY <1>1, <1>3 DEF LastAccesses
  <2> QED
    BY <1>1, <1>3, <2>3, <2>4 DEF LastAccesses, SlotFor, IndexAt
<1> QED
  BY <1>5, <1>6, <1>7, <1>8, <1>9

(* A store to an index word leaves the earlier ones where they were.       *)
LEMMA AppendStore ==
  ASSUME NEW mo \in Seq(Store), NEW st \in Store
  PROVE  /\ Append(mo, st) \in Seq(Store) /\ Append(mo, st) # <<>>
         /\ Len(Append(mo, st)) = Len(mo) + 1
         /\ \A k \in 1 .. Len(mo) : Append(mo, st)[k] = mo[k]
         /\ Append(mo, st)[Len(mo) + 1] = st
OBVIOUS

(* The release store of tail keeps it: what was filled in joins what is in *)
(* flight.                                                                 *)
LEMMA PushCommitStep ==
  ASSUME IndInv, PushCommit
  PROVE  IndInv'
<1> USE DEF consumerVars, raceVars, IndInv
<1>1. /\ ppc = "fill" /\ filled = Words
      /\ tailMO' = ReleaseStore(tailMO, Inc(tail), Pushing)
      /\ ppc' = "idle" /\ filled' = {}
      /\ UNCHANGED <<variant, headMO, buf, cachedHead, cachedTail, cpc,
                     got, obsHead, obsTail, viewP, viewC, received,
                     lastWrite, lastRead>>
  BY DEF PushCommit
<1>2. /\ Pushing \in Nat \ {0} /\ Pushing \in 1 .. Len(Items)
      /\ Items[Pushing] \in Message
      /\ Inc(tail) = IndexAt(Pushing + 1) /\ Inc(tail) \in Index
  <2>1. Pushing \in Nat \ {0} /\ Pushing \in 1 .. Len(Items)
    BY <1>1, Unwrapped, Constants DEF Positions
  <2> QED
    BY <2>1, Unwrapped, ItemIsMessage, IncIndexAt, IndexAtIsIndex
<1>3. /\ tailMO' \in Seq(Store) /\ tailMO' # <<>>
      /\ Len(tailMO') = Pushing + 1
      /\ \A k \in 1 .. Pushing : tailMO'[k] = tailMO[k]
      /\ tailMO'[Pushing + 1].val = IndexAt(Pushing + 1)
      /\ tailMO'[Pushing + 1].view = Pushing
  <2> DEFINE st == [val |-> Inc(tail), view |-> Pushing]
  <2>1. tailMO \in Seq(Store) /\ Pushing = Len(tailMO)
    BY DEF TypeOK, Pushing
  <2>2. st \in Store /\ st.val = IndexAt(Pushing + 1) /\ st.view = Pushing
    BY <1>2 DEF Store
  <2>3. tailMO' = Append(tailMO, st)
    BY <1>1 DEF ReleaseStore
  <2> HIDE DEF st
  <2> QED
    BY <2>1, <2>2, <2>3, AppendStore
<1>4. Pushing' = Pushing + 1 /\ Popping' = Popping
  BY <1>1, <1>3 DEF Pushing, Popping
<1>5. TypeOK'
  <2>1. obsTail' \in 1 .. Len(tailMO')
    BY <1>1, <1>2, <1>3 DEF TypeOK, Pushing
  <2> QED
    BY <1>1, <1>3, <2>1 DEF TypeOK
<1>6. StoresNumbered'
  <2>1. \A k \in 1 .. Pushing + 1 :
          tailMO'[k].val = IndexAt(k) /\ tailMO'[k].view = k - 1
    <3> SUFFICES ASSUME NEW k \in 1 .. Pushing + 1
                 PROVE  tailMO'[k].val = IndexAt(k) /\ tailMO'[k].view = k - 1
      OBVIOUS
    <3>1. CASE k = Pushing + 1
      BY <1>2, <1>3, <3>1
    <3>2. CASE k \in 1 .. Pushing
      BY <1>3, <3>2 DEF StoresNumbered, Pushing
    <3> QED
      BY <1>2, <3>1, <3>2
  <2> QED
    BY <1>1, <1>3, <2>1 DEF StoresNumbered, IndexAt
<1>7. Positions'
  BY <1>1, <1>2, <1>4, Unwrapped, Constants DEF Positions
<1>8. SlotsHold'
  <2>1. buf[SlotFor(Pushing)] = Items[Pushing]
    <3>1. buf[SlotFor(Pushing)] \in [Words -> Values]
      BY Unwrapped DEF TypeOK, Message
    <3>2. Items[Pushing] \in [Words -> Values]
      BY <1>2 DEF Message
    <3>3. \A w \in Words : buf[SlotFor(Pushing)][w] = Items[Pushing][w]
      BY <1>1 DEF SlotsHold
    <3> QED
      BY <3>1, <3>2, <3>3
  <2>2. \A n \in Popping .. Pushing : buf[SlotFor(n)] = Items[n]
    <3> SUFFICES ASSUME NEW n \in Popping .. Pushing
                 PROVE  buf[SlotFor(n)] = Items[n]
      OBVIOUS
    <3>1. CASE n = Pushing
      BY <2>1, <3>1
    <3>2. CASE n \in Popping .. Pushing - 1
      BY <3>2 DEF SlotsHold
    <3> QED
      BY <1>2, <3>1, <3>2, Unwrapped
  <2>3. (Pushing + 1) - 1 = Pushing
    BY <1>2
  <2> QED
    BY <1>1, <1>4, <2>2, <2>3 DEF SlotsHold, SlotFor, IndexAt
<1>9. LastAccesses'
  <2>1. lastWrite \in [Slots -> Nat]
    BY DEF TypeOK
  <2> QED
    BY <1>1, <1>2, <1>4, <2>1 DEF LastAccesses, SlotFor, IndexAt
<1> QED
  BY <1>5, <1>6, <1>7, <1>8, <1>9

(* Reaching a published slot on the cached tail keeps the invariant.       *)
LEMMA PopBeginCachedStep ==
  ASSUME IndInv, PopBeginCached
  PROVE  IndInv'
<1> USE DEF PopBeginCached, producerVars, raceVars, IndInv
<1>1. TypeOK'
  BY DEF TypeOK
<1>2. StoresNumbered'
  BY DEF StoresNumbered
<1>3. Positions'
  <2>1. Popping < obsTail
    <3>1. obsTail \in obsTail .. Pushing /\ cachedTail = IndexAt(obsTail)
      BY Unwrapped DEF Positions, StoresNumbered
    <3>2. Popping # obsTail
      BY <3>1, EmptyTest
    <3> QED
      BY <3>2, Unwrapped DEF Positions
  <2> QED
    BY <2>1, Unwrapped DEF Positions, Pushing, Popping
<1>4. SlotsHold'
  BY DEF SlotsHold, Pushing, Popping
<1>5. LastAccesses'
  BY DEF LastAccesses, Pushing, Popping
<1> QED
  BY <1>1, <1>2, <1>3, <1>4, <1>5

(* Reloading tail, and reaching a slot or finding it empty, keeps it.      *)
LEMMA PopBeginRefreshStep ==
  ASSUME IndInv, PopBeginRefresh
  PROVE  IndInv'
<1> USE DEF producerVars, raceVars, IndInv
<1>1. PICK k \in obsTail .. Len(tailMO) :
        /\ obsTail' = k
        /\ cachedTail' = tailMO[k].val
        /\ viewC' = MaxView(viewC, tailMO[k].view)
  BY DEF PopBeginRefresh
<1>2. /\ cpc = "idle"
      /\ cpc' = IF LooksEmpty(cachedTail') THEN "idle" ELSE "read"
      /\ got' = <<>>
      /\ UNCHANGED <<variant, headMO, tailMO, buf, cachedHead, ppc, filled,
                     obsHead, viewP, received, lastWrite, lastRead>>
  BY DEF PopBeginRefresh
<1>3. /\ k \in Nat \ {0} /\ k \in obsTail .. Pushing /\ k \in 1 .. Len(tailMO)
      /\ k \in 1 .. Len(tailMO')
  BY <1>2, Unwrapped DEF Pushing
<1>4. cachedTail' = IndexAt(k) /\ viewC' = k - 1
  <2>1. tailMO[k].val = IndexAt(k) /\ tailMO[k].view = k - 1
    BY <1>3 DEF StoresNumbered
  <2>2. viewC = obsTail - 1
    BY DEF StoresNumbered
  <2> QED
    BY <1>1, <1>3, <2>1, <2>2, Unwrapped DEF MaxView
<1>5. LooksEmpty(cachedTail') <=> k = Popping
  BY <1>3, <1>4, EmptyTest
<1>6. TypeOK'
  BY <1>1, <1>2, <1>3, <1>4, IndexAtIsIndex DEF TypeOK
<1>7. StoresNumbered'
  BY <1>1, <1>2, <1>4 DEF StoresNumbered
<1>8. Positions'
  BY <1>1, <1>2, <1>3, <1>5, Unwrapped, Constants
     DEF Positions, Pushing, Popping
<1>9. SlotsHold'
  BY <1>2 DEF SlotsHold, Pushing, Popping
<1>10. LastAccesses'
  <2>1. obsTail' >= obsTail /\ obsTail \in Nat /\ obsTail' \in Nat
    BY <1>1, <1>3, Unwrapped
  <2>2. lastRead \in [Slots -> Nat]
    BY DEF TypeOK
  <2> QED
    BY <1>2, <2>1, <2>2 DEF LastAccesses, Pushing, Popping
<1> QED
  BY <1>6, <1>7, <1>8, <1>9, <1>10

(* Reading a word of the front slot keeps it.                              *)
LEMMA ReadWordStep ==
  ASSUME IndInv, NEW w \in Words, ReadWord(w)
  PROVE  IndInv'
<1> USE DEF producerVars, IndInv
<1>1. /\ cpc = "read" /\ w \in Words \ DOMAIN got
      /\ got' = [v \in DOMAIN got \cup {w} |->
                   IF v = w THEN buf[PopSlot][w] ELSE got[v]]
      /\ lastRead' = [lastRead EXCEPT ![PopSlot] = Popping]
      /\ UNCHANGED <<variant, headMO, tailMO, buf, cachedHead, cachedTail,
                     ppc, filled, cpc, obsHead, obsTail, viewP, viewC,
                     received, lastWrite>>
  BY DEF ReadWord
<1>2. /\ Popping < obsTail /\ Popping \in Nat \ {0}
      /\ PopSlot \in Slots /\ PopSlot = SlotFor(Popping)
      /\ Popping \in Popping .. Pushing - 1
  BY <1>1, Unwrapped DEF Positions
<1>3. Pushing' = Pushing /\ Popping' = Popping
  BY <1>1 DEF Pushing, Popping
<1>4. buf[PopSlot] = Items[Popping]
  BY <1>2 DEF SlotsHold
<1>5. TypeOK'
  <2>1. buf[PopSlot][w] \in Values
    BY <1>2 DEF TypeOK, Message
  <2>2. DOMAIN got' \subseteq Words /\ got' \in [DOMAIN got' -> Values]
    BY <1>1, <2>1 DEF TypeOK
  <2>3. lastRead' \in [Slots -> Nat]
    BY <1>1, <1>2 DEF TypeOK
  <2> QED
    BY <1>1, <2>2, <2>3 DEF TypeOK
<1>6. StoresNumbered'
  BY <1>1 DEF StoresNumbered
<1>7. Positions'
  BY <1>1, <1>3 DEF Positions
<1>8. SlotsHold'
  <2>1. \A v \in DOMAIN got' : got'[v] = Items[Popping][v]
    BY <1>1, <1>4 DEF SlotsHold
  <2> QED
    BY <1>1, <1>3, <2>1 DEF SlotsHold, SlotFor, IndexAt
<1>9. LastAccesses'
  <2>1. lastRead'[PopSlot] = Popping
    BY <1>1, <1>2 DEF TypeOK
  <2>2. \A s \in Slots \ {PopSlot} : lastRead'[s] = lastRead[s]
    BY <1>1, <1>2 DEF TypeOK
  <2>3. ASSUME NEW s \in Slots, lastRead'[s] # 0
        PROVE  /\ SlotFor(lastRead'[s]) = s
               /\ lastRead'[s] <= Popping /\ lastRead'[s] < obsTail
    <3>1. CASE s = PopSlot
      BY <1>2, <2>1, <3>1
    <3>2. CASE s # PopSlot
      BY <2>2, <2>3, <3>2 DEF LastAccesses
    <3> QED
      BY <3>1, <3>2
  <2>4. \A s \in Slots : lastWrite'[s] # 0 =>
          /\ SlotFor(lastWrite'[s]) = s
          /\ lastWrite'[s] <= Pushing' /\ lastWrite'[s] < obsHead' + Capacity
    BY <1>1, <1>3 DEF LastAccesses
  <2> QED
    BY <1>1, <1>3, <2>3, <2>4 DEF LastAccesses, SlotFor, IndexAt
<1> QED
  BY <1>5, <1>6, <1>7, <1>8, <1>9

(* The release store of head keeps it: the front message leaves the ring.  *)
LEMMA PopEndStep ==
  ASSUME IndInv, PopEnd
  PROVE  IndInv'
<1> USE DEF producerVars, raceVars, IndInv
<1>1. /\ cpc = "read" /\ DOMAIN got = Words
      /\ headMO' = ReleaseStore(headMO, Inc(head), Popping)
      /\ received' = Append(received, got)
      /\ cpc' = "idle" /\ got' = <<>>
      /\ UNCHANGED <<variant, tailMO, buf, cachedHead, cachedTail, ppc,
                     filled, obsHead, obsTail, viewP, viewC, lastWrite,
                     lastRead>>
  BY DEF PopEnd
<1>2. /\ Popping \in Nat \ {0} /\ Popping \in 1 .. Len(Items)
      /\ Items[Popping] \in Message
      /\ Inc(head) = IndexAt(Popping + 1) /\ Inc(head) \in Index
  <2>1. Popping \in Nat \ {0} /\ Popping \in 1 .. Len(Items)
    BY <1>1, Unwrapped, Constants DEF Positions
  <2> QED
    BY <2>1, Unwrapped, ItemIsMessage, IncIndexAt, IndexAtIsIndex
<1>3. /\ headMO' \in Seq(Store) /\ headMO' # <<>>
      /\ Len(headMO') = Popping + 1
      /\ \A k \in 1 .. Popping : headMO'[k] = headMO[k]
      /\ headMO'[Popping + 1].val = IndexAt(Popping + 1)
      /\ headMO'[Popping + 1].view = Popping
  <2> DEFINE st == [val |-> Inc(head), view |-> Popping]
  <2>1. headMO \in Seq(Store) /\ Popping = Len(headMO)
    BY DEF TypeOK, Popping
  <2>2. st \in Store /\ st.val = IndexAt(Popping + 1) /\ st.view = Popping
    BY <1>2 DEF Store
  <2>3. headMO' = Append(headMO, st)
    BY <1>1 DEF ReleaseStore
  <2> HIDE DEF st
  <2> QED
    BY <2>1, <2>2, <2>3, AppendStore
<1>4. Popping' = Popping + 1 /\ Pushing' = Pushing
  BY <1>1, <1>3 DEF Pushing, Popping
<1>5. got = Items[Popping] /\ got \in Message
  <2>1. got \in [Words -> Values] /\ Items[Popping] \in [Words -> Values]
    BY <1>1, <1>2 DEF TypeOK, Message
  <2>2. \A w \in Words : got[w] = Items[Popping][w]
    BY <1>1 DEF SlotsHold
  <2> QED
    BY <1>2, <2>1, <2>2
<1>6. /\ received' \in Seq(Message) /\ Len(received') = Popping
      /\ \A n \in 1 .. Len(received) : received'[n] = received[n]
      /\ received'[Popping] = Items[Popping]
      /\ Len(received) = Popping - 1
  BY <1>1, <1>2, <1>5 DEF TypeOK, SlotsHold
<1>7. TypeOK'
  <2>1. obsHead' \in 1 .. Len(headMO')
    BY <1>1, <1>2, <1>3 DEF TypeOK, Popping
  <2>2. DOMAIN got' \subseteq Words /\ got' \in [DOMAIN got' -> Values]
    BY <1>1
  <2>3. /\ variant' \in {"cached", "plain"}
        /\ cachedHead' \in Index /\ cachedTail' \in Index
        /\ buf' \in [Slots -> Message]
        /\ tailMO' \in Seq(Store) /\ tailMO' # <<>>
        /\ ppc' \in {"idle", "fill"} /\ filled' \subseteq Words
        /\ cpc' \in {"idle", "read"} /\ obsTail' \in 1 .. Len(tailMO')
        /\ viewP' \in Nat /\ viewC' \in Nat
        /\ lastWrite' \in [Slots -> Nat] /\ lastRead' \in [Slots -> Nat]
    BY <1>1 DEF TypeOK
  <2> QED
    BY <1>3, <1>6, <2>1, <2>2, <2>3 DEF TypeOK
<1>8. StoresNumbered'
  <2>1. \A k \in 1 .. Popping + 1 :
          headMO'[k].val = IndexAt(k) /\ headMO'[k].view = k - 1
    <3> SUFFICES ASSUME NEW k \in 1 .. Popping + 1
                 PROVE  headMO'[k].val = IndexAt(k) /\ headMO'[k].view = k - 1
      OBVIOUS
    <3>1. CASE k = Popping + 1
      BY <1>2, <1>3, <3>1
    <3>2. CASE k \in 1 .. Popping
      BY <1>3, <3>2 DEF StoresNumbered, Popping
    <3> QED
      BY <1>2, <3>1, <3>2
  <2> QED
    BY <1>1, <1>3, <2>1 DEF StoresNumbered, IndexAt
<1>9. Positions'
  BY <1>1, <1>2, <1>4, Unwrapped, Constants DEF Positions
<1>10. SlotsHold'
  <2>1. \A n \in Popping + 1 .. Pushing - 1 : buf[SlotFor(n)] = Items[n]
    BY <1>2, Unwrapped DEF SlotsHold
  <2>2. \A n \in 1 .. Len(received') : received'[n] = Items[n]
    BY <1>2, <1>6 DEF SlotsHold
  <2>3. (Popping + 1) - 1 = Popping
    BY <1>2
  <2> QED
    BY <1>1, <1>4, <1>6, <2>1, <2>2, <2>3 DEF SlotsHold, SlotFor, IndexAt
<1>11. LastAccesses'
  <2>1. lastRead \in [Slots -> Nat]
    BY DEF TypeOK
  <2> QED
    BY <1>1, <1>2, <1>4, <2>1 DEF LastAccesses, SlotFor, IndexAt
<1> QED
  BY <1>7, <1>8, <1>9, <1>10, <1>11

(* Every step of either thread, or of neither, keeps the invariant.        *)
LEMMA IndInvStep == IndInv /\ [Next]_vars => IndInv'
<1> SUFFICES ASSUME IndInv, [Next]_vars PROVE IndInv'
  OBVIOUS
<1>1. CASE PushBeginCached
  BY <1>1, PushBeginCachedStep
<1>2. CASE PushBeginRefresh
  BY <1>2, PushBeginRefreshStep
<1>3. CASE \E w \in Words : FillWord(w)
  BY <1>3, FillWordStep
<1>4. CASE PushCommit
  BY <1>4, PushCommitStep
<1>5. CASE PushAbandon
  BY <1>5, PushAbandonStep
<1>6. CASE PopBeginCached
  BY <1>6, PopBeginCachedStep
<1>7. CASE PopBeginRefresh
  BY <1>7, PopBeginRefreshStep
<1>8. CASE \E w \in Words : ReadWord(w)
  BY <1>8, ReadWordStep
<1>9. CASE PopEnd
  BY <1>9, PopEndStep
<1>10. CASE UNCHANGED vars
  BY <1>10 DEF vars, producerVars, consumerVars, raceVars, IndInv, TypeOK,
     StoresNumbered, Positions, SlotsHold, LastAccesses, Pushing, Popping
<1> QED
  BY <1>1, <1>2, <1>3, <1>4, <1>5, <1>6, <1>7, <1>8, <1>9, <1>10
     DEF Next, Producer, Consumer

(* The invariant holds in every reachable state of the ring.               *)
LEMMA Invariance == Spec => []IndInv
<1> QED
  BY Initially, IndInvStep, PTL DEF Spec

-----------------------------------------------------------------------------
(* The theorems.                                                           *)

(* Every variable keeps its type: in particular the index words never      *)
(* leave size_t and every slot always holds a message.                     *)
THEOREM TypeCorrect == Spec => []TypeOK
<1> QED
  BY Invariance, PTL DEF IndInv

(* In a state of the invariant no two unordered accesses touch a word.     *)
LEMMA IndInvRaceFree == IndInv => DataRaceFree
<1> SUFFICES ASSUME IndInv PROVE DataRaceFree
  OBVIOUS
<1> USE DEF IndInv
<1>1. ASSUME ppc = "fill" PROVE lastRead[PushSlot] <= viewP
  <2> DEFINE r == lastRead[PushSlot]
  <2>1. r \in Nat /\ Pushing \in Nat \ {0} /\ obsHead \in Nat \ {0}
    BY Unwrapped DEF TypeOK
  <2>2. viewP = obsHead - 1 /\ Pushing < obsHead + Capacity
    BY <1>1 DEF StoresNumbered, Positions
  <2>3. CASE r = 0
    BY <2>1, <2>2, <2>3
  <2>4. CASE r # 0
    <3>1. SlotFor(r) = SlotFor(Pushing) /\ r < Pushing
      BY <2>1, <2>4, Unwrapped DEF LastAccesses, Positions
    <3>2. r <= Pushing - Capacity
      BY <2>1, <2>4, <3>1, SlotForGapStrict
    <3> QED
      BY <2>1, <2>2, <3>2, Constants
  <2> QED
    BY <2>3, <2>4
<1>2. ASSUME cpc = "read" PROVE lastWrite[PopSlot] <= viewC
  <2> DEFINE r == lastWrite[PopSlot]
  <2>1. /\ r \in Nat /\ Popping \in Nat \ {0}
        /\ obsTail \in Nat \ {0} /\ obsHead \in Nat \ {0}
    BY Unwrapped DEF TypeOK
  <2>2. viewC = obsTail - 1 /\ Popping < obsTail
    BY <1>2 DEF StoresNumbered, Positions
  <2>3. CASE r = 0
    BY <2>1, <2>2, <2>3
  <2>4. CASE r # 0
    <3>1. SlotFor(r) = SlotFor(Popping) /\ r < Popping + Capacity
      BY <2>1, <2>4, Unwrapped, Constants DEF LastAccesses, Positions
    <3>2. r <= Popping
      BY <2>1, <2>4, <3>1, SlotForGap
    <3> QED
      BY <2>1, <2>2, <3>2
  <2> QED
    BY <2>3, <2>4
<1> QED
  BY <1>1, <1>2 DEF DataRaceFree

(* No slot is ever accessed without being ordered after the other thread's *)
(* accesses to it: the release/acquire pairs and the cached tests suffice. *)
THEOREM NoDataRace == Spec => []DataRaceFree
<1> QED
  BY Invariance, IndInvRaceFree, PTL

(* In a state of the invariant the popped messages are the first pushed.   *)
LEMMA IndInvWhole == IndInv => WholeInOrder
<1> SUFFICES ASSUME IndInv PROVE WholeInOrder
  OBVIOUS
<1> DEFINE n == Len(received)
           p == SubSeq(Items, 1, n)
<1>1. /\ received \in Seq(Message) /\ n \in Nat /\ n <= Len(Items)
      /\ \A i \in 1 .. n : received[i] = Items[i]
  <2>1. TypeOK /\ StoresNumbered /\ Positions /\ SlotsHold
    BY DEF IndInv
  <2>2. n = Popping - 1 /\ Popping <= Pushing /\ Pushing <= Len(Items) + 1
    BY <2>1, Unwrapped DEF Positions, SlotsHold
  <2>3. received \in Seq(Message) /\ \A i \in 1 .. n : received[i] = Items[i]
    BY <2>1 DEF TypeOK, SlotsHold
  <2> QED
    BY <2>1, <2>2, <2>3, Unwrapped, Constants
<1>2. p \in Seq(Message) /\ Len(p) = n /\ \A i \in 1 .. n : p[i] = Items[i]
  BY <1>1, Constants
<1>3. received = p
  BY <1>1, <1>2, SeqEqual
<1> QED
  BY <1>3 DEF WholeInOrder

(* pop delivers the pushed messages whole, once each and in push order.    *)
THEOREM DeliveredInOrder == Spec => []WholeInOrder
<1> QED
  BY Invariance, IndInvWhole, PTL

(* In a state of the invariant both cached indices err on the safe side.   *)
LEMMA IndInvCaches == IndInv => CacheConservative
<1> SUFFICES ASSUME IndInv PROVE CacheConservative
  OBVIOUS
<1> USE DEF IndInv
<1>1. /\ Pushing - Popping \in 0 .. Capacity
      /\ Pushing - obsHead \in 0 .. Capacity
      /\ obsTail - Popping \in 0 .. Capacity
  BY Unwrapped, Constants DEF Positions
<1>2. Distance(tail, head) = Pushing - Popping
  BY <1>1, Unwrapped, DistanceIndexAt
<1>3. Distance(tail, cachedHead) = Pushing - obsHead
  BY <1>1, Unwrapped, DistanceIndexAt DEF StoresNumbered
<1>4. Distance(cachedTail, head) = obsTail - Popping
  BY <1>1, Unwrapped, DistanceIndexAt DEF StoresNumbered
<1> QED
  BY <1>1, <1>2, <1>3, <1>4, Unwrapped, Constants
     DEF CacheConservative, Positions

(* A stale cached index never grants a slot that is not free, nor a        *)
(* message that has not arrived.                                           *)
THEOREM CachesAreSafe == Spec => []CacheConservative
<1> QED
  BY Invariance, IndInvCaches, PTL

(* A message in flight is never overwritten before pop_end.                *)
THEOREM HandedOverIntact == Spec => HandedOver
<1> DEFINE Intact == \A n \in Len(headMO) .. Len(tailMO) - 1 :
                       buf'[SlotFor(n)] = buf[SlotFor(n)]
<1>1. ASSUME IndInv, [Next]_vars PROVE Intact
  <2>1. CASE \E w \in Words : FillWord(w)
    BY <1>1, <2>1, FillKeepsInFlight DEF Pushing, Popping
  <2>2. CASE UNCHANGED buf
    BY <2>2
  <2>3. \/ \E w \in Words : FillWord(w)
        \/ UNCHANGED buf
    BY <1>1 DEF Next, Producer, Consumer, PushBeginCached, PushBeginRefresh,
       PushCommit, PushAbandon, PopBeginCached, PopBeginRefresh, ReadWord,
       PopEnd, vars
  <2> QED
    BY <2>1, <2>2, <2>3
<1>2. IndInv /\ [Next]_vars => [Intact]_vars
  BY <1>1
<1> HIDE DEF Intact
<1>3. Spec => [][Intact]_vars
  BY <1>2, Invariance, PTL DEF Spec
<1> QED
  BY <1>3 DEF Intact, HandedOver

(* The abstract channel holds the next items, in order.                    *)
ChannelHolds ==
  /\ InFlight \in Seq(Message)
  /\ Len(InFlight) = Pushing - Popping
  /\ \A i \in 1 .. Pushing - Popping : InFlight[i] = Items[Popping + i - 1]

(* In a state of the invariant the slots between head and tail hold the    *)
(* messages pushed and not yet popped.                                     *)
LEMMA InFlightIs == IndInv => ChannelHolds
<1> SUFFICES ASSUME IndInv PROVE ChannelHolds
  OBVIOUS
<1>1. TypeOK /\ StoresNumbered /\ Positions /\ SlotsHold
  BY DEF IndInv
<1>2. InFlight = [i \in 1 .. Pushing - Popping |-> buf[SlotFor(Popping + i - 1)]]
  BY DEF InFlight, Pushing, Popping
<1>3. /\ Pushing \in Nat \ {0} /\ Popping \in Nat \ {0}
      /\ Pushing - Popping \in Nat /\ Pushing <= Len(Items) + 1
  BY <1>1, Unwrapped DEF Positions
<1>4. ASSUME NEW i \in 1 .. Pushing - Popping
      PROVE  /\ buf[SlotFor(Popping + i - 1)] = Items[Popping + i - 1]
             /\ Items[Popping + i - 1] \in Message
  <2> DEFINE n == Popping + i - 1
  <2>1. n \in Popping .. Pushing - 1 /\ n \in 1 .. Len(Items)
    BY <1>3, Constants
  <2> QED
    BY <1>1, <2>1, ItemIsMessage DEF SlotsHold
<1> DEFINE N == Pushing - Popping
<1> HIDE DEF N
<1>5. /\ N \in Nat
      /\ InFlight = [i \in 1 .. N |-> buf[SlotFor(Popping + i - 1)]]
      /\ \A i \in 1 .. N : buf[SlotFor(Popping + i - 1)] \in Message
  BY <1>2, <1>3, <1>4 DEF N
<1>6. InFlight \in Seq(Message) /\ Len(InFlight) = N
  <2> DEFINE e(i) == buf[SlotFor(Popping + i - 1)]
  <2>1. /\ InFlight = [i \in 1 .. N |-> e(i)]
        /\ \A i \in 1 .. N : e(i) \in Message
    BY <1>5
  <2> HIDE DEF e
  <2>2. InFlight \in [1 .. N -> Message]
    BY <2>1
  <2> QED
    BY <1>5, <2>2, LenProperties
<1>7. \A i \in 1 .. N : InFlight[i] = Items[Popping + i - 1]
  BY <1>2, <1>4 DEF N
<1> QED
  BY <1>6, <1>7 DEF N, ChannelHolds

(* push_commit appends the item to the abstract channel.                   *)
LEMMA CommitIsSend ==
  ASSUME IndInv, IndInv', PushCommit
  PROVE  Fifo!Send(Items[Pushing])
<1>1. TypeOK /\ StoresNumbered /\ Positions
  BY DEF IndInv
<1>2. /\ Pushing \in 1 .. Len(Items) /\ Items[Pushing] \in Message
      /\ Pushing - Popping < Capacity
      /\ Pushing \in Nat \ {0} /\ Popping \in Nat \ {0} /\ Popping <= Pushing
  <2>1. /\ Pushing \in 1 .. Len(Items) /\ Pushing < obsHead + Capacity
        /\ obsHead <= Popping /\ Popping <= Pushing
    BY <1>1, Unwrapped, Constants DEF PushCommit, Positions
  <2> QED
    BY <1>1, <2>1, Unwrapped, Constants, ItemIsMessage
<1>3. Pushing' = Pushing + 1 /\ Popping' = Popping
  BY <1>1 DEF PushCommit, ReleaseStore, Pushing, Popping, TypeOK
<1>4. /\ InFlight \in Seq(Message) /\ Len(InFlight) = Pushing - Popping
      /\ \A i \in 1 .. Pushing - Popping :
           InFlight[i] = Items[Popping + i - 1]
  BY InFlightIs DEF ChannelHolds
<1>5. /\ InFlight' \in Seq(Message) /\ Len(InFlight') = Pushing' - Popping'
      /\ \A i \in 1 .. Pushing' - Popping' :
           InFlight'[i] = Items[Popping' + i - 1]
  <2>1. IndInv' => ChannelHolds'
    BY InFlightIs, PTL
  <2> QED
    BY <2>1 DEF ChannelHolds
<1> DEFINE a == Append(InFlight, Items[Pushing])
<1>6. /\ a \in Seq(Message) /\ Len(a) = (Pushing - Popping) + 1
      /\ \A i \in 1 .. Pushing - Popping : a[i] = InFlight[i]
      /\ a[(Pushing - Popping) + 1] = Items[Pushing]
  BY <1>2, <1>4
<1> HIDE DEF a
<1>7. InFlight' = a
  <2>1. Len(InFlight') = (Pushing - Popping) + 1
    BY <1>2, <1>3, <1>5
  <2>2. ASSUME NEW i \in 1 .. (Pushing - Popping) + 1
        PROVE  InFlight'[i] = a[i]
    <3>1. InFlight'[i] = Items[Popping + i - 1]
      BY <1>2, <1>3, <1>5
    <3>2. CASE i = (Pushing - Popping) + 1
      BY <1>2, <1>6, <3>1, <3>2
    <3>3. CASE i \in 1 .. Pushing - Popping
      BY <1>4, <1>6, <3>1, <3>3
    <3> QED
      BY <1>2, <3>2, <3>3
  <2> QED
    BY <1>5, <1>6, <2>1, <2>2, SeqEqual
<1>8. received' = received
  BY DEF PushCommit, consumerVars
<1> QED
  BY <1>2, <1>4, <1>7, <1>8 DEF Fifo!Send, a

(* pop_end moves the oldest message of the abstract channel to the output. *)
LEMMA EndIsReceive ==
  ASSUME IndInv, IndInv', PopEnd
  PROVE  Fifo!Receive
<1>1. TypeOK /\ StoresNumbered /\ Positions /\ SlotsHold
  BY DEF IndInv
<1>2. /\ Pushing \in Nat \ {0} /\ Popping \in Nat \ {0}
      /\ Popping < Pushing /\ Popping \in 1 .. Len(Items)
  BY <1>1, Unwrapped, Constants DEF PopEnd, Positions
<1>3. Pushing' = Pushing /\ Popping' = Popping + 1
  BY <1>1 DEF PopEnd, ReleaseStore, Pushing, Popping, TypeOK
<1>4. /\ InFlight \in Seq(Message) /\ Len(InFlight) = Pushing - Popping
      /\ \A i \in 1 .. Pushing - Popping :
           InFlight[i] = Items[Popping + i - 1]
  BY InFlightIs DEF ChannelHolds
<1>5. /\ InFlight' \in Seq(Message) /\ Len(InFlight') = Pushing' - Popping'
      /\ \A i \in 1 .. Pushing' - Popping' :
           InFlight'[i] = Items[Popping' + i - 1]
  <2>1. IndInv' => ChannelHolds'
    BY InFlightIs, PTL
  <2> QED
    BY <2>1 DEF ChannelHolds
<1>6. InFlight # <<>> /\ Head(InFlight) = Items[Popping]
  <2>1. Len(InFlight) > 0 /\ 1 \in 1 .. Pushing - Popping
    BY <1>2, <1>4
  <2>2. InFlight[1] = Items[Popping]
    BY <1>2, <1>4, <2>1
  <2> QED
    BY <1>4, <2>1, <2>2
<1>7. InFlight' = Tail(InFlight)
  <2>1. /\ Tail(InFlight) \in Seq(Message)
        /\ Len(Tail(InFlight)) = Len(InFlight) - 1
        /\ \A i \in 1 .. Len(Tail(InFlight)) :
             Tail(InFlight)[i] = InFlight[i + 1]
    BY <1>4, <1>6, HeadTailProperties
  <2>2. Len(InFlight') = Len(Tail(InFlight))
    BY <1>2, <1>3, <1>4, <1>5, <2>1
  <2>3. ASSUME NEW i \in 1 .. Len(InFlight')
        PROVE  InFlight'[i] = Tail(InFlight)[i]
    <3>1. InFlight'[i] = Items[(Popping + 1) + i - 1]
      BY <1>2, <1>3, <1>5
    <3>2. Tail(InFlight)[i] = Items[Popping + (i + 1) - 1]
      BY <1>2, <1>4, <2>1, <2>2
    <3>3. (Popping + 1) + i - 1 = Popping + (i + 1) - 1
      BY <1>2
    <3> QED
      BY <3>1, <3>2, <3>3
  <2> QED
    BY <1>5, <2>1, <2>2, <2>3, SeqEqual
<1>8. received' = Append(received, Items[Popping])
  <2>1. got \in [Words -> Values]
    BY <1>1 DEF PopEnd, TypeOK
  <2>2. Items[Popping] \in [Words -> Values]
    BY <1>2, ItemIsMessage DEF Message
  <2>3. \A w \in Words : got[w] = Items[Popping][w]
    BY <1>1 DEF PopEnd, SlotsHold
  <2>4. got = Items[Popping]
    BY <2>1, <2>2, <2>3
  <2> QED
    BY <2>4 DEF PopEnd
<1> QED
  BY <1>6, <1>7, <1>8 DEF Fifo!Receive

(* Every other step leaves the abstract channel and the output alone.      *)
LEMMA OtherStepsStutter ==
  ASSUME IndInv, IndInv', [Next]_vars, ~PushCommit, ~PopEnd
  PROVE  UNCHANGED <<InFlight, received>>
<1>1. UNCHANGED <<headMO, tailMO, received>>
  BY DEF Next, Producer, Consumer, PushBeginCached, PushBeginRefresh,
     PushAbandon, FillWord, PopBeginCached, PopBeginRefresh, ReadWord, vars,
     producerVars, consumerVars, raceVars
<1>2. Pushing' = Pushing /\ Popping' = Popping
  BY <1>1 DEF Pushing, Popping
<1>3. /\ InFlight \in Seq(Message) /\ Len(InFlight) = Pushing - Popping
      /\ \A i \in 1 .. Pushing - Popping :
           InFlight[i] = Items[Popping + i - 1]
  BY InFlightIs DEF ChannelHolds
<1>4. /\ InFlight' \in Seq(Message) /\ Len(InFlight') = Pushing' - Popping'
      /\ \A i \in 1 .. Pushing' - Popping' :
           InFlight'[i] = Items[Popping' + i - 1]
  <2>1. IndInv' => ChannelHolds'
    BY InFlightIs, PTL
  <2> QED
    BY <2>1 DEF ChannelHolds
<1>5. InFlight' = InFlight
  BY <1>2, <1>3, <1>4, SeqEqual
<1> QED
  BY <1>1, <1>5

(* The ring implements the bounded FIFO.                                   *)
THEOREM ImplementsFifo == Spec => FifoSpec
<1>1. Init => Fifo!Init
  BY DEF Init, Fifo!Init, InFlight
<1>2. ASSUME IndInv, IndInv', [Next]_vars PROVE [Fifo!Next]_(Fifo!vars)
  <2>1. CASE PushCommit
    <3>1. Items[Pushing] \in Message
      <4>1. Pushing \in 1 .. Len(Items)
        BY <1>2, <2>1, Unwrapped, Constants DEF IndInv, Positions, PushCommit
      <4> QED
        BY <4>1, ItemIsMessage
    <3> QED
      BY <1>2, <2>1, <3>1, CommitIsSend DEF Fifo!Next
  <2>2. CASE PopEnd
    BY <1>2, <2>2, EndIsReceive DEF Fifo!Next
  <2>3. CASE ~PushCommit /\ ~PopEnd
    BY <1>2, <2>3, OtherStepsStutter DEF Fifo!vars
  <2> QED
    BY <2>1, <2>2, <2>3
<1> QED
  BY <1>1, <1>2, Invariance, PTL DEF Spec, Fifo!Spec, FifoSpec
=============================================================================
