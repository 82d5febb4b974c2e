----------------------------- MODULE SpscQueue -----------------------------
(***************************************************************************)
(* include/ll/spsc_queue_cached.h: the single-producer single-consumer     *)
(* ring every stage boundary of the pipeline uses, with its cached indices *)
(* and its slot-borrowing calls                                            *)
(*                                                                         *)
(*   producer  push_begin ; write the slot ; push_commit                   *)
(*   consumer  pop_begin  ; read the slot  ; pop_end                       *)
(*                                                                         *)
(* push and pop by value perform the same accesses in the same order, with *)
(* the copy of *item between them, so they are the same actions.           *)
(*                                                                         *)
(* The rings of spsc_queue_nopad.h and spsc_queue_padded.h differ in their *)
(* layout only and are both `variant` "plain": push and pop by value, with *)
(* the other index loaded on every call.  cachedHead and cachedTail then   *)
(* stand for that loaded value, a local of the call.  The producer and the *)
(* consumer are those of bench/spsc_variants_bench.c, which runs any of    *)
(* the three: every item is pushed until it succeeds.                      *)
(*                                                                         *)
(* The two index words are C11 atomics, so a load need not return the      *)
(* newest store.  Each word is its modification order: a sequence of       *)
(* stores [val, view].  A thread remembers the newest store it has         *)
(* observed and may read that one or any later one.  A release store       *)
(* carries a view, the slot accesses that happen before it; an acquire     *)
(* load that reads the store adds that view to the reader's.  The slots    *)
(* are plain memory, written and read word by word, and any two            *)
(* conflicting accesses must be ordered by these views (DataRaceFree).     *)
(***************************************************************************)
EXTENDS Integers, Sequences

CONSTANTS Capacity,  (* slots in the ring                                  *)
          IndexMod,  (* values of size_t: 2^64 in the program              *)
          Words,     (* the separately stored words of one slot            *)
          Values,    (* what one word may hold                             *)
          Items      (* the messages the producer pushes, in order         *)

(* The mask `index & (CAPACITY - 1)` is index % CAPACITY because CAPACITY  *)
(* is a power of two (the _Static_assert); it then also divides 2^64.      *)
ASSUME CapacityAssumption ==
    /\ Capacity \in Nat \ {0}
    /\ IndexMod \in Nat \ {0}
    /\ \E k \in 2 .. IndexMod : IndexMod = k * Capacity

ASSUME ItemsAssumption == Items \in Seq([Words -> Values])

VARIABLES
  variant,     (* the ring that is built: "cached" or "plain"              *)
  headMO,      (* stores to head, oldest first, as [val, view]             *)
  tailMO,      (* stores to tail                                           *)
  cachedHead,  (* producer's cached_head                                   *)
  cachedTail,  (* consumer's cached_tail                                   *)
  buf,         (* the slots                                                *)
  ppc, filled, (* producer: holding a slot?  words of it written so far    *)
  cpc, got,    (* consumer: holding a slot?  words of it read so far       *)
  obsHead,     (* position in headMO of the store the producer saw last    *)
  obsTail,     (* position in tailMO of the store the consumer saw last    *)
  viewP,       (* pops whose slot reads happen before the producer's next  *)
  viewC,       (* pushes whose slot writes happen before the consumer's    *)
  lastWrite,   (* per slot, the push that last wrote it (0: none)          *)
  lastRead,    (* per slot, the pop that last read it (0: none)            *)
  received     (* history: the messages popped                             *)

producerVars == <<cachedHead, ppc, filled, obsHead, viewP>>
consumerVars == <<cachedTail, cpc, got, obsTail, viewC, received>>
raceVars     == <<lastWrite, lastRead>>
vars == <<variant, headMO, tailMO, buf, producerVars, consumerVars,
          raceVars>>

-----------------------------------------------------------------------------
(* Index arithmetic of size_t.  A definition whose comment starts with     *)
(* "Fault:" is a plausible bug, used by no specification: the README says  *)
(* which property rejects it.                                              *)

Slots == 0 .. Capacity - 1
Index == 0 .. IndexMod - 1

Wrap(n) == n % IndexMod

(* Fault: the index is one bit wider than the masks assume.                *)
IncNoWrap(i) == i + 1

Inc(i) == Wrap(i + 1)

Distance(a, b) == Wrap(a - b)

(* Fault: the mask is one bit short.                                       *)
SlotOfHalf(i) == i % (Capacity \div 2)

SlotOf(i) == i % Capacity

(* A relaxed load of the index a thread itself stores: its last store.     *)
head == headMO[Len(headMO)].val
tail == tailMO[Len(tailMO)].val

(* The ordinal of the push, and of the pop, now in progress.               *)
Pushing == Len(tailMO)
Popping == Len(headMO)

MaxView(v, w) == IF v > w THEN v ELSE w

(* Fault: a relaxed store, which orders nothing before it.                 *)
RelaxedStore(mo, v, n) == Append(mo, [val |-> v, view |-> 0])

(* A store to an index word: its value and the view it releases.           *)
ReleaseStore(mo, v, n) == Append(mo, [val |-> v, view |-> n])

(* The two tests of the source, on the thread's cached copy of the other   *)
(* index.                                                                  *)
LooksFullLate(cached) == Distance(tail, cached) = Capacity + 1  (* Fault.  *)

LooksFull(cached) == Distance(tail, cached) = Capacity

LooksEmpty(cached) == head = cached

(* The slot a borrowed pointer points to.                                  *)
PushSlot == SlotOf(tail)
PopSlot  == SlotOf(head)

-----------------------------------------------------------------------------
Init ==
    /\ variant \in {"cached", "plain"}
    /\ headMO = <<[val |-> 0, view |-> 0]>>
    /\ tailMO = <<[val |-> 0, view |-> 0]>>
    /\ cachedHead = 0 /\ cachedTail = 0
    /\ buf \in [Slots -> [Words -> Values]]
    /\ ppc = "idle" /\ filled = {}
    /\ cpc = "idle" /\ got = <<>>
    /\ obsHead = 1 /\ obsTail = 1
    /\ viewP = 0 /\ viewC = 0
    /\ lastWrite = [s \in Slots |-> 0]
    /\ lastRead = [s \in Slots |-> 0]
    /\ received = <<>>

-----------------------------------------------------------------------------
(* Producer.                                                               *)

(* push_begin when the cached head already shows a free slot.              *)
PushBeginCached ==
    /\ variant = "cached"
    /\ ppc = "idle" /\ Pushing <= Len(Items)
    /\ ~LooksFull(cachedHead)
    /\ ppc' = "fill" /\ filled' = {}
    /\ UNCHANGED <<variant, headMO, tailMO, buf, cachedHead, obsHead,
                   viewP, consumerVars, raceVars>>

(* Fault: the cached head is never refreshed.                              *)
PushBeginNoRefresh ==
    /\ ppc = "idle" /\ Pushing <= Len(Items)
    /\ LooksFull(cachedHead)
    /\ UNCHANGED vars

(* push_begin when the cached head shows a full ring, and every plain      *)
(* push: acquire load of head, then the slot if the ring is not full (any  *)
(* more), else NULL.                                                       *)
PushBeginRefresh ==
    /\ ppc = "idle" /\ Pushing <= Len(Items)
    /\ variant = "plain" \/ LooksFull(cachedHead)
    /\ \E k \in obsHead .. Len(headMO) :
         /\ obsHead' = k
         /\ cachedHead' = headMO[k].val
         /\ viewP' = MaxView(viewP, headMO[k].view)
    /\ ppc' = IF LooksFull(cachedHead') THEN "idle" ELSE "fill"
    /\ filled' = {}
    /\ UNCHANGED <<variant, headMO, tailMO, buf, consumerVars, raceVars>>

(* One word of the message reaches the borrowed slot, in any order.        *)
FillWord(w) ==
    /\ ppc = "fill" /\ w \in Words \ filled
    /\ buf' = [buf EXCEPT ![PushSlot][w] = Items[Pushing][w]]
    /\ lastWrite' = [lastWrite EXCEPT ![PushSlot] = Pushing]
    /\ filled' = filled \cup {w}
    /\ UNCHANGED <<variant, headMO, tailMO, cachedHead, ppc, obsHead,
                   viewP, consumerVars, lastRead>>

(* push_commit: the release store of tail that hands the slot over.        *)
PushCommit ==
    /\ ppc = "fill" /\ filled = Words
    /\ tailMO' = ReleaseStore(tailMO, Inc(tail), Pushing)
    /\ ppc' = "idle" /\ filled' = {}
    /\ UNCHANGED <<variant, headMO, buf, cachedHead, obsHead, viewP,
                   consumerVars, raceVars>>

(* The borrowed slot is given up: nothing is committed, tail stays, and    *)
(* what was written stays in the slot.  Only push_begin lends a slot.      *)
PushAbandon ==
    /\ variant = "cached"
    /\ ppc = "fill"
    /\ ppc' = "idle" /\ filled' = {}
    /\ UNCHANGED <<variant, headMO, tailMO, buf, cachedHead, obsHead,
                   viewP, consumerVars, raceVars>>

-----------------------------------------------------------------------------
(* Consumer.                                                               *)

(* pop_begin when the cached tail already shows a message.                 *)
PopBeginCached ==
    /\ variant = "cached"
    /\ cpc = "idle"
    /\ ~LooksEmpty(cachedTail)
    /\ cpc' = "read" /\ got' = <<>>
    /\ UNCHANGED <<variant, headMO, tailMO, buf, producerVars, cachedTail,
                   obsTail, viewC, received, raceVars>>

(* Fault: the cached tail is never refreshed.                              *)
PopBeginNoRefresh ==
    /\ cpc = "idle"
    /\ LooksEmpty(cachedTail)
    /\ UNCHANGED vars

(* Fault: the refreshed tail is not tested, the slot is taken regardless.  *)
PopBeginUnchecked ==
    /\ cpc = "idle"
    /\ variant = "plain" \/ LooksEmpty(cachedTail)
    /\ \E k \in obsTail .. Len(tailMO) :
         /\ obsTail' = k
         /\ cachedTail' = tailMO[k].val
         /\ viewC' = MaxView(viewC, tailMO[k].view)
    /\ cpc' = "read" /\ got' = <<>>
    /\ UNCHANGED <<variant, headMO, tailMO, buf, producerVars, received,
                   raceVars>>

(* pop_begin when the cached tail shows an empty ring, and every plain     *)
(* pop: acquire load of tail, then the slot if there is a message, else    *)
(* NULL.                                                                   *)
PopBeginRefresh ==
    /\ cpc = "idle"
    /\ variant = "plain" \/ LooksEmpty(cachedTail)
    /\ \E k \in obsTail .. Len(tailMO) :
         /\ obsTail' = k
         /\ cachedTail' = tailMO[k].val
         /\ viewC' = MaxView(viewC, tailMO[k].view)
    /\ cpc' = IF LooksEmpty(cachedTail') THEN "idle" ELSE "read"
    /\ got' = <<>>
    /\ UNCHANGED <<variant, headMO, tailMO, buf, producerVars, received,
                   raceVars>>

(* One word of the borrowed slot is read, in any order.                    *)
ReadWord(w) ==
    /\ cpc = "read" /\ w \in Words \ DOMAIN got
    /\ got' = [v \in DOMAIN got \cup {w} |->
                 IF v = w THEN buf[PopSlot][w] ELSE got[v]]
    /\ lastRead' = [lastRead EXCEPT ![PopSlot] = Popping]
    /\ UNCHANGED <<variant, headMO, tailMO, buf, producerVars, cachedTail,
                   cpc, obsTail, viewC, received, lastWrite>>

(* pop_end: the release store of head that gives the slot back.            *)
PopEnd ==
    /\ cpc = "read" /\ DOMAIN got = Words
    /\ headMO' = ReleaseStore(headMO, Inc(head), Popping)
    /\ received' = Append(received, got)
    /\ cpc' = "idle" /\ got' = <<>>
    /\ UNCHANGED <<variant, tailMO, buf, producerVars, cachedTail, obsTail,
                   viewC, raceVars>>

-----------------------------------------------------------------------------
Producer == \/ PushBeginCached
            \/ PushBeginRefresh
            \/ \E w \in Words : FillWord(w)
            \/ PushCommit
            \/ PushAbandon

Consumer == \/ PopBeginCached
            \/ PopBeginRefresh
            \/ \E w \in Words : ReadWord(w)
            \/ PopEnd

Next == Producer \/ Consumer

Spec == Init /\ [][Next]_vars

(* Both threads run on cores of their own and spin: a call that can        *)
(* complete does, and a store that stays the newest is eventually the one  *)
(* a repeated load returns (C11 7.17.3p16).  Giving up a slot is never     *)
(* forced.                                                                 *)
Fairness ==
    /\ WF_vars(PushBeginCached)
    /\ WF_vars(PushBeginRefresh /\ obsHead' = Len(headMO))
    /\ \A w \in Words : WF_vars(FillWord(w))
    /\ WF_vars(PushCommit)
    /\ WF_vars(PopBeginCached)
    /\ WF_vars(PopBeginRefresh /\ obsTail' = Len(tailMO))
    /\ \A w \in Words : WF_vars(ReadWord(w))
    /\ WF_vars(PopEnd)

FairSpec == Spec /\ Fairness

-----------------------------------------------------------------------------
(* Properties.                                                             *)

Message == [Words -> Values]

Store == [val : Index, view : Nat]

(* The values every variable takes: the index words stay in size_t, the    *)
(* views count pushes and pops, the slots hold whole messages.             *)
TypeOK ==
    /\ variant \in {"cached", "plain"}
    /\ headMO \in Seq(Store) /\ headMO # <<>>
    /\ tailMO \in Seq(Store) /\ tailMO # <<>>
    /\ cachedHead \in Index /\ cachedTail \in Index
    /\ buf \in [Slots -> Message]
    /\ ppc \in {"idle", "fill"} /\ filled \subseteq Words
    /\ cpc \in {"idle", "read"}
    /\ DOMAIN got \subseteq Words /\ got \in [DOMAIN got -> Values]
    /\ obsHead \in 1 .. Len(headMO) /\ obsTail \in 1 .. Len(tailMO)
    /\ viewP \in Nat /\ viewC \in Nat
    /\ lastWrite \in [Slots -> Nat] /\ lastRead \in [Slots -> Nat]
    /\ received \in Seq(Message)

(* The value of an index word after its k-th store (the first is the       *)
(* initialisation), and the slot of the n-th push and of the n-th pop.     *)
IndexAt(k) == Wrap(k - 1)

SlotFor(n) == SlotOf(IndexAt(n))

(* The messages handed over and not yet given back, as the slots hold      *)
(* them: the abstract channel.                                             *)
InFlight == [i \in 1 .. Len(tailMO) - Len(headMO) |->
               buf[SlotFor(Len(headMO) + i - 1)]]

(* The slots are plain memory, so every access to the slot a thread has    *)
(* borrowed must be ordered after the other thread's accesses to it: the   *)
(* acquire load of head covers the last read before the slot is rewritten  *)
(* and the acquire load of tail covers the write before it is read         *)
(* (push_commit and pop_end must release, even when the test that granted  *)
(* the slot used an old cached index).                                     *)
DataRaceFree ==
    /\ ppc = "fill" => lastRead[PushSlot] <= viewP
    /\ cpc = "read" => lastWrite[PopSlot] <= viewC

(* What pop hands out is the messages that were pushed, whole, once each   *)
(* and in push order, however far the indices have wrapped and whatever an *)
(* abandoned push left in the slot.                                        *)
WholeInOrder == received = SubSeq(Items, 1, Len(received))

(* A cached index may be old but errs on the safe side only: the producer  *)
(* never thinks the ring emptier, nor the consumer fuller, than it is, and *)
(* neither copy is so old that the modular difference loses its meaning.   *)
CacheConservative ==
    /\ Distance(tail, head) <= Distance(tail, cachedHead)
    /\ Distance(tail, cachedHead) <= Capacity
    /\ Distance(cachedTail, head) <= Distance(tail, head)

(* A slot handed over by push_commit is the consumer's until pop_end       *)
(* (calling rules 1 to 3): no step changes a message that stays in flight. *)
HandedOver ==
    [][\A n \in Len(headMO) .. Len(tailMO) - 1 :
         buf'[SlotFor(n)] = buf[SlotFor(n)]]_vars

(* What makes the ring work, for the proofs of SpscQueue_proofs.  Every    *)
(* store carries its ordinal as view; the four positions                   *)
(*      obsHead <= Popping <= obsTail <= Pushing <= obsHead + Capacity     *)
(* bound every cached index and every slot access.                         *)
StoresNumbered ==
    /\ \A k \in 1 .. Len(headMO) :
         headMO[k].val = IndexAt(k) /\ headMO[k].view = k - 1
    /\ \A k \in 1 .. Len(tailMO) :
         tailMO[k].val = IndexAt(k) /\ tailMO[k].view = k - 1
    /\ cachedHead = IndexAt(obsHead) /\ viewP = obsHead - 1
    /\ cachedTail = IndexAt(obsTail) /\ viewC = obsTail - 1

Positions ==
    /\ obsHead <= Popping /\ Popping <= obsTail /\ obsTail <= Pushing
    /\ Pushing <= obsHead + Capacity
    /\ Pushing <= Len(Items) + 1
    /\ ppc = "fill" => Pushing < obsHead + Capacity /\ Pushing <= Len(Items)
    /\ cpc = "read" => Popping < obsTail

SlotsHold ==
    /\ \A n \in Popping .. Pushing - 1 : buf[SlotFor(n)] = Items[n]
    /\ ppc = "fill" => \A w \in filled :
         buf[SlotFor(Pushing)][w] = Items[Pushing][w]
    /\ cpc = "read" => \A w \in DOMAIN got : got[w] = Items[Popping][w]
    /\ Len(received) = Popping - 1
    /\ \A n \in 1 .. Len(received) : received[n] = Items[n]

LastAccesses ==
    /\ \A s \in Slots : lastWrite[s] # 0 =>
         /\ SlotFor(lastWrite[s]) = s
         /\ lastWrite[s] <= Pushing /\ lastWrite[s] < obsHead + Capacity
    /\ \A s \in Slots : lastRead[s] # 0 =>
         /\ SlotFor(lastRead[s]) = s
         /\ lastRead[s] <= Popping /\ lastRead[s] < obsTail

IndInv == /\ TypeOK
          /\ StoresNumbered
          /\ Positions
          /\ SlotsHold
          /\ LastAccesses

(* The ring is a bounded FIFO: push_commit is Send, pop_end is Receive and *)
(* every other step is invisible.                                          *)
Fifo == INSTANCE BoundedFifo WITH
          Messages <- Message, chan <- InFlight, out <- received

FifoSpec == Fifo!Spec

(* A message that was committed is eventually delivered, although the      *)
(* consumer may have looked at an old tail any number of times.            *)
CommittedIsDelivered ==
    \A n \in 1 .. Len(Items) : Pushing > n ~> Len(received) >= n

(* A producer that meets a full ring is not stuck: once the consumer has   *)
(* given a slot back, the refreshed head shows it.                         *)
ProducerGetsSlot == (ppc = "idle" /\ Pushing <= Len(Items)) ~> ppc = "fill"
=============================================================================
