------------------------------ MODULE Freelist ------------------------------
(***************************************************************************)
(* include/ll/mempool_freelist.h: the lock-free pool.  The free slots form *)
(* a list linked by indices, whose head is one atomic word that alloc and  *)
(* free replace by compare-and-swap.  Every load, store and CAS is a step. *)
(* A load of free_head that returns an older value is the same as one made *)
(* earlier: the CAS decides.                                               *)
(***************************************************************************)
EXTENDS Naturals, FiniteSets

CONSTANTS Capacity,    (* CAPACITY                                         *)
          Allocators,  (* threads that call alloc                          *)
          Freers,      (* threads that call free, each slot once           *)
          NIL

ASSUME FreelistAssumption == Capacity \in Nat \ {0} /\ NIL \notin Nat

Slots   == 0 .. Capacity - 1
Threads == Allocators \cup Freers

VARIABLES free_head, next,
          pc,      (* where a thread is in alloc or free                   *)
          head,    (* its local head                                       *)
          link,    (* its local next (alloc)                               *)
          slot,    (* the slot it is freeing                               *)
          out      (* history: how many hold the slot, from alloc to free  *)

vars == <<free_head, next, pc, head, link, slot, out>>

NextOf(i) == IF i + 1 < Capacity THEN i + 1 ELSE NIL

Init ==
    /\ free_head = 0
    /\ next = [i \in Slots |-> NextOf(i)]
    /\ pc = [t \in Threads |-> "idle"]
    /\ head = [t \in Threads |-> NIL] /\ link = [t \in Threads |-> NIL]
    /\ slot = [t \in Threads |-> NIL]
    /\ out = [i \in Slots |-> 0]

Goto(t, l) == pc' = [pc EXCEPT ![t] = l]

(* Fault: an exhausted pool is not noticed.                                *)
AllocLoadUnchecked(t) ==
    /\ head' = [head EXCEPT ![t] = free_head]
    /\ Goto(t, "next")
    /\ UNCHANGED <<free_head, next, link, slot, out>>

(* Load free_head; NIL ends alloc with NULL.                               *)
AllocLoad(t) ==
    /\ head' = [head EXCEPT ![t] = free_head]
    /\ Goto(t, IF free_head = NIL THEN "idle" ELSE "next")
    /\ UNCHANGED <<free_head, next, link, slot, out>>

AllocBegin(t) == t \in Allocators /\ pc[t] = "idle" /\ AllocLoad(t)

AllocNext(t) ==
    /\ pc[t] = "next"
    /\ link' = [link EXCEPT ![t] = next[head[t]]]
    /\ Goto(t, "take")
    /\ UNCHANGED <<free_head, next, head, slot, out>>

(* Fault: a store instead of a compare-and-swap.                           *)
AllocTakeBlind(t) ==
    /\ pc[t] = "take"
    /\ free_head' = link[t]
    /\ out' = [out EXCEPT ![head[t]] = @ + 1]
    /\ Goto(t, "idle")
    /\ UNCHANGED <<next, head, link, slot>>

AllocTake(t) ==
    /\ pc[t] = "take" /\ free_head = head[t]
    /\ free_head' = link[t]
    /\ out' = [out EXCEPT ![head[t]] = @ + 1]
    /\ Goto(t, "idle")
    /\ UNCHANGED <<next, head, link, slot>>

(* The CAS failed (it is weak: also for no reason) and loaded the head.    *)
AllocRetry(t) == pc[t] = "take" /\ AllocLoad(t)

(* free, called once by whoever holds the slot.                            *)
FreeBegin(t, s) ==
    /\ t \in Freers /\ pc[t] = "idle" /\ out[s] > 0
    /\ out' = [out EXCEPT ![s] = @ - 1]
    /\ slot' = [slot EXCEPT ![t] = s]
    /\ head' = [head EXCEPT ![t] = free_head]
    /\ Goto(t, "link")
    /\ UNCHANGED <<free_head, next, link>>

FreeLink(t) ==
    /\ pc[t] = "link"
    /\ next' = [next EXCEPT ![slot[t]] = head[t]]
    /\ Goto(t, "put")
    /\ UNCHANGED <<free_head, head, link, slot, out>>

FreePut(t) ==
    /\ pc[t] = "put" /\ free_head = head[t]
    /\ free_head' = slot[t]
    /\ slot' = [slot EXCEPT ![t] = NIL]
    /\ Goto(t, "idle")
    /\ UNCHANGED <<next, head, link, out>>

(* Fault: the slot is not linked to the new head.                          *)
FreeRetryUnlinked(t) ==
    /\ pc[t] = "put"
    /\ head' = [head EXCEPT ![t] = free_head]
    /\ UNCHANGED <<free_head, next, pc, link, slot, out>>

FreeRetry(t) ==
    /\ pc[t] = "put"
    /\ head' = [head EXCEPT ![t] = free_head]
    /\ Goto(t, "link")
    /\ UNCHANGED <<free_head, next, link, slot, out>>

Next ==
    \E t \in Threads :
        \/ AllocBegin(t) \/ AllocNext(t) \/ AllocTake(t) \/ AllocRetry(t)
        \/ \E s \in Slots : FreeBegin(t, s)
        \/ FreeLink(t) \/ FreePut(t) \/ FreeRetry(t)

Spec == Init /\ [][Next]_vars

-----------------------------------------------------------------------------
(* Properties.                                                             *)

(* The list from free_head: its k-th element, NIL behind the end.          *)
Listed ==
    LET at[k \in 0 .. Capacity] ==
          IF k = 0 THEN free_head
          ELSE IF at[k - 1] = NIL THEN NIL ELSE next[at[k - 1]]
    IN  at

FreeSlots == {Listed[k] : k \in 0 .. Capacity} \ {NIL}

Freeing(s) == {t \in Threads : slot[t] = s}

TypeOK ==
    /\ free_head \in Slots \cup {NIL} /\ next \in [Slots -> Slots \cup {NIL}]
    /\ pc \in [Threads -> {"idle", "next", "take", "link", "put"}]
    /\ \A t \in Threads : /\ pc[t] \in {"next", "take"} => head[t] \in Slots
                          /\ pc[t] \in {"link", "put"} <=> slot[t] \in Slots

(* The list ends, and every slot is in exactly one place: in the list, in  *)
(* one holder's hands, or in one unfinished free.  Nothing is given out    *)
(* twice, nothing leaks, whatever the frees race with.                     *)
OnePlace ==
    /\ Listed[Capacity] = NIL
    /\ \A s \in Slots :
         (IF s \in FreeSlots THEN 1 ELSE 0) + out[s] + Cardinality(Freeing(s)) = 1

(* The pool is a pool: alloc takes effect at its CAS, free at its own.     *)
Abstract == INSTANCE Pool WITH Blocks <- Slots, free <- FreeSlots,
                held <- {s \in Slots : out[s] > 0 \/ Freeing(s) # {}}

PoolSpec == Abstract!Spec

(* mempool_freelist.h:12-16 says alloc and free may be called by several   *)
(* threads, and that ABA is tolerable as long as no slot is freed twice    *)
(* while in use.  Here no slot is: each holder frees its slot once.        *)
NeverTwoHolders == \A s \in Slots : out[s] + Cardinality(Freeing(s)) <= 1
=============================================================================
