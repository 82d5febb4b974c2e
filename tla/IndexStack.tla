----------------------------- MODULE IndexStack -----------------------------
(***************************************************************************)
(* include/ll/mempool_percore.h: one pool per core, each a stack of free   *)
(* slot indices that only its core touches, so there is nothing to race    *)
(* with.  A block goes back to the core it came from, which is the         *)
(* caller's duty.  include/ll/mempool_indexstack.h is the pool of one core.*)
(***************************************************************************)
EXTENDS Naturals, FiniteSets

CONSTANTS Cores,     (* NCORES; one for mempool_indexstack.h               *)
          Capacity   (* CAPACITY_PER_CORE                                  *)

ASSUME StackAssumption == Capacity \in Nat \ {0}

Slots == 0 .. Capacity - 1

VARIABLES free_idx,  (* per core: the stack, its entries above top stale   *)
          top,
          held       (* history: the slots handed out                      *)

vars == <<free_idx, top, held>>

Init ==
    /\ free_idx = [c \in Cores |-> [i \in Slots |-> Capacity - 1 - i]]
    /\ top = [c \in Cores |-> Capacity]
    /\ held = [c \in Cores |-> {}]

(* Fault: top-- where --top is meant.                                      *)
AllocAbove(c) ==
    /\ top[c] # 0
    /\ top' = [top EXCEPT ![c] = @ - 1]
    /\ held' = [held EXCEPT ![c] = @ \cup {free_idx[c][top[c] % Capacity]}]
    /\ UNCHANGED free_idx

(* With top = 0 alloc returns NULL and changes nothing.                    *)
Alloc(c) ==
    /\ top[c] # 0
    /\ top' = [top EXCEPT ![c] = @ - 1]
    /\ held' = [held EXCEPT ![c] = @ \cup {free_idx[c][top[c] - 1]}]
    /\ UNCHANGED free_idx

(* Fault: the index is not stored; the entry the alloc left is reused.     *)
FreeInPlace(c, s) ==
    /\ s \in held[c]
    /\ top' = [top EXCEPT ![c] = @ + 1]
    /\ held' = [held EXCEPT ![c] = @ \ {s}]
    /\ UNCHANGED free_idx

Free(c, s) ==
    /\ s \in held[c]
    /\ free_idx' = [free_idx EXCEPT ![c][top[c]] = s]
    /\ top' = [top EXCEPT ![c] = @ + 1]
    /\ held' = [held EXCEPT ![c] = @ \ {s}]

Next == \E c \in Cores : Alloc(c) \/ \E s \in Slots : Free(c, s)

Spec == Init /\ [][Next]_vars

-----------------------------------------------------------------------------
(* Properties.                                                             *)

FreeSlots(c) == {free_idx[c][i] : i \in 0 .. top[c] - 1}

(* A slot is on its core's stack, once, or handed out: blocks freed in any *)
(* order never make an index appear twice or vanish.                       *)
OnePlace ==
    \A c \in Cores :
        /\ Cardinality(FreeSlots(c)) = top[c]
        /\ FreeSlots(c) \cap held[c] = {}
        /\ FreeSlots(c) \cup held[c] = Slots

(* All cores together are a pool of all their blocks.                      *)
Abstract == INSTANCE Pool WITH
    Blocks <- Cores \X Slots,
    free <- UNION {{c} \X FreeSlots(c) : c \in Cores},
    held <- UNION {{c} \X held[c] : c \in Cores}

PoolSpec == Abstract!Spec
=============================================================================
