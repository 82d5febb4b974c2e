----------------------------- MODULE PoolQueue -----------------------------
(***************************************************************************)
(* test/bench/slot_vs_index.c, the variants index and scatter: the ring    *)
(* carries indices, the messages lie in a pool beside it.  Nothing         *)
(* allocates or frees: message i simply uses place pool_index(i), and the  *)
(* room in the ring is all that keeps the producer off a place that is     *)
(* still being read.  The ring is that of BoundedFifo, with the slot       *)
(* claimed before and given back after the pool is used.                   *)
(***************************************************************************)
EXTENDS Naturals

CONSTANTS Cap,       (* CAP                                                *)
          Stride,    (* SCATTER_STRIDE                                     *)
          NumItems,  (* NUM_ITEMS                                          *)
          Torn       (* what a half-written place holds                    *)

ASSUME PoolAssumption == /\ Cap \in Nat \ {0} /\ Stride \in Nat \ {0}
                         /\ NumItems \in Nat

PoolSize == 8 * Cap

(* The stride has no divisor in common with the size of the pool           *)
(* (slot_vs_index.c:57): it has an inverse.                                *)
ASSUME StrideAssumption ==
    \E u \in 0 .. PoolSize - 1 : (u * Stride) % PoolSize = 1

VARIABLES variant,         (* of the program's argument                    *)
          ppc, sent,       (* producer; items committed                    *)
          cpc, taken,      (* consumer; items given back                   *)
          ring,            (* the indices in the ring                      *)
          pool,            (* the item at each place                       *)
          got              (* the item the consumer read last              *)

vars == <<variant, ppc, sent, cpc, taken, ring, pool, got>>

(* Fault: half as many places as the ring has slots.                       *)
PoolIndexHalf(i) ==
    IF variant = "index" THEN i % (Cap \div 2) ELSE (i * Stride) % PoolSize

pool_index(i) ==
    IF variant = "index" THEN i % Cap ELSE (i * Stride) % PoolSize

Init ==
    /\ variant \in {"index", "scatter"}
    /\ ppc = "claim" /\ sent = 0 /\ cpc = "claim" /\ taken = 0
    /\ ring = [k \in 0 .. Cap - 1 |-> 0]
    /\ pool = [k \in 0 .. PoolSize - 1 |-> Torn]
    /\ got = Torn

(* Fault: the message is written before there is room for its index.       *)
PushBeginBlind ==
    /\ ppc = "claim" /\ sent < NumItems
    /\ ppc' = "fill"
    /\ UNCHANGED <<variant, sent, cpc, taken, ring, pool, got>>

(* push_begin has returned a slot.                                         *)
PushBegin ==
    /\ ppc = "claim" /\ sent < NumItems
    /\ sent - taken < Cap
    /\ ppc' = "fill"
    /\ UNCHANGED <<variant, sent, cpc, taken, ring, pool, got>>

(* fill, seen half way and at its end.                                     *)
FillBegin ==
    /\ ppc = "fill"
    /\ pool' = [pool EXCEPT ![pool_index(sent)] = Torn]
    /\ ppc' = "filling"
    /\ UNCHANGED <<variant, sent, cpc, taken, ring, got>>

FillEnd ==
    /\ ppc = "filling"
    /\ pool' = [pool EXCEPT ![pool_index(sent)] = sent]
    /\ ppc' = "commit"
    /\ UNCHANGED <<variant, sent, cpc, taken, ring, got>>

PushCommit ==
    /\ ppc = "commit"
    /\ ring' = [ring EXCEPT ![sent % Cap] = pool_index(sent)]
    /\ sent' = sent + 1
    /\ ppc' = "claim"
    /\ UNCHANGED <<variant, cpc, taken, pool, got>>

PopBegin ==
    /\ cpc = "claim" /\ taken < sent
    /\ cpc' = "read"
    /\ UNCHANGED <<variant, ppc, sent, taken, ring, pool, got>>

(* consume, through the index in the slot.                                 *)
Read ==
    /\ cpc = "read"
    /\ got' = pool[ring[taken % Cap]]
    /\ cpc' = "end"
    /\ UNCHANGED <<variant, ppc, sent, taken, ring, pool>>

PopEnd ==
    /\ cpc = "end"
    /\ taken' = taken + 1
    /\ cpc' = "claim"
    /\ UNCHANGED <<variant, ppc, sent, ring, pool, got>>

(* Both threads have done their NUM_ITEMS and are joined.                  *)
Joined == taken = NumItems /\ UNCHANGED vars

Next == \/ PushBegin \/ FillBegin \/ FillEnd \/ PushCommit
        \/ PopBegin \/ Read \/ PopEnd
        \/ Joined

Spec == Init /\ [][Next]_vars

-----------------------------------------------------------------------------
(* Properties.                                                             *)

TypeOK ==
    /\ variant \in {"index", "scatter"}
    /\ ppc \in {"claim", "fill", "filling", "commit"}
    /\ cpc \in {"claim", "read", "end"}
    /\ sent \in 0 .. NumItems /\ taken \in 0 .. sent /\ sent - taken <= Cap
    /\ ring \in [0 .. Cap - 1 -> 0 .. PoolSize - 1]
    /\ pool \in [0 .. PoolSize - 1 -> 0 .. NumItems \cup {Torn}]
    /\ got \in 0 .. NumItems \cup {Torn}

(* No message that is committed and not yet given back is written over,    *)
(* not even in part, although nobody marks its place as used               *)
(* (slot_vs_index.c:58 argues so for scatter, from the stride).            *)
InFlightIntact == \A i \in taken .. sent - 1 : pool[pool_index(i)] = i

(* The consumer reads the messages in order, each whole, so the checksum   *)
(* is the same as with the messages in the ring itself.                    *)
ReadInOrder == cpc = "end" => got = taken
=============================================================================
