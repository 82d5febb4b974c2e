------------------------------- MODULE SymTab -------------------------------
(***************************************************************************)
(* src/deep/symtab.c: symbol to dense index by open addressing with linear *)
(* probing.  Nothing is ever removed, so a probe may stop at the first     *)
(* empty slot.  The hash of the code is one particular function; here it   *)
(* is any function, chosen at the start, so that every way of colliding    *)
(* and of wrapping around the end of the table occurs.                     *)
(*                                                                         *)
(* The key of eight zero bytes is the mark of an empty slot (symtab.h:49). *)
(* No symbol has it, but nothing keeps a message from carrying it: it is   *)
(* one more key that may be looked up.                                     *)
(***************************************************************************)
EXTENDS Naturals, Sequences, FiniteSets, FiniteSetsExt

CONSTANTS Keys,        (* symbols: 8 bytes, not all zero                   *)
          Slots,       (* LL_SYMTAB_SLOTS                                  *)
          MaxSymbols,  (* LL_SYMTAB_MAX_SYMBOLS                            *)
          MaxDrops,    (* bound on full_drops                              *)
          Empty,       (* key 0                                            *)
          Invalid      (* LL_SYM_INVALID                                   *)

ASSUME TableAssumption ==
    /\ Slots \in Nat \ {0} /\ MaxSymbols \in Nat /\ MaxSymbols < Slots
    /\ MaxDrops \in Nat
    /\ Empty \notin Keys

VARIABLES hash, slot, name, count, full_drops,
          answer     (* history: the last call and what it returned        *)

vars == <<hash, slot, name, count, full_drops, answer>>

Places == 0 .. Slots - 1

Init ==
    /\ hash \in [Keys -> Places]
    /\ slot = [i \in Places |-> [key |-> Empty, idx |-> 0]]
    /\ name = <<>> /\ count = 0 /\ full_drops = 0
    /\ answer = [key |-> Invalid, idx |-> Invalid]

(* sym_hash: a product, so that of key 0 is 0.                             *)
Hash(k) == IF k = Empty THEN 0 ELSE hash[k]

(* The slot after d steps of the probe.                                    *)
At(k, d) == (Hash(k) + d) % Slots

(* Fault: a slot taken by another symbol is not passed over.               *)
ProbeNoChain(k) == Hash(k)

(* Where it stops: at the key or at an empty slot.                         *)
Probe(k) == At(k, Min({d \in Places : slot[At(k, d)].key \in {k, Empty}}))

Found(k) == slot[Probe(k)].key = k

Answer(k, idx) == answer' = [key |-> k, idx |-> idx]

(* ll_symtab_intern: the key is there.  (Key 0 is found in the first empty *)
(* slot, with the index 0 that was never given to it.)                     *)
Lookup(k) ==
    /\ Found(k)
    /\ Answer(k, slot[Probe(k)].idx)
    /\ UNCHANGED <<hash, slot, name, count, full_drops>>

(* Fault: one index too many is given.                                     *)
AllGivenLate == count > MaxSymbols

AllGiven == count >= MaxSymbols

(* Fault: the key is put where the table is filled up to, off its probe.   *)
PlaceInOrder(k) == count

Place(k) == Probe(k)

(* It is not, and the next index is free.                                  *)
Insert(k) ==
    /\ ~Found(k) /\ ~AllGiven
    /\ slot' = [slot EXCEPT ![Place(k)] = [key |-> k, idx |-> count]]
    /\ name' = Append(name, k)
    /\ count' = count + 1
    /\ Answer(k, count)
    /\ UNCHANGED <<hash, full_drops>>

(* It is not, and all indices are given.                                   *)
DropFull(k) ==
    /\ ~Found(k) /\ AllGiven
    /\ full_drops < MaxDrops
    /\ full_drops' = full_drops + 1
    /\ Answer(k, Invalid)
    /\ UNCHANGED <<hash, slot, name, count>>

Next == \E k \in Keys \cup {Empty} : Lookup(k) \/ Insert(k) \/ DropFull(k)

Spec == Init /\ [][Next]_vars

-----------------------------------------------------------------------------
(* Properties.                                                             *)

TypeOK ==
    /\ slot \in [Places -> [key : Keys \cup {Empty}, idx : 0 .. MaxSymbols]]
    /\ name \in Seq(Keys) /\ count = Len(name) /\ count <= MaxSymbols
    /\ full_drops \in 0 .. MaxDrops

(* There is always an empty slot, so a probe ends before it has gone all   *)
(* the way round: the loop's second exit, symtab.c:42, is unreachable, as  *)
(* its comment says.                                                       *)
ProbeEnds == \E i \in Places : slot[i].key = Empty

(* No key is stored twice and every stored one carries its own index, or a *)
(* symbol would get two books or two symbols one.                          *)
OneSlotPerSymbol ==
    \A k \in Keys :
        LET at == {i \in Places : slot[i].key = k}
        IN  /\ Cardinality(at) <= 1
            /\ \A i \in at : slot[i].idx < count /\ name[slot[i].idx + 1] = k

(* The table gives out indices in order of appearance and for ever.        *)
Names == INSTANCE SymNames

NamesSpec == Names!Spec
=============================================================================
