------------------------------ MODULE SymNames ------------------------------
(***************************************************************************)
(* What the symbol table promises (symtab.h): a symbol gets the number of  *)
(* different symbols seen before it as its index, keeps it for the whole   *)
(* session, and is refused when MaxSymbols others have an index.  A key of *)
(* zero bytes, which is no symbol's, is taken for the first one.           *)
(***************************************************************************)
EXTENDS Naturals, Sequences

CONSTANTS Keys, MaxSymbols, Empty, Invalid

VARIABLES name,       (* index (from 0) to symbol                          *)
          answer,     (* the last call: [key, idx]                         *)
          full_drops

vars == <<name, answer, full_drops>>

NoCall == [key |-> Invalid, idx |-> Invalid]

Init == name = <<>> /\ answer = NoCall /\ full_drops = 0

Known(k) == \E j \in 1 .. Len(name) : name[j] = k

Old(k) ==
    /\ \E j \in 1 .. Len(name) : /\ name[j] = k
                                 /\ answer' = [key |-> k, idx |-> j - 1]
    /\ UNCHANGED <<name, full_drops>>

New(k) ==
    /\ ~Known(k) /\ Len(name) < MaxSymbols
    /\ name' = Append(name, k)
    /\ answer' = [key |-> k, idx |-> Len(name)]
    /\ UNCHANGED full_drops

Refuse(k) ==
    /\ ~Known(k) /\ Len(name) = MaxSymbols
    /\ answer' = [key |-> k, idx |-> Invalid]
    /\ full_drops' = full_drops + 1
    /\ UNCHANGED name

(* The zero key: nothing is entered and nothing is counted.                *)
Zero == answer' = [key |-> Empty, idx |-> 0] /\ UNCHANGED <<name, full_drops>>

Next == (\E k \in Keys : Old(k) \/ New(k) \/ Refuse(k)) \/ Zero

Spec == Init /\ [][Next]_vars
=============================================================================
