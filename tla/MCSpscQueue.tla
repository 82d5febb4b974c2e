---------------------------- MODULE MCSpscQueue ----------------------------
(***************************************************************************)
(* An instance of SpscQueue for TLC.                                       *)
(***************************************************************************)
EXTENDS SpscQueue

(* Two words a slot, two values a word.  Two messages that share a slot    *)
(* (Capacity apart) differ in both words, so that a mixture of old and new *)
(* words shows; nine pushes take a four-slot ring twice round and wrap an  *)
(* index of eight values.                                                  *)
Pair(a, b) == [w \in {1, 2} |-> IF w = 1 THEN a ELSE b]

NineMessages == <<Pair(0, 0), Pair(0, 1), Pair(1, 1), Pair(1, 0),
                  Pair(1, 1), Pair(1, 0), Pair(0, 0), Pair(0, 1),
                  Pair(0, 0)>>
=============================================================================
