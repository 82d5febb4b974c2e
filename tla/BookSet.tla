------------------------------ MODULE BookSet ------------------------------
(***************************************************************************)
(* book_set_t, the state of both array books (src/book/book.c and          *)
(* bench/book_rev.c): per symbol and side an array of price levels, of     *)
(* which n[] says how many are live.  The other entries keep whatever was  *)
(* last there: nothing ever clears them.                                   *)
(***************************************************************************)
EXTENDS BookTypes, FiniteSetsExt

VARIABLES n,      (* live levels of a book                                 *)
          level,  (* its array                                             *)
          st      (* book_stats_t                                          *)

bookVars == <<n, level, st>>

Pos == 0 .. MaxLevels - 1

(* Static storage, zero, and book_set_init.                                *)
SetInit ==
    /\ n = [b \in Books |-> 0]
    /\ level = [b \in Books |-> [j \in Pos |-> [price |-> 0, size |-> 0]]]
    /\ st = ZeroStats

(* Fault: the counts of one side are not cleared.                          *)
ClearedOneSide == [b \in Books |-> IF b[2] = "bid" THEN 0 ELSE n[b]]

Cleared == [b \in Books |-> 0]

(* reset of the bench: the counts and the counters are cleared, the arrays *)
(* are not.                                                                *)
SetReset == n' = Cleared /\ st' = ZeroStats /\ UNCHANGED level

(* memmove of k entries.                                                   *)
Move(lv, dst, src, k) ==
    [j \in Pos |-> IF j \in dst .. dst + k - 1 THEN lv[j - dst + src] ELSE lv[j]]

Count(fields, depth) == st' = Counted(st, fields, depth)

(* The live positions whose key is not below that of p: a search, from     *)
(* either end, stops at the first of them.                                 *)
NotBetter(b, p) ==
    {i \in 0 .. n[b] - 1 : Key(b, level[b][i].price) >= Key(b, p)}
=============================================================================
