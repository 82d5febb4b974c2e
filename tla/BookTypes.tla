----------------------------- MODULE BookTypes -----------------------------
(***************************************************************************)
(* include/ll/book.h: what every form of the order book shares.  There is  *)
(* a book per symbol and side, and one set of counters for all of them.    *)
(***************************************************************************)
EXTENDS Integers, FiniteSets

CONSTANTS Symbols,     (* symbol indices in use                            *)
          Prices,      (* prices of the feed                               *)
          Sizes,       (* sizes of a level; 0 in an update deletes it      *)
          MaxLevels    (* BOOK_MAX_LEVELS                                  *)

Sides == {"bid", "ask"}
Books == Symbols \X Sides

(* Fault: the sign of one side is forgotten.                               *)
KeyUnsigned(b, p) == p

(* sign * price: the smaller, the nearer to the best, on both sides.       *)
Key(b, p) == IF b[2] = "bid" THEN -p ELSE p

(* book_stats_t                                                            *)
ZeroStats == [applied |-> 0, inserted |-> 0, updated |-> 0, deleted |-> 0,
              delete_missing |-> 0, overflow |-> 0, max_depth |-> 0]

(* After one more update: applied and the counters in `fields` go up, and  *)
(* max_depth is raised to depth.                                           *)
Counted(st, fields, depth) ==
    [c \in DOMAIN st |->
       IF c = "max_depth" THEN IF depth > st[c] THEN depth ELSE st[c]
       ELSE IF c \in fields \cup {"applied"} THEN st[c] + 1 ELSE st[c]]
=============================================================================
