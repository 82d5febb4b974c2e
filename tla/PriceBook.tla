----------------------------- MODULE PriceBook -----------------------------
(***************************************************************************)
(* What an order book of bounded depth promises: per symbol and side, a    *)
(* map from price to size that keeps at most MaxLevels prices and, when    *)
(* one more arrives, gives up the one farthest from the best.  Arrays,     *)
(* positions and moves are not visible here; both layouts of the           *)
(* repository (best first and best last) implement this module.            *)
(***************************************************************************)
EXTENDS BookTypes

VARIABLES levels,  (* per book, a function from its prices to their sizes  *)
          st       (* the counters of book_stats_t                         *)

vars == <<levels, st>>

Without(f, p) == [q \in DOMAIN f \ {p} |-> f[q]]
With(f, p, s) == [q \in DOMAIN f \cup {p} |-> IF q = p THEN s ELSE f[q]]

IsBest(b, p)  == \A q \in DOMAIN levels[b] : Key(b, p) <= Key(b, q)
IsWorst(b, p) == \A q \in DOMAIN levels[b] : Key(b, p) >= Key(b, q)

Depth(f) == Cardinality(DOMAIN f)

Init == /\ levels = [b \in Books |-> [p \in {} |-> 0]]
        /\ st = ZeroStats

Count(fields, depth) == st' = Counted(st, fields, depth)

Delete(b, p) ==
    /\ p \in DOMAIN levels[b]
    /\ Count({"deleted"}, Depth(levels[b]) - 1)
    /\ levels' = [levels EXCEPT ![b] = Without(@, p)]

DeleteMissing(b, p) ==
    /\ p \notin DOMAIN levels[b]
    /\ Count({"delete_missing"}, 0)
    /\ UNCHANGED levels

Update(b, p, s) ==
    /\ p \in DOMAIN levels[b]
    /\ Count({"updated"}, Depth(levels[b]))
    /\ levels' = [levels EXCEPT ![b][p] = s]

Insert(b, p, s) ==
    /\ p \notin DOMAIN levels[b] /\ Depth(levels[b]) < MaxLevels
    /\ Count({"inserted"}, Depth(levels[b]) + 1)
    /\ levels' = [levels EXCEPT ![b] = With(@, p, s)]

(* A full book gives up its worst price for a better one.                  *)
Displace(b, p, s) ==
    /\ p \notin DOMAIN levels[b] /\ Depth(levels[b]) = MaxLevels
    /\ Count({"inserted", "overflow"}, MaxLevels)
    /\ \E q \in DOMAIN levels[b] :
         /\ IsWorst(b, q) /\ Key(b, p) < Key(b, q)
         /\ levels' = [levels EXCEPT ![b] = With(Without(@, q), p, s)]

(* ... and refuses a worse one.                                            *)
Refuse(b, p) ==
    /\ p \notin DOMAIN levels[b] /\ Depth(levels[b]) = MaxLevels
    /\ IsWorst(b, p)
    /\ Count({"overflow"}, 0)
    /\ UNCHANGED levels

(* One update of the feed.                                                 *)
Apply(b, p, s) ==
    \/ s = 0 /\ (Delete(b, p) \/ DeleteMissing(b, p))
    \/ s # 0 /\ (\/ Update(b, p, s)
                 \/ Insert(b, p, s)
                 \/ Displace(b, p, s)
                 \/ Refuse(b, p))

(* The start of another replay.                                            *)
Reset == levels' = [b \in Books |-> [p \in {} |-> 0]] /\ st' = ZeroStats

Next == \/ \E b \in Books, p \in Prices, s \in Sizes \cup {0} : Apply(b, p, s)
        \/ Reset

Spec == Init /\ [][Next]_vars
=============================================================================
