----------------------------- MODULE OrderBook -----------------------------
(***************************************************************************)
(* src/book/book.c: the array is sorted with the best price first and      *)
(* updated in place with memmove.                                          *)
(*                                                                         *)
(* `reference` is the book of test/book/bbo_reference.py, an unbounded     *)
(* dictionary per side fed with the same updates.                          *)
(***************************************************************************)
EXTENDS BookSet

CONSTANT MaxApplied    (* bound on the updates, over all replays           *)

ASSUME BookAssumption ==
    /\ Prices \subseteq Int
    /\ Sizes \subseteq Nat \ {0}
    /\ MaxLevels \in Nat \ {0}
    /\ MaxApplied \in Nat

VARIABLES reference,  (* history: the dictionary book                      *)
          updates     (* history: the updates applied                      *)

vars == <<bookVars, reference, updates>>

-----------------------------------------------------------------------------
EmptyBook == [p \in {} |-> 0]

(* The linear scan: i, the first live position whose key is not below key. *)
Find(b, p) ==
    LET stop == NotBetter(b, p) IN IF stop = {} THEN n[b] ELSE Min(stop)

Found(b, p, i) == i < n[b] /\ level[b][i].price = p

(* Fault: the array is not checked for being full.                         *)
FullNever(b) == FALSE

Full(b) == n[b] = MaxLevels

(* Open a gap of one at the insertion point, moving k entries, and fill it.*)
Put(b, p, s, i, k) ==
    level' = [level EXCEPT ![b] =
                [Move(@, i + 1, i, k) EXCEPT ![i] = [price |-> p, size |-> s]]]

(* What the reference does with the same update.                           *)
Reference(b, p, s) ==
    reference' = [reference EXCEPT ![b] =
      IF s = 0 THEN [q \in DOMAIN @ \ {p} |-> @[q]]
               ELSE [q \in DOMAIN @ \cup {p} |-> IF q = p THEN s ELSE @[q]]]

-----------------------------------------------------------------------------
Init ==
    /\ SetInit
    /\ reference = [b \in Books |-> EmptyBook]
    /\ updates = 0

(* size 0 for a price that is not there: counted, nothing else.            *)
DeleteMissing(b, p, i) ==
    /\ ~Found(b, p, i)
    /\ Count({"delete_missing"}, 0)
    /\ UNCHANGED <<n, level>>

(* size 0: the entries behind the level move up by one.                    *)
Delete(b, p, i) ==
    /\ Found(b, p, i)
    /\ level' = [level EXCEPT ![b] = Move(@, i, i + 1, n[b] - i - 1)]
    /\ n' = [n EXCEPT ![b] = @ - 1]
    /\ Count({"deleted"}, n[b] - 1)

Update(b, p, s, i) ==
    /\ Found(b, p, i)
    /\ level' = [level EXCEPT ![b][i].size = s]
    /\ Count({"updated"}, n[b])
    /\ UNCHANGED n

Insert(b, p, s, i) ==
    /\ ~Found(b, p, i) /\ ~Full(b)
    /\ Put(b, p, s, i, n[b] - i)
    /\ n' = [n EXCEPT ![b] = @ + 1]
    /\ Count({"inserted"}, n[b] + 1)

(* Fault: the dropped level is not counted.                                *)
DroppedUncounted == {"inserted"}

Dropped == {"overflow", "inserted"}

(* A full array: the last level is dropped to make room (n-- then ++n).    *)
Displace(b, p, s, i) ==
    /\ ~Found(b, p, i) /\ Full(b) /\ i # n[b]
    /\ Put(b, p, s, i, n[b] - 1 - i)
    /\ Count(Dropped, MaxLevels)
    /\ UNCHANGED n

(* ... unless the new level is the worst: it is not inserted.              *)
Refuse(b, p, i) ==
    /\ ~Found(b, p, i) /\ Full(b) /\ i = n[b]
    /\ Count({"overflow"}, 0)
    /\ UNCHANGED <<n, level>>

(* book_apply of one price level update; size 0 deletes.                   *)
Apply(b, p, s) ==
    /\ updates < MaxApplied /\ updates' = updates + 1
    /\ LET i == Find(b, p)
       IN  \/ s = 0 /\ (DeleteMissing(b, p, i) \/ Delete(b, p, i))
           \/ s # 0 /\ (\/ Update(b, p, s, i)
                        \/ Insert(b, p, s, i)
                        \/ Displace(b, p, s, i)
                        \/ Refuse(b, p, i))
    /\ Reference(b, p, s)

(* The next replay, into the same arrays.                                  *)
Reset ==
    /\ st.applied > 0
    /\ SetReset
    /\ reference' = [b \in Books |-> EmptyBook]
    /\ UNCHANGED updates

Next == \/ \E b \in Books, p \in Prices, s \in Sizes \cup {0} : Apply(b, p, s)
        \/ Reset

Spec == Init /\ [][Next]_vars

-----------------------------------------------------------------------------
(* book_bbo, one side: best price and size, or none.                       *)
NoLevel == [has |-> FALSE, px |-> 0, sz |-> 0]

Bbo(b) ==
    IF n[b] > 0
    THEN [has |-> TRUE, px |-> level[b][0].price, sz |-> level[b][0].size]
    ELSE NoLevel

(* The same of the reference: max of the bids, min of the asks.            *)
ReferenceBbo(b) ==
    LET d == DOMAIN reference[b]
        best == IF b[2] = "bid" THEN Max(d) ELSE Min(d)
    IN  IF d = {} THEN NoLevel
        ELSE [has |-> TRUE, px |-> best, sz |-> reference[b][best]]

-----------------------------------------------------------------------------
(* Properties.                                                             *)

Better(b, p, q) == IF b[2] = "bid" THEN p > q ELSE p < q

LivePrices(b) == {level[b][i].price : i \in 0 .. n[b] - 1}

(* The live levels as a map: what PriceBook calls levels.                  *)
AsMap(b) ==
    [p \in LivePrices(b) |->
       level[b][CHOOSE i \in 0 .. n[b] - 1 : level[b][i].price = p].size]

TypeOK ==
    /\ n \in [Books -> 0 .. MaxLevels]
    /\ level \in [Books -> [Pos -> [price : Prices \cup {0}, size : Sizes \cup {0}]]]
    /\ st \in [DOMAIN ZeroStats -> 0 .. MaxApplied]
    /\ \A b \in Books : /\ DOMAIN reference[b] \subseteq Prices
                        /\ reference[b] \in [DOMAIN reference[b] -> Sizes]

(* The live levels are strictly ordered from the best, so no price is      *)
(* there twice and position 0 is the best.                                 *)
SortedFromBest ==
    \A b \in Books : \A i, j \in 0 .. n[b] - 1 :
        i < j => Better(b, level[b][i].price, level[b][j].price)

(* Levels the reference has and the array has not.                         *)
Missing ==
    {bp \in Books \X Prices :
       bp[2] \in DOMAIN reference[bp[1]] \ LivePrices(bp[1])}

(* The array is a part of the reference book: no level is stale, and every *)
(* missing one is accounted for by an overflow.  Without overflow it is    *)
(* therefore exactly that book, with its BBO (verify_bbo.sh compares so).  *)
MissingOnlyByOverflow ==
    /\ \A b \in Books : \A i \in 0 .. n[b] - 1 :
         /\ level[b][i].price \in DOMAIN reference[b]
         /\ level[b][i].size = reference[b][level[b][i].price]
    /\ Cardinality(Missing) <= st.overflow

(* An update that drops a level does not make the BBO of that moment       *)
(* worse: the best price stays or a better one takes its place.            *)
DropKeepsBest ==
    [][st'.overflow > st.overflow =>
         \A b \in Books :
           Bbo(b)' = Bbo(b) \/ (Bbo(b)'.has /\ Better(b, Bbo(b)'.px, Bbo(b).px))]_vars

(* The array implements the bounded price map.                             *)
Abstract == INSTANCE PriceBook WITH levels <- [b \in Books |-> AsMap(b)]

PriceBookSpec == Abstract!Spec

(* What book.c:58 and CODE_GUIDE.md 1.6 and 3.3 say: dropping the worst    *)
(* level does not affect the BBO, so that it is always the reference's.    *)
OverflowHarmless == \A b \in Books : Bbo(b) = ReferenceBbo(b)
=============================================================================
