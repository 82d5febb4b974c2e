------------------------------ MODULE BookRev ------------------------------
(***************************************************************************)
(* bench/book_rev.c: the order book with the best price last, so that the  *)
(* frequent updates at the best move nothing.  The array is sorted by      *)
(* descending key and searched from its end.                               *)
(***************************************************************************)
EXTENDS BookSet

(* The backward scan gives j: j - 1 is the last live position whose key is *)
(* not below key, j = 0 when there is none.                                *)
Find(b, p) ==
    LET stop == NotBetter(b, p) IN IF stop = {} THEN 0 ELSE Max(stop) + 1

Found(b, p, j) == j > 0 /\ level[b][j - 1].price = p

(* Write a level at j of the array lv of book b.                           *)
PutAt(b, lv, j, p, s) ==
    level' = [level EXCEPT ![b] = [lv EXCEPT ![j] = [price |-> p, size |-> s]]]

DeleteMissing(b, p, j) ==
    /\ ~Found(b, p, j)
    /\ Count({"delete_missing"}, 0)
    /\ UNCHANGED <<n, level>>

Delete(b, p, j) ==
    /\ Found(b, p, j)
    /\ level' = [level EXCEPT ![b] = Move(@, j - 1, j, n[b] - j)]
    /\ n' = [n EXCEPT ![b] = @ - 1]
    /\ Count({"deleted"}, n[b] - 1)

Update(b, p, s, j) ==
    /\ Found(b, p, j)
    /\ level' = [level EXCEPT ![b][j - 1].size = s]
    /\ Count({"updated"}, n[b])
    /\ UNCHANGED n

Insert(b, p, s, j) ==
    /\ ~Found(b, p, j) /\ n[b] # MaxLevels
    /\ PutAt(b, Move(level[b], j + 1, j, n[b] - j), j, p, s)
    /\ n' = [n EXCEPT ![b] = @ + 1]
    /\ Count({"inserted"}, n[b] + 1)

(* Fault: the entries nearer to the best are moved as well, the bug the    *)
(* comment at book_rev.c:53 tells of.                                      *)
CloseUpTwice(lv, j) == Move(Move(lv, 0, 1, j), j + 1, j, MaxLevels - 1 - j)

(* Entry 0, the worst, is dropped and the entries up to j close up; those  *)
(* nearer to the best stay.                                                *)
CloseUp(lv, j) == Move(lv, 0, 1, j)

(* A full array.                                                           *)
Displace(b, p, s, j) ==
    /\ ~Found(b, p, j) /\ n[b] = MaxLevels /\ j # 0
    /\ PutAt(b, CloseUp(level[b], j - 1), j - 1, p, s)
    /\ Count({"overflow", "inserted"}, n[b])
    /\ UNCHANGED n

(* ... unless the new level is the worst.                                  *)
Refuse(b, p, j) ==
    /\ ~Found(b, p, j) /\ n[b] = MaxLevels /\ j = 0
    /\ Count({"overflow"}, 0)
    /\ UNCHANGED <<n, level>>

(* book_rev_apply                                                          *)
Apply(b, p, s) ==
    LET j == Find(b, p)
    IN  \/ s = 0 /\ (DeleteMissing(b, p, j) \/ Delete(b, p, j))
        \/ s # 0 /\ (\/ Update(b, p, s, j)
                     \/ Insert(b, p, s, j)
                     \/ Displace(b, p, s, j)
                     \/ Refuse(b, p, j))

(* book_rev_bbo, one side                                                  *)
Bbo(b) ==
    IF n[b] > 0
    THEN [has |-> TRUE, px |-> level[b][n[b] - 1].price,
          sz |-> level[b][n[b] - 1].size]
    ELSE [has |-> FALSE, px |-> 0, sz |-> 0]

Next == \/ \E b \in Books, p \in Prices, s \in Sizes \cup {0} : Apply(b, p, s)
        \/ SetReset

Spec == SetInit /\ [][Next]_bookVars
=============================================================================
