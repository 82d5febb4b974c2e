---------------------------- MODULE BookLayouts ----------------------------
(***************************************************************************)
(* bench/book_layout_bench.c: the same updates applied to the book of      *)
(* book.c and to the reversed one of book_rev.c, replay after replay in    *)
(* the same arrays.                                                        *)
(***************************************************************************)
EXTENDS OrderBook

VARIABLES revN, revLevel, revSt

Rev == INSTANCE BookRev WITH n <- revN, level <- revLevel, st <- revSt

layoutVars == <<vars, revN, revLevel, revSt>>

LayoutInit == Init /\ Rev!SetInit

LayoutApply ==
    \E b \in Books, p \in Prices, s \in Sizes \cup {0} :
      Apply(b, p, s) /\ Rev!Apply(b, p, s)

LayoutReset == Reset /\ Rev!SetReset

LayoutNext == LayoutApply \/ LayoutReset

LayoutSpec == LayoutInit /\ [][LayoutNext]_layoutVars

-----------------------------------------------------------------------------
(* check() and check_synth(): after every update the two books show the    *)
(* same BBO, their live levels mirror each other, and their counters are   *)
(* equal, overflow and max_depth included, whatever an earlier replay left *)
(* in the arrays.                                                          *)
Mirrored ==
    /\ \A b \in Books :
         /\ Bbo(b) = Rev!Bbo(b)
         /\ n[b] = revN[b]
         /\ \A i \in 0 .. n[b] - 1 : level[b][i] = revLevel[b][n[b] - 1 - i]
    /\ st = revSt
=============================================================================
