---------------------------- MODULE MCReceivers ----------------------------
(***************************************************************************)
(* An instance of Receivers for TLC.                                       *)
(***************************************************************************)
EXTENDS Receivers

Seg(first, blocks) == [first |-> first, blocks |-> blocks]

(* Six messages: updates alone and behind other messages, a heartbeat and  *)
(* a segment without updates.                                              *)
MixedFeed == <<Seg(1, <<"plu", "admin">>),
               Seg(3, <<>>),
               Seg(3, <<"admin">>),
               Seg(4, <<"short", "plu">>),
               Seg(6, <<"plu">>)>>
=============================================================================
