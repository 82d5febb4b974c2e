--------------------------- MODULE MCLivePipeline ---------------------------
(***************************************************************************)
(* An instance of Pipelines, with its live pipeline, for TLC.              *)
(***************************************************************************)
EXTENDS Pipelines

Seg(first, blocks) == [first |-> first, blocks |-> blocks]

(* Updates in pairs, and one behind a message of another type, so that a  *)
(* mark has to wait for it.                                                *)
ThreeSegments == <<Seg(1, <<"plu", "plu">>),
                   Seg(3, <<"admin", "plu">>),
                   Seg(5, <<"plu", "plu">>)>>

Msg(nm, side, price, size, epc) ==
    [name |-> nm, side |-> side, price |-> price, size |-> size, epc |-> epc]

(* Three symbols for a table of two.  A gets a better bid and loses it     *)
(* again, so that the older level is the best, in the second half of an    *)
(* event of which the first half is B's.                                   *)
FiveUpdates ==
    1 :> Msg("A", "bid", 10, 1, FALSE) @@
    2 :> Msg("B", "ask", 21, 1, TRUE) @@
    4 :> Msg("A", "bid", 11, 2, TRUE) @@
    5 :> Msg("C", "bid", 10, 2, TRUE) @@
    6 :> Msg("A", "bid", 11, 0, TRUE)

Packet(type, seg, tags, udp, cut) ==
    LET ulen == 8 + (IF seg = 0 THEN 0 ELSE SegLen(seg))
        orig == Max({60, 14 + 4 * tags + 20 + ulen})
        cap  == orig - cut
        pad  == (0 - cap) % 4
    IN  [type |-> type, caplen |-> cap, orig |-> orig, seg |-> seg,
         tags |-> tags, ihl |-> 20, udp |-> udp, ulen |-> ulen,
         blen |-> cap + pad + (IF type = "simple" THEN 16 ELSE 32)]

Section == [type |-> "section", blen |-> 28]

(* The last block of a file is not all there.                              *)
File(blocks) ==
    [blocks |-> blocks,
     size |-> MapThenSumSet(LAMBDA b : blocks[b].blen, DOMAIN blocks) - 4]

(* All of the feed, between packets that are not part of it; a capture     *)
(* that cuts the last update off; and one with a segment twice.            *)
ThreeFiles == {File(<<Section, Packet("enhanced", 1, 0, TRUE, 0),
                      Packet("enhanced", 0, 0, TRUE, 0),
                      Packet("simple", 2, 1, TRUE, 0),
                      Packet("enhanced", 1, 0, FALSE, 0),
                      Packet("simple", 3, 2, TRUE, 0),
                      Packet("enhanced", 1, 0, TRUE, 0)>>),
               File(<<Section, Packet("enhanced", 1, 0, TRUE, 0),
                      Packet("enhanced", 2, 0, TRUE, 0),
                      Packet("enhanced", 3, 0, TRUE, 20), Section>>),
               File(<<Section, Packet("enhanced", 1, 0, TRUE, 0),
                      Packet("enhanced", 1, 0, TRUE, 0),
                      Packet("enhanced", 2, 0, TRUE, 0), Section>>)}

(* The first packet was cut off one byte before its end, and padded to     *)
(* words.  The byte is the highest of the price, and 0 like the padding.   *)
(* Not SameBytes: with this for Files, SameAsOffline is violated.          *)
SnappedFile == {File(<<Section, Packet("simple", 1, 0, TRUE, 1),
                       Packet("enhanced", 2, 0, TRUE, 0), Section>>)}

AllOrOne == {{"A", "B", "C"}, {"A"}}
=============================================================================
