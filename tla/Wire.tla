-------------------------------- MODULE Wire --------------------------------
(***************************************************************************)
(* include/ll/iex_deep_wire.h: an IEX-TP segment is a header followed by   *)
(* message blocks, each a length and a body.  What a receiver makes of the *)
(* first bytes of a segment depends on where the bytes end.                *)
(***************************************************************************)
EXTENDS Integers, Sequences, FiniteSets, FiniteSetsExt

CONSTANT Feed          (* the DEEP segments the exchange sends, in order   *)

(* A segment: the sequence number of its first message, and its blocks.    *)
(* "plu" is a price level update, "short" a block of that type but below   *)
(* 30 bytes, "admin" any other message.  A segment without blocks is a     *)
(* heartbeat.                                                              *)
Block  == {"plu", "short", "admin"}
SegIds == 1 .. Len(Feed)

ASSUME FeedAssumption ==
    /\ \A k \in SegIds : /\ Feed[k].first \in Nat
                         /\ Feed[k].blocks \in Seq(Block)
    /\ \A j, k \in SegIds :
         j < k => Feed[j].first + Len(Feed[j].blocks) <= Feed[k].first

MsgCount(k) == Len(Feed[k].blocks)

SeqsOf(k) == Feed[k].first .. Feed[k].first + MsgCount(k) - 1

HeaderLen  == 40   (* sizeof(iextp_header_t)                               *)
PrefixLen  == 2    (* the length before a body                             *)
BodyLen(b) == IF b = "plu" THEN 30 ELSE 20

(* Bytes of segment k up to the end of its j-th block.                     *)
BytesTo(k, j) ==
    HeaderLen + MapThenSumSet(LAMBDA b : PrefixLen + BodyLen(Feed[k].blocks[b]),
                              1 .. j)

SegLen(k) == BytesTo(k, MsgCount(k))

(* The first n bytes of segment k, n >= HeaderLen: `intact` whole blocks,  *)
(* then perhaps one whose length is there but whose body is not.           *)
Cut(k, n) ==
    LET intact == Max({j \in 0 .. MsgCount(k) : BytesTo(k, j) <= n})
    IN  [seg |-> k, intact |-> intact,
         torn |-> intact < MsgCount(k) /\ BytesTo(k, intact) + PrefixLen <= n]

(* Another protocol, or too short for the header.                          *)
NotDeep == [seg |-> 0, intact |-> 0, torn |-> FALSE]

(* All that can be left of a segment.                                      *)
Arrivals == [k \in SegIds |-> {Cut(k, n) : n \in HeaderLen .. SegLen(k)}]
=============================================================================
