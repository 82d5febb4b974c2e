------------------------------ MODULE RxFramer ------------------------------
(***************************************************************************)
(* src/net/rx_stage.c: the receive stage.  Datagrams of an IEX-TP feed     *)
(* arrive over UDP, so each may be lost, repeated, overtaken or shorter    *)
(* than its header claims.  rx_framer_segment takes one apart, watches the *)
(* sequence numbers, filters out what is not a price level update and      *)
(* pushes the rest into the ring, dropping the newest when it is full.     *)
(*                                                                         *)
(* The ring is its history: `pushes` is everything ever pushed and `pops`  *)
(* how much of it the consumer has given back.  As SpscQueue shows, the    *)
(* producer knows a possibly older number `seen` of pops, and refreshes it *)
(* only when the ring looks full.                                          *)
(***************************************************************************)
EXTENDS Wire

CONSTANTS MaxArrivals, (* bound on the datagrams that arrive               *)
          Capacity     (* RX_QUEUE_CAPACITY                                *)

ASSUME StageAssumption == MaxArrivals \in Nat /\ Capacity \in Nat \ {0}

VARIABLES
  expected_seq, pending_flags, (* rx_framer_t: pending is AFTER_GAP or not *)
  st,        (* rx_stats_t                                                 *)
  cur,       (* the datagram being taken apart, or NoSegment               *)
  i,         (* blocks of it already passed                                *)
  running,   (* the receive loop has not timed out                         *)
  arrivals,  (* datagrams received                                         *)
  pushes,    (* history of the ring: [seq, after_gap]                      *)
  pops,      (* slots given back by the consumer                           *)
  seen,      (* cached_head: the pops the producer knows of                *)
  framed     (* history: segments whose header was accepted                *)

framer  == <<expected_seq, pending_flags, st, cur, i>>
network == <<running, arrivals>>
vars == <<framer, network, pushes, pops, seen, framed>>

NoSegment == NotDeep

Count(s, fields) == [c \in DOMAIN s |-> IF c \in fields THEN s[c] + 1 ELSE s[c]]

-----------------------------------------------------------------------------
Init ==
    /\ expected_seq = -1 /\ pending_flags = FALSE
    /\ st = [c \in {"datagrams", "non_deep", "heartbeats", "messages",
                    "filtered", "pushed", "dropped_full", "truncated",
                    "gaps", "gap_msgs", "reorders"} |-> 0]
    /\ cur = NoSegment /\ i = 0
    /\ running = TRUE
    /\ arrivals = 0
    /\ pushes = <<>> /\ pops = 0 /\ seen = 0
    /\ framed = {}

(* recvfrom returns a datagram: a copy of any segment, at any time.        *)
Arrive ==
    /\ running /\ cur = NoSegment
    /\ arrivals < MaxArrivals
    /\ arrivals' = arrivals + 1
    /\ UNCHANGED <<running, pops>>

(* Another protocol on the port, or too short for the header.              *)
NonDeep ==
    /\ Arrive
    /\ st' = Count(st, {"non_deep"})
    /\ UNCHANGED <<expected_seq, pending_flags, cur, i, pushes, seen, framed>>

Heartbeat(k) ==
    /\ MsgCount(k) = 0
    /\ Arrive
    /\ st' = Count(st, {"datagrams", "heartbeats"})
    /\ framed' = framed \cup {k}
    /\ UNCHANGED <<expected_seq, pending_flags, cur, i, pushes, seen>>

(* The sequence check: first_seq against expected_seq.                     *)
IsGap(k) == expected_seq >= 0 /\ Feed[k].first > expected_seq

(* Fault: what is late is not looked at.                                   *)
IsReorderNever(k) == FALSE

IsReorder(k) == expected_seq >= 0 /\ Feed[k].first < expected_seq

(* Fault: the check runs against the last number seen, not the next one.   *)
NextSeqLate(k) == Feed[k].first + MsgCount(k) - 1

NextSeq(k) == Feed[k].first + MsgCount(k)

(* Fault: the mark is set anew, not added.                                 *)
PendingAnew(k) == IsGap(k)

Pending(k) == pending_flags \/ IsGap(k)

(* A segment with messages, up to the start of the block loop.             *)
Segment(k, d) ==
    /\ MsgCount(k) > 0
    /\ Arrive
    /\ st' = [Count(st, {"datagrams"}
                        \cup (IF IsGap(k) THEN {"gaps"} ELSE {})
                        \cup (IF IsReorder(k) THEN {"reorders"} ELSE {}))
                EXCEPT !.gap_msgs =
                  IF IsGap(k) THEN @ + Feed[k].first - expected_seq ELSE @]
    /\ pending_flags' = Pending(k)
    /\ expected_seq' = NextSeq(k)
    /\ cur' = d /\ i' = 0
    /\ framed' = framed \cup {k}
    /\ UNCHANGED <<pushes, seen>>

(* The block loop: one action per way a block can go.                      *)
InBlocks == cur # NoSegment /\ i < cur.intact

BlockKind == Feed[cur.seg].blocks[i + 1]

Filter ==
    /\ InBlocks /\ BlockKind # "plu"
    /\ st' = Count(st, {"messages", "filtered"})
    /\ i' = i + 1
    /\ UNCHANGED <<expected_seq, pending_flags, cur, network, pushes, pops,
                   seen, framed>>

(* Fault: the cached head counts a slot that is still being read.          *)
HeadLoadsEager == seen .. pops + 1

(* What a load of the consumer's index may return.                         *)
HeadLoads == seen .. pops

(* push_begin: whether the ring has a slot, as far as the producer can     *)
(* tell.                                                                   *)
RefreshSeen ==
    IF Len(pushes) - seen < Capacity THEN seen' = seen
    ELSE \E k \in HeadLoads : seen' = k

HasRoom == RefreshSeen /\ Len(pushes) - seen' < Capacity
NoRoom  == RefreshSeen /\ Len(pushes) - seen' = Capacity

(* Fault: the sequence number is that of the segment.                      *)
SlotSeqOfSegment == Feed[cur.seg].first

SlotSeq == Feed[cur.seg].first + i

(* Fault: the flag stays pending after it was delivered.                   *)
PendingKept == pending_flags

PendingDelivered == FALSE

Push ==
    /\ InBlocks /\ BlockKind = "plu" /\ HasRoom
    /\ pushes' = Append(pushes, [seq |-> SlotSeq, after_gap |-> pending_flags])
    /\ pending_flags' = PendingDelivered
    /\ st' = Count(st, {"messages", "pushed"})
    /\ i' = i + 1
    /\ UNCHANGED <<expected_seq, cur, network, pops, framed>>

(* Fault: the drop is not counted.                                         *)
DropUncounted == {"messages"}

DropCounted == {"messages", "dropped_full"}

(* Fault: a full ring is waited for.                                       *)
DropFullWaits ==
    /\ InBlocks /\ BlockKind = "plu" /\ NoRoom
    /\ UNCHANGED <<framer, network, pushes, pops, framed>>

(* No slot: the newest message is dropped, counted, and not flagged.       *)
DropFull ==
    /\ InBlocks /\ BlockKind = "plu" /\ NoRoom
    /\ st' = Count(st, DropCounted)
    /\ i' = i + 1
    /\ UNCHANGED <<expected_seq, pending_flags, cur, network, pushes, pops,
                   framed>>

(* The loop ends: at the claimed count, at the end of the bytes, or at a   *)
(* block whose body is cut.                                                *)
EndSegment ==
    /\ cur # NoSegment /\ i = cur.intact
    /\ st' = IF cur.torn THEN Count(st, {"truncated"}) ELSE st
    /\ cur' = NoSegment /\ i' = 0
    /\ UNCHANGED <<expected_seq, pending_flags, network, pushes, pops, seen,
                   framed>>

(* recvfrom times out: the stage is over.                                  *)
Timeout ==
    /\ running /\ cur = NoSegment
    /\ running' = FALSE
    /\ UNCHANGED <<framer, arrivals, pushes, pops, seen, framed>>

(* The other end of the ring.                                              *)
Pop ==
    /\ pops < Len(pushes)
    /\ pops' = pops + 1
    /\ UNCHANGED <<framer, network, pushes, seen, framed>>

TakeApart == Filter \/ Push \/ DropFull \/ EndSegment

(* What recvfrom returned: rx_framer_segment up to the block loop.         *)
Deliver(d) == \/ d.seg = 0 /\ NonDeep
              \/ d.seg # 0 /\ (Heartbeat(d.seg) \/ Segment(d.seg, d))

(* Whatever a network can make of the feed, and other datagrams.           *)
Anything == {NotDeep} \cup UNION {Arrivals[k] : k \in SegIds}

Receive == \E d \in Anything : Deliver(d)

Next == Receive \/ TakeApart \/ Timeout \/ Pop

Spec == Init /\ [][Next]_vars

-----------------------------------------------------------------------------
(* Properties.                                                             *)

(* The kind of the message the exchange numbered n.                        *)
KindOf(n) ==
    LET k == CHOOSE k \in SegIds : n \in SeqsOf(k)
    IN  Feed[k].blocks[n - Feed[k].first + 1]

FramedSeqs == UNION {SeqsOf(k) : k \in framed}

TypeOK ==
    /\ expected_seq \in Nat \cup {-1} /\ pending_flags \in BOOLEAN
    /\ st \in [DOMAIN st -> Nat]
    /\ cur \in Anything
    /\ i \in 0 .. cur.intact
    /\ running \in BOOLEAN /\ arrivals \in 0 .. MaxArrivals
    /\ pushes \in Seq([seq : Nat, after_gap : BOOLEAN])
    /\ 0 <= seen /\ seen <= pops /\ pops <= Len(pushes)
    /\ framed \subseteq SegIds

(* Every slot holds a price level update under the number the exchange     *)
(* gave it, whatever was cut off or filtered before it (rx_main checks the *)
(* type of what it pops: "0 unless the Rx filter leaks").                  *)
OnlyUpdates ==
    \A n \in 1 .. Len(pushes) :
        pushes[n].seq \in FramedSeqs /\ KindOf(pushes[n].seq) = "plu"

(* Every message taken out of a segment is filtered, pushed or counted as  *)
(* dropped, so the losses on this side are known exactly.                  *)
EveryMessageCounted ==
    /\ st.messages = st.filtered + st.pushed + st.dropped_full
    /\ st.pushed = Len(pushes)

(* No loss of the network goes unnoticed by the consumer: when a pushed    *)
(* message is ahead of the one pushed before it and not marked AFTER_GAP,  *)
(* then every message between them belongs to a segment that arrived, and  *)
(* is missing only if it was filtered, dropped or cut off there.           *)
(* This must hold across drops, heartbeats and late or repeated segments.  *)
UnflaggedMeansArrived ==
    \A n \in 1 .. Len(pushes) - 1 :
        ~pushes[n + 1].after_gap =>
            \A q \in pushes[n].seq + 1 .. pushes[n + 1].seq - 1 :
                q \in FramedSeqs

(* The mark is not given without cause: never more marked messages than    *)
(* gaps.                                                                   *)
FlagsNeedGaps ==
    Cardinality({n \in 1 .. Len(pushes) : pushes[n].after_gap})
      + (IF pending_flags THEN 1 ELSE 0) <= st.gaps

(* As long as nothing came late or twice, gap_msgs is exact: everything    *)
(* between the first message seen and the next one expected arrived or was *)
(* counted missing.  (A late segment moves expected_seq back, and the next *)
(* one is then counted as a gap although nothing is missing.)              *)
GapCountExact ==
    (st.reorders = 0 /\ expected_seq >= 0) =>
        \E first \in {Feed[k].first : k \in framed} :
            /\ \A q \in FramedSeqs : first <= q
            /\ expected_seq - first = Cardinality(FramedSeqs) + st.gap_msgs

(* rx_stage.h:17 says of `truncated` that it counts the segments given up  *)
(* because a block was cut.  The code does not do so when the cut falls    *)
(* before a block or within its length: the loop just ends.                *)
CutsCounted ==
    [][ (cur # NoSegment /\ cur' = NoSegment /\ i < MsgCount(cur.seg))
          => st'.truncated = st.truncated + 1 ]_vars

(* Drop-newest: the receive thread takes every segment to its end without  *)
(* waiting for the consumer, even when the ring stays full for ever.       *)
NeverWaits == (cur # NoSegment) ~> (cur = NoSegment)
=============================================================================
