--------------------------- MODULE Receive_proofs ---------------------------
(***************************************************************************)
(* Proofs about the receive stage: alone (RxFramer), beside the reference  *)
(* server (Receivers) and in front of the drain thread; and about the      *)
(* offline pipeline and how the live one compares with it (Pipelines).     *)
(***************************************************************************)
EXTENDS Pipelines, Receivers, Facts, SequenceTheorems

-----------------------------------------------------------------------------
(* The feed.                                                               *)

(* What FeedAssumption says of one segment.                                *)
LEMMA SegmentFacts ==
  ASSUME NEW k \in SegIds
  PROVE  /\ Feed[k].first \in Nat /\ MsgCount(k) \in Nat
         /\ Feed[k].blocks \in Seq(Block)
         /\ k \in Nat
BY FeedAssumption DEF SegIds, MsgCount

(* Segments are numbered in order.                                         *)
LEMMA SegmentsInOrder ==
  ASSUME NEW j \in SegIds, NEW k \in SegIds, j < k
  PROVE  Feed[j].first + MsgCount(j) <= Feed[k].first
BY FeedAssumption DEF MsgCount

(* A number belongs to one segment.                                        *)
LEMMA OneSegment ==
  ASSUME NEW j \in SegIds, NEW k \in SegIds,
         NEW n \in SeqsOf(j), n \in SeqsOf(k)
  PROVE  j = k
<1>1. /\ Feed[j].first \in Nat /\ MsgCount(j) \in Nat /\ j \in Nat
      /\ Feed[k].first \in Nat /\ MsgCount(k) \in Nat /\ k \in Nat
  BY SegmentFacts
<1>2. /\ Feed[j].first <= n /\ n < Feed[j].first + MsgCount(j)
      /\ Feed[k].first <= n /\ n < Feed[k].first + MsgCount(k)
      /\ n \in Int
  BY <1>1 DEF SeqsOf
<1>3. ~ j < k
  BY <1>1, <1>2, SegmentsInOrder
<1>4. ~ k < j
  BY <1>1, <1>2, SegmentsInOrder
<1> QED
  BY <1>1, <1>3, <1>4

(* Before the first block there is only the header.                        *)
LEMMA HeaderFirst ==
  ASSUME NEW k
  PROVE  BytesTo(k, 0) = HeaderLen
<1> DEFINE w(b) == PrefixLen + BodyLen(Feed[k].blocks[b])
           c(s) == CHOOSE x \in s : TRUE
           S == 1 .. 0
           F(g) == [s \in SUBSET S |->
             IF s = {} THEN 0 ELSE LET x == c(s) IN w(x) + g[s \ {x}]]
           iter == CHOOSE g : g = F(g)
           e == [s \in SUBSET S |-> 0]
<1>1. S = {} /\ SUBSET S = {{}}
  OBVIOUS
<1>2. e = F(e)
  BY <1>1
<1>3. iter = F(iter)
  <2> HIDE DEF F, e
  <2> QED
    BY <1>2
<1>4. iter[S] = 0
  BY <1>1, <1>3
<1>5. MapThenSumSet(w, 1 .. 0) = iter[S]
  BY DEF MapThenSumSet, MapThenFoldSet
<1>6. BytesTo(k, 0) = HeaderLen + MapThenSumSet(w, 1 .. 0)
  BY DEF BytesTo
<1> DEFINE m == MapThenSumSet(w, 1 .. 0)
<1>7. m = 0
  BY <1>4, <1>5
<1>8. BytesTo(k, 0) = HeaderLen + m
  BY <1>6
<1> HIDE DEF m
<1> QED
  BY <1>7, <1>8 DEF HeaderLen

(* What a receiver can be given: whole blocks of one segment, from the     *)
(* first on, or another payload.                                           *)
Frames == {NotDeep} \cup
          {d \in [seg : SegIds, intact : Nat, torn : BOOLEAN] :
             d.intact <= MsgCount(d.seg)}

(* However a segment is cut, its first blocks are left.                    *)
LEMMA CutFacts ==
  ASSUME NEW k \in SegIds, NEW n \in Int, HeaderLen <= n
  PROVE  Cut(k, n) \in Frames /\ Cut(k, n).seg = k
<1> DEFINE S == {j \in 0 .. MsgCount(k) : BytesTo(k, j) <= n}
           d == Cut(k, n)
<1>2. MsgCount(k) \in Nat
  BY SegmentFacts
<1>3. 0 \in S
  <2>1. BytesTo(k, 0) <= n
    BY HeaderFirst DEF HeaderLen
  <2> QED
    BY <1>2, <2>1
<1>4. S \subseteq 0 .. MsgCount(k)
  OBVIOUS
<1> HIDE DEF S
<1>5. Max(S) \in S
  BY <1>2, <1>3, <1>4, MaxIsGreatest
<1>6. d = [seg |-> k, intact |-> Max(S),
           torn |-> Max(S) < MsgCount(k) /\ BytesTo(k, Max(S)) + PrefixLen <= n]
  BY DEF Cut, S
<1>7. Max(S) \in 0 .. MsgCount(k)
  BY <1>4, <1>5
<1>8. d.seg = k /\ d.intact = Max(S)
  BY <1>6
<1>9. d \in [seg : SegIds, intact : Nat, torn : BOOLEAN]
  BY <1>2, <1>6, <1>7
<1>10. d.intact <= MsgCount(d.seg)
  BY <1>2, <1>7, <1>8
<1> HIDE DEF d
<1>11. d \in Frames /\ d.seg = k
  BY <1>8, <1>9, <1>10 DEF Frames
<1> QED
  BY <1>11 DEF d

(* The network of RxFramer.                                                *)
LEMMA AnythingIsFramed ==
  Anything \subseteq Frames
<1> SUFFICES ASSUME NEW k \in SegIds, NEW d \in Arrivals[k]
             PROVE  d \in Frames
  BY DEF Anything, Frames
<1>1. PICK n \in HeaderLen .. SegLen(k) : d = Cut(k, n)
  BY DEF Arrivals
<1>2. n \in Int /\ HeaderLen <= n
  BY <1>1 DEF HeaderLen
<1> QED
  BY <1>1, <1>2, CutFacts

(* The lengths of a payload are numbers.                                   *)
LEMMA LengthFacts ==
  ASSUME NEW f \in Files, NEW b \in DOMAIN f.blocks,
         f.blocks[b].type # "section"
  PROVE  /\ PayloadLen(f.blocks[b]) \in Int /\ SentLen(f.blocks[b]) \in Int
         /\ PayloadLen(f.blocks[b]) <= f.blocks[b].ulen - 8
<1> DEFINE c == f.blocks[b]
<1>0. ASSUME NEW x \in Int, NEW y \in Int
      PROVE  Min({x, y}) \in Int /\ Min({x, y}) <= x
  BY <1>0 DEF Min
<1>1. /\ c.type \in Types /\ c.blen \in Int /\ c.caplen \in Int
      /\ c.orig \in Int /\ c.tags \in Int /\ c.ihl \in Int /\ c.ulen \in Int
  BY CaptureAssumption
<1> HIDE DEF c
<1>2. CapLen(c) \in Int
  <2>1. c.blen - 16 \in Int
    BY <1>1
  <2> QED
    BY <1>0, <1>1, <2>1 DEF CapLen
<1>3. UdpAt(c) \in Int
  BY <1>1 DEF UdpAt
<1>4. /\ c.ulen - 8 \in Int /\ CapLen(c) - UdpAt(c) - 8 \in Int
      /\ c.caplen - UdpAt(c) - 8 \in Int
  BY <1>1, <1>2, <1>3
<1>5. PayloadLen(c) \in Int /\ PayloadLen(c) <= c.ulen - 8
  BY <1>0, <1>4 DEF PayloadLen
<1>6. SentLen(c) \in Int
  <2>1. Min({c.ulen - 8, c.caplen - UdpAt(c) - 8}) \in Int
    BY <1>0, <1>4
  <2> QED
    BY <2>1 DEF SentLen
<1> QED
  BY <1>5, <1>6 DEF c

(* Any part of a payload is a datagram the receive stage may get.          *)
LEMMA DatagramIsFramed ==
  ASSUME NEW f \in Files, NEW b \in DOMAIN f.blocks,
         f.blocks[b].type # "section", NEW n \in Int
  PROVE  Datagram(f.blocks[b], n) \in Frames
<1> DEFINE c == f.blocks[b]
<1>1. c.seg \in SegIds \cup {0}
  BY CaptureAssumption
<1> HIDE DEF c
<1>2. CASE c.seg = 0 \/ n < HeaderLen
  BY <1>2 DEF Datagram, Frames, c
<1>3. CASE ~(c.seg = 0 \/ n < HeaderLen)
  <2>1. HeaderLen <= n
    BY <1>3 DEF HeaderLen
  <2> QED
    BY <1>1, <1>3, <2>1, CutFacts DEF Datagram, c
<1> QED
  BY <1>2, <1>3

(* What arrives of a capture.                                              *)
LEMMA IncomingIsFramed ==
  ASSUME NEW f \in Files
  PROVE  Incoming[f] \subseteq Frames
<1> SUFFICES ASSUME NEW b \in DOMAIN f.blocks, f.blocks[b].type # "section"
             PROVE  Received(f.blocks[b]) \in Frames
  BY DEF Incoming, Sent
<1>1. SentLen(f.blocks[b]) \in Int /\ BufferLen \in Int
  BY LengthFacts, BufferAssumption
<1>2. Min({SentLen(f.blocks[b]), BufferLen}) \in Int
  BY <1>1 DEF Min
<1> QED
  BY <1>2, DatagramIsFramed DEF Received

-----------------------------------------------------------------------------
(* The steps of the stage.                                                 *)

Counters == {"datagrams", "non_deep", "heartbeats", "messages", "filtered",
             "pushed", "dropped_full", "truncated", "gaps", "gap_msgs",
             "reorders"}

Slots == [seq : Nat, after_gap : BOOLEAN]

(* Types, and what the segment being taken apart has to do with the rest.  *)
Typed ==
    /\ expected_seq \in Nat \cup {-1} /\ pending_flags \in BOOLEAN
    /\ st \in [Counters -> Nat]
    /\ cur \in Frames
    /\ i \in 0 .. cur.intact
    /\ running \in BOOLEAN /\ arrivals \in 0 .. MaxArrivals
    /\ pushes \in Seq(Slots)
    /\ seen \in Nat /\ pops \in Nat
    /\ seen <= pops /\ pops <= Len(pushes)
    /\ framed \subseteq SegIds
    /\ cur # NoSegment =>
         /\ cur.seg \in framed /\ MsgCount(cur.seg) > 0
         /\ expected_seq = NextSeq(cur.seg)

(* A step of the stage, whatever the network is, or of its consumer.       *)
StageNext == (\E d \in Frames : Deliver(d)) \/ TakeApart \/ Timeout \/ Pop

(* What the history shows of a step: a segment begins, an update of the    *)
(* current one is pushed, or neither.                                      *)
Begins(k) ==
    /\ k \in SegIds /\ MsgCount(k) > 0
    /\ framed' = framed \cup {k}
    /\ expected_seq' = NextSeq(k)
    /\ pending_flags' = Pending(k)
    /\ pushes' = pushes
    /\ st'.gaps = IF IsGap(k) THEN st.gaps + 1 ELSE st.gaps
    /\ st'.reorders = IF IsReorder(k) THEN st.reorders + 1 ELSE st.reorders
    /\ st'.gap_msgs = IF IsGap(k) THEN st.gap_msgs + Feed[k].first - expected_seq
                      ELSE st.gap_msgs

Losses == <<st.gaps, st.reorders, st.gap_msgs>>

Puts(k, j) ==
    /\ k \in framed /\ j \in 0 .. MsgCount(k) - 1
    /\ Feed[k].blocks[j + 1] = "plu"
    /\ expected_seq = NextSeq(k)
    /\ pushes' = Append(pushes, [seq |-> Feed[k].first + j,
                                 after_gap |-> pending_flags])
    /\ pending_flags' = FALSE
    /\ UNCHANGED <<expected_seq, framed, Losses>>

Else ==
    /\ \/ framed' = framed
       \/ \E k \in SegIds : MsgCount(k) = 0 /\ framed' = framed \cup {k}
    /\ UNCHANGED <<expected_seq, pending_flags, pushes, Losses>>

StepKinds == (\E k \in SegIds : Begins(k)) \/ (\E k, j \in Nat : Puts(k, j)) \/ Else

(* A datagram is a segment's or none.                                      *)
LEMMA FrameFacts ==
  ASSUME NEW d \in Frames
  PROVE  /\ d.intact \in Nat /\ d.torn \in BOOLEAN
         /\ d.seg # 0 => d.seg \in SegIds /\ d.intact <= MsgCount(d.seg)
         /\ d.seg = 0 => d = NoSegment
         /\ NoSegment.seg = 0 /\ NoSegment.intact = 0
<1>1. NotDeep.seg = 0 /\ NotDeep.intact = 0 /\ NotDeep.torn \in BOOLEAN
  BY DEF NotDeep
<1>2. 0 \notin SegIds
  BY DEF SegIds
<1>3. CASE d = NotDeep
  BY <1>1, <1>3 DEF NoSegment
<1>4. CASE d \in [seg : SegIds, intact : Nat, torn : BOOLEAN] /\ d.intact <= MsgCount(d.seg)
  <2>1. d.seg \in SegIds /\ d.intact \in Nat /\ d.torn \in BOOLEAN
    BY <1>4
  <2> QED
    BY <1>1, <1>2, <1>4, <2>1 DEF NoSegment
<1> QED
  BY <1>3, <1>4 DEF Frames

(* Counting keeps the counters counters.                                   *)
LEMMA CountFacts ==
  ASSUME NEW s \in [Counters -> Nat], NEW fields
  PROVE  /\ Count(s, fields) \in [Counters -> Nat]
         /\ \A c \in Counters :
              Count(s, fields)[c] = IF c \in fields THEN s[c] + 1 ELSE s[c]
BY DEF Count

(* The first state.                                                        *)
LEMMA StageInit ==
  ASSUME Init
  PROVE  Typed /\ EveryMessageCounted
<1>1. st \in [Counters -> Nat] /\ \A c \in Counters : st[c] = 0
  BY DEF Init, Counters
<1>2. EveryMessageCounted
  <2>1. st.messages = 0 /\ st.filtered = 0 /\ st.pushed = 0 /\ st.dropped_full = 0
    BY <1>1 DEF Counters
  <2> QED
    BY <2>1 DEF Init, EveryMessageCounted
<1>3. cur = NoSegment /\ cur \in Frames /\ cur.intact = 0
  BY DEF Init, Frames, NoSegment, NotDeep
<1>4. pushes \in Seq(Slots) /\ Len(pushes) = 0
  BY DEF Init
<1>5. /\ expected_seq \in Nat \cup {-1} /\ pending_flags \in BOOLEAN
      /\ i \in 0 .. cur.intact
      /\ running \in BOOLEAN /\ arrivals \in 0 .. MaxArrivals
      /\ seen = 0 /\ pops = 0 /\ framed \subseteq SegIds
  <2>1. 0 \in 0 .. MaxArrivals /\ 0 \in 0 .. cur.intact /\ -1 \in Nat \cup {-1}
    BY <1>3, StageAssumption
  <2> QED
    BY <2>1 DEF Init
<1>6. Typed
  BY <1>1, <1>3, <1>4, <1>5 DEF Typed
<1> QED
  BY <1>2, <1>6

(* A datagram of another protocol only counts.                             *)
LEMMA NonDeepStep ==
  ASSUME Typed, EveryMessageCounted, NonDeep
  PROVE  Typed' /\ EveryMessageCounted' /\ Else
<1> DEFINE fs == {"non_deep"}
<1>1. st' = Count(st, fs) /\ st \in [Counters -> Nat]
  BY DEF NonDeep, Typed
<1>2. /\ st' \in [Counters -> Nat]
      /\ \A c \in Counters : c \notin fs => st'[c] = st[c]
  <2> HIDE DEF fs
  <2> QED
    BY <1>1, CountFacts
<1>3. /\ st'.messages = st.messages /\ st'.filtered = st.filtered
      /\ st'.pushed = st.pushed /\ st'.dropped_full = st.dropped_full
      /\ st'.gaps = st.gaps /\ st'.reorders = st.reorders
      /\ st'.gap_msgs = st.gap_msgs
  BY <1>2 DEF Counters
<1>4. /\ UNCHANGED <<expected_seq, pending_flags, cur, i, pushes, seen, framed,
                     running, pops>>
      /\ arrivals' \in 0 .. MaxArrivals
  BY StageAssumption DEF NonDeep, Arrive, Typed
<1>5. Typed'
  BY <1>2, <1>4 DEF Typed, NextSeq
<1>6. EveryMessageCounted'
  BY <1>3, <1>4 DEF EveryMessageCounted
<1> QED
  BY <1>3, <1>4, <1>5, <1>6 DEF Else, Losses

(* Nor does a heartbeat do more.                                           *)
LEMMA HeartbeatStep ==
  ASSUME Typed, EveryMessageCounted, NEW k \in SegIds, Heartbeat(k)
  PROVE  Typed' /\ EveryMessageCounted' /\ Else
<1> DEFINE fs == {"datagrams", "heartbeats"}
<1>1. st' = Count(st, fs) /\ st \in [Counters -> Nat]
  BY DEF Heartbeat, Typed
<1>2. /\ st' \in [Counters -> Nat]
      /\ \A c \in Counters : c \notin fs => st'[c] = st[c]
  <2> HIDE DEF fs
  <2> QED
    BY <1>1, CountFacts
<1>3. /\ st'.messages = st.messages /\ st'.filtered = st.filtered
      /\ st'.pushed = st.pushed /\ st'.dropped_full = st.dropped_full
      /\ st'.gaps = st.gaps /\ st'.reorders = st.reorders
      /\ st'.gap_msgs = st.gap_msgs
  BY <1>2 DEF Counters
<1>4. /\ UNCHANGED <<expected_seq, pending_flags, cur, i, pushes, seen,
                     running, pops>>
      /\ arrivals' \in 0 .. MaxArrivals
      /\ MsgCount(k) = 0 /\ framed' = framed \cup {k}
  BY StageAssumption DEF Heartbeat, Arrive, Typed
<1>5. Typed'
  BY <1>2, <1>4 DEF Typed, NextSeq
<1>6. EveryMessageCounted'
  BY <1>3, <1>4 DEF EveryMessageCounted
<1> QED
  BY <1>3, <1>4, <1>5, <1>6 DEF Else, Losses

(* A segment with messages.                                                *)
LEMMA SegmentStep ==
  ASSUME Typed, EveryMessageCounted, NEW d \in Frames, d.seg # 0,
         Segment(d.seg, d)
  PROVE  Typed' /\ EveryMessageCounted' /\ Begins(d.seg)
<1> DEFINE k == d.seg
           fs == {"datagrams"} \cup (IF IsGap(k) THEN {"gaps"} ELSE {})
                               \cup (IF IsReorder(k) THEN {"reorders"} ELSE {})
           s == Count(st, fs)
<1>0. k \in SegIds
  BY FrameFacts
<1>1. /\ st' = [s EXCEPT !.gap_msgs =
                  IF IsGap(k) THEN @ + Feed[k].first - expected_seq ELSE @]
      /\ st \in [Counters -> Nat]
  BY DEF Segment, Typed
<1>2. /\ "messages" \notin fs /\ "filtered" \notin fs /\ "pushed" \notin fs
      /\ "dropped_full" \notin fs /\ "gap_msgs" \notin fs
      /\ "gaps" \in fs <=> IsGap(k)
      /\ "reorders" \in fs <=> IsReorder(k)
  OBVIOUS
<1>3. /\ s \in [Counters -> Nat]
      /\ \A c \in Counters : s[c] = IF c \in fs THEN st[c] + 1 ELSE st[c]
  <2> HIDE DEF fs
  <2> QED
    BY <1>1, CountFacts
<1>4. Feed[k].first \in Nat /\ MsgCount(k) \in Nat /\ NextSeq(k) \in Nat
  BY <1>0, SegmentFacts DEF NextSeq
<1>5. IsGap(k) => /\ expected_seq \in Nat
                  /\ Feed[k].first - expected_seq \in Nat
  BY <1>4 DEF IsGap, Typed
<1> HIDE DEF s, fs
<1>6. /\ st' \in [Counters -> Nat]
      /\ \A c \in Counters \ {"gap_msgs"} : st'[c] = s[c]
      /\ st'.gap_msgs = IF IsGap(k) THEN s.gap_msgs + Feed[k].first - expected_seq
                        ELSE s.gap_msgs
  <2>1. "gap_msgs" \in Counters
    BY DEF Counters
  <2>2. s.gap_msgs \in Nat
    BY <1>3, <2>1
  <2> DEFINE g == IF IsGap(k) THEN s.gap_msgs + Feed[k].first - expected_seq
                  ELSE s.gap_msgs
  <2>3. g \in Nat
    BY <1>4, <1>5, <2>2
  <2>4. st' = [s EXCEPT !.gap_msgs = g]
    BY <1>1
  <2> HIDE DEF g
  <2>5. /\ st' \in [Counters -> Nat] /\ st'.gap_msgs = g
        /\ \A c \in Counters \ {"gap_msgs"} : st'[c] = s[c]
    BY <1>3, <2>1, <2>3, <2>4
  <2> QED
    BY <2>5 DEF g
<1>7. /\ st'.messages = st.messages /\ st'.filtered = st.filtered
      /\ st'.pushed = st.pushed /\ st'.dropped_full = st.dropped_full
      /\ st'.gaps = IF IsGap(k) THEN st.gaps + 1 ELSE st.gaps
      /\ st'.reorders = IF IsReorder(k) THEN st.reorders + 1 ELSE st.reorders
      /\ s.gap_msgs = st.gap_msgs
  BY <1>2, <1>3, <1>6 DEF Counters
<1>8. /\ MsgCount(k) > 0
      /\ pending_flags' = Pending(k) /\ expected_seq' = NextSeq(k)
      /\ cur' = d /\ i' = 0 /\ framed' = framed \cup {k}
      /\ UNCHANGED <<pushes, seen, running, pops>>
      /\ arrivals' \in 0 .. MaxArrivals
  BY StageAssumption DEF Segment, Arrive, Typed
<1>9. Pending(k) \in BOOLEAN
  BY DEF Pending, IsGap, Typed
<1>10. i' \in 0 .. cur'.intact
  BY <1>8, FrameFacts
<1>11. Typed'
  BY <1>0, <1>4, <1>6, <1>8, <1>9, <1>10 DEF Typed, NextSeq
<1>12. EveryMessageCounted'
  BY <1>7, <1>8 DEF EveryMessageCounted
<1> QED
  BY <1>0, <1>6, <1>7, <1>8, <1>11, <1>12 DEF Begins

(* What is known while a segment is taken apart.                           *)
LEMMA InBlocksFacts ==
  ASSUME Typed, cur # NoSegment
  PROVE  /\ cur.seg \in SegIds /\ cur.seg \in framed
         /\ cur.intact \in Nat /\ cur.intact <= MsgCount(cur.seg)
         /\ i \in Nat /\ i <= cur.intact
         /\ expected_seq = NextSeq(cur.seg)
         /\ i < cur.intact => i \in 0 .. MsgCount(cur.seg) - 1
                              /\ i + 1 \in 0 .. cur.intact
<1>1. cur \in Frames /\ i \in 0 .. cur.intact
  BY DEF Typed
<1>2. cur.intact \in Nat /\ cur.seg # 0 /\ cur.seg \in SegIds
      /\ cur.intact <= MsgCount(cur.seg)
  BY <1>1, FrameFacts
<1>3. MsgCount(cur.seg) \in Nat
  BY <1>2, SegmentFacts
<1> QED
  BY <1>1, <1>2, <1>3 DEF Typed

(* A message that is not an update, or one there is no room for.           *)
LEMMA SkipStep ==
  ASSUME Typed, EveryMessageCounted, Filter \/ DropFull
  PROVE  Typed' /\ EveryMessageCounted' /\ Else
<1>0. PICK fs \in {{"messages", "filtered"}, {"messages", "dropped_full"}} :
        st' = Count(st, fs)
  BY DEF Filter, DropFull, DropCounted
<1>1. st \in [Counters -> Nat]
  BY DEF Typed
<1>2. /\ st' \in [Counters -> Nat]
      /\ \A c \in Counters : st'[c] = IF c \in fs THEN st[c] + 1 ELSE st[c]
  BY <1>0, <1>1, CountFacts
<1>3. /\ st'.pushed = st.pushed
      /\ st'.gaps = st.gaps /\ st'.reorders = st.reorders
      /\ st'.gap_msgs = st.gap_msgs
      /\ st'.messages = st.messages + 1
      /\ \/ st'.filtered = st.filtered + 1 /\ st'.dropped_full = st.dropped_full
         \/ st'.filtered = st.filtered /\ st'.dropped_full = st.dropped_full + 1
  BY <1>0, <1>2 DEF Counters
<1>4. /\ UNCHANGED <<expected_seq, pending_flags, cur, pushes, framed, running,
                     arrivals, pops>>
      /\ i' = i + 1 /\ cur # NoSegment /\ i < cur.intact
  BY DEF Filter, DropFull, InBlocks, network
<1>5. i' \in 0 .. cur'.intact
  BY <1>4, InBlocksFacts
<1>6. seen' \in Nat /\ seen' <= pops'
  <2>1. seen' \in {seen} \cup HeadLoads
    BY DEF Filter, DropFull, NoRoom, RefreshSeen
  <2> QED
    BY <1>4, <2>1 DEF Typed, HeadLoads
<1>7. Typed'
  BY <1>2, <1>4, <1>5, <1>6 DEF Typed, NextSeq
<1>8. EveryMessageCounted'
  <2>1. st.messages \in Nat /\ st.filtered \in Nat /\ st.pushed \in Nat
        /\ st.dropped_full \in Nat
    BY <1>1 DEF Counters
  <2>2. st'.messages = st'.filtered + st'.pushed + st'.dropped_full
    <3>1. st.messages = st.filtered + st.pushed + st.dropped_full
      BY DEF EveryMessageCounted
    <3>2. CASE /\ st'.filtered = st.filtered + 1
               /\ st'.dropped_full = st.dropped_full
      BY <1>3, <2>1, <3>1, <3>2
    <3>3. CASE /\ st'.filtered = st.filtered
               /\ st'.dropped_full = st.dropped_full + 1
      BY <1>3, <2>1, <3>1, <3>3
    <3> QED
      BY <1>3, <3>2, <3>3
  <2>3. st'.pushed = Len(pushes')
    BY <1>3, <1>4 DEF EveryMessageCounted
  <2> QED
    BY <2>2, <2>3 DEF EveryMessageCounted
<1> QED
  BY <1>3, <1>4, <1>7, <1>8 DEF Else, Losses

(* An update goes into the ring.                                           *)
LEMMA PushStep ==
  ASSUME Typed, EveryMessageCounted, Push
  PROVE  Typed' /\ EveryMessageCounted' /\ Puts(cur.seg, i)
<1> DEFINE fs == {"messages", "pushed"}
           e == [seq |-> SlotSeq, after_gap |-> pending_flags]
<1>1. st' = Count(st, fs) /\ st \in [Counters -> Nat]
  BY DEF Push, Typed
<1>2. /\ st' \in [Counters -> Nat]
      /\ \A c \in Counters : st'[c] = IF c \in fs THEN st[c] + 1 ELSE st[c]
  <2> HIDE DEF fs
  <2> QED
    BY <1>1, CountFacts
<1>3. /\ st'.messages = st.messages + 1 /\ st'.filtered = st.filtered
      /\ st'.pushed = st.pushed + 1 /\ st'.dropped_full = st.dropped_full
      /\ st'.gaps = st.gaps /\ st'.reorders = st.reorders
      /\ st'.gap_msgs = st.gap_msgs
  BY <1>2 DEF Counters
<1>4. /\ UNCHANGED <<expected_seq, cur, framed, running, arrivals, pops>>
      /\ pending_flags' = FALSE
      /\ i' = i + 1 /\ cur # NoSegment /\ i < cur.intact
      /\ pushes' = Append(pushes, e)
      /\ Feed[cur.seg].blocks[i + 1] = "plu"
  BY DEF Push, InBlocks, BlockKind, network, PendingDelivered
<1>5. /\ cur.seg \in framed /\ cur.seg \in SegIds
      /\ i \in 0 .. MsgCount(cur.seg) - 1 /\ i' \in 0 .. cur'.intact
      /\ i \in Nat /\ expected_seq = NextSeq(cur.seg)
  BY <1>4, InBlocksFacts
<1>6. seen' \in Nat /\ seen' <= pops'
  <2>1. seen' \in {seen} \cup HeadLoads
    BY DEF Push, HasRoom, RefreshSeen
  <2> QED
    BY <1>4, <2>1 DEF Typed, HeadLoads
<1>7. SlotSeq \in Nat
  BY <1>5, SegmentFacts DEF SlotSeq
<1>8. e \in Slots
  BY <1>7 DEF Slots, Typed
<1>9. pushes \in Seq(Slots) /\ pops <= Len(pushes) /\ pops \in Nat
  BY DEF Typed
<1>10. pushes' \in Seq(Slots) /\ Len(pushes') = Len(pushes) + 1
  <2> HIDE DEF e
  <2> QED
    BY <1>4, <1>8, <1>9
<1>11. pops' <= Len(pushes')
  BY <1>4, <1>9, <1>10
<1>12. Typed'
  BY <1>2, <1>4, <1>5, <1>6, <1>10, <1>11 DEF Typed, NextSeq
<1>13. EveryMessageCounted'
  <2>1. st.messages \in Nat /\ st.filtered \in Nat /\ st.pushed \in Nat
        /\ st.dropped_full \in Nat
    BY <1>1 DEF Counters
  <2> QED
    BY <1>3, <1>10, <2>1 DEF EveryMessageCounted
<1> QED
  BY <1>3, <1>4, <1>5, <1>12, <1>13 DEF Puts, Losses, SlotSeq

(* The end of a segment, of the feed, or of a slot's use.                  *)
LEMMA OtherStep ==
  ASSUME Typed, EveryMessageCounted,
         EndSegment \/ Timeout \/ Pop \/ UNCHANGED vars
  PROVE  Typed' /\ EveryMessageCounted' /\ Else
<1>1. st \in [Counters -> Nat]
  BY DEF Typed
<1>2. \/ st' = st
      \/ st' = Count(st, {"truncated"})
  BY DEF EndSegment, Timeout, Pop, vars, framer
<1>3. /\ st' \in [Counters -> Nat]
      /\ \A c \in Counters : c # "truncated" => st'[c] = st[c]
  BY <1>1, <1>2, CountFacts
<1>4. /\ st'.messages = st.messages /\ st'.filtered = st.filtered
      /\ st'.pushed = st.pushed /\ st'.dropped_full = st.dropped_full
      /\ st'.gaps = st.gaps /\ st'.reorders = st.reorders
      /\ st'.gap_msgs = st.gap_msgs
  BY <1>3 DEF Counters
<1>5. /\ UNCHANGED <<expected_seq, pending_flags, pushes, seen, framed, arrivals>>
      /\ running' \in BOOLEAN
      /\ \/ UNCHANGED <<cur, i>>
         \/ cur' = NoSegment /\ i' = 0
      /\ \/ pops' = pops
         \/ pops' = pops + 1 /\ pops < Len(pushes)
  BY DEF EndSegment, Timeout, Pop, vars, framer, network, Typed
<1>6. NoSegment \in Frames /\ 0 \in 0 .. NoSegment.intact
  BY FrameFacts DEF Frames, NoSegment
<1>7. pushes \in Seq(Slots) /\ pops \in Nat /\ seen \in Nat /\ seen <= pops
      /\ pops <= Len(pushes)
  BY DEF Typed
<1>8. pops' \in Nat /\ seen' <= pops' /\ pops' <= Len(pushes')
  <2>1. Len(pushes) \in Nat
    BY <1>7
  <2> QED
    BY <1>5, <1>7, <2>1
<1>9. cur' \in Frames /\ i' \in 0 .. cur'.intact
  BY <1>5, <1>6 DEF Typed
<1>10. Typed'
  BY <1>3, <1>5, <1>8, <1>9 DEF Typed, NextSeq
<1>11. EveryMessageCounted'
  BY <1>4, <1>5 DEF EveryMessageCounted
<1> QED
  BY <1>4, <1>5, <1>10, <1>11 DEF Else, Losses

(* Every step is of one of the three kinds.                                *)
LEMMA StageStep ==
  ASSUME Typed, EveryMessageCounted, [StageNext]_vars
  PROVE  Typed' /\ EveryMessageCounted' /\ StepKinds
<1>1. CASE \E d \in Frames : Deliver(d)
  <2>1. PICK d \in Frames : Deliver(d)
    BY <1>1
  <2>2. CASE d.seg = 0
    BY <2>1, <2>2, NonDeepStep DEF Deliver, StepKinds
  <2>3. CASE d.seg # 0
    <3>1. d.seg \in SegIds
      BY <2>3, FrameFacts
    <3>2. CASE Heartbeat(d.seg)
      BY <3>1, <3>2, HeartbeatStep DEF StepKinds
    <3>3. CASE Segment(d.seg, d)
      BY <2>3, <3>1, <3>3, SegmentStep DEF StepKinds
    <3> QED
      BY <2>1, <2>3, <3>2, <3>3 DEF Deliver
  <2> QED
    BY <2>2, <2>3
<1>2. CASE Filter \/ DropFull
  BY <1>2, SkipStep DEF StepKinds
<1>3. CASE Push
  <2>1. cur.seg \in Nat /\ i \in Nat
    <3>1. cur # NoSegment
      BY <1>3 DEF Push, InBlocks
    <3> QED
      BY <3>1, InBlocksFacts, SegmentFacts
  <2> QED
    BY <1>3, <2>1, PushStep DEF StepKinds
<1>4. CASE EndSegment \/ Timeout \/ Pop \/ UNCHANGED vars
  BY <1>4, OtherStep DEF StepKinds
<1> QED
  BY <1>1, <1>2, <1>3, <1>4 DEF StageNext, TakeApart

-----------------------------------------------------------------------------
(* The sequence numbers.                                                   *)

(* Every slot is an update of a segment that was framed.                   *)
RealUpdates ==
    \A n \in 1 .. Len(pushes) : \E k \in framed :
        /\ pushes[n].seq \in SeqsOf(k)
        /\ Feed[k].blocks[pushes[n].seq - Feed[k].first + 1] = "plu"

(* Nothing is known before the first segment with messages.                *)
Fresh == expected_seq = -1 =>
           pushes = <<>> /\ st.gap_msgs = 0 /\ FramedSeqs = {}

(* Behind the last push nothing is missing unless a mark is pending.       *)
LastArrived ==
    (pushes # <<>> /\ ~pending_flags) =>
        \A q \in pushes[Len(pushes)].seq + 1 .. expected_seq - 1 : q \in FramedSeqs

(* What was framed is behind, as long as nothing came late.                *)
AllBehind ==
    /\ IsFiniteSet(FramedSeqs)
    /\ st.reorders = 0 => \A q \in FramedSeqs : q < expected_seq

StageInv == /\ Typed /\ EveryMessageCounted
            /\ RealUpdates /\ Fresh
            /\ LastArrived /\ UnflaggedMeansArrived
            /\ FlagsNeedGaps
            /\ AllBehind /\ GapCountExact

(* The numbers of a segment.                                               *)
LEMMA SeqsFacts ==
  ASSUME NEW k \in SegIds
  PROVE  /\ SeqsOf(k) \subseteq Nat
         /\ \A q \in Int : q \in SeqsOf(k) <=> Feed[k].first <= q /\ q < NextSeq(k)
         /\ IsFiniteSet(SeqsOf(k)) /\ Cardinality(SeqsOf(k)) = MsgCount(k)
         /\ MsgCount(k) = 0 => SeqsOf(k) = {}
         /\ NextSeq(k) = Feed[k].first + MsgCount(k) /\ NextSeq(k) \in Nat
<1> DEFINE a == Feed[k].first
           m == MsgCount(k)
           b == a + m - 1
<1>1. a \in Nat /\ m \in Nat
  BY SegmentFacts
<1>2. SeqsOf(k) = a .. b /\ NextSeq(k) = a + m
  BY DEF SeqsOf, NextSeq
<1> HIDE DEF a, m
<1>3. b \in Int /\ a \in Int /\ b - a + 1 = m /\ (a > b => m = 0)
  BY <1>1
<1>4. a .. b \subseteq Nat /\ (m = 0 => a .. b = {})
      /\ \A q \in Int : q \in a .. b <=> a <= q /\ q < a + m
  BY <1>1
<1> HIDE DEF b
<1>5. /\ IsFiniteSet(a .. b)
      /\ Cardinality(a .. b) = IF a > b THEN 0 ELSE b - a + 1
  BY <1>3, FS_Interval
<1>6. Cardinality(a .. b) = m
  BY <1>3, <1>5
<1> QED
  BY <1>1, <1>2, <1>4, <1>5, <1>6 DEF a, m

(* A step without a new segment with messages frames no new number.        *)
LEMMA ElseSeqs ==
  ASSUME Else
  PROVE  FramedSeqs' = FramedSeqs /\ framed \subseteq framed'
<1>1. CASE framed' = framed
  BY <1>1 DEF FramedSeqs
<1>2. CASE \E k \in SegIds : MsgCount(k) = 0 /\ framed' = framed \cup {k}
  <2>1. PICK k \in SegIds : MsgCount(k) = 0 /\ framed' = framed \cup {k}
    BY <1>2
  <2>2. SeqsOf(k) = {}
    BY <2>1, SeqsFacts
  <2> QED
    BY <2>1, <2>2 DEF FramedSeqs
<1> QED
  BY <1>1, <1>2 DEF Else

(* A new segment frames its numbers.                                       *)
LEMMA BeginsSeqs ==
  ASSUME NEW k, Begins(k)
  PROVE  FramedSeqs' = FramedSeqs \cup SeqsOf(k)
BY DEF Begins, FramedSeqs

(* What is framed are numbers.                                             *)
LEMMA FramedFacts ==
  ASSUME Typed
  PROVE  FramedSeqs \subseteq Nat
BY SeqsFacts DEF Typed, FramedSeqs

(* Where nothing of it changes, the rest of the invariant stays.           *)
LEMMA ElseKeeps ==
  ASSUME StageInv, Typed', EveryMessageCounted', Else
  PROVE  StageInv'
<1>1. /\ FramedSeqs' = FramedSeqs /\ framed \subseteq framed'
      /\ UNCHANGED <<expected_seq, pending_flags, pushes>>
      /\ st'.gaps = st.gaps /\ st'.reorders = st.reorders
      /\ st'.gap_msgs = st.gap_msgs
  BY ElseSeqs DEF Else, Losses
<1>2. RealUpdates'
  BY <1>1 DEF StageInv, RealUpdates
<1>3. Fresh'
  BY <1>1 DEF StageInv, Fresh
<1>4. LastArrived' /\ UnflaggedMeansArrived'
  BY <1>1 DEF StageInv, LastArrived, UnflaggedMeansArrived
<1>5. FlagsNeedGaps'
  BY <1>1 DEF StageInv, FlagsNeedGaps
<1>6. AllBehind'
  BY <1>1 DEF StageInv, AllBehind
<1>7. GapCountExact'
  <2> SUFFICES ASSUME st.reorders = 0, expected_seq >= 0
               PROVE  \E first \in {Feed[k].first : k \in framed'} :
                        /\ \A q \in FramedSeqs : first <= q
                        /\ expected_seq - first = Cardinality(FramedSeqs) + st.gap_msgs
    BY <1>1 DEF GapCountExact
  <2>1. PICK first \in {Feed[k].first : k \in framed} :
          /\ \A q \in FramedSeqs : first <= q
          /\ expected_seq - first = Cardinality(FramedSeqs) + st.gap_msgs
    BY DEF StageInv, GapCountExact
  <2>2. first \in {Feed[k].first : k \in framed'}
    BY <1>1
  <2> QED
    BY <2>1, <2>2
<1> QED
  BY <1>2, <1>3, <1>4, <1>5, <1>6, <1>7 DEF StageInv

(* A segment begins.                                                       *)
LEMMA BeginsKeeps ==
  ASSUME StageInv, Typed', EveryMessageCounted', NEW k \in SegIds, Begins(k)
  PROVE  StageInv'
<1>1. /\ FramedSeqs' = FramedSeqs \cup SeqsOf(k)
      /\ framed' = framed \cup {k}
      /\ MsgCount(k) > 0
      /\ expected_seq' = NextSeq(k) /\ pushes' = pushes
      /\ pending_flags' = (pending_flags \/ IsGap(k))
      /\ st'.gaps = IF IsGap(k) THEN st.gaps + 1 ELSE st.gaps
      /\ st'.reorders = IF IsReorder(k) THEN st.reorders + 1 ELSE st.reorders
      /\ st'.gap_msgs = IF IsGap(k) THEN st.gap_msgs + Feed[k].first - expected_seq
                        ELSE st.gap_msgs
  BY BeginsSeqs DEF Begins, Pending
<1> DEFINE a == Feed[k].first
           m == MsgCount(k)
           E == expected_seq
<1>2. /\ a \in Nat /\ m \in Nat /\ m > 0 /\ NextSeq(k) = a + m
      /\ E \in Nat \cup {-1}
      /\ IsGap(k) <=> E >= 0 /\ a > E
      /\ IsReorder(k) <=> E >= 0 /\ a < E
      /\ st.gaps \in Nat /\ st.reorders \in Nat /\ st.gap_msgs \in Nat
      /\ pending_flags \in BOOLEAN
  BY <1>1, SegmentFacts DEF NextSeq, StageInv, Typed, IsGap, IsReorder, Counters
<1>3. /\ \A q \in Int : q \in SeqsOf(k) <=> a <= q /\ q < a + m
      /\ SeqsOf(k) \subseteq Nat
      /\ IsFiniteSet(SeqsOf(k)) /\ Cardinality(SeqsOf(k)) = m
  BY <1>2, SeqsFacts
<1>4. FramedSeqs \subseteq Nat
  BY FramedFacts DEF StageInv
<1>5. RealUpdates'
  BY <1>1 DEF StageInv, RealUpdates
<1>6. Fresh'
  BY <1>1, <1>2 DEF Fresh
<1>7. UnflaggedMeansArrived'
  BY <1>1 DEF StageInv, UnflaggedMeansArrived
<1>8. LastArrived'
  <2> SUFFICES ASSUME pushes' # <<>>, ~pending_flags',
                      NEW q \in pushes'[Len(pushes')].seq + 1 .. expected_seq' - 1
               PROVE  q \in FramedSeqs'
    BY DEF LastArrived
  <2>0. /\ pushes # <<>> /\ ~pending_flags /\ ~IsGap(k)
        /\ q \in pushes[Len(pushes)].seq + 1 .. a + m - 1
    <3>1. expected_seq' = a + m /\ pushes' = pushes
      BY <1>1, <1>2
    <3>2. ~pending_flags /\ ~IsGap(k)
      BY <1>1, Zenon
    <3>3. pushes # <<>>
      BY <3>1
    <3>4. pushes'[Len(pushes')].seq + 1 .. expected_seq' - 1
            = pushes[Len(pushes)].seq + 1 .. a + m - 1
      BY <1>2, <3>1
    <3> QED
      BY <3>2, <3>3, <3>4
  <2> DEFINE z == pushes[Len(pushes)].seq
  <2>1. z \in Nat
    <3>1. pushes \in Seq(Slots) /\ Len(pushes) \in 1 .. Len(pushes)
      BY <2>0 DEF StageInv, Typed
    <3>2. pushes[Len(pushes)] \in Slots
      BY <3>1
    <3> QED
      BY <3>2 DEF Slots
  <2>2. E # -1
    BY <2>0 DEF StageInv, Fresh
  <2>3. E \in Nat /\ a <= E
    BY <1>2, <2>0, <2>2
  <2> HIDE DEF z
  <2>4. q \in z + 1 .. a + m - 1
    BY <2>0 DEF z
  <2>5. q \in Int /\ z + 1 <= q /\ q <= a + m - 1
    BY <1>2, <2>1, <2>4
  <2>6. CASE q < E
    <3>1. q \in z + 1 .. E - 1
      BY <2>1, <2>3, <2>5, <2>6
    <3>2. \A r \in z + 1 .. E - 1 : r \in FramedSeqs
      BY <2>0 DEF z, StageInv, LastArrived
    <3> QED
      BY <1>1, <3>1, <3>2
  <2>7. CASE q >= E
    <3>0. a \in Int /\ m \in Int
      BY <1>2
    <3>1. a <= q /\ q < a + m
      <4> HIDE DEF a, m, E
      <4> QED
        BY <2>3, <2>5, <2>7, <3>0
    <3>2. q \in SeqsOf(k)
      BY <1>3, <2>5, <3>1
    <3> QED
      BY <1>1, <3>2
  <2> QED
    BY <2>3, <2>5, <2>6, <2>7
<1>9. FlagsNeedGaps'
  <2> DEFINE c == Cardinality({n \in 1 .. Len(pushes) : pushes[n].after_gap})
  <2>1. c + (IF pending_flags THEN 1 ELSE 0) <= st.gaps
    BY DEF StageInv, FlagsNeedGaps
  <2>2. c \in Nat
    <3>1. IsFiniteSet({n \in 1 .. Len(pushes) : pushes[n].after_gap})
      <4>1. Len(pushes) \in Int
        BY DEF StageInv, Typed
      <4>2. IsFiniteSet(1 .. Len(pushes))
        BY <4>1, FS_Interval
      <4> QED
        BY <4>2, FS_Subset
    <3> QED
      BY <3>1, FS_CardinalityType
  <2>3. c = Cardinality({n \in 1 .. Len(pushes) : pushes[n].after_gap})'
    BY <1>1
  <2> HIDE DEF c
  <2>4. c + (IF pending_flags' THEN 1 ELSE 0) <= st'.gaps
    BY <1>1, <1>2, <2>1, <2>2
  <2> QED
    BY <2>3, <2>4 DEF FlagsNeedGaps
<1>10. IsFiniteSet(FramedSeqs')
  BY <1>1, <1>3, FS_Union DEF StageInv, AllBehind
<1>11. ASSUME st'.reorders = 0
       PROVE  /\ st.reorders = 0 /\ (E >= 0 => a >= E)
              /\ \A q \in FramedSeqs : E >= 0 /\ q < E /\ q < a
  <2>1. st.reorders = 0 /\ (E >= 0 => a >= E)
    BY <1>1, <1>2, <1>11
  <2>2. ASSUME NEW q \in FramedSeqs
        PROVE  E >= 0 /\ q < E /\ q < a
    <3>1. E # -1
      BY <2>2 DEF StageInv, Fresh
    <3>2. q < E /\ q \in Nat
      BY <2>1, <2>2, <1>4 DEF StageInv, AllBehind
    <3> QED
      BY <1>2, <2>1, <3>1, <3>2
  <2> QED
    BY <2>1, <2>2
<1>12. AllBehind'
  <2> SUFFICES ASSUME st'.reorders = 0, NEW q \in FramedSeqs'
               PROVE  q < expected_seq'
    BY <1>10 DEF AllBehind
  <2>1. CASE q \in FramedSeqs
    <3>1. q < a /\ q \in Nat
      BY <1>4, <1>11, <2>1
    <3> QED
      BY <1>1, <1>2, <3>1
  <2>2. CASE q \in SeqsOf(k)
    BY <1>1, <1>2, <1>3, <2>2
  <2> QED
    BY <1>1, <2>1, <2>2
<1>13. GapCountExact'
  <2> SUFFICES ASSUME st'.reorders = 0
               PROVE  \E first \in {Feed[j].first : j \in framed'} :
                        /\ \A q \in FramedSeqs' : first <= q
                        /\ expected_seq' - first
                             = Cardinality(FramedSeqs') + st'.gap_msgs
    BY DEF GapCountExact
  <2>0. expected_seq' = a + m
    BY <1>1, <1>2
  <2>1. a \in {Feed[j].first : j \in framed'}
    BY <1>1
  <2>2. CASE E = -1
    <3>1. FramedSeqs = {} /\ st.gap_msgs = 0
      BY <2>2 DEF StageInv, Fresh
    <3>2. FramedSeqs' = SeqsOf(k) /\ st'.gap_msgs = 0
      BY <1>1, <1>2, <2>2, <3>1
    <3>3. \A q \in FramedSeqs' : a <= q
      BY <1>3, <3>2
    <3>4. expected_seq' - a = Cardinality(FramedSeqs') + st'.gap_msgs
      BY <1>2, <1>3, <2>0, <3>2
    <3> QED
      BY <2>1, <3>3, <3>4
  <2>3. CASE E >= 0
    <3>1. PICK first \in {Feed[j].first : j \in framed} :
            /\ \A q \in FramedSeqs : first <= q
            /\ E - first = Cardinality(FramedSeqs) + st.gap_msgs
      BY <1>11, <2>3 DEF StageInv, GapCountExact
    <3>2. first \in {Feed[j].first : j \in framed'} /\ first \in Nat
      BY <1>1, SegmentFacts DEF StageInv, Typed
    <3>3. IsFiniteSet(FramedSeqs) /\ Cardinality(FramedSeqs) \in Nat
      BY FS_CardinalityType DEF StageInv, AllBehind
    <3>4. FramedSeqs \cap SeqsOf(k) = {}
      BY <1>2, <1>3, <1>4, <1>11
    <3>5. Cardinality(FramedSeqs') = Cardinality(FramedSeqs) + m
      <4>1. Cardinality(FramedSeqs \cup SeqsOf(k))
              = Cardinality(FramedSeqs) + Cardinality(SeqsOf(k))
                - Cardinality(FramedSeqs \cap SeqsOf(k))
        BY <1>3, <3>3, FS_Union
      <4>2. Cardinality(FramedSeqs \cap SeqsOf(k)) = 0
        BY <3>4, FS_EmptySet
      <4> DEFINE x == Cardinality(FramedSeqs)
                 y == Cardinality(FramedSeqs \cup SeqsOf(k))
      <4>3. y = x + m - 0 /\ x \in Nat
        BY <1>3, <3>3, <4>1, <4>2
      <4> HIDE DEF x, y
      <4>4. y = x + m
        BY <1>2, <4>3
      <4> QED
        BY <1>1, <4>4 DEF x, y
    <3>6. first <= a
      <4>1. E - first >= 0
        BY <1>2, <3>1, <3>3
      <4> QED
        BY <1>2, <1>11, <2>3, <3>2, <4>1
    <3>7. \A q \in FramedSeqs' : first <= q
      <4> SUFFICES ASSUME NEW q \in SeqsOf(k)
                   PROVE  first <= q
        BY <1>1, <3>1
      <4>1. q \in Int /\ a <= q
        BY <1>3
      <4> QED
        BY <1>2, <3>2, <3>6, <4>1
    <3>8. st'.gap_msgs = st.gap_msgs + a - E
      <4>1. CASE a = E
        BY <1>1, <1>2, <2>3, <4>1
      <4>2. CASE a > E
        BY <1>1, <1>2, <2>3, <4>2
      <4> QED
        BY <1>2, <1>11, <2>3, <4>1, <4>2
    <3>9. expected_seq' - first = Cardinality(FramedSeqs') + st'.gap_msgs
      BY <1>2, <2>0, <2>3, <3>1, <3>2, <3>3, <3>5, <3>8
    <3> QED
      BY <3>2, <3>7, <3>9
  <2> QED
    BY <1>2, <2>2, <2>3
<1> QED
  BY <1>5, <1>6, <1>7, <1>8, <1>9, <1>12, <1>13 DEF StageInv

(* An update is pushed.                                                    *)
LEMMA PutsKeeps ==
  ASSUME StageInv, Typed', EveryMessageCounted', NEW k, NEW j, Puts(k, j)
  PROVE  StageInv'
<1> DEFINE e == [seq |-> Feed[k].first + j, after_gap |-> pending_flags]
           N == Len(pushes)
           s == Feed[k].first + j
<1>1. /\ k \in framed /\ k \in SegIds /\ j \in 0 .. MsgCount(k) - 1
      /\ Feed[k].blocks[j + 1] = "plu"
      /\ expected_seq = NextSeq(k)
      /\ pushes' = Append(pushes, e)
      /\ pending_flags' = FALSE
      /\ expected_seq' = expected_seq /\ framed' = framed
      /\ st'.gaps = st.gaps /\ st'.reorders = st.reorders
      /\ st'.gap_msgs = st.gap_msgs
      /\ pending_flags \in BOOLEAN
  BY DEF Puts, Losses, StageInv, Typed
<1>2. /\ Feed[k].first \in Nat /\ MsgCount(k) \in Nat /\ j \in Int
      /\ 0 <= j /\ j < MsgCount(k)
  BY <1>1, SegmentFacts
<1>0. /\ \A q \in Int : q \in SeqsOf(k) <=> Feed[k].first <= q /\ q < NextSeq(k)
      /\ NextSeq(k) = Feed[k].first + MsgCount(k) /\ NextSeq(k) \in Nat
  BY <1>1, SeqsFacts
<1>3. /\ s \in Nat /\ s \in SeqsOf(k)
      /\ s - Feed[k].first + 1 = j + 1
      /\ NextSeq(k) \in Nat
      /\ Feed[k].first <= s /\ s < NextSeq(k)
  <2>1. s \in Nat /\ s - Feed[k].first + 1 = j + 1
        /\ Feed[k].first <= s /\ s < NextSeq(k)
    BY <1>0, <1>2
  <2> HIDE DEF s
  <2> QED
    BY <1>0, <2>1
<1>4. pushes \in Seq(Slots) /\ N \in Nat
  BY DEF StageInv, Typed
<1>5. e.seq = s /\ e.after_gap = pending_flags
  OBVIOUS
<1> HIDE DEF e, s
<1>6. /\ Len(pushes') = N + 1
      /\ pushes'[N + 1] = e
      /\ \A n \in 1 .. N : pushes'[n] = pushes[n]
  BY <1>1, <1>4
<1>7. FramedSeqs' = FramedSeqs /\ SeqsOf(k) \subseteq FramedSeqs
  BY <1>1 DEF FramedSeqs
<1>8. 1 .. N + 1 = (1 .. N) \cup {N + 1}
  BY <1>4
<1>9. RealUpdates'
  <2> SUFFICES ASSUME NEW n \in 1 .. N + 1
               PROVE  \E l \in framed :
                        /\ pushes'[n].seq \in SeqsOf(l)
                        /\ Feed[l].blocks[pushes'[n].seq - Feed[l].first + 1] = "plu"
    BY <1>1, <1>6 DEF RealUpdates
  <2>1. CASE n = N + 1
    BY <1>1, <1>3, <1>5, <1>6, <2>1
  <2>2. CASE n \in 1 .. N
    BY <1>6, <2>2 DEF StageInv, RealUpdates
  <2> QED
    BY <1>8, <2>1, <2>2
<1>10. Fresh'
  BY <1>1, <1>3 DEF Fresh
<1>11. AllBehind'
  BY <1>1, <1>7 DEF StageInv, AllBehind
<1>12. GapCountExact'
  BY <1>1, <1>7 DEF StageInv, GapCountExact
<1>13. LastArrived'
  <2> SUFFICES ASSUME NEW q \in s + 1 .. NextSeq(k) - 1
               PROVE  q \in FramedSeqs
    BY <1>1, <1>5, <1>6, <1>7 DEF LastArrived
  <2>1. q \in Int /\ s + 1 <= q /\ q <= NextSeq(k) - 1
    BY <1>3
  <2>2. Feed[k].first <= q /\ q < NextSeq(k)
    BY <1>2, <1>3, <2>1
  <2>3. q \in SeqsOf(k)
    BY <1>0, <2>1, <2>2
  <2> QED
    BY <1>7, <2>3
<1>14. UnflaggedMeansArrived'
  <2> SUFFICES ASSUME NEW n \in 1 .. N, ~pushes'[n + 1].after_gap,
                      NEW q \in pushes'[n].seq + 1 .. pushes'[n + 1].seq - 1
               PROVE  q \in FramedSeqs
    <3>1. 1 .. Len(pushes') - 1 = 1 .. N
      BY <1>4, <1>6
    <3> QED
      BY <1>7, <3>1 DEF UnflaggedMeansArrived
  <2>1. CASE n = N
    <3>1. /\ N >= 1 /\ pushes # <<>>
          /\ pushes[N] \in Slots
      BY <1>4, <2>1
    <3>2. ~pending_flags /\ q \in pushes[N].seq + 1 .. s - 1
      BY <1>5, <1>6, <2>1
    <3>3. pushes[N].seq \in Nat
      BY <3>1 DEF Slots
    <3>4. s < NextSeq(k)
      BY <1>3
    <3>5. q \in pushes[N].seq + 1 .. expected_seq - 1
      BY <1>1, <1>3, <3>2, <3>3, <3>4
    <3> QED
      BY <3>1, <3>2, <3>5 DEF StageInv, LastArrived
  <2>2. CASE n # N
    <3>1. n \in 1 .. N - 1 /\ n + 1 \in 1 .. N
      BY <1>4, <2>2
    <3>2. pushes'[n] = pushes[n] /\ pushes'[n + 1] = pushes[n + 1]
      BY <1>6, <3>1
    <3> QED
      BY <3>1, <3>2 DEF StageInv, UnflaggedMeansArrived
  <2> QED
    BY <2>1, <2>2
<1>15. FlagsNeedGaps'
  <2> DEFINE A == {n \in 1 .. N : pushes[n].after_gap}
             B == {n \in 1 .. N + 1 : pushes'[n].after_gap}
  <2>1. /\ Cardinality(A) + (IF pending_flags THEN 1 ELSE 0) <= st.gaps
        /\ st.gaps \in Nat
    BY DEF StageInv, FlagsNeedGaps, Typed, Counters
  <2>2. IsFiniteSet(A) /\ Cardinality(A) \in Nat /\ N + 1 \notin A
    <3>1. IsFiniteSet(1 .. N)
      BY <1>4, FS_Interval
    <3>2. IsFiniteSet(A)
      BY <3>1, FS_Subset
    <3>3. N + 1 \notin A
      BY <1>4
    <3> HIDE DEF A
    <3> QED
      BY <3>2, <3>3, FS_CardinalityType
  <2>3. B = IF pending_flags THEN A \cup {N + 1} ELSE A
    <3>1. \A n \in 1 .. N : n \in B <=> n \in A
      BY <1>6, <1>8
    <3>2. N + 1 \in B <=> pending_flags
      BY <1>5, <1>6, <1>8
    <3>3. B \subseteq (1 .. N) \cup {N + 1} /\ A \subseteq 1 .. N
      BY <1>8
    <3>4. N + 1 \notin A
      BY <1>4
    <3> HIDE DEF A, B
    <3>5. CASE pending_flags
      BY <3>1, <3>2, <3>3, <3>5
    <3>6. CASE ~pending_flags
      <4>1. N + 1 \notin B
        BY <3>2, <3>6
      <4>2. B \subseteq A
        BY <3>1, <3>3, <4>1
      <4>3. A \subseteq B
        BY <3>1, <3>3
      <4> QED
        BY <3>6, <4>2, <4>3
    <3> QED
      BY <3>5, <3>6
  <2> HIDE DEF A
  <2>4. Cardinality(B) = Cardinality(A) + (IF pending_flags THEN 1 ELSE 0)
    <3> HIDE DEF B
    <3>1. Cardinality(A \cup {N + 1}) = Cardinality(A) + 1
      BY <2>2, FS_AddElement
    <3> QED
      BY <2>2, <2>3, <3>1
  <2>5. {n \in 1 .. Len(pushes) : pushes[n].after_gap}' = B
    BY <1>6
  <2> HIDE DEF B
  <2>6. Cardinality(B) \in Nat /\ Cardinality(B) <= st'.gaps
    BY <1>1, <2>1, <2>2, <2>4
  <2>7. Cardinality({n \in 1 .. Len(pushes) : pushes[n].after_gap})'
          + (IF pending_flags' THEN 1 ELSE 0) <= st'.gaps
    <3>1. (IF pending_flags' THEN 1 ELSE 0) = 0
      BY <1>1
    <3>2. Cardinality(B) + 0 <= st'.gaps
      BY <2>6
    <3> QED
      BY <2>5, <3>1, <3>2
  <2> QED
    BY <2>7 DEF FlagsNeedGaps
<1> QED
  BY <1>9, <1>10, <1>11, <1>12, <1>13, <1>14, <1>15 DEF StageInv

(* The invariant is inductive, whatever the network is.                    *)
LEMMA StageInvInit ==
  Init => StageInv
<1> SUFFICES ASSUME Init PROVE StageInv
  OBVIOUS
<1>1. Typed /\ EveryMessageCounted
  BY StageInit
<1>2. pushes = <<>> /\ Len(pushes) = 0 /\ expected_seq = -1 /\ framed = {}
      /\ pending_flags = FALSE /\ st.gap_msgs = 0 /\ st.gaps = 0
  BY DEF Init
<1>3. FramedSeqs = {}
  BY <1>2 DEF FramedSeqs
<1>4. RealUpdates /\ UnflaggedMeansArrived
  <2>1. 1 .. Len(pushes) = {} /\ 1 .. Len(pushes) - 1 = {}
    BY <1>2
  <2> QED
    BY <2>1 DEF RealUpdates, UnflaggedMeansArrived
<1>5. Fresh /\ LastArrived
  BY <1>2, <1>3 DEF Fresh, LastArrived
<1>6. AllBehind
  BY <1>3, FS_EmptySet DEF AllBehind
<1>7. GapCountExact
  BY <1>2 DEF GapCountExact
<1>8. FlagsNeedGaps
  <2>1. {n \in 1 .. Len(pushes) : pushes[n].after_gap} = {}
    BY <1>2
  <2>2. Cardinality({n \in 1 .. Len(pushes) : pushes[n].after_gap}) = 0
    BY <2>1, FS_EmptySet
  <2> QED
    BY <1>2, <2>2 DEF FlagsNeedGaps
<1> QED
  BY <1>1, <1>4, <1>5, <1>6, <1>7, <1>8 DEF StageInv

(* A step of the stage, with any datagram that could arrive, keeps the     *)
(* invariant.                                                              *)
LEMMA StageInvStep ==
  StageInv /\ [StageNext]_vars => StageInv'
<1> SUFFICES ASSUME StageInv, [StageNext]_vars PROVE StageInv'
  OBVIOUS
<1>1. Typed' /\ EveryMessageCounted' /\ StepKinds
  BY StageStep DEF StageInv
<1> QED
  BY <1>1, BeginsKeeps, PutsKeeps, ElseKeeps DEF StepKinds

(* What the runs check follows.                                            *)
LEMMA StageInvShows ==
  ASSUME StageInv
  PROVE  /\ OnlyUpdates /\ EveryMessageCounted /\ UnflaggedMeansArrived
         /\ FlagsNeedGaps /\ GapCountExact
<1>1. OnlyUpdates
  <2> SUFFICES ASSUME NEW n \in 1 .. Len(pushes)
               PROVE  /\ pushes[n].seq \in FramedSeqs
                      /\ KindOf(pushes[n].seq) = "plu"
    BY DEF OnlyUpdates
  <2> DEFINE q == pushes[n].seq
  <2>1. PICK k \in framed : /\ q \in SeqsOf(k)
                            /\ Feed[k].blocks[q - Feed[k].first + 1] = "plu"
    BY DEF StageInv, RealUpdates
  <2>2. k \in SegIds /\ q \in FramedSeqs
    BY <2>1 DEF StageInv, Typed, FramedSeqs
  <2> HIDE DEF q
  <2>3. (CHOOSE l \in SegIds : q \in SeqsOf(l)) = k
    BY <2>1, <2>2, OneSegment
  <2>4. KindOf(q) = "plu"
    BY <2>1, <2>3 DEF KindOf
  <2> QED
    BY <2>2, <2>4 DEF q
<1> QED
  BY <1>1 DEF StageInv

(* A step of RxFramer is one.                                              *)
LEMMA NextIsStage ==
  [Next]_vars => [StageNext]_vars
BY AnythingIsFramed DEF Next, Receive, StageNext

(***************************************************************************)
(* The inductive invariant of the receive stage.                           *)
(***************************************************************************)
THEOREM StageInvariant == Spec => []StageInv
BY StageInvInit, StageInvStep, NextIsStage, PTL DEF Spec

(* Types, including that what is taken apart is something the network can  *)
(* leave of a segment.                                                     *)
THEOREM StageTyped == Spec => []TypeOK
<1> DEFINE C == cur \in Anything
<1>1. Init => C
  BY DEF Init, Anything, NoSegment
<1>2. C /\ [Next]_vars => C'
  <2> SUFFICES ASSUME C, [Next]_vars PROVE C'
    OBVIOUS
  <2>1. CASE Receive
    <3>1. PICK d \in Anything : Deliver(d)
      BY <2>1 DEF Receive
    <3>2. cur' = cur \/ cur' = d
      BY <3>1 DEF Deliver, NonDeep, Heartbeat, Segment
    <3> QED
      BY <3>1, <3>2
  <2>2. CASE TakeApart \/ Timeout \/ Pop \/ UNCHANGED vars
    <3>1. cur' = cur \/ cur' = NoSegment
      BY <2>2 DEF TakeApart, Filter, Push, DropFull, EndSegment, Timeout, Pop,
                  vars, framer
    <3> QED
      BY <3>1 DEF Anything, NoSegment
  <2> QED
    BY <2>1, <2>2 DEF Next
<1>3. StageInv /\ C => TypeOK
  <2> SUFFICES ASSUME StageInv, C PROVE TypeOK
    OBVIOUS
  <2>1. DOMAIN st = Counters /\ st \in [Counters -> Nat]
    BY DEF StageInv, Typed
  <2>3. 0 <= seen
    BY DEF StageInv, Typed
  <2>4. Slots = [seq : Nat, after_gap : BOOLEAN]
    BY DEF Slots
  <2> QED
    BY <2>1, <2>3, <2>4 DEF StageInv, Typed, TypeOK
<1>4. Spec => []StageInv
  BY StageInvariant
<1> QED
  BY <1>1, <1>2, <1>3, <1>4, PTL DEF Spec

(* What is pushed is a price level update under the exchange's own number, *)
(* never an administrative or short block: the filter and the number of a  *)
(* slot agree on which block of the segment they speak of.                 *)
THEOREM StageOnlyUpdates == Spec => []OnlyUpdates
<1>1. StageInv => OnlyUpdates
  BY StageInvShows
<1> QED
  BY <1>1, StageInvariant, PTL

(* Every message of a segment is filtered, pushed or counted as dropped,   *)
(* exactly once, at any point of the block loop, whatever is cut off the   *)
(* datagram and however full the ring is.                                  *)
THEOREM StageCounts == Spec => []EveryMessageCounted
<1>1. StageInv => EveryMessageCounted
  BY StageInvShows
<1> QED
  BY <1>1, StageInvariant, PTL

(* No loss of the network goes unmarked (rx_stage.c, pending_flags): when  *)
(* the later of two neighbouring pushes carries no gap mark, every message *)
(* numbered between them was in a segment that arrived. A mark pending     *)
(* through a segment that pushes nothing, or through a full ring, is not   *)
(* forgotten.                                                              *)
THEOREM StageMarksLosses == Spec => []UnflaggedMeansArrived
<1>1. StageInv => UnflaggedMeansArrived
  BY StageInvShows
<1> QED
  BY <1>1, StageInvariant, PTL

(* No mark without a gap: the marks in what was pushed, with the one still *)
(* pending, are never more than the gaps counted, so one loss is not       *)
(* reported downstream twice.                                              *)
THEOREM StageMarksGaps == Spec => []FlagsNeedGaps
<1>1. StageInv => FlagsNeedGaps
  BY StageInvShows
<1> QED
  BY <1>1, StageInvariant, PTL

(* While no segment came late, gap_msgs is exact: from the first number    *)
(* taken to the one expected next, every message either was in a segment   *)
(* taken or is counted in gap_msgs.                                        *)
THEOREM StageGapsExact == Spec => []GapCountExact
<1>1. StageInv => GapCountExact
  BY StageInvShows
<1> QED
  BY <1>1, StageInvariant, PTL

-----------------------------------------------------------------------------
(* The receive stage beside the reference server.                          *)

SrvCounters == {"datagrams", "heartbeats", "messages", "plu_cnt", "gaps",
                "gap_msgs", "reorders"}

IsPlu(k, j) == Feed[k].blocks[j] = "plu"

(* The updates of the current segment that are still to come.              *)
Remaining == {j \in i + 1 .. cur.intact : IsPlu(cur.seg, j)}

(* The server is ahead by what the stage has yet to take out of the        *)
(* current segment.                                                        *)
Paired ==
    /\ expected_seq = srvSeq
    /\ srvSt \in [SrvCounters -> Nat]
    /\ \A c \in SrvCounters \ {"messages", "plu_cnt"} : st[c] = srvSt[c]
    /\ srvSt.messages = st.messages + (cur.intact - i)
    /\ srvSt.plu_cnt = st.pushed + st.dropped_full + Cardinality(Remaining)

(* While nothing is reported, what was taken ends with the segment before  *)
(* the number expected, and has no holes.                                  *)
Unbroken(m) ==
    /\ taken[m] = 1 /\ srvSeq = NextSeq(m)
    /\ \A k \in WithMessages : taken[k] > 0 => k <= m
    /\ \A k, l \in WithMessages : (taken[l] > 0 /\ l <= k /\ k <= m) => taken[k] = 1

Taken ==
    /\ srvSt \in [SrvCounters -> Nat]
    /\ taken \in [SegIds -> Nat]
    /\ srvSeq \in Nat \cup {-1}
    /\ srvSeq = -1 => \A k \in WithMessages : taken[k] = 0
    /\ (Server!Quiet /\ srvSeq # -1) => \E m \in WithMessages : Unbroken(m)

(* Blocks can be counted.                                                  *)
LEMMA RemainingFinite ==
  ASSUME NEW a \in Int, NEW b \in Int, NEW k
  PROVE  LET R == {j \in a .. b : IsPlu(k, j)}
         IN  IsFiniteSet(R) /\ Cardinality(R) \in Nat
<1> DEFINE R == {j \in a .. b : IsPlu(k, j)}
<1>1. IsFiniteSet(a .. b)
  BY FS_Interval
<1>2. IsFiniteSet(R)
  BY <1>1, FS_Subset
<1> HIDE DEF R
<1>3. Cardinality(R) \in Nat
  BY <1>2, FS_CardinalityType
<1> QED
  BY <1>2, <1>3 DEF R

(* The first block is counted or not.                                      *)
LEMMA RemainingStep ==
  ASSUME NEW a \in Int, NEW b \in Int, a <= b, NEW k
  PROVE  Cardinality({j \in a .. b : IsPlu(k, j)})
           = Cardinality({j \in a + 1 .. b : IsPlu(k, j)})
             + (IF IsPlu(k, a) THEN 1 ELSE 0)
<1> DEFINE R == {j \in a .. b : IsPlu(k, j)}
           T == {j \in a + 1 .. b : IsPlu(k, j)}
<1>1. a \notin T /\ IsFiniteSet(T) /\ Cardinality(T) \in Nat
  <2>1. a + 1 \in Int /\ a \notin a + 1 .. b
    OBVIOUS
  <2> QED
    BY <2>1, RemainingFinite
<1>2. R = IF IsPlu(k, a) THEN T \cup {a} ELSE T
  <2>1. a .. b = (a + 1 .. b) \cup {a}
    OBVIOUS
  <2> QED
    BY <2>1
<1> HIDE DEF R, T
<1>3. Cardinality(T \cup {a}) = Cardinality(T) + 1
  BY <1>1, FS_AddElement
<1>4. Cardinality(R) = Cardinality(T) + (IF IsPlu(k, a) THEN 1 ELSE 0)
  BY <1>1, <1>2, <1>3
<1> QED
  BY <1>4 DEF R, T

(* Nothing remains between segments.                                       *)
LEMMA NothingRemains ==
  ASSUME NEW c, NEW n \in Nat, c.intact = n
  PROVE  Cardinality({j \in n + 1 .. c.intact : IsPlu(c.seg, j)}) = 0
<1>1. {j \in n + 1 .. c.intact : IsPlu(c.seg, j)} = {}
  <2>1. n + 1 .. n = {}
    OBVIOUS
  <2> QED
    BY <2>1
<1> QED
  BY <1>1, FS_EmptySet

(* The server counts as the stage does.                                    *)
LEMMA SameCardinality ==
  ASSUME NEW S
  PROVE  Server!Cardinality(S) = Cardinality(S)
BY DEF Server!Cardinality, Cardinality, Server!IsFiniteSet, IsFiniteSet

(* What the server does with a segment's datagram, or a heartbeat's.       *)
ServerTakes(k) ==
    /\ k \in SegIds
    /\ taken' = [taken EXCEPT ![k] = @ + 1]
    /\ IF MsgCount(k) = 0
       THEN /\ srvSeq' = srvSeq
            /\ srvSt'.gaps = srvSt.gaps /\ srvSt'.reorders = srvSt.reorders
       ELSE /\ srvSeq' = NextSeq(k)
            /\ srvSt'.gaps = IF srvSeq >= 0 /\ Feed[k].first > srvSeq
                             THEN srvSt.gaps + 1 ELSE srvSt.gaps
            /\ srvSt'.reorders = IF srvSeq >= 0 /\ Feed[k].first < srvSeq
                                 THEN srvSt.reorders + 1 ELSE srvSt.reorders

(* A heartbeat, at the server.                                             *)
LEMMA ServerHeartbeat ==
  ASSUME srvSt \in [SrvCounters -> Nat], NEW k \in SegIds, Server!Heartbeat(k)
  PROVE  /\ ServerTakes(k)
         /\ srvSt' \in [SrvCounters -> Nat]
         /\ MsgCount(k) = 0 /\ srvSeq' = srvSeq
         /\ srvSt'.datagrams = srvSt.datagrams + 1
         /\ srvSt'.heartbeats = srvSt.heartbeats + 1
         /\ \A c \in {"messages", "plu_cnt", "gaps", "gap_msgs", "reorders"} :
              srvSt'[c] = srvSt[c]
<1>1. /\ srvSt' = [srvSt EXCEPT !.datagrams = @ + 1, !.heartbeats = @ + 1]
      /\ MsgCount(k) = 0 /\ srvSeq' = srvSeq
      /\ taken' = [taken EXCEPT ![k] = @ + 1]
  BY DEF Server!Heartbeat, Server!Accept, Server!MsgCount, MsgCount
<1>2. /\ srvSt' \in [SrvCounters -> Nat]
      /\ srvSt'.datagrams = srvSt.datagrams + 1
      /\ srvSt'.heartbeats = srvSt.heartbeats + 1
      /\ \A c \in {"messages", "plu_cnt", "gaps", "gap_msgs", "reorders"} :
           srvSt'[c] = srvSt[c]
  <2>1. /\ srvSt.datagrams \in Nat /\ srvSt.heartbeats \in Nat
        /\ DOMAIN srvSt = SrvCounters
    BY DEF SrvCounters
  <2>2. /\ DOMAIN srvSt' = SrvCounters /\ srvSt' = [c \in DOMAIN srvSt' |-> srvSt'[c]]
        /\ srvSt'.datagrams = srvSt.datagrams + 1
        /\ srvSt'.heartbeats = srvSt.heartbeats + 1
        /\ srvSt'.messages = srvSt.messages /\ srvSt'.plu_cnt = srvSt.plu_cnt
        /\ srvSt'.gaps = srvSt.gaps /\ srvSt'.gap_msgs = srvSt.gap_msgs
        /\ srvSt'.reorders = srvSt.reorders
    BY <1>1, <2>1 DEF SrvCounters
  <2>3. \A c \in SrvCounters : srvSt'[c] \in Nat
    BY <2>1, <2>2 DEF SrvCounters
  <2> QED
    BY <2>2, <2>3
<1> QED
  BY <1>1, <1>2 DEF ServerTakes

(* A segment, at the server.                                               *)
LEMMA ServerSegment ==
  ASSUME srvSt \in [SrvCounters -> Nat], srvSeq \in Nat \cup {-1},
         NEW k \in SegIds, NEW n \in Nat, Server!Segment(k, n)
  PROVE  LET a == srvSeq >= 0 /\ Feed[k].first > srvSeq
             b == srvSeq >= 0 /\ Feed[k].first < srvSeq
         IN  /\ ServerTakes(k)
             /\ srvSt' \in [SrvCounters -> Nat]
             /\ MsgCount(k) > 0 /\ srvSeq' = NextSeq(k)
             /\ srvSt'.datagrams = srvSt.datagrams + 1
             /\ srvSt'.heartbeats = srvSt.heartbeats
             /\ srvSt'.messages = srvSt.messages + n
             /\ srvSt'.plu_cnt = srvSt.plu_cnt
                                 + Cardinality({j \in 1 .. n : IsPlu(k, j)})
             /\ srvSt'.gaps = IF a THEN srvSt.gaps + 1 ELSE srvSt.gaps
             /\ srvSt'.reorders = IF b THEN srvSt.reorders + 1 ELSE srvSt.reorders
             /\ srvSt'.gap_msgs = IF a THEN srvSt.gap_msgs + Feed[k].first - srvSeq
                                  ELSE srvSt.gap_msgs
<1> DEFINE a == srvSeq >= 0 /\ Feed[k].first > srvSeq
           b == srvSeq >= 0 /\ Feed[k].first < srvSeq
           p == Cardinality({j \in 1 .. n : IsPlu(k, j)})
           h == Server!Ahead(k)
           l == Server!Late(k)
<1>1. Feed[k].first \in Nat /\ MsgCount(k) \in Nat
  BY SegmentFacts
<1>2. /\ h \in Int /\ l \in {0, 1}
      /\ (h > 0 <=> a) /\ (h < 0 <=> b)
      /\ a => h = Feed[k].first - srvSeq
      /\ (l = 1 <=> b)
  BY <1>1 DEF Server!Ahead, Server!Late
<1>3. p \in Nat
  <2>1. 1 \in Int /\ n \in Int
    OBVIOUS
  <2> QED
    BY <2>1, RemainingFinite
<1>4. Server!MsgCount(k) = MsgCount(k) /\ Server!NextSeq(k) = NextSeq(k)
  BY DEF Server!MsgCount, MsgCount, Server!NextSeq, NextSeq
<1>5. /\ srvSt' = [srvSt EXCEPT
                     !.datagrams = @ + 1,
                     !.gaps      = IF h > 0 THEN @ + 1 ELSE @,
                     !.gap_msgs  = IF h > 0 THEN @ + h ELSE @,
                     !.reorders  = @ + l,
                     !.messages  = @ + n,
                     !.plu_cnt   = @ + p]
      /\ MsgCount(k) > 0 /\ srvSeq' = NextSeq(k)
      /\ taken' = [taken EXCEPT ![k] = @ + 1]
  <2>1. p = Server!Cardinality({j \in 1 .. n : Feed[k].blocks[j] = "plu"})
    BY SameCardinality DEF IsPlu
  <2> HIDE DEF p, h, l
  <2>2. /\ srvSt' = [srvSt EXCEPT
                     !.datagrams = @ + 1,
                     !.gaps      = IF Server!Ahead(k) > 0 THEN @ + 1 ELSE @,
                     !.gap_msgs  = IF Server!Ahead(k) > 0 THEN @ + Server!Ahead(k) ELSE @,
                     !.reorders  = @ + Server!Late(k),
                     !.messages  = @ + n,
                     !.plu_cnt   = @ + Server!Cardinality({j \in 1 .. n :
                                           Feed[k].blocks[j] = "plu"})]
        /\ Server!MsgCount(k) > 0 /\ srvSeq' = Server!NextSeq(k)
        /\ taken' = [taken EXCEPT ![k] = @ + 1]
    BY Zenon DEF Server!Segment, Server!Accept
  <2>3. MsgCount(k) > 0 /\ srvSeq' = NextSeq(k)
    BY <1>4, <2>2
  <2> QED
    BY <2>1, <2>2, <2>3, Zenon DEF h, l
<1> HIDE DEF a, b, p, h, l
<1>6. /\ srvSt.datagrams \in Nat /\ srvSt.gaps \in Nat /\ srvSt.gap_msgs \in Nat
      /\ srvSt.reorders \in Nat /\ srvSt.messages \in Nat /\ srvSt.plu_cnt \in Nat
      /\ DOMAIN srvSt = SrvCounters
  BY DEF SrvCounters
<1>7. /\ srvSt'.datagrams = srvSt.datagrams + 1
      /\ srvSt'.heartbeats = srvSt.heartbeats
      /\ srvSt'.messages = srvSt.messages + n
      /\ srvSt'.plu_cnt = srvSt.plu_cnt + p
      /\ srvSt'.gaps = IF h > 0 THEN srvSt.gaps + 1 ELSE srvSt.gaps
      /\ srvSt'.reorders = srvSt.reorders + l
      /\ srvSt'.gap_msgs = IF h > 0 THEN srvSt.gap_msgs + h ELSE srvSt.gap_msgs
      /\ DOMAIN srvSt' = SrvCounters
      /\ srvSt' = [c \in DOMAIN srvSt' |-> srvSt'[c]]
  BY <1>5, <1>6 DEF SrvCounters
<1>8. \A c \in SrvCounters : srvSt'[c] \in Nat
  <2>1. /\ srvSt'.datagrams \in Nat /\ srvSt'.messages \in Nat
        /\ srvSt'.plu_cnt \in Nat /\ srvSt'.gaps \in Nat
        /\ srvSt'.reorders \in Nat /\ srvSt'.gap_msgs \in Nat
    BY <1>2, <1>3, <1>6, <1>7
  <2>2. srvSt'.heartbeats \in Nat
    BY <1>7 DEF SrvCounters
  <2> QED
    BY <2>1, <2>2 DEF SrvCounters
<1>9. srvSt' \in [SrvCounters -> Nat]
  BY <1>7, <1>8
<1>10. /\ srvSt'.gaps = IF a THEN srvSt.gaps + 1 ELSE srvSt.gaps
       /\ srvSt'.reorders = IF b THEN srvSt.reorders + 1 ELSE srvSt.reorders
       /\ srvSt'.gap_msgs = IF a THEN srvSt.gap_msgs + Feed[k].first - srvSeq
                            ELSE srvSt.gap_msgs
  <2>1. srvSt'.gaps = IF a THEN srvSt.gaps + 1 ELSE srvSt.gaps
    BY <1>2, <1>7
  <2>2. srvSt'.reorders = IF b THEN srvSt.reorders + 1 ELSE srvSt.reorders
    BY <1>2, <1>6, <1>7
  <2>3. CASE a
    <3>1. srvSt'.gap_msgs = srvSt.gap_msgs + (Feed[k].first - srvSeq)
      BY <1>2, <1>7, <2>3
    <3>2. srvSeq \in Int
      OBVIOUS
    <3> QED
      BY <1>1, <1>6, <2>1, <2>2, <2>3, <3>1, <3>2
  <2>4. CASE ~a
    BY <1>2, <1>7, <2>1, <2>2, <2>4
  <2> QED
    BY <2>3, <2>4
<1>11. ServerTakes(k)
  BY <1>1, <1>5, <1>10 DEF ServerTakes, a, b
<1> QED
  BY <1>5, <1>7, <1>9, <1>10, <1>11 DEF a, b, p

(* The counters after a step of the stage.                                 *)
LEMMA CountsAfter ==
  ASSUME st \in [Counters -> Nat], NEW fields, st' = Count(st, fields)
  PROVE  \A c \in Counters : /\ st'[c] = IF c \in fields THEN st[c] + 1 ELSE st[c]
                             /\ st[c] \in Nat /\ st'[c] \in Nat
BY CountFacts

(* ... of a segment's beginning.                                           *)
LEMMA SegmentCounts ==
  ASSUME st \in [Counters -> Nat], NEW k \in SegIds, NEW d, Segment(k, d)
  PROVE  /\ st'.datagrams = st.datagrams + 1
         /\ st'.heartbeats = st.heartbeats /\ st'.messages = st.messages
         /\ st'.pushed = st.pushed /\ st'.dropped_full = st.dropped_full
<1> DEFINE fs == {"datagrams"} \cup (IF IsGap(k) THEN {"gaps"} ELSE {})
                               \cup (IF IsReorder(k) THEN {"reorders"} ELSE {})
           s == Count(st, fs)
<1>1. st' = [s EXCEPT !.gap_msgs =
               IF IsGap(k) THEN @ + Feed[k].first - expected_seq ELSE @]
  BY DEF Segment
<1>2. /\ "datagrams" \in fs /\ "heartbeats" \notin fs /\ "messages" \notin fs
      /\ "pushed" \notin fs /\ "dropped_full" \notin fs
  OBVIOUS
<1>3. \A c \in Counters : s[c] = IF c \in fs THEN st[c] + 1 ELSE st[c]
  <2> HIDE DEF fs
  <2> QED
    BY CountFacts
<1>4. DOMAIN s = Counters
  <2> HIDE DEF fs
  <2>1. s \in [Counters -> Nat]
    BY CountFacts
  <2> QED
    BY <2>1
<1> HIDE DEF s, fs
<1>5. \A c \in Counters \ {"gap_msgs"} : st'[c] = s[c]
  BY <1>1, <1>4
<1> QED
  BY <1>2, <1>3, <1>5 DEF Counters

Common == {"datagrams", "heartbeats", "gaps", "gap_msgs", "reorders"}

(* A datagram arrives at both.                                             *)
LEMMA PairedReceive ==
  ASSUME Typed, EveryMessageCounted, Paired,
         NEW d \in Frames, Deliver(d), Server!Deliver(d)
  PROVE  Paired'
<1>0. /\ st \in [Counters -> Nat] /\ srvSt \in [SrvCounters -> Nat]
      /\ srvSeq = expected_seq /\ srvSeq \in Nat \cup {-1}
      /\ \A c \in Common : st[c] = srvSt[c]
      /\ srvSt.messages = st.messages + (cur.intact - i)
      /\ srvSt.plu_cnt = st.pushed + st.dropped_full + Cardinality(Remaining)
  BY DEF Typed, Paired, SrvCounters, Common
<1>1. cur = NoSegment /\ cur.intact = 0 /\ i = 0
  <2>1. cur = NoSegment
    BY DEF Deliver, NonDeep, Heartbeat, Segment, Arrive
  <2> QED
    BY <2>1, FrameFacts DEF Typed
<1>2. Cardinality(Remaining) = 0
  BY <1>1, NothingRemains DEF Remaining
<1>3. /\ st.messages \in Nat /\ st.pushed \in Nat /\ st.dropped_full \in Nat
      /\ srvSt.messages = st.messages
      /\ srvSt.plu_cnt = st.pushed + st.dropped_full
  <2>1. st.messages \in Nat /\ st.pushed \in Nat /\ st.dropped_full \in Nat
    BY <1>0 DEF Counters
  <2> QED
    BY <1>0, <1>1, <1>2, <2>1
<1>4. CASE d.seg = 0
  <2>1. NonDeep /\ UNCHANGED <<srvSeq, srvSt>>
    BY <1>4 DEF Deliver, Server!Deliver, Server!Ignore, Server!vars
  <2>2. /\ st' = Count(st, {"non_deep"})
        /\ UNCHANGED <<expected_seq, cur, i>>
    BY <2>1 DEF NonDeep
  <2>3. \A c \in Counters : c # "non_deep" => st'[c] = st[c]
    BY <1>0, <2>2, CountsAfter
  <2>4. /\ \A c \in Common : st'[c] = st[c]
        /\ st'.messages = st.messages
        /\ st'.pushed = st.pushed /\ st'.dropped_full = st.dropped_full
    BY <2>3 DEF Counters, Common
  <2>5. Remaining' = Remaining
    BY <2>2 DEF Remaining, IsPlu
  <2> QED
    BY <1>0, <2>1, <2>2, <2>4, <2>5 DEF Paired, SrvCounters, Common
<1>5. CASE d.seg # 0
  <2> DEFINE k == d.seg
  <2>1. /\ k \in SegIds /\ d.intact \in Nat
        /\ Heartbeat(k) \/ Segment(k, d)
        /\ Server!Heartbeat(k) \/ Server!Segment(k, d.intact)
    BY <1>5, FrameFacts DEF Deliver, Server!Deliver
  <2>2. CASE Heartbeat(k)
    <3>1. /\ MsgCount(k) = 0 /\ st' = Count(st, {"datagrams", "heartbeats"})
          /\ UNCHANGED <<expected_seq, cur, i>>
      BY <2>2 DEF Heartbeat
    <3>2. Server!Heartbeat(k)
      <4>1. Server!Segment(k, d.intact) => MsgCount(k) > 0
        BY DEF Server!Segment, Server!MsgCount, MsgCount
      <4> QED
        BY <2>1, <3>1, <4>1
    <3>3. /\ srvSt' \in [SrvCounters -> Nat] /\ srvSeq' = srvSeq
          /\ srvSt'.datagrams = srvSt.datagrams + 1
          /\ srvSt'.heartbeats = srvSt.heartbeats + 1
          /\ \A c \in {"messages", "plu_cnt", "gaps", "gap_msgs", "reorders"} :
               srvSt'[c] = srvSt[c]
      BY <1>0, <2>1, <3>2, ServerHeartbeat
    <3>4. \A c \in Counters :
            st'[c] = IF c \in {"datagrams", "heartbeats"} THEN st[c] + 1 ELSE st[c]
      BY <1>0, <3>1, CountsAfter
    <3>5. \A c \in Common : st'[c] = srvSt'[c]
      BY <1>0, <3>3, <3>4 DEF Common, Counters
    <3>6. /\ st'.messages = st.messages
          /\ st'.pushed = st.pushed /\ st'.dropped_full = st.dropped_full
      BY <3>4 DEF Counters
    <3>7. Remaining' = Remaining
      BY <3>1 DEF Remaining, IsPlu
    <3> QED
      BY <1>0, <3>1, <3>3, <3>5, <3>6, <3>7 DEF Paired, SrvCounters, Common
  <2>3. CASE Segment(k, d)
    <3>1. /\ MsgCount(k) > 0 /\ expected_seq' = NextSeq(k)
          /\ cur' = d /\ i' = 0
      BY <2>3 DEF Segment
    <3>2. Server!Segment(k, d.intact)
      <4>1. MsgCount(k) # 0
        BY <2>1, <3>1, SegmentFacts
      <4> QED
        BY <1>0, <2>1, <4>1, ServerHeartbeat
    <3> DEFINE a == srvSeq >= 0 /\ Feed[k].first > srvSeq
               b == srvSeq >= 0 /\ Feed[k].first < srvSeq
               p == Cardinality({j \in 1 .. d.intact : IsPlu(k, j)})
    <3>3. /\ srvSt' \in [SrvCounters -> Nat]
          /\ srvSeq' = NextSeq(k)
          /\ srvSt'.datagrams = srvSt.datagrams + 1
          /\ srvSt'.heartbeats = srvSt.heartbeats
          /\ srvSt'.messages = srvSt.messages + d.intact
          /\ srvSt'.plu_cnt = srvSt.plu_cnt + p
          /\ srvSt'.gaps = IF a THEN srvSt.gaps + 1 ELSE srvSt.gaps
          /\ srvSt'.reorders = IF b THEN srvSt.reorders + 1 ELSE srvSt.reorders
          /\ srvSt'.gap_msgs = IF a THEN srvSt.gap_msgs + Feed[k].first - srvSeq
                               ELSE srvSt.gap_msgs
      BY <1>0, <2>1, <3>2, ServerSegment
    <3>4. (IsGap(k) <=> a) /\ (IsReorder(k) <=> b)
      BY <1>0 DEF IsGap, IsReorder
    <3>5. /\ st'.gaps = IF IsGap(k) THEN st.gaps + 1 ELSE st.gaps
          /\ st'.reorders = IF IsReorder(k) THEN st.reorders + 1 ELSE st.reorders
          /\ st'.gap_msgs = IF IsGap(k) THEN st.gap_msgs + Feed[k].first - expected_seq
                            ELSE st.gap_msgs
      <4>1. Begins(k)
        BY <1>5, <2>3, SegmentStep
      <4> QED
        BY <4>1 DEF Begins
    <3> HIDE DEF a, b, p
    <3>6. /\ st'.datagrams = st.datagrams + 1
          /\ st'.heartbeats = st.heartbeats /\ st'.messages = st.messages
          /\ st'.pushed = st.pushed /\ st'.dropped_full = st.dropped_full
      BY <1>0, <2>1, <2>3, SegmentCounts
    <3>7. \A c \in Common : st'[c] = srvSt'[c]
      <4>1. /\ st.datagrams = srvSt.datagrams /\ st.heartbeats = srvSt.heartbeats
            /\ st.gaps = srvSt.gaps /\ st.reorders = srvSt.reorders
            /\ st.gap_msgs = srvSt.gap_msgs
        BY <1>0 DEF Common
      <4>2. st'.datagrams = srvSt'.datagrams /\ st'.heartbeats = srvSt'.heartbeats
        BY <3>3, <3>6, <4>1
      <4>3. /\ st'.gaps = srvSt'.gaps /\ st'.reorders = srvSt'.reorders
            /\ st'.gap_msgs = srvSt'.gap_msgs
        BY <1>0, <3>3, <3>4, <3>5, <4>1
      <4> QED
        BY <4>2, <4>3 DEF Common
    <3>8. srvSt'.messages = st'.messages + (cur'.intact - i')
      <4>1. d.intact - 0 = d.intact
        BY <2>1
      <4> QED
        BY <1>3, <3>1, <3>3, <3>6, <4>1
    <3>9. srvSt'.plu_cnt = st'.pushed + st'.dropped_full + Cardinality(Remaining')
      <4>1. Remaining' = {j \in 1 .. d.intact : IsPlu(k, j)}
        <5>1. i' + 1 = 1
          BY <3>1
        <5> QED
          BY <3>1, <5>1 DEF Remaining, IsPlu
      <4>2. Cardinality(Remaining') = p
        BY <4>1 DEF p
      <4> QED
        BY <1>3, <3>3, <3>6, <4>2
    <3> QED
      BY <3>1, <3>3, <3>7, <3>8, <3>9 DEF Paired, SrvCounters, Common
  <2> QED
    BY <2>1, <2>2, <2>3
<1> QED
  BY <1>4, <1>5

(* The stage goes on alone.                                                *)
LEMMA PairedAlone ==
  ASSUME Typed, Paired, TakeApart \/ Timeout \/ Pop \/ UNCHANGED vars,
         UNCHANGED <<srvSeq, srvSt>>
  PROVE  Paired'
<1>0. /\ st \in [Counters -> Nat] /\ srvSt \in [SrvCounters -> Nat]
      /\ srvSeq = expected_seq
      /\ \A c \in Common : st[c] = srvSt[c]
      /\ srvSt.messages = st.messages + (cur.intact - i)
      /\ srvSt.plu_cnt = st.pushed + st.dropped_full + Cardinality(Remaining)
      /\ srvSeq' = srvSeq /\ srvSt' = srvSt
  BY DEF Typed, Paired, SrvCounters, Common
<1>1. st.messages \in Nat /\ st.pushed \in Nat /\ st.dropped_full \in Nat
  BY <1>0 DEF Counters
<1>2. i \in Nat /\ cur.intact \in Nat
  BY FrameFacts DEF Typed
<1>3. CASE Filter \/ Push \/ DropFull
  <2>1. /\ cur # NoSegment /\ i < cur.intact /\ i' = i + 1
        /\ cur' = cur /\ expected_seq' = expected_seq
    BY <1>3 DEF Filter, Push, DropFull, InBlocks
  <2>2. PICK fs \in {{"messages", "filtered"}, {"messages", "dropped_full"},
                     {"messages", "pushed"}} :
          /\ st' = Count(st, fs)
          /\ fs = {"messages", "filtered"} <=> ~IsPlu(cur.seg, i + 1)
    <3>1. /\ {"messages", "filtered"} # {"messages", "dropped_full"}
          /\ {"messages", "filtered"} # {"messages", "pushed"}
      OBVIOUS
    <3> QED
      BY <1>3, <3>1 DEF Filter, Push, DropFull, DropCounted, BlockKind, IsPlu
  <2>3. \A c \in Counters : st'[c] = IF c \in fs THEN st[c] + 1 ELSE st[c]
    BY <1>0, <2>2, CountsAfter
  <2>4. \A c \in Common : st'[c] = st[c]
    BY <2>2, <2>3 DEF Common, Counters
  <2>5. st'.messages = st.messages + 1
    BY <2>2, <2>3 DEF Counters
  <2>6. st'.pushed + st'.dropped_full
          = st.pushed + st.dropped_full + (IF IsPlu(cur.seg, i + 1) THEN 1 ELSE 0)
    <3>1. CASE fs = {"messages", "filtered"}
      BY <1>1, <2>2, <2>3, <3>1 DEF Counters
    <3>2. CASE fs = {"messages", "dropped_full"}
      <4>1. "filtered" \notin fs /\ "filtered" \in {"messages", "filtered"}
        BY <3>2
      <4>2. IsPlu(cur.seg, i + 1)
        BY <2>2, <4>1
      <4>3. st'.pushed = st.pushed /\ st'.dropped_full = st.dropped_full + 1
        BY <2>3, <3>2 DEF Counters
      <4> QED
        BY <1>1, <4>2, <4>3
    <3>3. CASE fs = {"messages", "pushed"}
      <4>1. "filtered" \notin fs /\ "filtered" \in {"messages", "filtered"}
        BY <3>3
      <4>2. IsPlu(cur.seg, i + 1)
        BY <2>2, <4>1
      <4>3. st'.pushed = st.pushed + 1 /\ st'.dropped_full = st.dropped_full
        BY <2>3, <3>3 DEF Counters
      <4> QED
        BY <1>1, <4>2, <4>3
    <3> QED
      BY <2>2, <3>1, <3>2, <3>3
  <2>7. Cardinality(Remaining)
          = Cardinality(Remaining') + (IF IsPlu(cur.seg, i + 1) THEN 1 ELSE 0)
    <3>1. Remaining' = {j \in i + 1 + 1 .. cur.intact : IsPlu(cur.seg, j)}
      BY <2>1 DEF Remaining, IsPlu
    <3>2. i + 1 \in Int /\ cur.intact \in Int /\ i + 1 <= cur.intact
      BY <1>2, <2>1
    <3> QED
      BY <3>1, <3>2, RemainingStep DEF Remaining
  <2>8. Cardinality(Remaining') \in Nat
    <3>1. Remaining' = {j \in i + 1 + 1 .. cur.intact : IsPlu(cur.seg, j)}
      BY <2>1 DEF Remaining, IsPlu
    <3>2. i + 1 + 1 \in Int /\ cur.intact \in Int
      BY <1>2
    <3> QED
      BY <3>1, <3>2, RemainingFinite
  <2>9. srvSt'.messages = st'.messages + (cur'.intact - i')
    BY <1>0, <1>1, <1>2, <2>1, <2>5
  <2>10. srvSt'.plu_cnt = st'.pushed + st'.dropped_full + Cardinality(Remaining')
    <3>1. \A A, B, x, y \in Nat : A = B + x => y + A = y + x + B
      OBVIOUS
    <3> DEFINE x == IF IsPlu(cur.seg, i + 1) THEN 1 ELSE 0
               y == st.pushed + st.dropped_full
               A == Cardinality(Remaining)
               B == Cardinality(Remaining')
    <3>2. x \in Nat /\ y \in Nat /\ B \in Nat /\ A = B + x
      BY <1>1, <2>7, <2>8
    <3>3. st'.pushed + st'.dropped_full = y + x /\ srvSt'.plu_cnt = y + A
      BY <1>0, <2>6
    <3> HIDE DEF x, y, A, B
    <3>4. srvSt'.plu_cnt = st'.pushed + st'.dropped_full + B
      BY <3>2, <3>3
    <3> QED
      BY <3>4 DEF B
  <2> QED
    BY <1>0, <2>1, <2>4, <2>9, <2>10 DEF Paired, SrvCounters, Common
<1>4. CASE EndSegment \/ Timeout \/ Pop \/ UNCHANGED vars
  <2>1. /\ expected_seq' = expected_seq
        /\ st' = st \/ st' = Count(st, {"truncated"})
        /\ \/ UNCHANGED <<cur, i>>
           \/ cur' = NoSegment /\ i' = 0 /\ i = cur.intact
    BY <1>4 DEF EndSegment, Timeout, Pop, vars, framer
  <2>2. \A c \in Counters : c # "truncated" => st'[c] = st[c]
    BY <1>0, <2>1, CountsAfter
  <2>3. /\ \A c \in Common : st'[c] = st[c]
        /\ st'.messages = st.messages
        /\ st'.pushed = st.pushed /\ st'.dropped_full = st.dropped_full
    BY <2>2 DEF Counters, Common
  <2>4. CASE UNCHANGED <<cur, i>>
    <3>1. Remaining' = Remaining
      BY <2>4 DEF Remaining, IsPlu
    <3> QED
      BY <1>0, <2>1, <2>3, <2>4, <3>1 DEF Paired, SrvCounters, Common
  <2>5. CASE cur' = NoSegment /\ i' = 0 /\ i = cur.intact
    <3>1. Cardinality(Remaining) = 0
      BY <1>2, <2>5, NothingRemains DEF Remaining
    <3>2. Cardinality(Remaining') = 0 /\ cur'.intact = 0
      <4>1. NoSegment.intact = 0
        BY FrameFacts DEF Frames
      <4>2. Remaining' = {j \in 0 + 1 .. NoSegment.intact : IsPlu(NoSegment.seg, j)}
        BY <2>5 DEF Remaining, IsPlu
      <4> QED
        BY <2>5, <4>1, <4>2, NothingRemains
    <3>3. cur'.intact - i' = cur.intact - i
      BY <1>2, <2>5, <3>2
    <3> QED
      BY <1>0, <2>1, <2>3, <3>1, <3>2, <3>3 DEF Paired, SrvCounters, Common
  <2> QED
    BY <2>1, <2>4, <2>5
<1> QED
  BY <1>3, <1>4 DEF TakeApart

(* Between two segments that meet there is none with messages.             *)
LEMMA NothingBetween ==
  ASSUME NEW m \in WithMessages, NEW k \in WithMessages,
         Feed[k].first = NextSeq(m)
  PROVE  /\ m < k
         /\ \A j \in WithMessages : m < j => k <= j
<1>1. \A j \in WithMessages : /\ j \in SegIds /\ j \in Nat /\ MsgCount(j) \in Nat
                              /\ MsgCount(j) > 0 /\ Feed[j].first \in Nat
  BY SegmentFacts DEF WithMessages
<1>2. Feed[k].first = Feed[m].first + MsgCount(m)
  BY DEF NextSeq
<1>3. m < k
  <2>1. m # k
    BY <1>1, <1>2
  <2>2. ~ k < m
    <3>1. k < m => Feed[k].first + MsgCount(k) <= Feed[m].first
      BY <1>1, SegmentsInOrder
    <3> QED
      BY <1>1, <1>2, <3>1
  <2> QED
    BY <1>1, <2>1, <2>2
<1>4. ASSUME NEW j \in WithMessages, m < j, j < k
      PROVE  FALSE
  <2>1. /\ Feed[m].first + MsgCount(m) <= Feed[j].first
        /\ Feed[j].first + MsgCount(j) <= Feed[k].first
    BY <1>1, <1>4, SegmentsInOrder
  <2> QED
    BY <1>1, <1>2, <2>1
<1> QED
  BY <1>1, <1>3, <1>4

(* The server takes a segment.                                             *)
LEMMA TakenStep ==
  ASSUME Taken, NEW k, ServerTakes(k), srvSt' \in [SrvCounters -> Nat]
  PROVE  Taken'
<1>1. /\ k \in SegIds /\ taken' = [taken EXCEPT ![k] = @ + 1]
      /\ taken \in [SegIds -> Nat]
      /\ srvSt.gaps \in Nat /\ srvSt.reorders \in Nat
      /\ srvSt'.gaps \in Nat /\ srvSt'.reorders \in Nat
  BY DEF ServerTakes, Taken, SrvCounters
<1>2. /\ taken' \in [SegIds -> Nat]
      /\ taken'[k] = taken[k] + 1
      /\ \A j \in SegIds \ {k} : taken'[j] = taken[j]
  BY <1>1
<1>3. CASE MsgCount(k) = 0
  <2>1. /\ srvSeq' = srvSeq
        /\ srvSt'.gaps = srvSt.gaps /\ srvSt'.reorders = srvSt.reorders
    BY <1>3 DEF ServerTakes
  <2>2. \A j \in WithMessages : taken'[j] = taken[j]
    <3>1. k \notin WithMessages
      BY <1>3 DEF WithMessages
    <3> QED
      BY <1>2, <3>1 DEF WithMessages
  <2>3. Server!Quiet' => Server!Quiet
    BY <2>1 DEF Server!Quiet
  <2>4. \A m \in WithMessages : Unbroken(m) => Unbroken(m)'
    BY <2>1, <2>2 DEF Unbroken
  <2> QED
    BY <1>2, <2>1, <2>2, <2>3, <2>4 DEF Taken
<1>4. CASE MsgCount(k) # 0
  <2>1. /\ srvSeq' = NextSeq(k)
        /\ srvSt'.gaps = IF srvSeq >= 0 /\ Feed[k].first > srvSeq
                         THEN srvSt.gaps + 1 ELSE srvSt.gaps
        /\ srvSt'.reorders = IF srvSeq >= 0 /\ Feed[k].first < srvSeq
                             THEN srvSt.reorders + 1 ELSE srvSt.reorders
    BY <1>4 DEF ServerTakes
  <2>2. /\ k \in WithMessages /\ Feed[k].first \in Nat /\ NextSeq(k) \in Nat
        /\ srvSeq \in Nat \cup {-1}
    BY <1>1, <1>4, SegmentFacts, SeqsFacts DEF WithMessages, Taken
  <2>3. \A j \in WithMessages \ {k} : taken'[j] = taken[j]
    BY <1>2 DEF WithMessages
  <2>4. \A j \in WithMessages : /\ j \in SegIds /\ j \in Nat /\ taken[j] \in Nat
                                /\ taken'[j] \in Nat
    BY <1>1, <1>2, SegmentFacts DEF WithMessages
  <2>5. ASSUME Server!Quiet'
        PROVE  Unbroken(k)'
    <3>1. /\ Server!Quiet
          /\ srvSeq >= 0 => Feed[k].first = srvSeq
      <4>1. srvSt'.gaps = 0 /\ srvSt'.reorders = 0
        BY <2>5 DEF Server!Quiet
      <4>2. /\ ~(srvSeq >= 0 /\ Feed[k].first > srvSeq) /\ srvSt.gaps = 0
            /\ ~(srvSeq >= 0 /\ Feed[k].first < srvSeq) /\ srvSt.reorders = 0
        BY <1>1, <2>1, <4>1
      <4> QED
        BY <2>2, <4>2 DEF Server!Quiet
    <3>2. CASE srvSeq = -1
      <4>1. \A j \in WithMessages : taken[j] = 0
        BY <3>2 DEF Taken
      <4>2. taken'[k] = 1 /\ \A j \in WithMessages : taken'[j] > 0 => j = k
        BY <1>2, <2>2, <2>3, <2>4, <4>1
      <4>3. \A j \in WithMessages : taken'[j] > 0 => j <= k
        BY <2>2, <2>4, <4>2
      <4>4. \A j, l \in WithMessages :
              (taken'[l] > 0 /\ l <= j /\ j <= k) => taken'[j] = 1
        <5> SUFFICES ASSUME NEW j \in WithMessages, NEW l \in WithMessages,
                            taken'[l] > 0, l <= j, j <= k
                     PROVE  taken'[j] = 1
          OBVIOUS
        <5>1. l = k
          BY <4>2
        <5>2. j = k
          BY <2>2, <2>4, <5>1
        <5> QED
          BY <4>2, <5>2
      <4> QED
        BY <2>1, <4>2, <4>3, <4>4 DEF Unbroken
    <3>3. CASE srvSeq # -1
      <4>1. PICK m \in WithMessages : Unbroken(m)
        BY <3>1, <3>3 DEF Taken
      <4>2. Feed[k].first = NextSeq(m)
        BY <2>2, <3>1, <3>3, <4>1 DEF Unbroken
      <4>3. m < k /\ \A j \in WithMessages : m < j => k <= j
        BY <2>2, <4>2, NothingBetween
      <4>4. taken[k] = 0 /\ taken'[k] = 1
        <5>1. taken[k] > 0 => k <= m
          BY <2>2, <4>1 DEF Unbroken
        <5>2. ~(k <= m)
          BY <2>2, <2>4, <4>1, <4>3
        <5> QED
          BY <1>2, <2>2, <2>4, <5>1, <5>2
      <4>5. \A j \in WithMessages : taken'[j] > 0 => j <= k
        <5> SUFFICES ASSUME NEW j \in WithMessages, taken'[j] > 0, j # k
                     PROVE  j <= k
          BY <2>2, <2>4
        <5>1. j <= m
          BY <2>3, <4>1 DEF Unbroken
        <5> QED
          BY <2>2, <2>4, <4>1, <4>3, <5>1
      <4>6. \A j, l \in WithMessages :
              (taken'[l] > 0 /\ l <= j /\ j <= k) => taken'[j] = 1
        <5> SUFFICES ASSUME NEW j \in WithMessages, NEW l \in WithMessages,
                            taken'[l] > 0, l <= j, j <= k, j # k
                     PROVE  taken'[j] = 1
          BY <4>4
        <5>1. j <= m
          BY <2>2, <2>4, <4>1, <4>3
        <5>2. l # k
          BY <2>2, <2>4
        <5>3. taken[l] > 0
          BY <2>3, <5>2
        <5>4. taken[j] = 1
          BY <4>1, <5>1, <5>3 DEF Unbroken
        <5> QED
          BY <2>3, <5>4
      <4> QED
        BY <2>1, <4>4, <4>5, <4>6 DEF Unbroken
    <3> QED
      BY <3>2, <3>3
  <2>6. srvSeq' \in Nat
    BY <2>1, <2>2
  <2> QED
    BY <1>2, <2>2, <2>5, <2>6 DEF Taken
<1> QED
  BY <1>3, <1>4

(* ... or nothing new.                                                     *)
LEMMA TakenSame ==
  ASSUME Taken, UNCHANGED <<srvSeq, srvSt, taken>>
  PROVE  Taken'
BY DEF Taken, Unbroken, Server!Quiet

BothInv == StageInv /\ Paired /\ Taken

(* What both do on one datagram, at the server.                            *)
LEMMA TakenReceive ==
  ASSUME Taken, NEW d \in Frames, Server!Deliver(d)
  PROVE  Taken'
<1>1. CASE d.seg = 0
  <2>1. UNCHANGED <<srvSeq, srvSt, taken>>
    BY <1>1 DEF Server!Deliver, Server!Ignore, Server!vars
  <2> QED
    BY <2>1, TakenSame
<1>2. CASE d.seg # 0
  <2>1. /\ d.seg \in SegIds /\ d.intact \in Nat
        /\ Server!Heartbeat(d.seg) \/ Server!Segment(d.seg, d.intact)
    BY <1>2, FrameFacts DEF Server!Deliver
  <2>2. srvSt \in [SrvCounters -> Nat] /\ srvSeq \in Nat \cup {-1}
    BY DEF Taken
  <2>3. ServerTakes(d.seg) /\ srvSt' \in [SrvCounters -> Nat]
    <3>1. CASE Server!Heartbeat(d.seg)
      BY <2>1, <2>2, <3>1, ServerHeartbeat
    <3>2. CASE Server!Segment(d.seg, d.intact)
      BY <2>1, <2>2, <3>2, ServerSegment
    <3> QED
      BY <2>1, <3>1, <3>2
  <2> QED
    BY <2>3, TakenStep
<1> QED
  BY <1>1, <1>2

(* Both receivers start with the same counters.                            *)
LEMMA BothInvInit ==
  BothInit => BothInv
<1> SUFFICES ASSUME BothInit PROVE BothInv
  OBVIOUS
<1>1. StageInv
  BY StageInvInit DEF BothInit
<1>2. /\ expected_seq = -1 /\ srvSeq = -1
      /\ st = [c \in Counters |-> 0]
      /\ srvSt = [c \in SrvCounters |-> 0]
      /\ taken = [k \in SegIds |-> 0]
      /\ cur = NoSegment /\ i = 0
  BY DEF BothInit, Init, Server!Init, Counters, SrvCounters, Server!SegIds, SegIds
<1>3. cur.intact = 0
  BY <1>2, FrameFacts DEF Frames, NoSegment
<1>4. Cardinality(Remaining) = 0
  BY <1>2, <1>3, NothingRemains DEF Remaining
<1>5. Paired
  BY <1>2, <1>3, <1>4 DEF Paired, Counters, SrvCounters
<1>6. Taken
  BY <1>2 DEF Taken, WithMessages
<1> QED
  BY <1>1, <1>5, <1>6 DEF BothInv

(* The pair's step is one of the stage.                                    *)
LEMMA BothIsNext ==
  [BothNext]_bothVars => [Next]_vars
BY DEF BothNext, BothReceive, Next, Receive, bothVars

(* A datagram that both receivers take keeps them in agreement.            *)
LEMMA BothInvStep ==
  BothInv /\ [BothNext]_bothVars => BothInv'
<1> SUFFICES ASSUME BothInv, [BothNext]_bothVars PROVE BothInv'
  OBVIOUS
<1>1. StageInv'
  BY BothIsNext, NextIsStage, StageInvStep DEF BothInv
<1>2. Typed /\ EveryMessageCounted /\ Paired /\ Taken
  BY DEF BothInv, StageInv
<1>3. CASE BothReceive
  <2>1. PICK d \in Frames : Deliver(d) /\ Server!Deliver(d)
    BY <1>3, AnythingIsFramed DEF BothReceive
  <2> QED
    BY <1>1, <1>2, <2>1, PairedReceive, TakenReceive DEF BothInv
<1>4. CASE \/ (TakeApart \/ Pop) /\ UNCHANGED serverVars
           \/ Timeout /\ Server!Report
           \/ UNCHANGED bothVars
  <2>1. /\ TakeApart \/ Timeout \/ Pop \/ UNCHANGED vars
        /\ UNCHANGED <<srvSeq, srvSt, taken>>
    BY <1>4 DEF serverVars, bothVars, Server!Report
  <2> QED
    BY <1>1, <1>2, <2>1, PairedAlone, TakenSame DEF BothInv
<1> QED
  BY <1>3, <1>4 DEF BothNext

(* The stage runs beside the server as it runs alone: all that is shown of *)
(* it holds there, too.                                                    *)
THEOREM BothRunStage == BothSpec => Spec
<1>1. BothInit => Init
  BY DEF BothInit
<1> QED
  BY <1>1, BothIsNext, PTL DEF BothSpec, Spec

(* The inductive invariant of the pair.                                    *)
THEOREM BothInvariant == BothSpec => []BothInv
BY BothInvInit, BothInvStep, PTL DEF BothSpec

(* The receive stage and the reference server, fed the same datagrams,     *)
(* expect the same number next and have the same counters whenever the     *)
(* stage is between two segments (the server's updates are the stage's     *)
(* pushed and dropped ones).                                               *)
THEOREM BothCountTheSame == BothSpec => []SameCounts
<1>1. BothInv => SameCounts
  <2> SUFFICES ASSUME BothInv, cur = NoSegment PROVE SameCounts
    BY DEF SameCounts
  <2>1. cur.intact = 0 /\ i = 0
    BY FrameFacts DEF BothInv, StageInv, Typed
  <2>2. Cardinality(Remaining) = 0
    BY <2>1, NothingRemains DEF Remaining
  <2>3. /\ st.messages \in Nat /\ st.pushed \in Nat /\ st.dropped_full \in Nat
    BY DEF BothInv, StageInv, Typed, Counters
  <2>4. srvSt.messages = st.messages /\ srvSt.plu_cnt = st.pushed + st.dropped_full
    BY <2>1, <2>2, <2>3 DEF BothInv, Paired
  <2>5. DOMAIN srvSt = SrvCounters
    BY DEF BothInv, Paired
  <2> QED
    BY <2>4, <2>5 DEF BothInv, Paired, SameCounts
<1> QED
  BY <1>1, BothInvariant, PTL

(* No gap and no reorder counted: the messages taken are all those from    *)
(* the first to the last one seen, each once.                              *)
THEOREM BothQuietContiguous == BothSpec => []ContiguousIfQuiet
<1>1. Taken => ContiguousIfQuiet
  <2> DEFINE got == {k \in WithMessages : taken[k] > 0}
  <2> SUFFICES ASSUME Taken, Server!Quiet, got # {},
                      NEW k \in WithMessages, k \in Min(got) .. Max(got)
               PROVE  taken[k] = 1
    BY DEF ContiguousIfQuiet
  <2>1. srvSeq # -1
    <3>1. PICK j \in WithMessages : taken[j] > 0
      OBVIOUS
    <3>2. taken[j] # 0
      BY <3>1
    <3> QED
      BY <3>1, <3>2 DEF Taken
  <2>2. PICK m \in WithMessages : Unbroken(m)
    BY <2>1 DEF Taken
  <2>3. Len(Feed) \in Nat
    <3>1. PICK j : j \in got
      OBVIOUS
    <3>2. j \in 1 .. Len(Feed)
      BY <3>1 DEF WithMessages, SegIds
    <3> QED
      BY <3>2
  <2>4. got \subseteq Nat /\ got \subseteq 0 .. Len(Feed) /\ got \subseteq WithMessages
    <3>1. \A j \in WithMessages : j \in 0 .. Len(Feed) /\ j \in Nat
      BY <2>3, SegmentFacts DEF WithMessages, SegIds
    <3> QED
      BY <3>1, Zenon
  <2>5. \A j \in got : taken[j] > 0
    OBVIOUS
  <2> HIDE DEF got
  <2>6. Min(got) \in got /\ Max(got) \in got
    BY <2>3, <2>4, MinIsLeast, MaxIsGreatest
  <2>7. Max(got) <= m
    BY <2>2, <2>4, <2>5, <2>6 DEF Unbroken
  <2>8. m \in Nat /\ k \in Nat
    BY SegmentFacts DEF WithMessages
  <2>9. Min(got) \in Nat /\ Max(got) \in Nat
    BY <2>4, <2>6
  <2>10. Min(got) <= k /\ k <= m
    BY <2>7, <2>8, <2>9
  <2> QED
    BY <2>2, <2>4, <2>5, <2>6, <2>10 DEF Unbroken
<1>2. BothInv => Taken
  BY DEF BothInv
<1> QED
  BY <1>1, <1>2, BothInvariant, PTL

-----------------------------------------------------------------------------
(* The drain thread.                                                       *)

(* Each thread knows at most what happened, and enough: the receive thread *)
(* does not fill a slot it does not know to be given back, and the drain   *)
(* thread ends with every push known.                                      *)
Drains ==
    /\ file \in Files
    /\ cachedTail \in Nat /\ mustSee \in Nat
    /\ pops <= cachedTail /\ cachedTail <= mustSee /\ mustSee <= Len(pushes)
    /\ Len(pushes) - seen <= Capacity
    /\ done => ~running
    /\ ~running => cur = NoSegment
    /\ dpc \in {"held", "decoded"} => pops < cachedTail
    /\ dpc \in {"second", "exit"} => done
    /\ dpc = "second" => mustSee = Len(pushes)
    /\ dpc = "exit" => pops = Len(pushes)

LiveInv == StageInv /\ Drains

(* What the drain thread does is nothing to the stage but pops.            *)
LEMMA LiveIsStage ==
  ASSUME file \in Files, [PipelinesNext]_allVars
  PROVE  [StageNext]_vars
<1>1. CASE Stage
  <2>1. CASE \E d \in Incoming[file] : Deliver(d)
    BY <2>1, IncomingIsFramed DEF StageNext
  <2>2. CASE TakeApart \/ Timeout
    BY <2>2 DEF StageNext
  <2> QED
    BY <1>1, <2>1, <2>2 DEF Stage
<1>2. CASE PopEnd
  BY <1>2 DEF PopEnd, StageNext
<1>3. CASE \/ RxDone \/ Look \/ NotDone \/ SeeDone \/ SecondLook \/ Decode
           \/ Apply \/ Emit \/ Joined \/ UNCHANGED liveVars
  <2>1. UNCHANGED vars
    BY <1>3 DEF RxDone, Look, NotDone, SeeDone, SecondLook, Decode, Apply, Emit,
                Joined, liveVars, rx, vars, framer, network
  <2> QED
    BY <2>1
<1>4. Offline!Next /\ UNCHANGED liveVars => UNCHANGED liveVars
  OBVIOUS
<1> QED
  BY <1>1, <1>2, <1>3, <1>4
     DEF PipelinesNext, LiveNext, ReceiveThread, DrainThread, allVars

(* The receive thread's step leaves the ring within its capacity, and is   *)
(* not taken once the stage is over.                                       *)
LEMMA StageFills ==
  ASSUME Typed, Drains, Stage
  PROVE  /\ ~done
         /\ Len(pushes') \in Nat /\ Len(pushes) <= Len(pushes')
         /\ Len(pushes') - seen' <= Capacity
         /\ pops' = pops
         /\ ~running' => cur' = NoSegment
<1>0. /\ pushes \in Seq(Slots) /\ Len(pushes) \in Nat /\ seen \in Nat /\ pops \in Nat
      /\ Capacity \in Nat /\ seen <= pops /\ pops <= Len(pushes)
      /\ Len(pushes) - seen <= Capacity
      /\ done => ~running
      /\ ~running => cur = NoSegment
  BY StageAssumption DEF Typed, Drains
<1>1. CASE \E d \in Incoming[file] : Deliver(d)
  <2>1. /\ running /\ running' = running
        /\ pushes' = pushes /\ seen' = seen /\ pops' = pops
    BY <1>1 DEF Deliver, NonDeep, Heartbeat, Segment, Arrive
  <2> QED
    BY <1>0, <2>1
<1>2. CASE Timeout
  <2>1. /\ running /\ cur = NoSegment /\ cur' = cur
        /\ pushes' = pushes /\ seen' = seen /\ pops' = pops
    BY <1>2 DEF Timeout, framer
  <2> QED
    BY <1>0, <2>1
<1>3. CASE EndSegment
  <2>1. /\ cur # NoSegment /\ cur' = NoSegment
        /\ pushes' = pushes /\ seen' = seen /\ pops' = pops
    BY <1>3 DEF EndSegment
  <2> QED
    BY <1>0, <2>1
<1>4. CASE Filter
  <2>1. /\ cur # NoSegment /\ running' = running
        /\ pushes' = pushes /\ seen' = seen /\ pops' = pops
    BY <1>4 DEF Filter, InBlocks, network
  <2> QED
    BY <1>0, <2>1
<1>5. CASE Push
  <2>1. /\ cur # NoSegment /\ running' = running /\ pops' = pops
        /\ pushes' = Append(pushes, [seq |-> SlotSeq, after_gap |-> pending_flags])
        /\ Len(pushes) - seen' < Capacity
        /\ seen' \in {seen} \cup HeadLoads
    BY <1>5 DEF Push, InBlocks, network, HasRoom, RefreshSeen
  <2>2. Len(pushes') = Len(pushes) + 1
    BY <1>0, <2>1
  <2>3. seen' \in Int
    BY <1>0, <2>1 DEF HeadLoads
  <2> QED
    BY <1>0, <2>1, <2>2, <2>3
<1>6. CASE DropFull
  <2>1. /\ cur # NoSegment /\ running' = running
        /\ pushes' = pushes /\ Len(pushes) - seen' = Capacity /\ pops' = pops
    BY <1>6 DEF DropFull, InBlocks, network, NoRoom
  <2> QED
    BY <1>0, <2>1
<1> QED
  BY <1>1, <1>2, <1>3, <1>4, <1>5, <1>6 DEF Stage, TakeApart

(* A load of the tail.                                                     *)
LEMMA LoadFacts ==
  ASSUME Typed, Drains, LoadTail
  PROVE  /\ cachedTail' \in Nat /\ mustSee' \in Nat
         /\ pops <= cachedTail' /\ cachedTail' <= mustSee'
         /\ mustSee' <= Len(pushes)
         /\ mustSee <= mustSee'
         /\ mustSee = Len(pushes) /\ cachedTail' = pops => pops = Len(pushes)
<1>0. /\ Len(pushes) \in Nat /\ pops \in Nat
      /\ cachedTail \in Nat /\ mustSee \in Nat
      /\ pops <= cachedTail /\ cachedTail <= mustSee /\ mustSee <= Len(pushes)
  BY DEF Typed, Drains
<1>1. CASE pops # cachedTail
  <2>1. cachedTail' = cachedTail /\ mustSee' = mustSee
    BY <1>1 DEF LoadTail
  <2> QED
    BY <1>0, <1>1, <2>1
<1>2. CASE pops = cachedTail
  <2>1. PICK k \in mustSee .. Len(pushes) : cachedTail' = k /\ mustSee' = k
    BY <1>2 DEF LoadTail
  <2>2. k \in Nat /\ mustSee <= k /\ k <= Len(pushes)
    BY <1>0, <2>1
  <2> QED
    BY <1>0, <1>2, <2>1, <2>2
<1> QED
  BY <1>1, <1>2

(* The invariant of both threads is inductive.                             *)
LEMMA DrainsStep ==
  ASSUME Typed, Typed', Drains, [PipelinesNext]_allVars
  PROVE  Drains'
<1>0. /\ Len(pushes) \in Nat /\ pops \in Nat /\ seen \in Nat
      /\ Len(pushes') \in Nat /\ pops' \in Nat /\ seen' \in Nat
      /\ Capacity \in Nat
      /\ cachedTail \in Nat /\ mustSee \in Nat
      /\ pops <= cachedTail /\ cachedTail <= mustSee /\ mustSee <= Len(pushes)
      /\ Len(pushes) - seen <= Capacity
  BY StageAssumption DEF Typed, Drains
<1>1. CASE Stage
  <2>1. UNCHANGED <<done, file, dpc, cachedTail, mustSee>>
    BY <1>1 DEF Stage, drain
  <2>2. /\ ~done
        /\ Len(pushes) <= Len(pushes') /\ Len(pushes') - seen' <= Capacity
        /\ pops' = pops
        /\ ~running' => cur' = NoSegment
    BY <1>1, StageFills
  <2>3. mustSee <= Len(pushes')
    BY <1>0, <2>2
  <2> QED
    BY <2>1, <2>2, <2>3 DEF Drains
<1>2. CASE RxDone
  <2>1. /\ ~running /\ done' = TRUE
        /\ UNCHANGED <<pushes, pops, seen, running, cur, file, dpc, cachedTail,
                       mustSee>>
    BY <1>2 DEF RxDone, vars, framer, network, drain
  <2> QED
    BY <2>1 DEF Drains
<1> DEFINE Rest == UNCHANGED <<pushes, seen, running, cur, done, file>>
<1>3. CASE Look \/ SecondLook
  <2>1. Rest /\ pops' = pops
    BY <1>3 DEF Look, SecondLook, rx, framer, network
  <2>2. /\ cachedTail' \in Nat /\ mustSee' \in Nat
        /\ pops <= cachedTail' /\ cachedTail' <= mustSee'
        /\ mustSee' <= Len(pushes)
        /\ mustSee = Len(pushes) /\ cachedTail' = pops => pops = Len(pushes)
    BY <1>3, LoadFacts DEF Look, SecondLook
  <2>3. CASE Look
    <3>1. \/ dpc' = "held" /\ cachedTail' # pops
          \/ dpc' = "empty"
      BY <2>3 DEF Look
    <3>2. dpc' = "held" => pops < cachedTail'
      BY <1>0, <2>2, <3>1
    <3> QED
      BY <2>1, <2>2, <3>1, <3>2 DEF Drains
  <2>4. CASE SecondLook
    <3>1. /\ dpc = "second"
          /\ \/ dpc' = "exit" /\ cachedTail' = pops
             \/ dpc' = "look"
      BY <2>4 DEF SecondLook, Drained
    <3>2. done /\ (dpc' = "exit" => pops = Len(pushes))
      BY <2>2, <3>1 DEF Drains
    <3> QED
      BY <2>1, <2>2, <3>1, <3>2 DEF Drains
  <2> QED
    BY <1>3, <2>3, <2>4
<1>4. CASE NotDone
  <2>1. Rest /\ UNCHANGED <<pops, cachedTail, mustSee>> /\ dpc' = "look"
    BY <1>4 DEF NotDone, rx, framer, network
  <2> QED
    BY <2>1 DEF Drains
<1>5. CASE SeeDone
  <2>1. /\ Rest /\ UNCHANGED <<pops, cachedTail>> /\ done
        /\ dpc' = "second" /\ mustSee' = Len(pushes)
    BY <1>5 DEF SeeDone, AfterDone, rx, framer, network
  <2>2. cachedTail <= Len(pushes)
    BY <1>0
  <2> QED
    BY <1>0, <2>1, <2>2 DEF Drains
<1>6. CASE Decode
  <2>1. /\ Rest /\ UNCHANGED <<pops, cachedTail, mustSee>>
        /\ dpc = "held" /\ dpc' = "decoded"
    BY <1>6 DEF Decode, rx, framer, network
  <2> QED
    BY <2>1 DEF Drains
<1>7. CASE PopEnd
  <2>1. /\ Rest /\ UNCHANGED <<cachedTail, mustSee>>
        /\ pops' = pops + 1 /\ dpc = "decoded" /\ dpc' \in {"look", "apply"}
    BY <1>7 DEF PopEnd, Pop, framer, network
  <2>2. pops + 1 <= cachedTail
    BY <1>0, <2>1 DEF Drains
  <2> QED
    BY <2>1, <2>2 DEF Drains
<1>8. CASE Apply \/ Emit
  <2>1. /\ Rest /\ UNCHANGED <<pops, cachedTail, mustSee>>
        /\ dpc' \in {"emit", "look"}
    BY <1>8 DEF Apply, Emit, rx, framer, network
  <2> QED
    BY <2>1 DEF Drains
<1>9. CASE Joined \/ UNCHANGED liveVars
  <2>1. Rest /\ UNCHANGED <<pops, cachedTail, mustSee, dpc>>
    BY <1>9 DEF Joined, liveVars, rx, drain, framer, network
  <2> QED
    BY <2>1 DEF Drains
<1> QED
  BY <1>1, <1>2, <1>3, <1>4, <1>5, <1>6, <1>7, <1>8, <1>9
     DEF PipelinesNext, LiveNext, ReceiveThread, DrainThread, allVars

(* Before the threads start the ring is empty and nothing is being read.   *)
LEMMA LiveInvInit ==
  PipelinesInit => LiveInv
<1> SUFFICES ASSUME PipelinesInit PROVE LiveInv
  OBVIOUS
<1>1. Init /\ file \in Files
  BY DEF PipelinesInit, LiveInit
<1>2. StageInv
  BY <1>1, StageInvInit
<1>3. /\ done = FALSE /\ dpc = "look" /\ cachedTail = 0 /\ mustSee = 0
      /\ pops = 0 /\ seen = 0 /\ pushes = <<>> /\ cur = NoSegment
  BY DEF PipelinesInit, LiveInit, Init
<1>4. Drains
  BY <1>1, <1>3, StageAssumption DEF Drains
<1> QED
  BY <1>2, <1>4 DEF LiveInv

(* Neither thread disturbs the slot being read, and the flag is only       *)
(* raised when no push can follow.                                         *)
LEMMA LiveInvStep ==
  LiveInv /\ [PipelinesNext]_allVars => LiveInv'
<1> SUFFICES ASSUME LiveInv, [PipelinesNext]_allVars PROVE LiveInv'
  OBVIOUS
<1>1. file \in Files /\ StageInv /\ Drains /\ Typed
  BY DEF LiveInv, Drains, StageInv
<1>2. StageInv'
  BY <1>1, LiveIsStage, StageInvStep
<1>3. Typed'
  BY <1>2 DEF StageInv
<1>4. Drains'
  BY <1>1, <1>3, DrainsStep
<1> QED
  BY <1>2, <1>4 DEF LiveInv

(* The inductive invariant of the live pipeline.                           *)
THEOREM LiveInvariant == PipelinesSpec => []LiveInv
BY LiveInvInit, LiveInvStep, PTL DEF PipelinesSpec

(* What holds of the receive stage holds of it in the pipeline.            *)
THEOREM LiveRunsStage ==
  PipelinesSpec => [](/\ OnlyUpdates /\ EveryMessageCounted
                      /\ UnflaggedMeansArrived /\ FlagsNeedGaps /\ GapCountExact)
<1>1. LiveInv => /\ OnlyUpdates /\ EveryMessageCounted
                 /\ UnflaggedMeansArrived /\ FlagsNeedGaps /\ GapCountExact
  BY StageInvShows DEF LiveInv
<1> QED
  BY <1>1, LiveInvariant, PTL

(* What the receive thread has since reused is older than the slot read.   *)
LEMMA LiveInvIntact ==
  LiveInv => SlotIntact
<1> SUFFICES ASSUME LiveInv, dpc \in {"held", "decoded"}
             PROVE  Slot(pops + 1) = pushes[pops + 1].seq
  BY DEF SlotIntact
<1> DEFINE k == pops + 1
           L == Len(pushes)
           S == {n \in DOMAIN pushes : n % Capacity = k % Capacity}
           m == Max(S)
<1>1. /\ pushes \in Seq(Slots) /\ L \in Nat /\ k \in Nat /\ Capacity \in Nat \ {0}
      /\ 1 <= k /\ k <= L /\ L < k + Capacity
      /\ DOMAIN pushes = 1 .. L
  <2>1. /\ pushes \in Seq(Slots) /\ seen \in Nat /\ pops \in Nat /\ seen <= pops
        /\ pops < cachedTail /\ cachedTail <= mustSee /\ mustSee <= L
        /\ cachedTail \in Nat /\ mustSee \in Nat /\ L - seen <= Capacity
    BY DEF LiveInv, StageInv, Typed, Drains
  <2>2. L \in Nat /\ DOMAIN pushes = 1 .. L
    BY <2>1
  <2> HIDE DEF L
  <2> QED
    BY <2>1, <2>2, StageAssumption
<1> HIDE DEF k, L
<1>2. k \in S /\ S \subseteq 0 .. L /\ S # {}
  <2>1. k \in 1 .. L /\ 1 .. L \subseteq 0 .. L
    BY <1>1
  <2>2. k \in S /\ S \subseteq 1 .. L
    BY <1>1, <2>1
  <2> HIDE DEF S
  <2> QED
    BY <2>1, <2>2
<1> HIDE DEF S
<1>3. m \in S /\ k <= m
  BY <1>1, <1>2, MaxIsGreatest
<1>4. m \in Int /\ m < k + Capacity /\ m % Capacity = k % Capacity /\ k \in Int
  <2>1. m \in DOMAIN pushes /\ m % Capacity = k % Capacity
    BY <1>3 DEF S
  <2> HIDE DEF m
  <2>2. m \in 1 .. L
    BY <1>1, <2>1
  <2>3. m \in Int /\ m <= L
    BY <1>1, <2>2
  <2> QED
    BY <1>1, <2>1, <2>3
<1> HIDE DEF m
<1>5. m <= k
  BY <1>1, <1>4, ModGap
<1>6. m = k
  BY <1>1, <1>3, <1>4, <1>5
<1>7. Slot(k) = pushes[m].seq
  BY DEF Slot, m, S
<1>8. Slot(k) = pushes[k].seq
  BY <1>6, <1>7
<1> QED
  BY <1>8 DEF k

(* The slot the drain thread is reading still holds what was pushed there, *)
(* whatever the receive thread does meanwhile.                             *)
THEOREM LiveSlotIntact == PipelinesSpec => []SlotIntact
BY LiveInvIntact, LiveInvariant, PTL

(* The drain thread ends only after the receive thread is done and         *)
(* everything pushed was popped: the second look at the ring, after        *)
(* g_rx_done was read as set, loses nothing.                               *)
THEOREM LiveDrained == PipelinesSpec => []DrainedAtExit
<1>1. LiveInv => DrainedAtExit
  BY DEF LiveInv, Drains, StageInv, EveryMessageCounted, DrainedAtExit
<1> QED
  BY <1>1, LiveInvariant, PTL

-----------------------------------------------------------------------------
(* What the reference says of a list of updates: the definitions of        *)
(* LivePipeline for any sequence s of their numbers, not only that of the  *)
(* pushes.                                                                 *)

Msg(s, n) == Payload[s[n]]

Hits(s, m, nm, side, p) ==
    {n \in 1 .. m : /\ Msg(s, n).name = nm /\ Msg(s, n).side = side
                    /\ Msg(s, n).price = p}

SizeIn(s, m, nm, side, p) ==
    IF Hits(s, m, nm, side, p) = {} THEN 0
    ELSE Msg(s, Max(Hits(s, m, nm, side, p))).size

NamesIn(s, m) == {Msg(s, n).name : n \in 1 .. m}

FirstIn(s, nm) == Min({n \in DOMAIN s : Msg(s, n).name = nm})

IndexIn(s, nm) == Cardinality(NamesIn(s, FirstIn(s, nm) - 1)) < MaxSymbols

BestIn(s, m, nm, side) ==
    LET live == {p \in Prices : SizeIn(s, m, nm, side, p) # 0}
        p == IF side = "bid" THEN Max(live) ELSE Min(live)
    IN  IF live = {} THEN <<>> ELSE <<p, SizeIn(s, m, nm, side, p)>>

DueIn(s, w, n) == /\ Msg(s, n).epc
               /\ Msg(s, n).name \in w
               /\ IndexIn(s, Msg(s, n).name)

EventsIn(s, w, m) == {n \in 1 .. m : DueIn(s, w, n)}

LineIn(s, n) ==
    [seq |-> s[n], name |-> Msg(s, n).name,
     bid |-> BestIn(s, n, Msg(s, n).name, "bid"),
     ask |-> BestIn(s, n, Msg(s, n).name, "ask")]

(* Numbers of updates, in a row.                                           *)
UpdateSeq(s, len) == len \in Nat /\ s \in [1 .. len -> DOMAIN Payload]

(* An update.                                                              *)
LEMMA MsgFacts ==
  ASSUME NEW s, NEW len, UpdateSeq(s, len), NEW n \in 1 .. len
  PROVE  /\ Msg(s, n).side \in {"bid", "ask"}
         /\ Msg(s, n).price \in Prices
         /\ Msg(s, n).size \in Nat
         /\ Msg(s, n).size # 0 => Msg(s, n).size \in Sizes
         /\ Msg(s, n).epc \in BOOLEAN
         /\ s[n] \in Nat
<1>1. s[n] \in DOMAIN Payload
  BY DEF UpdateSeq
<1> QED
  BY <1>1, PayloadAssumption DEF Msg, Prices, Sizes

(* The last update of a level decides.                                     *)
LEMMA SizeIs ==
  ASSUME NEW s, NEW m \in Nat, NEW nm, NEW side, NEW p,
         NEW n \in Hits(s, m, nm, side, p),
         \A k \in Hits(s, m, nm, side, p) : k <= n
  PROVE  SizeIn(s, m, nm, side, p) = Msg(s, n).size
<1> DEFINE at == Hits(s, m, nm, side, p)
<1>1. at \subseteq Int
  BY DEF Hits
<1> HIDE DEF at
<1>2. Max(at) = n
  BY <1>1, GreatestIs DEF at
<1>3. at # {}
  BY DEF at
<1> QED
  BY <1>2, <1>3 DEF SizeIn, at

(* One more update.                                                        *)
LEMMA SizeNext ==
  ASSUME NEW s, NEW m \in Nat, NEW nm, NEW side, NEW p
  PROVE  SizeIn(s, m + 1, nm, side, p) =
           IF /\ Msg(s, m + 1).name = nm /\ Msg(s, m + 1).side = side
              /\ Msg(s, m + 1).price = p
           THEN Msg(s, m + 1).size
           ELSE SizeIn(s, m, nm, side, p)
<1> DEFINE new == Hits(s, m + 1, nm, side, p)
           old == Hits(s, m, nm, side, p)
<1>0. m + 1 \in new <=> /\ Msg(s, m + 1).name = nm /\ Msg(s, m + 1).side = side
                        /\ Msg(s, m + 1).price = p
  BY DEF Hits
<1>1. /\ \A k \in new : k = m + 1 \/ k \in old
      /\ \A k \in old : k \in new
      /\ new \subseteq 1 .. m + 1
  <2>1. \A k \in 1 .. m + 1 : k = m + 1 \/ k \in 1 .. m
    OBVIOUS
  <2>2. 1 .. m \subseteq 1 .. m + 1
    OBVIOUS
  <2> QED
    BY <2>1, <2>2 DEF Hits
<1>2. CASE m + 1 \in new
  <2>1. \A k \in new : k <= m + 1
    BY <1>1
  <2> QED
    BY <1>0, <1>2, <2>1, SizeIs
<1>3. CASE m + 1 \notin new
  <2>1. new = old
    BY <1>1, <1>3
  <2>2. SizeIn(s, m + 1, nm, side, p) = SizeIn(s, m, nm, side, p)
    BY <2>1 DEF SizeIn
  <2> QED
    BY <1>0, <1>3, <2>2
<1> QED
  BY <1>2, <1>3

(* Whether a symbol has a place is decided where it first appears.         *)
LEMMA FirstIs ==
  ASSUME NEW s, NEW len, UpdateSeq(s, len), NEW f \in 1 .. len,
         \A k \in 1 .. f - 1 : Msg(s, k).name # Msg(s, f).name
  PROVE  FirstIn(s, Msg(s, f).name) = f
<1> DEFINE nm == Msg(s, f).name
           S == {n \in DOMAIN s : Msg(s, n).name = nm}
<1>1. DOMAIN s = 1 .. len /\ len \in Nat
  BY DEF UpdateSeq
<1>2. f \in S /\ S \subseteq Int
  BY <1>1
<1>3. ASSUME NEW y \in S
      PROVE  f <= y
  <2>1. y \in 1 .. len /\ Msg(s, y).name = nm
    BY <1>1
  <2>2. y \notin 1 .. f - 1
    BY <2>1
  <2> QED
    BY <1>1, <2>1, <2>2
<1> HIDE DEF S
<1>4. Min(S) = f
  BY <1>2, <1>3, LeastIs
<1> QED
  BY <1>4 DEF FirstIn, S

(* The first appearance.                                                   *)
LEMMA FirstFacts ==
  ASSUME NEW s, NEW len, UpdateSeq(s, len), NEW n \in 1 .. len
  PROVE  LET f == FirstIn(s, Msg(s, n).name)
         IN  /\ f \in 1 .. len /\ f <= n
             /\ Msg(s, f).name = Msg(s, n).name
             /\ \A k \in 1 .. f - 1 : Msg(s, k).name # Msg(s, n).name
<1> DEFINE nm == Msg(s, n).name
           S == {k \in DOMAIN s : Msg(s, k).name = nm}
           f == Min(S)
<1>1. DOMAIN s = 1 .. len /\ len \in Nat
  BY DEF UpdateSeq
<1>2. n \in S /\ S \subseteq Nat
  BY <1>1
<1>3. f \in S /\ \A k \in S : f <= k
  <2> HIDE DEF S
  <2> QED
    BY <1>2, MinIsLeast
<1>4. f \in 1 .. len /\ Msg(s, f).name = nm /\ f <= n
  BY <1>1, <1>2, <1>3
<1>5. FirstIn(s, nm) = f
  BY DEF FirstIn
<1> HIDE DEF f
<1>6. ASSUME NEW k \in 1 .. f - 1
      PROVE  Msg(s, k).name # nm
  <2>1. k \in 1 .. len /\ ~(f <= k)
    BY <1>1, <1>4
  <2> QED
    BY <1>1, <1>3, <2>1
<1> QED
  BY <1>4, <1>5, <1>6

(* What is said of the first updates does not depend on the later ones.    *)
Extends(s, len, t, max) ==
    /\ UpdateSeq(s, len) /\ UpdateSeq(t, max) /\ len <= max
    /\ \A n \in 1 .. len : t[n] = s[n]

(* The sizes and the names.                                                *)
LEMMA ExtendsSizes ==
  ASSUME NEW s, NEW len, NEW t, NEW max, Extends(s, len, t, max), NEW m \in 0 .. len
  PROVE  /\ \A nm, side, p : SizeIn(t, m, nm, side, p) = SizeIn(s, m, nm, side, p)
         /\ NamesIn(t, m) = NamesIn(s, m)
<1>0. \A n \in 1 .. m : n \in 1 .. len
  BY DEF Extends, UpdateSeq
<1>1. \A n \in 1 .. m : Msg(t, n) = Msg(s, n)
  BY <1>0 DEF Msg, Extends
<1>2. ASSUME NEW nm, NEW side, NEW p
      PROVE  SizeIn(t, m, nm, side, p) = SizeIn(s, m, nm, side, p)
  <2> DEFINE at == Hits(s, m, nm, side, p)
  <2>1. Hits(t, m, nm, side, p) = at
    BY <1>1 DEF Hits
  <2>2. CASE at = {}
    BY <2>1, <2>2 DEF SizeIn
  <2>3. CASE at # {}
    <3>1. at \subseteq 0 .. m /\ m \in Nat /\ at \subseteq 1 .. m
      BY DEF Hits, Extends, UpdateSeq
    <3>2. Max(at) \in 1 .. m
      <4> HIDE DEF at
      <4> QED
        BY <2>3, <3>1, MaxIsGreatest
    <3>3. Msg(t, Max(at)) = Msg(s, Max(at))
      BY <1>1, <3>2
    <3> QED
      BY <2>1, <2>3, <3>3 DEF SizeIn
  <2> QED
    BY <2>2, <2>3
<1> QED
  BY <1>1, <1>2 DEF NamesIn

(* Whether a symbol has an index.                                          *)
LEMMA ExtendsIndices ==
  ASSUME NEW s, NEW len, NEW t, NEW max, Extends(s, len, t, max), NEW n \in 1 .. len
  PROVE  IndexIn(t, Msg(s, n).name) <=> IndexIn(s, Msg(s, n).name)
<1> DEFINE nm == Msg(s, n).name
           f == FirstIn(s, nm)
<1>1. len \in Nat /\ max \in Nat /\ len <= max /\ UpdateSeq(s, len) /\ UpdateSeq(t, max)
      /\ \A k \in 1 .. len : Msg(t, k) = Msg(s, k) /\ k \in 1 .. max
  BY DEF Extends, UpdateSeq, Msg
<1>2. /\ f \in 1 .. len /\ Msg(s, f).name = nm
      /\ \A k \in 1 .. f - 1 : Msg(s, k).name # nm
  BY <1>1, FirstFacts
<1> HIDE DEF f
<1>3. \A k \in 1 .. f - 1 : k \in 1 .. len
  BY <1>1, <1>2
<1>4. FirstIn(t, Msg(t, f).name) = f
  BY <1>1, <1>2, <1>3, FirstIs
<1>5. FirstIn(t, nm) = f
  BY <1>1, <1>2, <1>4
<1>6. NamesIn(t, f - 1) = NamesIn(s, f - 1)
  <2>1. f - 1 \in 0 .. len
    BY <1>1, <1>2
  <2> QED
    BY <2>1, ExtendsSizes
<1> QED
  BY <1>5, <1>6 DEF IndexIn, f

(* The events and their lines.                                             *)
LEMMA ExtendsLines ==
  ASSUME NEW s, NEW len, NEW t, NEW max, Extends(s, len, t, max), NEW m \in 0 .. len,
         NEW w
  PROVE  /\ EventsIn(t, w, m) = EventsIn(s, w, m)
         /\ m > 0 => LineIn(t, m) = LineIn(s, m)
<1>1. \A n \in 1 .. m : /\ n \in 1 .. len /\ Msg(t, n) = Msg(s, n) /\ t[n] = s[n]
                        /\ IndexIn(t, Msg(s, n).name) <=> IndexIn(s, Msg(s, n).name)
  <2>1. \A n \in 1 .. m : n \in 1 .. len
    BY DEF Extends, UpdateSeq
  <2> QED
    BY <2>1, ExtendsIndices DEF Extends, Msg
<1>2. EventsIn(t, w, m) = EventsIn(s, w, m)
  BY <1>1 DEF EventsIn, DueIn
<1>3. ASSUME m > 0
      PROVE  LineIn(t, m) = LineIn(s, m)
  <2>1. m \in 1 .. m
    BY <1>3 DEF Extends, UpdateSeq
  <2>2. \A nm, side : BestIn(t, m, nm, side) = BestIn(s, m, nm, side)
    <3>1. \A nm, side, p : SizeIn(t, m, nm, side, p) = SizeIn(s, m, nm, side, p)
      BY ExtendsSizes
    <3>2. ASSUME NEW nm, NEW side
          PROVE  BestIn(t, m, nm, side) = BestIn(s, m, nm, side)
      <4>1. {p \in Prices : SizeIn(t, m, nm, side, p) # 0}
              = {p \in Prices : SizeIn(s, m, nm, side, p) # 0}
        BY <3>1
      <4> QED
        BY <3>1, <4>1 DEF BestIn
    <3> QED
      BY <3>2
  <2> QED
    BY <1>1, <2>1, <2>2 DEF LineIn
<1> QED
  BY <1>2, <1>3

-----------------------------------------------------------------------------
(* The symbol table.                                                       *)

(* tab has the first names of the first d updates, each once.              *)
Table(s, d, tab) ==
    /\ \E S : tab \in Seq(S)
    /\ Len(tab) <= MaxSymbols
    /\ \A j, k \in 1 .. Len(tab) : tab[j] = tab[k] => j = k
    /\ ToSet(tab) \subseteq NamesIn(s, d)
    /\ Len(tab) < MaxSymbols => NamesIn(s, d) \subseteq ToSet(tab)
    /\ \A n \in 1 .. d : Known(tab, Msg(s, n).name) <=> IndexIn(s, Msg(s, n).name)

(* As many names as entries.                                               *)
LEMMA TableCount ==
  ASSUME NEW s, NEW d \in Nat, NEW tab, Table(s, d, tab)
  PROVE  /\ Len(tab) \in Nat /\ DOMAIN tab = 1 .. Len(tab)
         /\ Cardinality(ToSet(tab)) = Len(tab)
         /\ IsFiniteSet(NamesIn(s, d)) /\ Cardinality(NamesIn(s, d)) \in Nat
         /\ Cardinality(NamesIn(s, d)) < MaxSymbols <=> Len(tab) < MaxSymbols
<1> DEFINE D == 1 .. Len(tab)
           g == [n \in 1 .. d |-> Msg(s, n).name]
<1>1. Len(tab) \in Nat /\ DOMAIN tab = D /\ Len(tab) <= MaxSymbols /\ MaxSymbols \in Nat
  BY PayloadAssumption DEF Table
<1>2. IsFiniteSet(D) /\ Cardinality(D) = Len(tab)
  BY <1>1, FirstNumbers
<1>3. ToSet(tab) = {tab[x] : x \in D}
  BY <1>1 DEF ToSet
<1>4. \A x, y \in D : tab[x] = tab[y] => x = y
  BY DEF Table
<1>5. Cardinality(ToSet(tab)) = Len(tab)
  <2> HIDE DEF D
  <2> QED
    BY <1>2, <1>3, <1>4, InjectiveImage
<1>6. IsFiniteSet(NamesIn(s, d))
  <2>1. IsFiniteSet(1 .. d)
    BY FirstNumbers
  <2>2. IsFiniteSet({g[n] : n \in 1 .. d})
    <3> HIDE DEF g
    <3> QED
      BY <2>1, FiniteImage
  <2>3. {g[n] : n \in 1 .. d} = NamesIn(s, d)
    BY DEF NamesIn
  <2> QED
    BY <2>2, <2>3
<1>7. Cardinality(NamesIn(s, d)) \in Nat
  BY <1>6, FS_CardinalityType
<1>8. Len(tab) <= Cardinality(NamesIn(s, d))
  <2>1. ToSet(tab) \subseteq NamesIn(s, d)
    BY DEF Table
  <2> QED
    BY <1>5, <1>6, <2>1, FS_Subset
<1>9. Len(tab) < MaxSymbols => Cardinality(NamesIn(s, d)) = Len(tab)
  <2>1. Len(tab) < MaxSymbols => NamesIn(s, d) = ToSet(tab)
    BY DEF Table
  <2> QED
    BY <1>5, <2>1
<1> QED
  BY <1>1, <1>5, <1>6, <1>7, <1>8, <1>9

(* Where a name is.                                                        *)
LEMMA IndexFacts ==
  ASSUME NEW s, NEW d \in Nat, NEW tab, Table(s, d, tab), NEW nm, Known(tab, nm)
  PROVE  /\ IndexOf(tab, nm) \in 0 .. Len(tab) - 1
         /\ IndexOf(tab, nm) + 1 \in 1 .. Len(tab)
         /\ tab[IndexOf(tab, nm) + 1] = nm
<1>1. Len(tab) \in Nat /\ DOMAIN tab = 1 .. Len(tab)
  BY TableCount
<1>2. \E k \in 1 .. Len(tab) : tab[k] = nm
  BY <1>1 DEF Known, ToSet
<1> DEFINE c == CHOOSE k \in 1 .. Len(tab) : tab[k] = nm
<1>3. c \in 1 .. Len(tab) /\ tab[c] = nm
  BY <1>2
<1>4. IndexOf(tab, nm) = c - 1
  BY DEF IndexOf
<1> HIDE DEF c
<1>5. (c - 1) + 1 = c /\ c - 1 \in 0 .. Len(tab) - 1
  BY <1>1, <1>3
<1> QED
  BY <1>3, <1>4, <1>5

(* Looking up the name of the next update.                                 *)
LEMMA InternStep ==
  ASSUME NEW s, NEW len, UpdateSeq(s, len), NEW d \in Nat, d + 1 <= len,
         NEW tab, Table(s, d, tab)
  PROVE  LET nm  == Msg(s, d + 1).name
             new == Interned(tab, nm)
         IN  /\ Table(s, d + 1, new)
             /\ Len(new) \in Nat /\ Len(tab) <= Len(new)
             /\ \A k \in 1 .. Len(tab) : new[k] = tab[k]
             /\ \A k \in 1 .. Len(new) : k > Len(tab) => new[k] \notin NamesIn(s, d)
<1> DEFINE nm == Msg(s, d + 1).name
           new == Interned(tab, nm)
<1>0. /\ Len(tab) \in Nat /\ DOMAIN tab = 1 .. Len(tab) /\ MaxSymbols \in Nat
      /\ Len(tab) <= MaxSymbols
      /\ Cardinality(NamesIn(s, d)) < MaxSymbols <=> Len(tab) < MaxSymbols
      /\ len \in Nat /\ d + 1 \in 1 .. len
  BY TableCount, PayloadAssumption DEF Table, UpdateSeq
<1>a. Len(tab) # MaxSymbols => Len(tab) < MaxSymbols
  <2>1. Len(tab) \in Nat /\ MaxSymbols \in Nat /\ Len(tab) <= MaxSymbols
    BY <1>0
  <2> QED
    BY <2>1
<1>1. NamesIn(s, d + 1) = NamesIn(s, d) \cup {nm}
  <2>1. 1 .. d + 1 = 1 .. d \cup {d + 1}
    OBVIOUS
  <2> QED
    BY <2>1 DEF NamesIn
<1>2. nm \in NamesIn(s, d) <=> \E n \in 1 .. d : Msg(s, n).name = nm
  BY DEF NamesIn
<1>3. nm \notin NamesIn(s, d) => (IndexIn(s, nm) <=> Len(tab) < MaxSymbols)
  <2> SUFFICES ASSUME nm \notin NamesIn(s, d)
               PROVE  IndexIn(s, nm) <=> Len(tab) < MaxSymbols
    OBVIOUS
  <2>1. \A k \in 1 .. (d + 1) - 1 : Msg(s, k).name # Msg(s, d + 1).name
    BY <1>2
  <2>2. FirstIn(s, nm) = d + 1
    BY <1>0, <2>1, FirstIs
  <2>3. FirstIn(s, nm) - 1 = d
    BY <2>2
  <2> QED
    BY <1>0, <2>3 DEF IndexIn
<1>4. nm \in NamesIn(s, d) => (Known(tab, nm) <=> IndexIn(s, nm))
  BY <1>2 DEF Table
<1> HIDE DEF nm
<1>5. CASE Known(tab, nm) \/ Len(tab) = MaxSymbols
  <2>1. new = tab
    BY <1>5 DEF Interned
  <2>2. Known(tab, nm) => nm \in NamesIn(s, d)
    BY DEF Known, Table
  <2>a. Len(tab) = MaxSymbols => ~(Len(tab) < MaxSymbols)
    BY <1>0
  <2>3. Known(tab, nm) <=> IndexIn(s, nm)
    <3>1. CASE nm \in NamesIn(s, d)
      BY <1>4, <3>1
    <3>2. CASE nm \notin NamesIn(s, d)
      <4>1. ~Known(tab, nm) /\ Len(tab) = MaxSymbols
        BY <1>5, <2>2, <3>2
      <4>2. ~IndexIn(s, nm)
        BY <1>3, <2>a, <3>2, <4>1
      <4> QED
        BY <4>1, <4>2
    <3> QED
      BY <3>1, <3>2
  <2>4. \A n \in 1 .. d + 1 : Known(tab, Msg(s, n).name) <=> IndexIn(s, Msg(s, n).name)
    <3>1. \A n \in 1 .. d + 1 : n \in 1 .. d \/ n = d + 1
      OBVIOUS
    <3> QED
      BY <2>3, <3>1 DEF Table, nm
  <2>5. Len(tab) < MaxSymbols => nm \in ToSet(tab)
    BY <1>5, <2>a DEF Known
  <2>6. Table(s, d + 1, tab)
    BY <1>1, <2>4, <2>5 DEF Table
  <2> QED
    BY <1>0, <2>1, <2>6 DEF nm
<1>6. CASE ~Known(tab, nm) /\ Len(tab) # MaxSymbols
  <2>1. new = Append(tab, nm)
    BY <1>6 DEF Interned
  <2>2. Len(tab) < MaxSymbols /\ NamesIn(s, d) = ToSet(tab)
    BY <1>6, <1>a DEF Table
  <2>3. nm \notin NamesIn(s, d)
    BY <1>6, <2>2 DEF Known
  <2>4. PICK S : tab \in Seq(S)
    BY DEF Table
  <2>5. tab \in Seq(S \cup {nm})
    BY <2>4
  <2>6. /\ new \in Seq(S \cup {nm}) /\ Len(new) = Len(tab) + 1
        /\ DOMAIN new = 1 .. Len(tab) + 1
        /\ \A k \in 1 .. Len(tab) : new[k] = tab[k]
        /\ new[Len(tab) + 1] = nm
    <3> HIDE DEF new
    <3> QED
      BY <2>1, <2>5
  <2> HIDE DEF new
  <2>7. \A k \in 1 .. Len(tab) + 1 : k \in 1 .. Len(tab) \/ k = Len(tab) + 1
    BY <1>0
  <2>8. 1 .. Len(tab) \subseteq 1 .. Len(tab) + 1 /\ Len(tab) + 1 \in 1 .. Len(tab) + 1
    BY <1>0
  <2>9. ToSet(new) = ToSet(tab) \cup {nm}
    BY <1>0, <2>6, <2>7, <2>8 DEF ToSet
  <2>10. \A j, k \in 1 .. Len(new) : new[j] = new[k] => j = k
    <3>1. \A k \in 1 .. Len(tab) : tab[k] # nm
      BY <1>0, <1>6 DEF Known, ToSet
    <3>2. \A j, k \in 1 .. Len(tab) : tab[j] = tab[k] => j = k
      BY DEF Table
    <3> QED
      BY <2>6, <2>7, <3>1, <3>2
  <2>11. \A n \in 1 .. d + 1 : Known(new, Msg(s, n).name) <=> IndexIn(s, Msg(s, n).name)
    <3>1. \A n \in 1 .. d + 1 : n \in 1 .. d \/ n = d + 1
      OBVIOUS
    <3>2. \A n \in 1 .. d : Known(tab, Msg(s, n).name) <=> IndexIn(s, Msg(s, n).name)
      BY DEF Table
    <3>3. \A n \in 1 .. d : Msg(s, n).name \in NamesIn(s, d)
      BY DEF NamesIn
    <3>4. \A x : Known(new, x) <=> Known(tab, x) \/ x = nm
      BY <2>9 DEF Known
    <3>5. \A n \in 1 .. d : Known(new, Msg(s, n).name) <=> IndexIn(s, Msg(s, n).name)
      BY <2>2, <3>2, <3>3, <3>4 DEF Known
    <3>6. Known(new, nm) /\ IndexIn(s, nm)
      BY <1>3, <2>2, <2>3, <3>4
    <3> QED
      BY <3>1, <3>5, <3>6 DEF nm
  <2>12. Table(s, d + 1, new)
    <3>1. Len(new) <= MaxSymbols
      BY <1>0, <2>2, <2>6
    <3> QED
      BY <1>1, <2>2, <2>6, <2>9, <2>10, <2>11, <3>1 DEF Table
  <2>13. \A k \in 1 .. Len(new) : k > Len(tab) => new[k] \notin NamesIn(s, d)
    BY <1>0, <2>3, <2>6, <2>7
  <2> QED
    BY <1>0, <2>6, <2>12, <2>13 DEF nm, new
<1> QED
  BY <1>5, <1>6

-----------------------------------------------------------------------------
(* The lines.                                                              *)

(* A level nothing was said of.                                            *)
LEMMA NothingSaid ==
  ASSUME NEW s, NEW m, NEW nm, nm \notin NamesIn(s, m), NEW side, NEW p
  PROVE  SizeIn(s, m, nm, side, p) = 0
<1>1. Hits(s, m, nm, side, p) = {}
  BY DEF Hits, NamesIn
<1> QED
  BY <1>1 DEF SizeIn

(* The events up to an update are counted one by one.                      *)
LEMMA EventsNext ==
  ASSUME NEW s, NEW w, NEW m \in Nat
  PROVE  /\ IsFiniteSet(EventsIn(s, w, m)) /\ Cardinality(EventsIn(s, w, m)) \in Nat
         /\ DueIn(s, w, m + 1) =>
              /\ EventsIn(s, w, m + 1) = EventsIn(s, w, m) \cup {m + 1}
              /\ Cardinality(EventsIn(s, w, m + 1)) = Cardinality(EventsIn(s, w, m)) + 1
         /\ ~DueIn(s, w, m + 1) => EventsIn(s, w, m + 1) = EventsIn(s, w, m)
<1> DEFINE old == EventsIn(s, w, m)
           new == EventsIn(s, w, m + 1)
<1>1. IsFiniteSet(1 .. m) /\ old \subseteq 1 .. m
  BY FirstNumbers DEF EventsIn
<1>2. IsFiniteSet(old) /\ Cardinality(old) \in Nat
  BY <1>1, FS_Subset, FS_CardinalityType
<1>3. 1 .. m + 1 = 1 .. m \cup {m + 1} /\ m + 1 \notin 1 .. m
  OBVIOUS
<1>4. m + 1 \notin old
  BY <1>1, <1>3
<1>5. CASE DueIn(s, w, m + 1)
  <2>1. new = old \cup {m + 1}
    BY <1>3, <1>5 DEF EventsIn
  <2>2. Cardinality(new) = Cardinality(old) + 1
    BY <1>2, <1>4, <2>1, FS_AddElement
  <2> QED
    BY <1>2, <1>5, <2>1, <2>2
<1>6. CASE ~DueIn(s, w, m + 1)
  <2>1. new = old
    BY <1>3, <1>6 DEF EventsIn
  <2> QED
    BY <1>2, <1>6, <2>1
<1> QED
  BY <1>5, <1>6

(* The place of an event's line.                                           *)
LEMMA EventsBelow ==
  ASSUME NEW s, NEW w, NEW m \in Nat, NEW n \in EventsIn(s, w, m)
  PROVE  Cardinality(EventsIn(s, w, n)) \in 1 .. Cardinality(EventsIn(s, w, m))
<1>1. n \in 1 .. m /\ n \in Nat /\ DueIn(s, w, n)
  BY DEF EventsIn
<1>2. n \in EventsIn(s, w, n)
  BY <1>1 DEF EventsIn
<1>3. EventsIn(s, w, n) \subseteq EventsIn(s, w, m)
  BY <1>1 DEF EventsIn
<1>4. /\ IsFiniteSet(EventsIn(s, w, n)) /\ Cardinality(EventsIn(s, w, n)) \in Nat
      /\ IsFiniteSet(EventsIn(s, w, m)) /\ Cardinality(EventsIn(s, w, m)) \in Nat
  BY <1>1, EventsNext
<1>5. Cardinality(EventsIn(s, w, n)) <= Cardinality(EventsIn(s, w, m))
  BY <1>3, <1>4, FS_Subset
<1>6. Cardinality(EventsIn(s, w, n)) # 0
  BY <1>2, <1>4, FS_EmptySet
<1> QED
  BY <1>4, <1>5, <1>6

(* The lines of the events of the first m updates, in order.               *)
Shown(s, w, m, out) ==
    /\ \E S : out \in Seq(S)
    /\ Len(out) = Cardinality(EventsIn(s, w, m))
    /\ \A n \in EventsIn(s, w, m) :
         out[Cardinality(EventsIn(s, w, n))] = LineIn(s, n)

(* One more line, or none.                                                 *)
LEMMA ShownNext ==
  ASSUME NEW s, NEW w, NEW m \in Nat, NEW out, Shown(s, w, m, out)
  PROVE  /\ DueIn(s, w, m + 1) => Shown(s, w, m + 1, Append(out, LineIn(s, m + 1)))
         /\ ~DueIn(s, w, m + 1) => Shown(s, w, m + 1, out)
<1> DEFINE old == EventsIn(s, w, m)
           new == EventsIn(s, w, m + 1)
           line == LineIn(s, m + 1)
<1>1. CASE DueIn(s, w, m + 1)
  <2>1. new = old \cup {m + 1} /\ Cardinality(new) = Cardinality(old) + 1
    BY <1>1, EventsNext
  <2>2. Len(out) = Cardinality(old) /\ Cardinality(old) \in Nat
    BY EventsNext DEF Shown
  <2>3. PICK S : out \in Seq(S)
    BY DEF Shown
  <2>4. out \in Seq(S \cup {line})
    BY <2>3
  <2> HIDE DEF line
  <2>5. /\ Append(out, line) \in Seq(S \cup {line})
        /\ Len(Append(out, line)) = Len(out) + 1
        /\ \A k \in 1 .. Len(out) : Append(out, line)[k] = out[k]
        /\ Append(out, line)[Len(out) + 1] = line
    BY <2>4
  <2>6. ASSUME NEW n \in new
        PROVE  Append(out, line)[Cardinality(EventsIn(s, w, n))] = LineIn(s, n)
    <3>1. CASE n \in old
      <4>1. Cardinality(EventsIn(s, w, n)) \in 1 .. Len(out)
        BY <2>2, <3>1, EventsBelow
      <4>2. out[Cardinality(EventsIn(s, w, n))] = LineIn(s, n)
        BY <3>1 DEF Shown
      <4> QED
        BY <2>5, <4>1, <4>2
    <3>2. CASE n = m + 1
      <4>1. Cardinality(EventsIn(s, w, n)) = Len(out) + 1
        BY <2>1, <2>2, <3>2
      <4> QED
        BY <2>5, <3>2, <4>1 DEF line
    <3> QED
      BY <2>1, <3>1, <3>2
  <2>7. Len(Append(out, line)) = Cardinality(new)
    BY <2>1, <2>2, <2>5
  <2>8. Shown(s, w, m + 1, Append(out, line))
    BY <2>5, <2>6, <2>7 DEF Shown
  <2> QED
    BY <1>1, <2>8 DEF line
<1>2. CASE ~DueIn(s, w, m + 1)
  <2>1. new = old
    BY <1>2, EventsNext
  <2> QED
    BY <1>2, <2>1 DEF Shown
<1> QED
  BY <1>1, <1>2

-----------------------------------------------------------------------------
(* The books.                                                              *)

(* The size shown for a price.                                             *)
SizeAt(f, p) == IF p \in DOMAIN f THEN f[p] ELSE 0

(* In book b price p got size z (0: it went), and nothing else changed.    *)
Changed(lv, lw, b, p, z) ==
    /\ \A c \in Book!Books : c # b => lw[c] = lv[c]
    /\ DOMAIN lw[b] = IF z = 0 THEN DOMAIN lv[b] \ {p} ELSE DOMAIN lv[b] \cup {p}
    /\ \A q \in DOMAIN lw[b] : lw[b][q] = IF q = p THEN z ELSE lv[b][q]

(* An update of a book that loses no level.                                *)
LEMMA BookStep ==
  ASSUME NEW b \in Book!Books, NEW p, NEW z,
         DOMAIN levels = Book!Books,
         "overflow" \in DOMAIN bookSt, bookSt.overflow \in Nat,
         Book!Apply(b, p, z)
  PROVE  /\ DOMAIN levels' = Book!Books
         /\ "overflow" \in DOMAIN bookSt' /\ bookSt'.overflow \in Nat
         /\ bookSt.overflow <= bookSt'.overflow
         /\ bookSt'.overflow = 0 => Changed(levels, levels', b, p, z)
<1> DEFINE More(fields, depth) == Book!Count(fields, depth)
<1>1. ASSUME NEW fields, NEW depth, More(fields, depth)
      PROVE  /\ "overflow" \in DOMAIN bookSt'
             /\ "overflow" \in fields => bookSt'.overflow = bookSt.overflow + 1
             /\ "overflow" \notin fields => bookSt'.overflow = bookSt.overflow
  <2>1. bookSt' = Book!Counted(bookSt, fields, depth)
    BY <1>1 DEF Book!Count
  <2>2. /\ DOMAIN bookSt' = DOMAIN bookSt
        /\ bookSt'.overflow = IF "overflow" \in fields \cup {"applied"}
                              THEN bookSt.overflow + 1 ELSE bookSt.overflow
    BY <2>1 DEF Book!Counted
  <2>3. "overflow" \in fields \cup {"applied"} <=> "overflow" \in fields
    OBVIOUS
  <2> QED
    BY <2>2, <2>3
<1> HIDE DEF More
<1>2. CASE z = 0 /\ Book!Delete(b, p)
  <2>1. /\ p \in DOMAIN levels[b]
        /\ More({"deleted"}, Book!Depth(levels[b]) - 1)
        /\ levels' = [levels EXCEPT ![b] = Book!Without(levels[b], p)]
    BY <1>2 DEF Book!Delete, More
  <2>2. /\ DOMAIN levels' = Book!Books /\ levels'[b] = Book!Without(levels[b], p)
        /\ \A c \in Book!Books : c # b => levels'[c] = levels[c]
    BY <2>1
  <2>3. /\ DOMAIN levels'[b] = DOMAIN levels[b] \ {p}
        /\ \A q \in DOMAIN levels'[b] : levels'[b][q] = levels[b][q] /\ q # p
    BY <2>2 DEF Book!Without
  <2>4. "overflow" \notin {"deleted"}
    OBVIOUS
  <2>5. "overflow" \in DOMAIN bookSt' /\ bookSt'.overflow = bookSt.overflow
    BY <1>1, <2>1, <2>4
  <2> QED
    BY <1>2, <2>2, <2>3, <2>5 DEF Changed
<1>3. CASE z = 0 /\ Book!DeleteMissing(b, p)
  <2>1. p \notin DOMAIN levels[b] /\ More({"delete_missing"}, 0) /\ levels' = levels
    BY <1>3 DEF Book!DeleteMissing, More
  <2>2. "overflow" \notin {"delete_missing"}
    OBVIOUS
  <2>3. "overflow" \in DOMAIN bookSt' /\ bookSt'.overflow = bookSt.overflow
    BY <1>1, <2>1, <2>2
  <2> QED
    BY <1>3, <2>1, <2>3 DEF Changed
<1>4. CASE z # 0 /\ Book!Update(b, p, z)
  <2>1. /\ p \in DOMAIN levels[b]
        /\ More({"updated"}, Book!Depth(levels[b]))
        /\ levels' = [levels EXCEPT ![b][p] = z]
    BY <1>4 DEF Book!Update, More
  <2>2. /\ DOMAIN levels' = Book!Books
        /\ levels'[b] = [levels[b] EXCEPT ![p] = z]
        /\ \A c \in Book!Books : c # b => levels'[c] = levels[c]
    BY <2>1
  <2>3. /\ DOMAIN levels'[b] = DOMAIN levels[b] \cup {p}
        /\ \A q \in DOMAIN levels'[b] :
             levels'[b][q] = IF q = p THEN z ELSE levels[b][q]
    BY <2>1, <2>2
  <2>4. "overflow" \notin {"updated"}
    OBVIOUS
  <2>5. "overflow" \in DOMAIN bookSt' /\ bookSt'.overflow = bookSt.overflow
    BY <1>1, <2>1, <2>4
  <2> QED
    BY <1>4, <2>2, <2>3, <2>5 DEF Changed
<1>5. CASE z # 0 /\ Book!Insert(b, p, z)
  <2>1. /\ p \notin DOMAIN levels[b]
        /\ More({"inserted"}, Book!Depth(levels[b]) + 1)
        /\ levels' = [levels EXCEPT ![b] = Book!With(levels[b], p, z)]
    BY <1>5 DEF Book!Insert, More
  <2>2. /\ DOMAIN levels' = Book!Books /\ levels'[b] = Book!With(levels[b], p, z)
        /\ \A c \in Book!Books : c # b => levels'[c] = levels[c]
    BY <2>1
  <2>3. /\ DOMAIN levels'[b] = DOMAIN levels[b] \cup {p}
        /\ \A q \in DOMAIN levels'[b] :
             levels'[b][q] = IF q = p THEN z ELSE levels[b][q]
    BY <2>2 DEF Book!With
  <2>4. "overflow" \notin {"inserted"}
    OBVIOUS
  <2>5. "overflow" \in DOMAIN bookSt' /\ bookSt'.overflow = bookSt.overflow
    BY <1>1, <2>1, <2>4
  <2> QED
    BY <1>5, <2>2, <2>3, <2>5 DEF Changed
<1>6. CASE z # 0 /\ Book!Displace(b, p, z)
  <2>1. /\ More({"inserted", "overflow"}, MaxLevels)
        /\ \E q \in DOMAIN levels[b] :
             levels' = [levels EXCEPT ![b] = Book!With(Book!Without(levels[b], q), p, z)]
    BY <1>6 DEF Book!Displace, More
  <2>2. DOMAIN levels' = Book!Books
    BY <2>1
  <2>3. "overflow" \in {"inserted", "overflow"}
    OBVIOUS
  <2>4. "overflow" \in DOMAIN bookSt' /\ bookSt'.overflow = bookSt.overflow + 1
    BY <1>1, <2>1, <2>3
  <2> QED
    BY <2>2, <2>4
<1>7. CASE z # 0 /\ Book!Refuse(b, p)
  <2>1. More({"overflow"}, 0) /\ levels' = levels
    BY <1>7 DEF Book!Refuse, More
  <2>2. "overflow" \in {"overflow"}
    OBVIOUS
  <2>3. "overflow" \in DOMAIN bookSt' /\ bookSt'.overflow = bookSt.overflow + 1
    BY <1>1, <2>1, <2>2
  <2> QED
    BY <2>1, <2>3
<1> QED
  BY <1>2, <1>3, <1>4, <1>5, <1>6, <1>7 DEF Book!Apply

-----------------------------------------------------------------------------
(* What the books hold.                                                    *)

(* In the books lv is, per level, what the last of the first m updates of  *)
(* it said, for the symbols that have an index.                            *)
BooksShow(s, m, tab, lv) ==
    \A sym \in Indices, side \in {"bid", "ask"} :
        LET f == lv[<<sym, side>>]
        IN  /\ DOMAIN f \subseteq Prices
            /\ \A p \in DOMAIN f : f[p] # 0
            /\ \A p : SizeAt(f, p) = IF sym < Len(tab)
                                     THEN SizeIn(s, m, tab[sym + 1], side, p) ELSE 0

(* The update of a message whose symbol has an index.                      *)
LEMMA DecodedFacts ==
  ASSUME NEW s, NEW len, UpdateSeq(s, len), NEW n \in 1 .. len, NEW d \in Nat,
         NEW tab, Table(s, d, tab), Known(tab, Msg(s, n).name)
  PROVE  LET x == Decoded(s[n], tab)
         IN  /\ x.sym = IndexOf(tab, Msg(s, n).name)
             /\ x.sym \in Indices /\ x.sym < Len(tab)
             /\ tab[x.sym + 1] = Msg(s, n).name
             /\ x.seq = s[n] /\ x.side = Msg(s, n).side /\ x.price = Msg(s, n).price
             /\ x.size = Msg(s, n).size /\ x.epc = Msg(s, n).epc
             /\ x # NoUpdate
<1> DEFINE nm == Msg(s, n).name
           x == Decoded(s[n], tab)
<1>1. x = [sym |-> IndexOf(tab, nm), seq |-> s[n], side |-> Msg(s, n).side,
           price |-> Msg(s, n).price, size |-> Msg(s, n).size,
           epc |-> Msg(s, n).epc]
  BY DEF Decoded, Msg
<1>2. /\ IndexOf(tab, nm) \in 0 .. Len(tab) - 1
      /\ tab[IndexOf(tab, nm) + 1] = nm
      /\ Len(tab) \in Nat /\ MaxSymbols \in Nat /\ Len(tab) <= MaxSymbols
  BY IndexFacts, TableCount, PayloadAssumption DEF Table
<1>3. /\ x.sym = IndexOf(tab, nm)
      /\ x.seq = s[n] /\ x.side = Msg(s, n).side /\ x.price = Msg(s, n).price
      /\ x.size = Msg(s, n).size /\ x.epc = Msg(s, n).epc
  BY <1>1
<1> HIDE DEF x
<1>4. x.sym \in Indices /\ x.sym < Len(tab) /\ x.sym # -1
  BY <1>2, <1>3 DEF Indices
<1>5. x # NoUpdate
  BY <1>4 DEF NoUpdate
<1> QED
  BY <1>2, <1>3, <1>4, <1>5 DEF x

(* Only the update's own level changes, to what the update says.           *)
LEMMA BooksNext ==
  ASSUME NEW s, NEW len, UpdateSeq(s, len), NEW m \in Nat, m + 1 <= len,
         NEW tab, Table(s, m + 1, tab), Known(tab, Msg(s, m + 1).name),
         NEW lv, BooksShow(s, m, tab, lv), NEW x, x = Decoded(s[m + 1], tab),
         NEW lw, Changed(lv, lw, <<x.sym, x.side>>, x.price, x.size)
  PROVE  BooksShow(s, m + 1, tab, lw)
<1> DEFINE msg == Msg(s, m + 1)
           b == <<x.sym, x.side>>
<1>0. m + 1 \in 1 .. len /\ m + 1 \in Nat
  BY DEF UpdateSeq
<1>1. /\ x.sym \in Indices /\ x.sym < Len(tab) /\ tab[x.sym + 1] = msg.name
      /\ x.side = msg.side /\ x.price = msg.price /\ x.size = msg.size
  BY <1>0, DecodedFacts
<1>2. msg.side \in {"bid", "ask"} /\ msg.price \in Prices
  BY <1>0, MsgFacts
<1> SUFFICES ASSUME NEW sym \in Indices, NEW side \in {"bid", "ask"}
             PROVE  LET f == lw[<<sym, side>>]
                    IN  /\ DOMAIN f \subseteq Prices
                        /\ \A p \in DOMAIN f : f[p] # 0
                        /\ \A p : SizeAt(f, p) =
                                    IF sym < Len(tab)
                                    THEN SizeIn(s, m + 1, tab[sym + 1], side, p)
                                    ELSE 0
  BY DEF BooksShow
<1> DEFINE f == lv[<<sym, side>>]
           g == lw[<<sym, side>>]
<1>3. /\ DOMAIN f \subseteq Prices
      /\ \A p \in DOMAIN f : f[p] # 0
      /\ \A p : SizeAt(f, p) = IF sym < Len(tab)
                               THEN SizeIn(s, m, tab[sym + 1], side, p) ELSE 0
  BY DEF BooksShow
<1>4. <<sym, side>> \in Book!Books
  BY DEF Book!Books, Book!Sides
<1>5. \A p : SizeIn(s, m + 1, tab[sym + 1], side, p) =
               IF msg.name = tab[sym + 1] /\ msg.side = side /\ msg.price = p
               THEN msg.size ELSE SizeIn(s, m, tab[sym + 1], side, p)
  BY SizeNext
<1>6. CASE <<sym, side>> = b
  <2>1. sym = x.sym /\ side = x.side
    BY <1>6
  <2>2. /\ DOMAIN g = IF x.size = 0 THEN DOMAIN f \ {x.price}
                      ELSE DOMAIN f \cup {x.price}
        /\ \A q \in DOMAIN g : g[q] = IF q = x.price THEN x.size ELSE f[q]
    BY <1>6 DEF Changed
  <2> HIDE DEF g, f, b
  <2>3. DOMAIN g \subseteq Prices
    BY <1>1, <1>2, <1>3, <2>2
  <2>4. \A p \in DOMAIN g : g[p] # 0
    BY <1>3, <2>2
  <2>5. \A p : SizeAt(g, p) = IF p = x.price THEN x.size ELSE SizeAt(f, p)
    BY <2>2 DEF SizeAt
  <2>6. \A p : SizeIn(s, m + 1, tab[sym + 1], side, p) =
                 IF p = x.price THEN x.size ELSE SizeIn(s, m, tab[sym + 1], side, p)
    BY <1>1, <1>5, <2>1
  <2>7. sym < Len(tab)
    BY <1>1, <2>1
  <2>8. \A p : SizeAt(g, p) = SizeIn(s, m + 1, tab[sym + 1], side, p)
    BY <1>3, <2>5, <2>6, <2>7
  <2> QED
    BY <2>3, <2>4, <2>7, <2>8 DEF g
<1>7. CASE <<sym, side>> # b
  <2>1. g = f
    BY <1>4, <1>7 DEF Changed
  <2>2. ASSUME sym < Len(tab)
        PROVE  ~(msg.name = tab[sym + 1] /\ msg.side = side)
    <3> SUFFICES ASSUME msg.name = tab[sym + 1], msg.side = side
                 PROVE  FALSE
      OBVIOUS
    <3>1. /\ Len(tab) \in Nat
          /\ \A j, k \in 1 .. Len(tab) : tab[j] = tab[k] => j = k
      BY <1>0, TableCount DEF Table
    <3>2. sym \in Nat /\ x.sym \in Nat
      BY <1>1, PayloadAssumption DEF Indices
    <3>3. sym + 1 \in 1 .. Len(tab) /\ x.sym + 1 \in 1 .. Len(tab)
      BY <1>1, <2>2, <3>1, <3>2
    <3>4. sym + 1 = x.sym + 1
      BY <1>1, <3>1, <3>3
    <3>5. sym = x.sym
      BY <3>2, <3>4
    <3> QED
      BY <1>1, <1>7, <3>5
  <2>3. \A p : SizeAt(f, p) = IF sym < Len(tab)
                              THEN SizeIn(s, m + 1, tab[sym + 1], side, p) ELSE 0
    BY <1>3, <1>5, <2>2
  <2> QED
    BY <1>3, <2>1, <2>3
<1> QED
  BY <1>6, <1>7

(* A symbol that is new to the table has an empty book.                    *)
LEMMA BooksIntern ==
  ASSUME NEW s, NEW len, UpdateSeq(s, len), NEW m \in Nat, m + 1 <= len,
         NEW tab, Table(s, m, tab), NEW lv, BooksShow(s, m, tab, lv)
  PROVE  BooksShow(s, m, Interned(tab, Msg(s, m + 1).name), lv)
<1> DEFINE new == Interned(tab, Msg(s, m + 1).name)
<1>1. /\ Len(new) \in Nat /\ Len(tab) <= Len(new)
      /\ \A k \in 1 .. Len(tab) : new[k] = tab[k]
      /\ \A k \in 1 .. Len(new) : k > Len(tab) => new[k] \notin NamesIn(s, m)
  BY InternStep
<1>2. Len(tab) \in Nat
  BY TableCount
<1> HIDE DEF new
<1>3. ASSUME NEW sym \in Indices, NEW side \in {"bid", "ask"}, NEW p
      PROVE  (IF sym < Len(new) THEN SizeIn(s, m, new[sym + 1], side, p) ELSE 0)
               = IF sym < Len(tab) THEN SizeIn(s, m, tab[sym + 1], side, p) ELSE 0
  <2>0. sym \in Nat
    BY PayloadAssumption DEF Indices
  <2>1. CASE sym < Len(tab)
    <3>1. sym < Len(new) /\ sym + 1 \in 1 .. Len(tab)
      BY <1>1, <1>2, <2>0, <2>1
    <3> QED
      BY <1>1, <2>1, <3>1
  <2>2. CASE ~(sym < Len(tab)) /\ sym < Len(new)
    <3>1. sym + 1 \in 1 .. Len(new) /\ sym + 1 > Len(tab)
      BY <1>1, <1>2, <2>0, <2>2
    <3>2. new[sym + 1] \notin NamesIn(s, m)
      BY <1>1, <3>1
    <3>3. SizeIn(s, m, new[sym + 1], side, p) = 0
      BY <3>2, NothingSaid
    <3> QED
      BY <2>2, <3>3
  <2>3. CASE ~(sym < Len(tab)) /\ ~(sym < Len(new))
    BY <2>3
  <2> QED
    BY <2>1, <2>2, <2>3
<1>4. BooksShow(s, m, new, lv)
  BY <1>3 DEF BooksShow
<1> QED
  BY <1>4 DEF new

(* The best of a book is the best of what the updates say.                 *)
LEMMA BestShown ==
  ASSUME NEW s, NEW len, UpdateSeq(s, len), NEW m \in 1 .. len,
         NEW tab, NEW lv, BooksShow(s, m, tab, lv),
         NEW sym \in Indices, sym < Len(tab), NEW side \in {"bid", "ask"}
  PROVE  Best(lv, sym, side) = BestIn(s, m, tab[sym + 1], side)
<1> DEFINE f == lv[<<sym, side>>]
           nm == tab[sym + 1]
           live == {p \in Prices : SizeIn(s, m, nm, side, p) # 0}
<1>1. /\ DOMAIN f \subseteq Prices
      /\ \A p \in DOMAIN f : f[p] # 0
      /\ \A p : SizeAt(f, p) = SizeIn(s, m, nm, side, p)
  BY DEF BooksShow
<1>2. /\ DOMAIN f = live
      /\ \A p \in DOMAIN f : f[p] = SizeIn(s, m, nm, side, p)
  BY <1>1 DEF SizeAt
<1>3. IsFiniteSet(live) /\ live \subseteq Int
  <2> DEFINE g == [n \in 1 .. m |-> Msg(s, n).price]
             T == {g[n] : n \in 1 .. m}
  <2>1. IsFiniteSet(1 .. m)
    BY FirstNumbers DEF UpdateSeq
  <2>2. IsFiniteSet(T)
    <3> HIDE DEF g
    <3> QED
      BY <2>1, FiniteImage
  <2>3. live \subseteq T
    <3> SUFFICES ASSUME NEW p \in live
                 PROVE  p \in T
      OBVIOUS
    <3>1. Hits(s, m, nm, side, p) # {}
      BY DEF SizeIn
    <3>2. PICK n \in 1 .. m : Msg(s, n).price = p
      BY <3>1 DEF Hits
    <3> QED
      BY <3>2
  <2>4. IsFiniteSet(live)
    <3> HIDE DEF T, live
    <3> QED
      BY <2>2, <2>3, FS_Subset
  <2>5. Prices \subseteq Int
    BY PayloadAssumption DEF Prices
  <2> QED
    BY <2>4, <2>5
<1> HIDE DEF f
<1>4. CASE live = {}
  BY <1>2, <1>4 DEF Best, BestIn, f
<1>5. CASE live # {}
  <2> DEFINE p == IF side = "bid" THEN Max(live) ELSE Min(live)
  <2>1. p \in live
    <3> HIDE DEF live
    <3> QED
      BY <1>3, <1>5, FiniteExtremes
  <2>2. f[p] = SizeIn(s, m, nm, side, p)
    BY <1>2, <2>1
  <2>3. BestIn(s, m, nm, side) = <<p, SizeIn(s, m, nm, side, p)>>
    BY <1>5 DEF BestIn
  <2>4. Best(lv, sym, side) = <<p, f[p]>>
    <3>1. DOMAIN f = live
      BY <1>2
    <3> HIDE DEF live
    <3> QED
      BY <1>5, <3>1 DEF Best, f
  <2> QED
    BY <2>2, <2>3, <2>4
<1> QED
  BY <1>4, <1>5

(* The line of an update.                                                  *)
LEMMA LineShown ==
  ASSUME NEW s, NEW len, UpdateSeq(s, len), NEW n \in 1 .. len,
         NEW tab, Table(s, n, tab), Known(tab, Msg(s, n).name),
         NEW lv, BooksShow(s, n, tab, lv)
  PROVE  Line(Decoded(s[n], tab), tab, lv) = LineIn(s, n)
<1> DEFINE x == Decoded(s[n], tab)
<1>0. n \in Nat
  BY DEF UpdateSeq
<1>1. /\ x.sym \in Indices /\ x.sym < Len(tab) /\ tab[x.sym + 1] = Msg(s, n).name
      /\ x.seq = s[n]
  BY <1>0, DecodedFacts
<1> HIDE DEF x
<1>2. /\ Best(lv, x.sym, "bid") = BestIn(s, n, tab[x.sym + 1], "bid")
      /\ Best(lv, x.sym, "ask") = BestIn(s, n, tab[x.sym + 1], "ask")
  BY <1>1, BestShown
<1>3. Line(x, tab, lv) = LineIn(s, n)
  BY <1>1, <1>2 DEF Line, LineIn
<1> QED
  BY <1>3 DEF x

(* Later updates change nothing of what is shown: of the books, ...        *)
LEMMA ExtendsBooks ==
  ASSUME NEW s, NEW len, NEW t, NEW max, Extends(s, len, t, max), NEW m \in 0 .. len,
         NEW tab, NEW lv, BooksShow(s, m, tab, lv)
  PROVE  BooksShow(t, m, tab, lv)
<1>1. \A nm, side, p : SizeIn(t, m, nm, side, p) = SizeIn(s, m, nm, side, p)
  BY ExtendsSizes
<1>2. ASSUME NEW sym \in Indices, NEW side \in {"bid", "ask"}
      PROVE  LET f == lv[<<sym, side>>]
             IN  /\ DOMAIN f \subseteq Prices
                 /\ \A p \in DOMAIN f : f[p] # 0
                 /\ \A p : SizeAt(f, p) = IF sym < Len(tab)
                                          THEN SizeIn(t, m, tab[sym + 1], side, p) ELSE 0
  <2> DEFINE f == lv[<<sym, side>>]
  <2>1. /\ DOMAIN f \subseteq Prices
        /\ \A p \in DOMAIN f : f[p] # 0
        /\ \A p : SizeAt(f, p) = IF sym < Len(tab)
                                 THEN SizeIn(s, m, tab[sym + 1], side, p) ELSE 0
    BY DEF BooksShow
  <2> HIDE DEF f
  <2>2. \A p : SizeAt(f, p) = IF sym < Len(tab)
                             THEN SizeIn(t, m, tab[sym + 1], side, p) ELSE 0
    BY <1>1, <2>1
  <2> QED
    BY <2>1, <2>2 DEF f
<1> QED
  BY <1>2 DEF BooksShow

(* ... of the symbol table, ...                                            *)
LEMMA ExtendsTable ==
  ASSUME NEW s, NEW len, NEW t, NEW max, Extends(s, len, t, max), NEW d \in 0 .. len,
         NEW tab, Table(s, d, tab)
  PROVE  Table(t, d, tab)
<1>1. NamesIn(t, d) = NamesIn(s, d)
  BY ExtendsSizes
<1>2. \A n \in 1 .. d : n \in 1 .. len
  BY DEF Extends, UpdateSeq
<1>3. \A n \in 1 .. d : Msg(t, n) = Msg(s, n)
  BY <1>2 DEF Msg, Extends
<1>4. \A n \in 1 .. d : Known(tab, Msg(t, n).name) <=> IndexIn(t, Msg(t, n).name)
  <2> TAKE n \in 1 .. d
  <2>1. Known(tab, Msg(s, n).name) <=> IndexIn(s, Msg(s, n).name)
    BY DEF Table
  <2>2. IndexIn(t, Msg(s, n).name) <=> IndexIn(s, Msg(s, n).name)
    BY <1>2, ExtendsIndices
  <2> QED
    BY <1>3, <2>1, <2>2
<1> QED
  BY <1>1, <1>4 DEF Table

(* ... or of the lines printed.                                            *)
LEMMA ExtendsShown ==
  ASSUME NEW s, NEW len, NEW t, NEW max, Extends(s, len, t, max), NEW m \in 0 .. len,
         NEW w, NEW out, Shown(s, w, m, out)
  PROVE  Shown(t, w, m, out)
<1>1. \A n \in 1 .. m : n \in 0 .. len /\ n > 0
  BY DEF Extends, UpdateSeq
<1>2. EventsIn(t, w, m) = EventsIn(s, w, m) /\ EventsIn(s, w, m) \subseteq 1 .. m
  BY ExtendsLines DEF EventsIn
<1>3. \A n \in EventsIn(s, w, m) : /\ EventsIn(t, w, n) = EventsIn(s, w, n)
                                   /\ LineIn(t, n) = LineIn(s, n)
  BY <1>1, <1>2, ExtendsLines
<1> QED
  BY <1>2, <1>3 DEF Shown

-----------------------------------------------------------------------------
(* The drain thread.                                                       *)

(* Where it is (ph), after the pop of n updates s: the symbol table has    *)
(* the update being decoded, the books do not have the one to be applied,  *)
(* the lines not the one to be printed.                                    *)
LinesAt(s, ph, n, tab, x, lv, bst, w, out) ==
    /\ Table(s, IF ph = "decoded" THEN n + 1 ELSE n, tab)
    /\ ph = "decoded" => x = Decoded(s[n + 1], tab)
    /\ ph \in {"apply", "emit"} =>
         /\ n > 0 /\ x = Decoded(s[n], tab)
         /\ Known(tab, Msg(s, n).name)
    /\ ph = "emit" => Msg(s, n).epc
    /\ DOMAIN lv = Book!Books
    /\ "overflow" \in DOMAIN bst /\ bst.overflow \in Nat
    /\ bst.overflow = 0 =>
         /\ BooksShow(s, IF ph = "apply" THEN n - 1 ELSE n, tab, lv)
         /\ Shown(s, w, IF ph \in {"apply", "emit"} THEN n - 1 ELSE n, out)

(* Where it has no update.                                                 *)
Idle == {"look", "empty", "held", "second", "exit"}

(* All such places are alike.                                              *)
LEMMA IdleLines ==
  ASSUME NEW s, NEW ph \in Idle, NEW qh \in Idle, NEW n, NEW tab, NEW x, NEW y,
         NEW lv, NEW bst, NEW w, NEW out,
         LinesAt(s, ph, n, tab, x, lv, bst, w, out)
  PROVE  LinesAt(s, qh, n, tab, y, lv, bst, w, out)
<1>1. /\ ph # "decoded" /\ ph # "apply" /\ ph # "emit"
      /\ qh # "decoded" /\ qh # "apply" /\ qh # "emit"
  BY DEF Idle
<1> QED
  BY <1>1 DEF LinesAt

(* The receive thread pushes more.                                         *)
LEMMA ExtendsLinesAt ==
  ASSUME NEW s, NEW len, NEW t, NEW max, Extends(s, len, t, max),
         NEW ph, NEW n \in Nat, n <= len, ph = "decoded" => n < len,
         NEW tab, NEW x, NEW lv, NEW bst, NEW w, NEW out,
         LinesAt(s, ph, n, tab, x, lv, bst, w, out)
  PROVE  LinesAt(t, ph, n, tab, x, lv, bst, w, out)
<1>1. len \in Nat
  BY DEF Extends, UpdateSeq
<1> DEFINE d == IF ph = "decoded" THEN n + 1 ELSE n
           a == IF ph = "apply" THEN n - 1 ELSE n
           l == IF ph \in {"apply", "emit"} THEN n - 1 ELSE n
<1>2. Table(t, d, tab)
  <2>1. d \in 0 .. len
    BY <1>1
  <2>2. Table(s, d, tab)
    BY DEF LinesAt
  <2> HIDE DEF d
  <2> QED
    BY <2>1, <2>2, ExtendsTable
<1>3. ASSUME ph = "decoded"
      PROVE  x = Decoded(t[n + 1], tab)
  <2>1. n + 1 \in 1 .. len
    BY <1>1, <1>3
  <2>2. t[n + 1] = s[n + 1]
    BY <2>1 DEF Extends
  <2> QED
    BY <1>3, <2>2 DEF LinesAt
<1>4. ASSUME ph \in {"apply", "emit"}
      PROVE  /\ n > 0 /\ x = Decoded(t[n], tab) /\ Known(tab, Msg(t, n).name)
             /\ Msg(t, n) = Msg(s, n)
  <2>1. n > 0 /\ x = Decoded(s[n], tab) /\ Known(tab, Msg(s, n).name)
    BY <1>4 DEF LinesAt
  <2>2. n \in 1 .. len
    BY <1>1, <2>1
  <2>3. t[n] = s[n]
    BY <2>2 DEF Extends
  <2> QED
    BY <2>1, <2>3 DEF Msg
<1>5. ph = "emit" => Msg(t, n).epc
  BY <1>4 DEF LinesAt
<1>6. ASSUME bst.overflow = 0
      PROVE  BooksShow(t, a, tab, lv) /\ Shown(t, w, l, out)
  <2>1. a \in 0 .. len /\ l \in 0 .. len
    BY <1>1, <1>4
  <2>2. BooksShow(s, a, tab, lv) /\ Shown(s, w, l, out)
    BY <1>6 DEF LinesAt
  <2> HIDE DEF a, l
  <2> QED
    BY <2>1, <2>2, ExtendsBooks, ExtendsShown
<1> QED
  BY <1>2, <1>3, <1>4, <1>5, <1>6 DEF LinesAt

(* deep_decode: the symbol has its index from now on.                      *)
LEMMA LinesDecode ==
  ASSUME NEW s, NEW len, UpdateSeq(s, len), NEW n \in Nat, n < len,
         NEW tab, NEW x, NEW lv, NEW bst, NEW w, NEW out,
         LinesAt(s, "held", n, tab, x, lv, bst, w, out)
  PROVE  LET new == Interned(tab, Msg(s, n + 1).name)
         IN  LinesAt(s, "decoded", n, new, Decoded(s[n + 1], new), lv, bst, w, out)
<1> DEFINE new == Interned(tab, Msg(s, n + 1).name)
<1>0. n + 1 <= len
  BY DEF UpdateSeq
<1>1. Table(s, n, tab)
  BY DEF LinesAt
<1>2. Table(s, n + 1, new)
  BY <1>0, <1>1, InternStep
<1>3. bst.overflow = 0 => BooksShow(s, n, tab, lv) /\ Shown(s, w, n, out)
  BY DEF LinesAt
<1>4. bst.overflow = 0 => BooksShow(s, n, new, lv)
  BY <1>0, <1>1, <1>3, BooksIntern
<1> HIDE DEF new
<1>5. DOMAIN lv = Book!Books /\ "overflow" \in DOMAIN bst /\ bst.overflow \in Nat
  BY DEF LinesAt
<1>6. LinesAt(s, "decoded", n, new, Decoded(s[n + 1], new), lv, bst, w, out)
  BY <1>2, <1>3, <1>4, <1>5 DEF LinesAt
<1> QED
  BY <1>6 DEF new

(* pop_end: an update without an index changes nothing that is shown.      *)
LEMMA LinesPop ==
  ASSUME NEW s, NEW len, UpdateSeq(s, len), NEW n \in Nat, n < len,
         NEW tab, NEW x, NEW lv, NEW bst, NEW w, NEW out,
         LinesAt(s, "decoded", n, tab, x, lv, bst, w, out)
  PROVE  LinesAt(s, IF x = NoUpdate THEN "look" ELSE "apply", n + 1,
                 tab, x, lv, bst, w, out)
<1> DEFINE msg == Msg(s, n + 1)
<1>0. n + 1 \in 1 .. len /\ n + 1 \in Nat /\ (n + 1) - 1 = n /\ n + 1 > 0
  BY DEF UpdateSeq
<1>1. /\ Table(s, n + 1, tab) /\ x = Decoded(s[n + 1], tab)
      /\ DOMAIN lv = Book!Books /\ "overflow" \in DOMAIN bst /\ bst.overflow \in Nat
      /\ bst.overflow = 0 => BooksShow(s, n, tab, lv) /\ Shown(s, w, n, out)
  BY DEF LinesAt
<1>2. Known(tab, msg.name) <=> x # NoUpdate
  <2>1. Known(tab, msg.name) => x # NoUpdate
    BY <1>0, <1>1, DecodedFacts
  <2>2. ~Known(tab, msg.name) => x = NoUpdate
    BY <1>1 DEF Decoded, Msg
  <2> QED
    BY <2>1, <2>2
<1>3. CASE x # NoUpdate
  BY <1>0, <1>1, <1>2, <1>3 DEF LinesAt
<1>4. CASE x = NoUpdate
  <2>1. ~Known(tab, msg.name)
    BY <1>2, <1>4
  <2>2. ~DueIn(s, w, n + 1)
    <3>1. n + 1 \in 1 .. n + 1
      BY <1>0
    <3>2. Known(tab, msg.name) <=> IndexIn(s, msg.name)
      BY <1>1, <3>1 DEF Table
    <3> QED
      BY <2>1, <3>2 DEF DueIn
  <2>3. ASSUME bst.overflow = 0
        PROVE  BooksShow(s, n + 1, tab, lv)
    <3>1. BooksShow(s, n, tab, lv)
      BY <1>1, <2>3
    <3>2. ASSUME NEW sym \in Indices, NEW side \in {"bid", "ask"}, NEW p
          PROVE  (IF sym < Len(tab) THEN SizeIn(s, n + 1, tab[sym + 1], side, p) ELSE 0)
                   = IF sym < Len(tab) THEN SizeIn(s, n, tab[sym + 1], side, p) ELSE 0
      <4>1. CASE sym < Len(tab)
        <5>1. sym \in Nat /\ Len(tab) \in Nat /\ DOMAIN tab = 1 .. Len(tab)
          BY <1>0, <1>1, TableCount, PayloadAssumption DEF Indices
        <5>2. sym + 1 \in DOMAIN tab
          BY <4>1, <5>1
        <5>3. tab[sym + 1] # msg.name
          BY <2>1, <5>2 DEF Known, ToSet
        <5> QED
          BY <4>1, <5>3, SizeNext
      <4>2. CASE ~(sym < Len(tab))
        BY <4>2
      <4> QED
        BY <4>1, <4>2
    <3> QED
      BY <3>1, <3>2 DEF BooksShow
  <2>4. bst.overflow = 0 => Shown(s, w, n + 1, out)
    BY <1>1, <2>2, ShownNext
  <2>5. LinesAt(s, "look", n + 1, tab, x, lv, bst, w, out)
    BY <1>1, <2>3, <2>4 DEF LinesAt
  <2> QED
    BY <1>4, <2>5
<1> QED
  BY <1>3, <1>4

(* book_apply: without overflow the book shows the update.                 *)
LEMMA LinesApply ==
  ASSUME NEW s, NEW len, UpdateSeq(s, len), NEW n \in Nat, n <= len,
         NEW tab, NEW x, NEW lv, NEW bst, NEW w, NEW out,
         LinesAt(s, "apply", n, tab, x, lv, bst, w, out),
         NEW lw, DOMAIN lw = Book!Books,
         NEW bsu, "overflow" \in DOMAIN bsu, bsu.overflow \in Nat,
         bst.overflow <= bsu.overflow,
         bsu.overflow = 0 => Changed(lv, lw, <<x.sym, x.side>>, x.price, x.size)
  PROVE  LinesAt(s, IF x.epc THEN "emit" ELSE "look", n, tab, x, lw, bsu, w, out)
<1> DEFINE m == n - 1
           msg == Msg(s, n)
<1>1. /\ Table(s, n, tab) /\ x = Decoded(s[n], tab) /\ Known(tab, msg.name)
      /\ n > 0 /\ bst.overflow \in Nat
      /\ bst.overflow = 0 => BooksShow(s, n - 1, tab, lv) /\ Shown(s, w, n - 1, out)
  BY DEF LinesAt
<1>2. m \in Nat /\ m + 1 = n /\ n \in 1 .. len
  BY <1>1 DEF UpdateSeq
<1>3. bsu.overflow = 0 => bst.overflow = 0
  BY <1>1
<1>4. x.epc = msg.epc /\ msg.epc \in BOOLEAN
  BY <1>1, <1>2, DecodedFacts, MsgFacts
<1>5. bsu.overflow = 0 => BooksShow(s, m, tab, lv) /\ Shown(s, w, m, out)
  BY <1>1, <1>3
<1> HIDE DEF m
<1>6. bsu.overflow = 0 => BooksShow(s, n, tab, lw)
  <2> SUFFICES ASSUME bsu.overflow = 0
               PROVE  BooksShow(s, m + 1, tab, lw)
    BY <1>2
  <2>1. /\ m + 1 <= len /\ Table(s, m + 1, tab) /\ Known(tab, Msg(s, m + 1).name)
        /\ BooksShow(s, m, tab, lv) /\ x = Decoded(s[m + 1], tab)
        /\ Changed(lv, lw, <<x.sym, x.side>>, x.price, x.size)
    BY <1>1, <1>2, <1>5
  <2> QED
    BY <1>2, <2>1, BooksNext
<1>7. CASE x.epc
  <2>1. LinesAt(s, "emit", n, tab, x, lw, bsu, w, out)
    <3>1. bsu.overflow = 0 => Shown(s, w, n - 1, out)
      BY <1>5 DEF m
    <3>2. msg.epc
      BY <1>4, <1>7
    <3> QED
      BY <1>1, <1>6, <3>1, <3>2 DEF LinesAt
  <2> QED
    BY <1>7, <2>1
<1>8. CASE ~x.epc
  <2>1. ~DueIn(s, w, m + 1)
    BY <1>2, <1>4, <1>8 DEF DueIn
  <2>2. bsu.overflow = 0 => Shown(s, w, m + 1, out)
    BY <1>2, <1>5, <2>1, ShownNext
  <2>3. bsu.overflow = 0 => Shown(s, w, n, out)
    BY <1>2, <2>2
  <2>4. LinesAt(s, "look", n, tab, x, lw, bsu, w, out)
    BY <1>1, <1>6, <2>3 DEF LinesAt
  <2> QED
    BY <1>8, <2>4
<1> QED
  BY <1>7, <1>8

(* emit_bbo.                                                               *)
LEMMA LinesEmit ==
  ASSUME NEW s, NEW len, UpdateSeq(s, len), NEW n \in Nat, n <= len,
         NEW tab, NEW x, NEW lv, NEW bst, NEW w, NEW out,
         LinesAt(s, "emit", n, tab, x, lv, bst, w, out)
  PROVE  LinesAt(s, "look", n, tab, x, lv, bst, w,
                 IF tab[x.sym + 1] \notin w THEN out
                 ELSE Append(out, Line(x, tab, lv)))
<1> DEFINE m == n - 1
           msg == Msg(s, n)
           new == IF tab[x.sym + 1] \notin w THEN out
                  ELSE Append(out, Line(x, tab, lv))
<1>1. /\ Table(s, n, tab) /\ x = Decoded(s[n], tab) /\ Known(tab, msg.name)
      /\ n > 0 /\ msg.epc
      /\ DOMAIN lv = Book!Books /\ "overflow" \in DOMAIN bst /\ bst.overflow \in Nat
      /\ bst.overflow = 0 => BooksShow(s, n, tab, lv) /\ Shown(s, w, n - 1, out)
  BY DEF LinesAt
<1>2. m \in Nat /\ m + 1 = n /\ n \in 1 .. len /\ n \in 1 .. n
  BY <1>1 DEF UpdateSeq
<1>3. tab[x.sym + 1] = msg.name
  BY <1>1, <1>2, DecodedFacts
<1>4. IndexIn(s, msg.name)
  BY <1>1, <1>2 DEF Table
<1>5. bst.overflow = 0 => Line(x, tab, lv) = LineIn(s, n)
  BY <1>1, <1>2, LineShown
<1>6. ASSUME bst.overflow = 0
      PROVE  Shown(s, w, n, new)
  <2>0. Shown(s, w, m, out)
    BY <1>1, <1>6
  <2> HIDE DEF m
  <2>1. DueIn(s, w, m + 1) <=> msg.name \in w
    BY <1>1, <1>2, <1>4 DEF DueIn
  <2>2. CASE msg.name \in w
    <3>1. Shown(s, w, m + 1, Append(out, LineIn(s, m + 1)))
      BY <1>2, <2>0, <2>1, <2>2, ShownNext
    <3>2. Shown(s, w, n, Append(out, LineIn(s, n)))
      BY <1>2, <3>1
    <3> QED
      BY <1>3, <1>5, <1>6, <2>2, <3>2
  <2>3. CASE msg.name \notin w
    <3>1. Shown(s, w, m + 1, out)
      BY <1>2, <2>0, <2>1, <2>3, ShownNext
    <3>2. Shown(s, w, n, out)
      BY <1>2, <3>1
    <3> QED
      BY <1>3, <2>3, <3>2
  <2> QED
    BY <2>2, <2>3
<1> HIDE DEF new
<1>7. LinesAt(s, "look", n, tab, x, lv, bst, w, new)
  BY <1>1, <1>6 DEF LinesAt
<1> QED
  BY <1>7 DEF new

(* The numbers of the updates pushed.                                      *)
Seqs == [n \in 1 .. Len(pushes) |-> pushes[n].seq]

LinesInv == LinesAt(Seqs, dpc, pops, name, u, levels, bookSt, wanted, lines)

(* The next number the receive thread may push.                            *)
Ahead == IF cur = NoSegment THEN expected_seq ELSE Feed[cur.seg].first + i

(* As long as nothing came late, the updates are pushed in the order of    *)
(* the exchange, and what the receive thread still has is behind them.     *)
InOrder ==
    st.reorders = 0 =>
      /\ \A j, k \in 1 .. Len(pushes) : j < k => pushes[j].seq < pushes[k].seq
      /\ \A n \in 1 .. Len(pushes) :
           pushes[n].seq < Ahead

OfFeed == UpdateSeq(Seqs, Len(pushes))

(* What is pushed is a number of the feed.                                 *)
LEMMA SeqsOfFeed ==
  LiveInv => OfFeed
<1> SUFFICES ASSUME LiveInv
             PROVE  UpdateSeq(Seqs, Len(pushes))
  BY DEF OfFeed
<1>1. pushes \in Seq(Slots) /\ Len(pushes) \in Nat /\ framed \subseteq SegIds
  BY DEF LiveInv, StageInv, Typed
<1>2. ASSUME NEW n \in 1 .. Len(pushes)
      PROVE  pushes[n].seq \in DOMAIN Payload
  <2>1. PICK k \in framed :
          /\ pushes[n].seq \in SeqsOf(k)
          /\ Feed[k].blocks[pushes[n].seq - Feed[k].first + 1] = "plu"
    BY DEF LiveInv, StageInv, RealUpdates
  <2> DEFINE q == pushes[n].seq
             j == q - Feed[k].first + 1
  <2>2. k \in SegIds /\ Feed[k].first \in Nat /\ MsgCount(k) \in Nat
    BY <1>1, <2>1, SegmentFacts
  <2>3. q \in Feed[k].first .. Feed[k].first + MsgCount(k) - 1
    BY <2>1 DEF SeqsOf
  <2>4. Feed[k].blocks[j] = "plu"
    BY <2>1
  <2> HIDE DEF q
  <2>5. j \in 1 .. MsgCount(k) /\ Feed[k].first + j - 1 = q
    BY <2>2, <2>3
  <2> HIDE DEF j
  <2>6. q \in DOMAIN Payload
    BY <2>2, <2>4, <2>5, PayloadAssumption
  <2> QED
    BY <2>6 DEF q
<1> QED
  BY <1>1, <1>2 DEF UpdateSeq, Seqs

(* Pushes are only added.                                                  *)
LEMMA PushesGrow ==
  ASSUME LiveInv, LiveInv', StepKinds
  PROVE  Extends(Seqs, Len(pushes), Seqs', Len(pushes'))
<1>0. OfFeed /\ OfFeed'
  BY SeqsOfFeed, PTL
<1>1. UpdateSeq(Seqs, Len(pushes)) /\ UpdateSeq(Seqs', Len(pushes'))
  BY <1>0 DEF OfFeed
<1>a. /\ \A n \in 1 .. Len(pushes) : Seqs[n] = pushes[n].seq
      /\ \A n \in 1 .. Len(pushes') : Seqs'[n] = pushes'[n].seq
  BY DEF Seqs
<1>2. pushes \in Seq(Slots) /\ Len(pushes) \in Nat /\ pushes' \in Seq(Slots)
  BY DEF LiveInv, StageInv, Typed
<1>3. \/ pushes' = pushes
      \/ \E x : pushes' = Append(pushes, x)
  BY DEF StepKinds, Begins, Puts, Else
<1>4. /\ Len(pushes) <= Len(pushes') /\ Len(pushes') \in Nat
      /\ \A n \in 1 .. Len(pushes) : pushes'[n] = pushes[n]
  <2>1. CASE pushes' = pushes
    BY <1>2, <2>1
  <2>2. CASE \E x : pushes' = Append(pushes, x)
    <3>1. PICK x : pushes' = Append(pushes, x)
      BY <2>2
    <3> QED
      BY <1>2, <3>1
  <2> QED
    BY <1>3, <2>1, <2>2
<1>5. \A n \in 1 .. Len(pushes) : n \in 1 .. Len(pushes')
  BY <1>2, <1>4
<1> QED
  BY <1>1, <1>a, <1>4, <1>5 DEF Extends

(* Before the threads start nothing is shown, and nothing is due.          *)
LEMMA LinesInit ==
  PipelinesInit => LinesInv /\ InOrder
<1> SUFFICES ASSUME PipelinesInit PROVE LinesInv /\ InOrder
  OBVIOUS
<1>1. /\ pushes = <<>> /\ pops = 0 /\ dpc = "look" /\ name = <<>> /\ lines = <<>>
      /\ Book!Init
  BY DEF PipelinesInit, LiveInit, Init
<1>2. /\ levels = [b \in Book!Books |-> [p \in {} |-> 0]]
      /\ bookSt = Book!ZeroStats
  BY <1>1 DEF Book!Init
<1>3. DOMAIN levels = Book!Books /\ "overflow" \in DOMAIN bookSt /\ bookSt.overflow \in Nat
  BY <1>2 DEF Book!ZeroStats
<1>4. name \in Seq({}) /\ lines \in Seq({}) /\ Len(name) = 0 /\ Len(lines) = 0
      /\ ToSet(name) = {} /\ MaxSymbols \in Nat
  BY <1>1, PayloadAssumption DEF ToSet
<1>5. 1 .. 0 = {}
  OBVIOUS
<1>6. NamesIn(Seqs, 0) = {} /\ EventsIn(Seqs, wanted, 0) = {}
  BY <1>5 DEF NamesIn, EventsIn
<1>7. Table(Seqs, 0, name)
  BY <1>4, <1>5, <1>6 DEF Table
<1>8. BooksShow(Seqs, 0, name, levels)
  <2>1. ASSUME NEW sym \in Indices, NEW side \in {"bid", "ask"}
        PROVE  /\ DOMAIN levels[<<sym, side>>] = {}
               /\ ~(sym < Len(name))
    <3>1. <<sym, side>> \in Book!Books
      BY DEF Book!Books, Book!Sides
    <3>2. levels[<<sym, side>>] = [p \in {} |-> 0]
      BY <1>2, <3>1
    <3>3. sym \in Nat
      BY <1>4 DEF Indices
    <3>4. ~(sym < Len(name))
      BY <1>4, <3>3
    <3> QED
      BY <3>2, <3>4
  <2> QED
    BY <2>1 DEF BooksShow, SizeAt
<1>9. Shown(Seqs, wanted, 0, lines)
  <2>1. Cardinality({}) = 0
    BY FS_EmptySet
  <2> QED
    BY <1>4, <1>6, <2>1 DEF Shown
<1>10. LinesInv
  BY <1>1, <1>3, <1>7, <1>8, <1>9 DEF LinesInv, LinesAt
<1>11. InOrder
  <2>1. Len(pushes) = 0
    BY <1>1
  <2> QED
    BY <1>5, <2>1 DEF InOrder
<1> QED
  BY <1>10, <1>11

(* Every step of the drain thread leads from one place to the next.        *)
LEMMA LinesStep ==
  ASSUME LiveInv, LiveInv', LinesInv, [PipelinesNext]_allVars
  PROVE  LinesInv'
<1> DEFINE L == Len(pushes)
<1>0. /\ UpdateSeq(Seqs, L)
      /\ \A n \in 1 .. L : Seqs[n] = pushes[n].seq
      /\ pops \in Nat /\ L \in Nat /\ pops <= L
      /\ dpc \in {"held", "decoded"} => pops < L
  <2>1. /\ pops \in Nat /\ pops <= Len(pushes) /\ pushes \in Seq(Slots)
        /\ cachedTail \in Nat /\ mustSee \in Nat
        /\ cachedTail <= mustSee /\ mustSee <= Len(pushes)
        /\ dpc \in {"held", "decoded"} => pops < cachedTail
    BY DEF LiveInv, StageInv, Typed, Drains
  <2>2. Len(pushes) \in Nat
    BY <2>1
  <2>3. pops < cachedTail => pops < Len(pushes)
    BY <2>1, <2>2
  <2> QED
    BY <2>1, <2>2, <2>3, SeqsOfFeed DEF OfFeed, Seqs
<1>1. LinesAt(Seqs, dpc, pops, name, u, levels, bookSt, wanted, lines)
  BY DEF LinesInv
<1> DEFINE Rest == pushes' = pushes /\ wanted' = wanted
<1>2. CASE Stage
  <2>1. /\ UNCHANGED <<wanted, dpc, name, u, levels, bookSt, lines>>
        /\ pops' = pops
    <3>1. UNCHANGED <<wanted, drain>>
      BY <1>2 DEF Stage
    <3>2. pops' = pops
      BY <1>2, StageFills DEF LiveInv, StageInv
    <3> QED
      BY <3>1, <3>2 DEF drain, books
  <2>2. StepKinds
    <3>1. Typed /\ EveryMessageCounted /\ file \in Files
      BY DEF LiveInv, StageInv, Drains
    <3> QED
      BY <3>1, LiveIsStage, StageStep
  <2>3. Extends(Seqs, L, Seqs', Len(pushes'))
    BY <2>2, PushesGrow
  <2>4. LinesAt(Seqs', dpc, pops, name, u, levels, bookSt, wanted, lines)
    BY <1>0, <1>1, <2>3, ExtendsLinesAt
  <2> QED
    BY <2>1, <2>4 DEF LinesInv
<1>3. CASE RxDone \/ Joined \/ UNCHANGED liveVars
  <2>1. Rest /\ UNCHANGED <<dpc, pops, name, u, levels, bookSt, lines>>
    BY <1>3 DEF RxDone, Joined, liveVars, vars, rx, drain, books
  <2>2. Seqs' = Seqs
    BY <2>1 DEF Seqs
  <2> QED
    BY <1>1, <2>1, <2>2 DEF LinesInv
<1>4. CASE Look \/ NotDone \/ SeeDone \/ SecondLook
  <2>1. Rest /\ UNCHANGED <<pops, name, u, levels, bookSt, lines>>
    BY <1>4 DEF Look, NotDone, SeeDone, SecondLook, rx, books
  <2>2. Seqs' = Seqs
    BY <2>1 DEF Seqs
  <2>3. dpc \in Idle /\ dpc' \in Idle
    BY <1>4 DEF Look, NotDone, SeeDone, SecondLook, AfterDone, Idle
  <2>4. LinesAt(Seqs, dpc', pops, name, u, levels, bookSt, wanted, lines)
    BY <1>1, <2>3, IdleLines
  <2> QED
    BY <2>1, <2>2, <2>4 DEF LinesInv
<1>5. CASE Decode
  <2>1. /\ Rest /\ UNCHANGED <<pops, levels, bookSt, lines>>
        /\ dpc = "held" /\ dpc' = "decoded"
        /\ name' = Interned(name, Payload[Slot(pops + 1)].name)
        /\ u' = Decoded(Slot(pops + 1), name')
    BY <1>5 DEF Decode, rx, books
  <2>2. Seqs' = Seqs
    BY <2>1 DEF Seqs
  <2>3. Slot(pops + 1) = Seqs[pops + 1]
    <3>1. SlotIntact
      BY LiveInvIntact
    <3>2. Slot(pops + 1) = pushes[pops + 1].seq
      BY <2>1, <3>1 DEF SlotIntact
    <3>3. pops + 1 \in 1 .. L
      BY <1>0, <2>1
    <3> QED
      BY <1>0, <3>2, <3>3
  <2>4. /\ name' = Interned(name, Msg(Seqs, pops + 1).name)
        /\ u' = Decoded(Seqs[pops + 1], name')
    BY <2>1, <2>3 DEF Msg
  <2>5. LinesAt(Seqs, "held", pops, name, u, levels, bookSt, wanted, lines)
    BY <1>1, <2>1
  <2>6. LinesAt(Seqs, "decoded", pops, name', u', levels, bookSt, wanted, lines)
    BY <1>0, <2>1, <2>4, <2>5, LinesDecode
  <2> QED
    BY <2>1, <2>2, <2>6 DEF LinesInv
<1>6. CASE PopEnd
  <2>1. /\ Rest /\ UNCHANGED <<name, u, levels, bookSt, lines>>
        /\ dpc = "decoded" /\ pops' = pops + 1
        /\ dpc' = IF u = NoUpdate THEN "look" ELSE "apply"
    BY <1>6 DEF PopEnd, Pop, books
  <2>2. Seqs' = Seqs
    BY <2>1 DEF Seqs
  <2>3. LinesAt(Seqs, "decoded", pops, name, u, levels, bookSt, wanted, lines)
    BY <1>1, <2>1
  <2>4. LinesAt(Seqs, dpc', pops + 1, name, u, levels, bookSt, wanted, lines)
    BY <1>0, <2>1, <2>3, LinesPop
  <2> QED
    BY <2>1, <2>2, <2>4 DEF LinesInv
<1>7. CASE Apply
  <2>1. /\ Rest /\ UNCHANGED <<pops, name, u, lines>>
        /\ dpc = "apply" /\ Book!Apply(<<u.sym, u.side>>, u.price, u.size)
        /\ dpc' = IF u.epc THEN "emit" ELSE "look"
    BY <1>7 DEF Apply, Size, rx
  <2>2. Seqs' = Seqs
    BY <2>1 DEF Seqs
  <2>3. LinesAt(Seqs, "apply", pops, name, u, levels, bookSt, wanted, lines)
    BY <1>1, <2>1
  <2>4. /\ pops \in 1 .. L /\ Table(Seqs, pops, name)
        /\ Known(name, Msg(Seqs, pops).name) /\ u = Decoded(Seqs[pops], name)
        /\ DOMAIN levels = Book!Books
        /\ "overflow" \in DOMAIN bookSt /\ bookSt.overflow \in Nat
    <3>1. /\ pops > 0 /\ Table(Seqs, pops, name)
          /\ Known(name, Msg(Seqs, pops).name) /\ u = Decoded(Seqs[pops], name)
          /\ DOMAIN levels = Book!Books
          /\ "overflow" \in DOMAIN bookSt /\ bookSt.overflow \in Nat
      BY <2>3 DEF LinesAt
    <3>2. pops \in 1 .. L
      BY <1>0, <3>1
    <3> QED
      BY <3>1, <3>2
  <2>5. <<u.sym, u.side>> \in Book!Books
    <3>1. u.sym \in Indices /\ u.side = Msg(Seqs, pops).side
      BY <1>0, <2>4, DecodedFacts
    <3>2. u.side \in {"bid", "ask"}
      BY <1>0, <2>4, <3>1, MsgFacts
    <3> QED
      BY <3>1, <3>2 DEF Book!Books, Book!Sides
  <2>6. /\ DOMAIN levels' = Book!Books
        /\ "overflow" \in DOMAIN bookSt' /\ bookSt'.overflow \in Nat
        /\ bookSt.overflow <= bookSt'.overflow
        /\ bookSt'.overflow = 0 =>
             Changed(levels, levels', <<u.sym, u.side>>, u.price, u.size)
    <3>1. \E b, p, z : b = <<u.sym, u.side>> /\ p = u.price /\ z = u.size
                          /\ Book!Apply(b, p, z)
      BY <2>1, <2>5
         DEF Book!Apply, Book!Delete, Book!DeleteMissing, Book!Update, Book!Insert,
             Book!Displace, Book!Refuse, Book!IsWorst, Book!Key, Book!Depth,
             Book!Count, Book!Counted, Book!With, Book!Without
    <3>2. PICK b, p, z : b = <<u.sym, u.side>> /\ p = u.price /\ z = u.size
                          /\ Book!Apply(b, p, z)
      BY <3>1
    <3>3. /\ DOMAIN levels' = Book!Books
          /\ "overflow" \in DOMAIN bookSt' /\ bookSt'.overflow \in Nat
          /\ bookSt.overflow <= bookSt'.overflow
          /\ bookSt'.overflow = 0 => Changed(levels, levels', b, p, z)
      <4>1. /\ b \in Book!Books /\ DOMAIN levels = Book!Books
            /\ "overflow" \in DOMAIN bookSt /\ bookSt.overflow \in Nat
            /\ Book!Apply(b, p, z)
        BY <2>4, <2>5, <3>2
      <4> QED
        BY <4>1, BookStep
    <3> QED
      BY <3>2, <3>3
  <2>7. LinesAt(Seqs, dpc', pops, name, u, levels', bookSt', wanted, lines)
    BY <1>0, <2>1, <2>3, <2>6, LinesApply
  <2> QED
    BY <2>1, <2>2, <2>7 DEF LinesInv
<1>8. CASE Emit
  <2>1. /\ Rest /\ UNCHANGED <<pops, name, u, levels, bookSt>>
        /\ dpc = "emit" /\ dpc' = "look"
        /\ lines' = IF name[u.sym + 1] \notin wanted THEN lines
                    ELSE Append(lines, Line(u, name, levels))
    BY <1>8 DEF Emit, rx, books
  <2>2. Seqs' = Seqs
    BY <2>1 DEF Seqs
  <2>3. LinesAt(Seqs, "emit", pops, name, u, levels, bookSt, wanted, lines)
    BY <1>1, <2>1
  <2>4. LinesAt(Seqs, "look", pops, name, u, levels, bookSt, wanted, lines')
    BY <1>0, <2>1, <2>3, LinesEmit
  <2> QED
    BY <2>1, <2>2, <2>4 DEF LinesInv
<1> QED
  BY <1>2, <1>3, <1>4, <1>5, <1>6, <1>7, <1>8
     DEF PipelinesNext, LiveNext, ReceiveThread, DrainThread, allVars

(* The receive thread pushes in order.                                     *)
LEMMA InOrderStep ==
  ASSUME LiveInv, InOrder, [PipelinesNext]_allVars
  PROVE  InOrder'
<1>0. /\ Typed /\ EveryMessageCounted /\ Fresh /\ [StageNext]_vars
      /\ pushes \in Seq(Slots) /\ Len(pushes) \in Nat
      /\ expected_seq \in Nat \cup {-1}
      /\ st.reorders \in Nat
  <2>1. Typed /\ EveryMessageCounted /\ Fresh /\ file \in Files
    BY DEF LiveInv, StageInv, Drains
  <2>2. /\ pushes \in Seq(Slots) /\ expected_seq \in Nat \cup {-1}
        /\ st \in [Counters -> Nat]
    BY <2>1 DEF Typed
  <2> QED
    BY <2>1, <2>2, LiveIsStage DEF Counters
<1>a. \A n \in 1 .. Len(pushes) : pushes[n].seq \in Nat
  <2>1. \A n \in 1 .. Len(pushes) : pushes[n] \in Slots
    BY <1>0
  <2> QED
    BY <2>1 DEF Slots
<1>1. cur # NoSegment =>
        /\ cur.seg \in SegIds /\ i \in Nat /\ cur.intact \in Nat
        /\ cur.intact <= MsgCount(cur.seg) /\ i <= cur.intact
        /\ expected_seq = Feed[cur.seg].first + MsgCount(cur.seg)
        /\ Feed[cur.seg].first \in Nat /\ MsgCount(cur.seg) \in Nat
  BY <1>0, InBlocksFacts, SegmentFacts DEF NextSeq
<1>2. Ahead \in Int
  BY <1>0, <1>1 DEF Ahead
<1>3. ASSUME Losses' = Losses, pushes' = pushes, Ahead' \in Int, Ahead <= Ahead'
      PROVE  InOrder'
  <2> SUFFICES ASSUME st'.reorders = 0
               PROVE  /\ \A j, k \in 1 .. Len(pushes) :
                           j < k => pushes[j].seq < pushes[k].seq
                      /\ \A n \in 1 .. Len(pushes) : pushes[n].seq < Ahead'
    BY <1>3 DEF InOrder
  <2>1. st.reorders = 0
    BY <1>3 DEF Losses
  <2>2. \A n \in 1 .. Len(pushes) : pushes[n].seq < Ahead /\ pushes[n].seq \in Nat
    BY <1>a, <2>1 DEF InOrder
  <2>3. \A n \in 1 .. Len(pushes) : pushes[n].seq < Ahead'
    BY <1>2, <1>3, <2>2
  <2> QED
    BY <2>1, <2>3 DEF InOrder
<1>4. CASE \E d \in Frames : Deliver(d)
  <2>1. PICK d \in Frames : Deliver(d)
    BY <1>4
  <2>2. CASE d.seg = 0
    <3>1. NonDeep
      BY <2>1, <2>2 DEF Deliver
    <3>2. UNCHANGED <<cur, i, expected_seq, pushes>> /\ Losses' = Losses
      BY <1>0, <3>1, NonDeepStep DEF NonDeep, Else
    <3>3. Ahead' = Ahead
      BY <3>2 DEF Ahead
    <3> QED
      BY <1>2, <1>3, <3>2, <3>3
  <2>3. CASE d.seg # 0 /\ Heartbeat(d.seg)
    <3>1. d.seg \in SegIds
      BY <2>3, FrameFacts
    <3>2. UNCHANGED <<cur, i, expected_seq, pushes>> /\ Losses' = Losses
      BY <1>0, <2>3, <3>1, HeartbeatStep DEF Heartbeat, Else
    <3>3. Ahead' = Ahead
      BY <3>2 DEF Ahead
    <3> QED
      BY <1>2, <1>3, <3>2, <3>3
  <2>4. CASE d.seg # 0 /\ Segment(d.seg, d)
    <3>1. d.seg \in SegIds /\ d # NoSegment
      BY <2>4, FrameFacts
    <3>2. Begins(d.seg)
      BY <1>0, <2>4, SegmentStep
    <3>3. cur = NoSegment /\ cur' = d /\ i' = 0 /\ pushes' = pushes
      BY <2>4 DEF Segment, Arrive
    <3>4. Feed[d.seg].first \in Nat /\ Ahead' = Feed[d.seg].first /\ Ahead = expected_seq
      BY <3>1, <3>3, SegmentFacts DEF Ahead
    <3> SUFFICES ASSUME st'.reorders = 0
                 PROVE  /\ \A j, k \in 1 .. Len(pushes) :
                             j < k => pushes[j].seq < pushes[k].seq
                        /\ \A n \in 1 .. Len(pushes) : pushes[n].seq < Ahead'
      BY <3>3 DEF InOrder
    <3>5. st.reorders = 0 /\ ~IsReorder(d.seg)
      <4>1. st'.reorders = IF IsReorder(d.seg) THEN st.reorders + 1 ELSE st.reorders
        BY <3>2 DEF Begins
      <4>2. st.reorders + 1 # 0
        BY <1>0
      <4> QED
        BY <4>1, <4>2
    <3>6. \A n \in 1 .. Len(pushes) : pushes[n].seq < expected_seq /\ pushes[n].seq \in Nat
      BY <1>a, <3>4, <3>5 DEF InOrder
    <3>7. CASE expected_seq = -1
      <4>1. pushes = <<>>
        BY <1>0, <3>7 DEF Fresh
      <4> QED
        BY <4>1
    <3>8. CASE expected_seq \in Nat
      <4>1. expected_seq <= Feed[d.seg].first
        BY <3>4, <3>5, <3>8 DEF IsReorder
      <4>2. \A n \in 1 .. Len(pushes) : pushes[n].seq < Ahead'
        BY <3>4, <3>6, <3>8, <4>1
      <4> QED
        BY <3>5, <4>2 DEF InOrder
    <3> QED
      BY <1>0, <3>7, <3>8
  <2> QED
    BY <2>1, <2>2, <2>3, <2>4 DEF Deliver
<1>5. CASE Filter \/ DropFull
  <2>1. /\ cur # NoSegment /\ i' = i + 1
        /\ UNCHANGED <<cur, expected_seq, pushes>>
    BY <1>5 DEF Filter, DropFull, InBlocks
  <2>2. Losses' = Losses
    BY <1>0, <1>5, SkipStep DEF Else
  <2>3. Ahead' = Ahead + 1
    BY <1>1, <2>1 DEF Ahead
  <2> QED
    BY <1>2, <1>3, <2>1, <2>2, <2>3
<1>6. CASE Push
  <2>1. /\ cur # NoSegment /\ i' = i + 1 /\ cur' = cur
        /\ pushes' = Append(pushes, [seq |-> Feed[cur.seg].first + i,
                                     after_gap |-> pending_flags])
    BY <1>6 DEF Push, InBlocks, SlotSeq
  <2>2. Losses' = Losses
    BY <1>0, <1>6, PushStep DEF Puts
  <2>3. Ahead = Feed[cur.seg].first + i /\ Ahead' = Ahead + 1
    <3>1. cur # NoSegment /\ i' = i + 1 /\ cur' = cur
      BY <2>1
    <3>2. /\ Ahead = Feed[cur.seg].first + i
          /\ Ahead' = Feed[cur.seg].first + (i + 1)
      BY <3>1 DEF Ahead
    <3>3. Feed[cur.seg].first \in Int /\ i \in Int
      BY <1>1, <3>1
    <3> QED
      BY <3>2, <3>3
  <2> SUFFICES ASSUME st'.reorders = 0
               PROVE  /\ \A j, k \in 1 .. Len(pushes') :
                           j < k => pushes'[j].seq < pushes'[k].seq
                      /\ \A n \in 1 .. Len(pushes') : pushes'[n].seq < Ahead'
    BY DEF InOrder
  <2>4. st.reorders = 0
    BY <2>2 DEF Losses
  <2>5. /\ \A j, k \in 1 .. Len(pushes) : j < k => pushes[j].seq < pushes[k].seq
        /\ \A n \in 1 .. Len(pushes) : pushes[n].seq < Ahead /\ pushes[n].seq \in Nat
    BY <1>a, <2>4 DEF InOrder
  <2> DEFINE L == Len(pushes)
             e == [seq |-> Feed[cur.seg].first + i, after_gap |-> pending_flags]
  <2>6. /\ Len(pushes') = L + 1
        /\ \A n \in 1 .. L : pushes'[n] = pushes[n]
        /\ pushes'[L + 1] = e
    <3> HIDE DEF e
    <3> QED
      BY <1>0, <2>1 DEF e
  <2>7. pushes'[L + 1].seq = Ahead
    BY <2>3, <2>6
  <2>8. \A n \in 1 .. L + 1 : n \in 1 .. L \/ n = L + 1
    BY <1>0
  <2>9. \A n \in 1 .. L + 1 : pushes'[n].seq < Ahead'
    <3> TAKE n \in 1 .. L + 1
    <3>1. CASE n \in 1 .. L
      <4>1. pushes'[n].seq < Ahead /\ pushes'[n].seq \in Nat
        BY <2>5, <2>6, <3>1
      <4> QED
        BY <1>2, <2>3, <4>1
    <3>2. CASE n = L + 1
      BY <1>2, <2>3, <2>7, <3>2
    <3> QED
      BY <2>8, <3>1, <3>2
  <2>10. ASSUME NEW j \in 1 .. L + 1, NEW k \in 1 .. L + 1, j < k
         PROVE  pushes'[j].seq < pushes'[k].seq
    <3>1. j \in 1 .. L
      BY <1>0, <2>10
    <3>2. CASE k \in 1 .. L
      BY <2>5, <2>6, <2>10, <3>1, <3>2
    <3>3. CASE k = L + 1
      BY <2>5, <2>6, <2>7, <3>1, <3>3
    <3> QED
      BY <2>8, <3>2, <3>3
  <2> QED
    BY <2>6, <2>9, <2>10
<1>7. CASE EndSegment
  <2>1. /\ cur # NoSegment /\ cur' = NoSegment /\ i = cur.intact
        /\ UNCHANGED <<expected_seq, pushes>>
    BY <1>7 DEF EndSegment
  <2>2. Losses' = Losses
    BY <1>0, <1>7, OtherStep DEF Else
  <2>3. Ahead' = expected_seq /\ Ahead = Feed[cur.seg].first + i
    BY <2>1 DEF Ahead
  <2>4. Ahead <= Ahead' /\ Ahead' \in Int
    BY <1>0, <1>1, <2>1, <2>3
  <2> QED
    BY <1>3, <2>1, <2>2, <2>4
<1>8. CASE Timeout \/ Pop \/ UNCHANGED vars
  <2>1. UNCHANGED <<cur, i, expected_seq, pushes>> /\ Losses' = Losses
    BY <1>8 DEF Timeout, Pop, vars, framer, Losses
  <2>2. Ahead' = Ahead
    BY <2>1 DEF Ahead
  <2> QED
    BY <1>2, <1>3, <2>1, <2>2
<1> QED
  BY <1>0, <1>4, <1>5, <1>6, <1>7, <1>8 DEF StageNext, TakeApart

(* The invariant of the two threads and of what is printed.                *)
ShownInv == LiveInv /\ LinesInv /\ InOrder

(* It is inductive: the ring hands the drain thread what was pushed, and   *)
(* decoding, applying and printing follow the reference update by update.  *)
THEOREM ShownInvariant == PipelinesSpec => []ShownInv
<1>1. PipelinesInit => ShownInv
  BY LiveInvInit, LinesInit DEF ShownInv
<1>2. ShownInv /\ [PipelinesNext]_allVars => ShownInv'
  <2> SUFFICES ASSUME ShownInv, [PipelinesNext]_allVars
               PROVE  ShownInv'
    OBVIOUS
  <2>1. LiveInv /\ LinesInv /\ InOrder
    BY DEF ShownInv
  <2>2. LiveInv'
    BY <2>1, LiveInvStep
  <2>3. LinesInv' /\ InOrder'
    BY <2>1, <2>2, LinesStep, InOrderStep
  <2> QED
    BY <2>2, <2>3 DEF ShownInv
<1> QED
  BY <1>1, <1>2, PTL DEF PipelinesSpec

(* The reference of LivePipeline is that of the numbers pushed.            *)
LEMMA ReferenceIs ==
  ASSUME LiveInv, NEW n \in 1 .. Len(pushes)
  PROVE  /\ Pushed(n) = Msg(Seqs, n) /\ pushes[n].seq = Seqs[n]
         /\ HasIndex(Pushed(n).name) <=> IndexIn(Seqs, Msg(Seqs, n).name)
         /\ Events(n) = EventsIn(Seqs, wanted, n)
         /\ ReferenceLine(n) = LineIn(Seqs, n)
<1> DEFINE L == Len(pushes)
<1>0. /\ pushes \in Seq(Slots) /\ L \in Nat /\ DOMAIN pushes = 1 .. L
      /\ UpdateSeq(Seqs, L) /\ DOMAIN Seqs = 1 .. L
  BY SeqsOfFeed DEF OfFeed, LiveInv, StageInv, Typed, Seqs
<1>1. \A k \in 1 .. L : Seqs[k] = pushes[k].seq /\ Pushed(k) = Msg(Seqs, k)
  BY DEF Seqs, Pushed, Msg
<1>2. ASSUME NEW k \in 1 .. L
      PROVE  HasIndex(Pushed(k).name) <=> IndexIn(Seqs, Msg(Seqs, k).name)
  <2> DEFINE nm == Msg(Seqs, k).name
             f == FirstIn(Seqs, nm)
             g == Min({x \in DOMAIN pushes : Pushed(x).name = nm})
  <2>1. f \in 1 .. L
    BY <1>0, FirstFacts
  <2>2. {x \in DOMAIN pushes : Pushed(x).name = nm}
          = {x \in DOMAIN Seqs : Msg(Seqs, x).name = nm}
    BY <1>0, <1>1
  <2>3. g = f
    BY <2>2 DEF FirstIn
  <2>4. HasIndex(nm) <=> Cardinality({Pushed(x).name : x \in 1 .. g - 1}) < MaxSymbols
    BY DEF HasIndex
  <2> HIDE DEF f, g
  <2>5. \A x \in 1 .. f - 1 : x \in 1 .. L
    BY <1>0, <2>1
  <2>6. {Pushed(x).name : x \in 1 .. f - 1} = NamesIn(Seqs, f - 1)
    BY <1>1, <2>5 DEF NamesIn
  <2>7. HasIndex(nm) <=> IndexIn(Seqs, nm)
    BY <2>3, <2>4, <2>6 DEF IndexIn, f
  <2> QED
    BY <1>1, <2>7
<1>3. \A k \in 1 .. n : k \in 1 .. L
  BY <1>0
<1>4. Events(n) = EventsIn(Seqs, wanted, n)
  BY <1>1, <1>2, <1>3 DEF Events, EventsIn, DueIn
<1>5. \A nm, side, p : LastSize(n, nm, side, p) = SizeIn(Seqs, n, nm, side, p)
  <2> TAKE nm, side, p
  <2> DEFINE at == Hits(Seqs, n, nm, side, p)
  <2>1. {k \in 1 .. n : /\ Pushed(k).name = nm /\ Pushed(k).side = side
                        /\ Pushed(k).price = p} = at
    BY <1>1, <1>3 DEF Hits
  <2>2. LastSize(n, nm, side, p) = IF at = {} THEN 0 ELSE Pushed(Max(at)).size
    BY <2>1 DEF LastSize
  <2>3. at # {} => Pushed(Max(at)) = Msg(Seqs, Max(at))
    <3>1. at \subseteq 0 .. n /\ at \subseteq 1 .. n /\ n \in Nat
      BY <1>0 DEF Hits
    <3> HIDE DEF at
    <3>2. at # {} => Max(at) \in at
      BY <3>1, MaxIsGreatest
    <3> QED
      BY <1>1, <1>3, <3>1, <3>2
  <2> QED
    BY <2>2, <2>3 DEF SizeIn
<1>6. \A nm, side : ReferenceBest(n, nm, side) = BestIn(Seqs, n, nm, side)
  <2> TAKE nm, side
  <2>1. {p \in Prices : LastSize(n, nm, side, p) # 0}
          = {p \in Prices : SizeIn(Seqs, n, nm, side, p) # 0}
    BY <1>5
  <2> QED
    BY <1>5, <2>1 DEF ReferenceBest, BestIn
<1>7. ReferenceLine(n) = LineIn(Seqs, n)
  BY <1>1, <1>6 DEF ReferenceLine, LineIn
<1> QED
  BY <1>1, <1>2, <1>4, <1>7

(* Whatever the interleaving and whatever the network did, the lines       *)
(* printed are the reference's for the updates pushed: each complete event *)
(* once, in order, with the best prices of exactly the updates up to it,   *)
(* unless a level was lost to overflow.                                    *)
THEOREM LiveLines == PipelinesSpec => []LinesFollowReference
<1>1. ShownInv => LinesFollowReference
  <2> SUFFICES ASSUME ShownInv, Resting, bookSt.overflow = 0
               PROVE  /\ Len(lines) = Cardinality(Events(pops))
                      /\ \A n \in Events(pops) :
                           lines[Cardinality(Events(n))] = ReferenceLine(n)
    BY DEF LinesFollowReference
  <2>1. LiveInv /\ pops \in Nat /\ pops <= Len(pushes) /\ Len(pushes) \in Nat
    <3>1. pushes \in Seq(Slots) /\ pops \in Nat /\ pops <= Len(pushes)
      BY DEF ShownInv, LiveInv, StageInv, Typed
    <3> QED
      BY <3>1 DEF ShownInv
  <2>2. Shown(Seqs, wanted, pops, lines)
    <3>1. dpc # "apply" /\ dpc # "emit"
      BY DEF Resting
    <3> QED
      BY <3>1 DEF ShownInv, LinesInv, LinesAt
  <2>3. Events(pops) = EventsIn(Seqs, wanted, pops)
    <3>1. CASE pops = 0
      <4>1. 1 .. 0 = {}
        OBVIOUS
      <4> QED
        BY <3>1, <4>1 DEF Events, EventsIn
    <3>2. CASE pops # 0
      <4>1. pops \in 1 .. Len(pushes)
        BY <2>1, <3>2
      <4> QED
        BY <2>1, <4>1, ReferenceIs
    <3> QED
      BY <3>1, <3>2
  <2>4. ASSUME NEW n \in EventsIn(Seqs, wanted, pops)
        PROVE  /\ Events(n) = EventsIn(Seqs, wanted, n)
               /\ ReferenceLine(n) = LineIn(Seqs, n)
    <3>1. n \in 1 .. Len(pushes)
      BY <2>1 DEF EventsIn
    <3> QED
      BY <2>1, <3>1, ReferenceIs
  <2> QED
    BY <2>2, <2>3, <2>4 DEF Shown
<1> QED
  BY <1>1, ShownInvariant, PTL

(* Updates lost by the network, a full ring or a cut damage only their own *)
(* levels: without a reorder or an overflow, a level whose newest update   *)
(* the drain thread got shows exactly that update.                         *)
THEOREM LiveDamage == PipelinesSpec => []DamageConfined
<1>1. ShownInv => DamageConfined
  <2> SUFFICES ASSUME ShownInv, Resting, pops > 0, st.reorders = 0,
                      bookSt.overflow = 0,
                      NEW sym \in 0 .. Len(name) - 1, NEW side \in Book!Sides,
                      NEW p \in Prices, NEW n \in 1 .. pops,
                      LET sent == {q \in DOMAIN Payload :
                             /\ q <= pushes[pops].seq
                             /\ Payload[q].name = name[sym + 1]
                             /\ Payload[q].side = side /\ Payload[q].price = p}
                      IN  sent # {} /\ pushes[n].seq = Max(sent)
               PROVE  Payload[pushes[n].seq].size = SizeAt(levels[<<sym, side>>], p)
    BY DEF DamageConfined, SizeAt
  <2> DEFINE nm == name[sym + 1]
             sent == {q \in DOMAIN Payload :
                        /\ q <= pushes[pops].seq
                        /\ Payload[q].name = nm
                        /\ Payload[q].side = side /\ Payload[q].price = p}
             L == Len(pushes)
             last == pushes[pops].seq
  <2>1. /\ LiveInv /\ InOrder
        /\ pops \in 1 .. L /\ L \in Nat /\ n \in 1 .. L
        /\ UpdateSeq(Seqs, L) /\ \A k \in 1 .. L : Seqs[k] = pushes[k].seq
    <3>1. pushes \in Seq(Slots) /\ pops \in Nat /\ pops <= L /\ LiveInv /\ InOrder
      BY DEF ShownInv, LiveInv, StageInv, Typed
    <3>2. L \in Nat
      BY <3>1
    <3>3. pops \in 1 .. L /\ n \in 1 .. L
      BY <3>1, <3>2
    <3> QED
      BY <3>1, <3>2, <3>3, SeqsOfFeed DEF OfFeed, Seqs
  <2>2. /\ Table(Seqs, pops, name) /\ BooksShow(Seqs, pops, name, levels)
    <3>1. dpc # "apply" /\ dpc # "emit" /\ dpc # "decoded"
      BY DEF Resting
    <3> QED
      BY <3>1 DEF ShownInv, LinesInv, LinesAt
  <2>3. sym \in Indices /\ sym < Len(name) /\ side \in {"bid", "ask"}
    <3>1. Len(name) \in Nat /\ Len(name) <= MaxSymbols /\ MaxSymbols \in Nat
      BY <2>1, <2>2, TableCount, PayloadAssumption DEF Table
    <3> QED
      BY <3>1 DEF Indices, Book!Sides
  <2>4. SizeAt(levels[<<sym, side>>], p) = SizeIn(Seqs, pops, nm, side, p)
    BY <2>2, <2>3 DEF BooksShow
  <2>5. \A k \in 1 .. L : Seqs[k] \in DOMAIN Payload /\ Seqs[k] \in Nat
    BY <2>1, PayloadAssumption DEF UpdateSeq
  <2>6. /\ Seqs[n] \in sent /\ \A q \in sent : q <= Seqs[n]
    <3>1. sent \subseteq 0 .. last /\ last \in Nat
      BY <2>1, <2>5, PayloadAssumption
    <3>2. sent # {} /\ Seqs[n] = Max(sent)
      BY <2>1
    <3> HIDE DEF sent, last
    <3> QED
      BY <3>1, <3>2, MaxIsGreatest
  <2>7. n \in Hits(Seqs, pops, nm, side, p)
    BY <2>6 DEF Hits, Msg
  <2>8. ASSUME NEW k \in Hits(Seqs, pops, nm, side, p)
        PROVE  k <= n
    <3>1. k \in 1 .. pops /\ k \in 1 .. L
      BY <2>1 DEF Hits
    <3>2. \A a, b \in 1 .. L : a < b => Seqs[a] < Seqs[b]
      BY <2>1 DEF InOrder
    <3>3. Seqs[k] <= last
      <4>1. k < pops \/ k = pops
        BY <2>1, <3>1
      <4>2. last = Seqs[pops]
        BY <2>1
      <4>3. Seqs[k] < Seqs[pops] \/ Seqs[k] = Seqs[pops]
        BY <2>1, <3>1, <3>2, <4>1
      <4> QED
        BY <2>1, <2>5, <3>1, <4>2, <4>3
    <3>4. Seqs[k] \in sent
      BY <2>5, <3>1, <3>3 DEF Hits, Msg
    <3>5. Seqs[k] <= Seqs[n]
      BY <2>6, <3>4
    <3>6. ~(n < k)
      <4> SUFFICES ASSUME n < k PROVE FALSE
        OBVIOUS
      <4>1. Seqs[n] < Seqs[k]
        BY <2>1, <3>1, <3>2
      <4> QED
        BY <2>1, <2>5, <3>1, <3>5, <4>1
    <3> QED
      BY <2>1, <3>1, <3>6
  <2>9. SizeIn(Seqs, pops, nm, side, p) = Msg(Seqs, n).size
    BY <2>1, <2>7, <2>8, SizeIs
  <2> QED
    BY <2>1, <2>4, <2>9 DEF Msg
<1> QED
  BY <1>1, ShownInvariant, PTL

-----------------------------------------------------------------------------
(* The offline pipeline has the decoder and the reader of the file in      *)
(* common with the live one.                                               *)
LEMMA OfflineReads ==
  ASSUME NEW f, NEW b
  PROVE  /\ Offline!PayloadAt(f, b) = PayloadAt(f, b)
         /\ Offline!AllThere(f, b) = AllThere(f, b)
<1>1. \A k, j : Offline!BytesTo(k, j) = BytesTo(k, j)
  BY DEF Offline!BytesTo, BytesTo, Offline!HeaderLen, HeaderLen,
         Offline!PrefixLen, PrefixLen, Offline!BodyLen, BodyLen, MapThenSumSet,
         MapThenFoldSet, Offline!MapThenSumSet, Offline!MapThenFoldSet
<1>2. \A k : Offline!MsgCount(k) = MsgCount(k)
  BY DEF Offline!MsgCount, MsgCount
<1>3. /\ \A S : Offline!Max(S) = Max(S) /\ Offline!Min(S) = Min(S)
      /\ Offline!HeaderLen = HeaderLen /\ Offline!PrefixLen = PrefixLen
      /\ Offline!NotDeep = NotDeep
  BY DEF Offline!Max, Max, Offline!Min, Min, Offline!HeaderLen, HeaderLen,
         Offline!PrefixLen, PrefixLen, Offline!NotDeep, NotDeep
<1>4. \A k, n : Offline!Cut(k, n) = Cut(k, n)
  BY <1>1, <1>2, <1>3 DEF Offline!Cut, Cut
<1>5. \A c : Offline!CapLen(c) = CapLen(c) /\ Offline!UdpAt(c) = UdpAt(c)
  BY <1>3 DEF Offline!CapLen, CapLen, Offline!UdpAt, UdpAt
<1>6. \A c : /\ Offline!HasPayload(c) = HasPayload(c)
             /\ Offline!PayloadLen(c) = PayloadLen(c)
  BY <1>3, <1>5 DEF Offline!HasPayload, HasPayload, Offline!PayloadLen, PayloadLen
<1>7. Offline!PayloadAt(f, b) = PayloadAt(f, b)
  BY <1>3, <1>4, <1>6
     DEF Offline!PayloadAt, PayloadAt, Offline!Datagram, Datagram
<1>8. \A c : Offline!BytesThrough(f, c) = BytesThrough(f, c)
  BY DEF Offline!BytesThrough, BytesThrough, MapThenSumSet,
         MapThenFoldSet, Offline!MapThenSumSet, Offline!MapThenFoldSet
<1>9. Offline!AllThere(f, b) = AllThere(f, b)
  BY <1>8 DEF Offline!AllThere, AllThere
<1> QED
  BY <1>7, <1>9

(* The symbol table and the decoder.                                       *)
LEMMA OfflineDecodes ==
  ASSUME NEW tab, NEW nm, NEW q, NEW x, NEW lv
  PROVE  /\ Offline!Interned(tab, nm) = Interned(tab, nm)
         /\ Offline!Decoded(q, tab) = Decoded(q, tab)
         /\ Offline!NoUpdate = NoUpdate
         /\ Offline!Line(x, tab, lv) = Line(x, tab, lv)
<1>1. \A t, n : Offline!Known(t, n) = Known(t, n)
  BY DEF Offline!Known, Known, Offline!ToSet, ToSet
<1>2. \A S : Offline!Max(S) = Max(S) /\ Offline!Min(S) = Min(S)
  BY DEF Offline!Max, Max, Offline!Min, Min
<1>3. Offline!NoUpdate = NoUpdate
  BY DEF Offline!NoUpdate, NoUpdate
<1>4. Offline!Interned(tab, nm) = Interned(tab, nm)
  BY <1>1 DEF Offline!Interned, Interned
<1>5. Offline!Decoded(q, tab) = Decoded(q, tab)
  BY <1>1, <1>3 DEF Offline!Decoded, Decoded, Offline!IndexOf, IndexOf
<1>6. \A sym, side : Offline!Best(lv, sym, side) = Best(lv, sym, side)
  BY <1>2 DEF Offline!Best, Best
<1>7. Offline!Line(x, tab, lv) = Line(x, tab, lv)
  BY <1>6 DEF Offline!Line, Line
<1> QED
  BY <1>3, <1>4, <1>5, <1>7

-----------------------------------------------------------------------------
(* What an update makes of the books.                                      *)

(* PriceBook's Apply, of books lv and counters cs that become lw and ct.   *)
Applied(lv, cs, b, p, z, lw, ct) ==
    LET known == p \in DOMAIN lv[b]
        depth == Book!Depth(lv[b])
        worst(q) == \A r \in DOMAIN lv[b] : Book!Key(b, q) >= Book!Key(b, r)
        count(fields, d) == ct = Book!Counted(cs, fields, d)
        to(f) == lw = [lv EXCEPT ![b] = f]
    IN  \/ /\ z = 0 /\ known
           /\ count({"deleted"}, depth - 1) /\ to(Book!Without(lv[b], p))
        \/ z = 0 /\ ~known /\ count({"delete_missing"}, 0) /\ lw = lv
        \/ /\ z # 0 /\ known
           /\ count({"updated"}, depth) /\ to([lv[b] EXCEPT ![p] = z])
        \/ /\ z # 0 /\ ~known /\ depth < MaxLevels
           /\ count({"inserted"}, depth + 1) /\ to(Book!With(lv[b], p, z))
        \/ /\ z # 0 /\ ~known /\ depth = MaxLevels
           /\ count({"inserted", "overflow"}, MaxLevels)
           /\ \E q \in DOMAIN lv[b] :
                /\ worst(q) /\ Book!Key(b, p) < Book!Key(b, q)
                /\ to(Book!With(Book!Without(lv[b], q), p, z))
        \/ /\ z # 0 /\ ~known /\ depth = MaxLevels /\ worst(p)
           /\ count({"overflow"}, 0) /\ lw = lv

(* The books of the live pipeline do that.                                 *)
LEMMA LiveApplies ==
  ASSUME NEW x, Book!Apply(<<x.sym, x.side>>, x.price, x.size)
  PROVE  Applied(levels, bookSt, <<x.sym, x.side>>, x.price, x.size,
                 levels', bookSt')
BY DEF Applied, Book!Apply, Book!Delete, Book!DeleteMissing, Book!Update,
       Book!Insert, Book!Displace, Book!Refuse, Book!IsWorst, Book!Count

(* Both pipelines mean the same by a book.                                 *)
LEMMA OfflineBook ==
  /\ \A f, p : Offline!Book!Without(f, p) = Book!Without(f, p)
  /\ \A f, p, s : Offline!Book!With(f, p, s) = Book!With(f, p, s)
  /\ \A f : Offline!Book!Depth(f) = Book!Depth(f)
  /\ \A b, p : Offline!Book!Key(b, p) = Book!Key(b, p)
  /\ \A s, f, d : Offline!Book!Counted(s, f, d) = Book!Counted(s, f, d)
BY DEF Offline!Book!Without, Book!Without, Offline!Book!With, Book!With,
       Offline!Book!Depth, Book!Depth, Offline!Book!Key, Book!Key,
       Offline!Book!Counted, Book!Counted, Offline!Book!Cardinality,
       Book!Cardinality

(* The same for the books of the offline pipeline.                         *)
LEMMA OfflineApplies ==
  ASSUME NEW x, Offline!Book!Apply(<<x.sym, x.side>>, x.price, x.size)
  PROVE  Applied(offLevels, offBookSt, <<x.sym, x.side>>, x.price, x.size,
                 offLevels', offBookSt')
BY OfflineBook
   DEF Applied, Offline!Book!Apply, Offline!Book!Delete,
       Offline!Book!DeleteMissing, Offline!Book!Update, Offline!Book!Insert,
       Offline!Book!Displace, Offline!Book!Refuse, Offline!Book!IsWorst,
       Offline!Book!Count

(* An update leaves no choice: the worst price of a book is one.           *)
LEMMA AppliedOnce ==
  ASSUME NEW lv, NEW cs, NEW b, NEW p, NEW z, NEW lw, NEW ct, NEW lx, NEW cu,
         DOMAIN lv[b] \subseteq Int, p \in Int,
         Applied(lv, cs, b, p, z, lw, ct), Applied(lv, cs, b, p, z, lx, cu)
  PROVE  lw = lx /\ ct = cu
<1> DEFINE D == DOMAIN lv[b]
           worst(q) == \A r \in D : Book!Key(b, q) >= Book!Key(b, r)
<1>1. ASSUME NEW q \in D, NEW r \in D, worst(q), worst(r)
      PROVE  q = r
  <2>1. Book!Key(b, q) >= Book!Key(b, r) /\ Book!Key(b, r) >= Book!Key(b, q)
    BY <1>1
  <2>2. q \in Int /\ r \in Int
    BY <1>1
  <2> QED
    BY <2>1, <2>2 DEF Book!Key
<1>2. ASSUME NEW q \in D, worst(p), Book!Key(b, p) < Book!Key(b, q)
      PROVE  FALSE
  <2>1. Book!Key(b, p) >= Book!Key(b, q) /\ q \in Int
    BY <1>2
  <2> QED
    BY <1>2, <2>1 DEF Book!Key
<1>3. CASE z = 0 \/ p \in D
  BY <1>3 DEF Applied
<1>4. CASE z # 0 /\ p \notin D
  <2> DEFINE full == Book!Depth(lv[b]) = MaxLevels
             to(q) == [lv EXCEPT ![b] = Book!With(Book!Without(lv[b], q), p, z)]
             many == Book!Counted(cs, {"inserted", "overflow"}, MaxLevels)
             over == Book!Counted(cs, {"overflow"}, 0)
             more == Book!Counted(cs, {"inserted"}, Book!Depth(lv[b]) + 1)
             ins  == [lv EXCEPT ![b] = Book!With(lv[b], p, z)]
             Better(l, c) == /\ c = many
                             /\ \E q \in D : /\ worst(q)
                                            /\ Book!Key(b, p) < Book!Key(b, q)
                                            /\ l = to(q)
             Worse(l, c) == worst(p) /\ c = over /\ l = lv
  <2>1. ASSUME NEW l, NEW c, Applied(lv, cs, b, p, z, l, c)
        PROVE  \/ Book!Depth(lv[b]) < MaxLevels /\ l = ins /\ c = more
               \/ full /\ (Better(l, c) \/ Worse(l, c))
    BY <1>4, <2>1 DEF Applied
  <2>2. full => ~(Book!Depth(lv[b]) < MaxLevels)
    BY PayloadAssumption
  <2>3. CASE ~full
    BY <2>1, <2>3
  <2>4. CASE full
    <3>1. Better(lw, ct) /\ Better(lx, cu) => lw = lx /\ ct = cu
      BY <1>1
    <3>2. ~(Better(lw, ct) /\ Worse(lx, cu)) /\ ~(Better(lx, cu) /\ Worse(lw, ct))
      BY <1>2
    <3>3. Worse(lw, ct) /\ Worse(lx, cu) => lw = lx /\ ct = cu
      OBVIOUS
    <3>4. Better(lw, ct) \/ Worse(lw, ct)
      BY <2>1, <2>2, <2>4
    <3>5. Better(lx, cu) \/ Worse(lx, cu)
      BY <2>1, <2>2, <2>4
    <3> HIDE DEF Better, Worse
    <3> QED
      BY <3>1, <3>2, <3>3, <3>4, <3>5
  <2> QED
    BY <2>3, <2>4
<1> QED
  BY <1>3, <1>4

-----------------------------------------------------------------------------
(* One thread's way through a list of updates.                             *)

(* A state: the symbol table, the books and their counters, the lines.     *)
Start == [tab |-> <<>>, lv |-> [b \in Book!Books |-> [p \in {} |-> 0]],
          cs |-> Book!ZeroStats, out |-> <<>>]

(* Update q leads from state a to state c, when the symbols w are wanted.  *)
Turn(q, w, a, c) ==
    LET x == Decoded(q, c.tab)
    IN  /\ c.tab = Interned(a.tab, Payload[q].name)
        /\ x = NoUpdate => c.lv = a.lv /\ c.cs = a.cs /\ c.out = a.out
        /\ x # NoUpdate =>
             /\ Applied(a.lv, a.cs, <<x.sym, x.side>>, x.price, x.size, c.lv, c.cs)
             /\ c.out = IF x.epc /\ c.tab[x.sym + 1] \in w
                        THEN Append(a.out, Line(x, c.tab, c.lv)) ELSE a.out

Sane(a) ==
    /\ \E S : a.tab \in Seq(S)
    /\ Len(a.tab) <= MaxSymbols
    /\ DOMAIN a.lv = Book!Books
    /\ \A b \in Book!Books : DOMAIN a.lv[b] \subseteq Int
    /\ \E S : a.out \in Seq(S)

Starts(s, t) == Len(s) <= Len(t) /\ \A k \in 1 .. Len(s) : s[k] = t[k]

(* The states tr[0] to tr[n] while the updates s[1] to s[n] are processed. *)
Trace(tr, s, n, w) ==
    /\ tr[0] = Start
    /\ \A m \in 0 .. n : Sane(tr[m])
    /\ \A m \in 1 .. n : s[m] \in DOMAIN Payload /\ Turn(s[m], w, tr[m - 1], tr[m])
    /\ \A l, m \in 0 .. n : l <= m => Starts(tr[l].out, tr[m].out)

(* The start of a start is one.                                            *)
LEMMA StartsFrom ==
  ASSUME NEW r, NEW s, NEW t,
         Len(r) \in Nat, Len(s) \in Nat, Len(t) \in Nat,
         Starts(r, s), Starts(s, t)
  PROVE  Starts(r, t)
<1>1. \A k \in 1 .. Len(r) : k \in 1 .. Len(s)
  BY DEF Starts
<1> QED
  BY <1>1 DEF Starts

(* Books stay books.                                                       *)
LEMMA AppliedSane ==
  ASSUME NEW lv, NEW cs, NEW b, NEW p \in Int, NEW z, NEW lw, NEW ct,
         DOMAIN lv = Book!Books,
         \A c \in Book!Books : DOMAIN lv[c] \subseteq Int,
         b \in Book!Books,
         Applied(lv, cs, b, p, z, lw, ct)
  PROVE  /\ DOMAIN lw = Book!Books
         /\ \A c \in Book!Books : DOMAIN lw[c] \subseteq Int
<1>1. \/ lw = lv
      \/ \E f : lw = [lv EXCEPT ![b] = f] /\ DOMAIN f \subseteq DOMAIN lv[b] \cup {p}
  <2>1. /\ DOMAIN Book!Without(lv[b], p) \subseteq DOMAIN lv[b] \cup {p}
        /\ DOMAIN Book!With(lv[b], p, z) \subseteq DOMAIN lv[b] \cup {p}
        /\ DOMAIN [lv[b] EXCEPT ![p] = z] \subseteq DOMAIN lv[b] \cup {p}
        /\ \A q : DOMAIN Book!With(Book!Without(lv[b], q), p, z)
                    \subseteq DOMAIN lv[b] \cup {p}
    BY DEF Book!With, Book!Without
  <2> QED
    BY <2>1 DEF Applied
<1>2. CASE lw = lv
  BY <1>2
<1>3. CASE \E f : lw = [lv EXCEPT ![b] = f] /\ DOMAIN f \subseteq DOMAIN lv[b] \cup {p}
  <2>1. PICK f : lw = [lv EXCEPT ![b] = f] /\ DOMAIN f \subseteq DOMAIN lv[b] \cup {p}
    BY <1>3
  <2>2. DOMAIN lw = DOMAIN lv /\ \A c \in DOMAIN lv : lw[c] = IF c = b THEN f ELSE lv[c]
    BY <2>1
  <2> QED
    BY <2>1, <2>2
<1> QED
  BY <1>1, <1>2, <1>3

(* One more name, or none.                                                 *)
LEMMA InternedSane ==
  ASSUME NEW tab, NEW nm, \E S : tab \in Seq(S), Len(tab) <= MaxSymbols
  PROVE  /\ \E S : Interned(tab, nm) \in Seq(S)
         /\ Len(Interned(tab, nm)) <= MaxSymbols
<1>1. PICK S : tab \in Seq(S)
  OBVIOUS
<1>2. tab \in Seq(S \cup {nm})
  BY <1>1
<1>3. CASE Interned(tab, nm) = tab
  BY <1>1, <1>3
<1>4. CASE Len(tab) # MaxSymbols /\ Interned(tab, nm) = Append(tab, nm)
  <2>1. Append(tab, nm) \in Seq(S \cup {nm}) /\ Len(Append(tab, nm)) = Len(tab) + 1
    BY <1>2
  <2>2. Len(tab) \in Nat /\ MaxSymbols \in Nat
    BY <1>1, PayloadAssumption
  <2> QED
    BY <1>4, <2>1, <2>2
<1> QED
  BY <1>3, <1>4 DEF Interned

(* A decoded update has a book.                                            *)
LEMMA DecodedSane ==
  ASSUME NEW tab, NEW q \in DOMAIN Payload, \E S : tab \in Seq(S),
         Len(tab) <= MaxSymbols,
         Decoded(q, tab) # NoUpdate
  PROVE  LET x == Decoded(q, tab)
         IN  <<x.sym, x.side>> \in Book!Books /\ x.price \in Int
<1>1. PICK S : tab \in Seq(S)
  OBVIOUS
<1> DEFINE nm == Payload[q].name
           k == CHOOSE k \in 1 .. Len(tab) : tab[k] = nm
           x == Decoded(q, tab)
<1>2. Known(tab, nm)
  BY DEF Decoded
<1>3. \E j \in 1 .. Len(tab) : tab[j] = nm
  BY <1>1, <1>2 DEF Known, ToSet
<1>4. k \in 1 .. Len(tab)
  BY <1>3
<1>5. x.sym = k - 1 /\ x.side = Payload[q].side /\ x.price = Payload[q].price
  BY <1>2 DEF Decoded, IndexOf
<1>6. Len(tab) \in Nat /\ MaxSymbols \in Nat
  BY <1>1, PayloadAssumption
<1> HIDE DEF k, x
<1>7. x.sym \in Indices
  BY <1>4, <1>5, <1>6 DEF Indices
<1>8. x.side \in {"bid", "ask"} /\ x.price \in Int
  BY <1>5, PayloadAssumption
<1> QED
  BY <1>7, <1>8 DEF x, Book!Books, Book!Sides

(* A turn leads to a state, and only adds to the lines.                    *)
LEMMA TurnSane ==
  ASSUME NEW q \in DOMAIN Payload, NEW w, NEW a, NEW c, Sane(a), Turn(q, w, a, c)
  PROVE  Sane(c) /\ Starts(a.out, c.out)
<1> DEFINE x == Decoded(q, c.tab)
<1>1. (\E S : c.tab \in Seq(S)) /\ Len(c.tab) <= MaxSymbols
  BY InternedSane DEF Sane, Turn
<1>2. PICK S : a.out \in Seq(S)
  BY DEF Sane
<1>3. Starts(a.out, a.out)
  BY <1>2 DEF Starts
<1>4. CASE x = NoUpdate
  BY <1>1, <1>2, <1>3, <1>4 DEF Sane, Turn
<1>5. CASE x # NoUpdate
  <2>1. <<x.sym, x.side>> \in Book!Books /\ x.price \in Int
    BY <1>1, <1>5, DecodedSane
  <2>2. /\ Applied(a.lv, a.cs, <<x.sym, x.side>>, x.price, x.size, c.lv, c.cs)
        /\ c.out = IF x.epc /\ c.tab[x.sym + 1] \in w
                   THEN Append(a.out, Line(x, c.tab, c.lv)) ELSE a.out
    BY <1>5 DEF Turn
  <2> HIDE DEF x
  <2>3. /\ DOMAIN c.lv = Book!Books
        /\ \A b \in Book!Books : DOMAIN c.lv[b] \subseteq Int
    BY <2>1, <2>2, AppliedSane DEF Sane
  <2>4. (\E T : c.out \in Seq(T)) /\ Starts(a.out, c.out)
    <3>1. CASE c.out = a.out
      BY <1>2, <1>3, <3>1
    <3>2. CASE \E e : c.out = Append(a.out, e)
      <4>1. PICK e : c.out = Append(a.out, e)
        BY <3>2
      <4>2. a.out \in Seq(S \cup {e})
        BY <1>2
      <4>3. /\ Append(a.out, e) \in Seq(S \cup {e})
            /\ Len(Append(a.out, e)) = Len(a.out) + 1 /\ Len(a.out) \in Nat
            /\ \A k \in 1 .. Len(a.out) : Append(a.out, e)[k] = a.out[k]
        BY <4>2
      <4> QED
        BY <4>1, <4>3 DEF Starts
    <3> QED
      BY <2>2, <3>1, <3>2
  <2> QED
    BY <1>1, <2>3, <2>4 DEF Sane
<1> QED
  BY <1>4, <1>5

(* The first state.                                                        *)
LEMMA TraceInit ==
  ASSUME NEW s, NEW w
  PROVE  Trace([m \in 0 .. 0 |-> Start], s, 0, w)
<1>1. Sane(Start)
  <2>1. /\ Start.tab = <<>> /\ Start.out = <<>>
        /\ Start.lv = [b \in Book!Books |-> [p \in {} |-> 0]]
    BY DEF Start
  <2>2. <<>> \in Seq({}) /\ Len(<<>>) = 0 /\ MaxSymbols \in Nat
    BY PayloadAssumption
  <2> QED
    BY <2>1, <2>2 DEF Sane
<1>2. Starts(Start.out, Start.out)
  BY DEF Starts
<1>3. 0 .. 0 = {0} /\ 1 .. 0 = {}
  OBVIOUS
<1> QED
  BY <1>1, <1>2, <1>3 DEF Trace

(* Only the updates processed matter.                                      *)
LEMMA TraceSame ==
  ASSUME NEW tr, NEW s, NEW t, NEW n, NEW w, Trace(tr, s, n, w),
         \A m \in 1 .. n : t[m] = s[m]
  PROVE  Trace(tr, t, n, w)
BY DEF Trace

(* One more turn.                                                          *)
LEMMA TraceNext ==
  ASSUME NEW tr, NEW s, NEW n \in Nat, NEW w, NEW c, Trace(tr, s, n, w),
         s[n + 1] \in DOMAIN Payload, Turn(s[n + 1], w, tr[n], c)
  PROVE  Trace([m \in 0 .. n + 1 |-> IF m = n + 1 THEN c ELSE tr[m]], s, n + 1, w)
<1> DEFINE tx == [m \in 0 .. n + 1 |-> IF m = n + 1 THEN c ELSE tr[m]]
<1>1. /\ \A m \in 0 .. n : tx[m] = tr[m]
      /\ tx[n + 1] = c
  OBVIOUS
<1> HIDE DEF tx
<1>2. 0 \in 0 .. n /\ n \in 0 .. n
  OBVIOUS
<1>3. tx[0] = Start
  BY <1>1, <1>2 DEF Trace
<1>4. Sane(c) /\ Starts(tr[n].out, c.out)
  BY <1>2, TurnSane DEF Trace
<1>5. \A m \in 0 .. n + 1 : m \in 0 .. n \/ m = n + 1
  OBVIOUS
<1>6. \A m \in 0 .. n + 1 : Sane(tx[m])
  BY <1>1, <1>4, <1>5 DEF Trace
<1>7. ASSUME NEW m \in 1 .. n + 1
      PROVE  s[m] \in DOMAIN Payload /\ Turn(s[m], w, tx[m - 1], tx[m])
  <2>1. CASE m = n + 1
    <3>1. tx[m] = c /\ tx[m - 1] = tr[n]
      BY <1>1, <1>2, <2>1
    <3> QED
      BY <2>1, <3>1
  <2>2. CASE m # n + 1
    <3>1. m \in 1 .. n /\ m \in 0 .. n /\ m - 1 \in 0 .. n
      BY <2>2
    <3> QED
      BY <1>1, <3>1 DEF Trace
  <2> QED
    BY <2>1, <2>2
<1>8. ASSUME NEW l \in 0 .. n + 1, NEW m \in 0 .. n + 1, l <= m
      PROVE  Starts(tx[l].out, tx[m].out)
  <2>1. CASE m \in 0 .. n
    <3>1. l \in 0 .. n
      BY <1>8, <2>1
    <3> QED
      BY <1>1, <1>8, <2>1, <3>1 DEF Trace
  <2>2. CASE m = n + 1 /\ l \in 0 .. n
    <3>1. l <= n
      BY <2>2
    <3>2. Starts(tr[l].out, tr[n].out)
      BY <1>2, <2>2, <3>1 DEF Trace
    <3>3. \E S : tr[l].out \in Seq(S)
      BY <2>2 DEF Trace, Sane
    <3>4. \E S : tr[n].out \in Seq(S)
      BY <1>2 DEF Trace, Sane
    <3>5. \E S : c.out \in Seq(S)
      BY <1>4 DEF Sane
    <3>6. Len(tr[l].out) \in Nat /\ Len(tr[n].out) \in Nat /\ Len(c.out) \in Nat
      BY <3>3, <3>4, <3>5
    <3>7. Starts(tr[l].out, c.out)
      BY <1>4, <3>2, <3>6, StartsFrom
    <3> QED
      BY <1>1, <2>2, <3>7
  <2>3. CASE m = n + 1 /\ l = n + 1
    <3>1. \E S : c.out \in Seq(S)
      BY <1>4 DEF Sane
    <3>2. Starts(c.out, c.out)
      BY <3>1 DEF Starts
    <3> QED
      BY <1>1, <2>3, <3>2
  <2> QED
    BY <1>5, <2>1, <2>2, <2>3
<1>9. Trace(tx, s, n + 1, w)
  BY <1>3, <1>6, <1>7, <1>8 DEF Trace
<1> QED
  BY <1>9 DEF tx

-----------------------------------------------------------------------------
(* The offline pipeline reads the file.                                    *)

HasMsgs(d) == d.seg # 0 /\ MsgCount(d.seg) > 0

(* Block j of packet b is an update, and has that number.                  *)
IsUpdate(b, j) ==
    LET d == PayloadAt(file, b)
    IN  d.seg # 0 /\ j \in 1 .. d.intact /\ IsPlu(d.seg, j)

NumberOf(b, j) == Feed[PayloadAt(file, b).seg].first + j - 1

(* The framer has passed block j of packet b < block.                      *)
Passed(b, j) == b = block - 1 /\ offCur # NotDeep => j <= offI

(* Types, the place in the file, and room for what is left of a packet.    *)
Reading ==
    /\ file \in Files
    /\ block \in 1 .. Len(file.blocks) + 1
    /\ \A b \in 1 .. block - 1 : AllThere(file, b)
    /\ offCur \in Frames /\ offI \in 0 .. offCur.intact
    /\ offCur # NotDeep =>
         /\ block > 1 /\ offCur = PayloadAt(file, block - 1) /\ HasMsgs(offCur)
         /\ expected = NextSeq(offCur.seg)
         /\ Len(offTaken) - drained
              + Cardinality({j \in offI + 1 .. offCur.intact : IsPlu(offCur.seg, j)})
              <= Capacity
    /\ expected \in Nat \cup {-1} /\ offReorders \in Nat
    /\ offTaken \in Seq(DOMAIN Payload) /\ drained \in Nat /\ drained <= Len(offTaken)
    /\ offDropped = 0

(* What was pushed is what the packets read so far hold.                   *)
AllTaken ==
    /\ \A b \in 1 .. block - 1, j \in Nat :
         IsUpdate(b, j) /\ Passed(b, j) =>
           \E n \in 1 .. Len(offTaken) : offTaken[n] = NumberOf(b, j)
    /\ \A n \in 1 .. Len(offTaken) : \E b \in 1 .. block - 1, j \in Nat :
         IsUpdate(b, j) /\ offTaken[n] = NumberOf(b, j)

OffAhead == IF offCur = NotDeep THEN expected ELSE Feed[offCur.seg].first + offI

(* Without a reorder the packets come in order, and their updates too.     *)
FileInOrder ==
    offReorders = 0 =>
      /\ \A m, n \in 1 .. Len(offTaken) : m < n => offTaken[m] < offTaken[n]
      /\ \A n \in 1 .. Len(offTaken) : offTaken[n] < OffAhead
      /\ \A b \in 1 .. block - 1 :
           HasMsgs(PayloadAt(file, b)) => NextSeq(PayloadAt(file, b).seg) <= expected
      /\ \A b, c \in 1 .. block - 1 :
           (b < c /\ HasMsgs(PayloadAt(file, b)) /\ HasMsgs(PayloadAt(file, c)))
             => NextSeq(PayloadAt(file, b).seg) <= Feed[PayloadAt(file, c).seg].first

OffInv == Reading /\ AllTaken /\ FileInOrder

(* The steps of the framer, in the words of the live one.                  *)
Reads ==
    /\ offCur = NotDeep /\ drained = Len(offTaken)
    /\ block <= Len(file.blocks) /\ AllThere(file, block)
    /\ block' = block + 1
    /\ UNCHANGED <<file, offDropped, offTaken, drained>>

Passes == /\ Reads /\ ~HasMsgs(PayloadAt(file, block))
          /\ UNCHANGED <<offCur, offI, expected, offReorders>>

BeginsPacket ==
    LET d == PayloadAt(file, block)
    IN  /\ Reads /\ HasMsgs(d)
        /\ offReorders' = IF expected >= 0 /\ Feed[d.seg].first < expected
                          THEN offReorders + 1 ELSE offReorders
        /\ expected' = NextSeq(d.seg)
        /\ offCur' = d /\ offI' = 0

InPacket == UNCHANGED <<file, block, expected, offReorders, drained>>

Takes ==
    /\ InPacket /\ offCur # NotDeep /\ offI < offCur.intact
    /\ LET plu == IsPlu(offCur.seg, offI + 1)
           full == Len(offTaken) - drained = Capacity
       IN  /\ offTaken' = IF plu /\ ~full THEN Append(offTaken, Feed[offCur.seg].first + offI)
                       ELSE offTaken
           /\ offDropped' = IF plu /\ full THEN offDropped + 1 ELSE offDropped
    /\ offI' = offI + 1 /\ offCur' = offCur

EndsPacket ==
    /\ InPacket /\ offCur # NotDeep /\ offI = offCur.intact
    /\ offCur' = NotDeep /\ offI' = 0
    /\ UNCHANGED <<offDropped, offTaken>>

Outputs ==
    /\ offCur = NotDeep /\ drained < Len(offTaken) /\ drained' = drained + 1
    /\ UNCHANGED <<file, block, offCur, offI, expected, offReorders, offDropped, offTaken>>

OffState == [tab |-> offName, lv |-> offLevels, cs |-> offBookSt, out |-> offLines]

Same(a, c) == a.tab = c.tab /\ a.lv = c.lv /\ a.cs = c.cs /\ a.out = c.out

(* Every step of the offline program is one of these, and only the last    *)
(* of them goes on with the output, by the next update.                    *)
LEMMA OfflineSteps ==
  ASSUME Offline!Next, UNCHANGED liveVars
  PROVE  \/ (Passes \/ BeginsPacket \/ Takes \/ EndsPacket)
            /\ OffState' = OffState
         \/ Outputs /\ Turn(offTaken[drained + 1], wanted, OffState, OffState')
<1>0. file' = file
  BY DEF liveVars, rx
<1>1. \A d : Offline!HasMessages(d) = HasMsgs(d)
  BY DEF Offline!HasMessages, HasMsgs, Offline!MsgCount, MsgCount
<1>2. /\ \A f, b : /\ Offline!PayloadAt(f, b) = PayloadAt(f, b)
                   /\ Offline!AllThere(f, b) = AllThere(f, b)
      /\ \A k : Offline!MsgCount(k) = MsgCount(k)
      /\ Offline!NotDeep = NotDeep
  BY OfflineReads DEF Offline!MsgCount, MsgCount, Offline!NotDeep, NotDeep
<1>3. UNCHANGED Offline!output => OffState' = OffState /\ drained' = drained
  BY DEF Offline!output, OffState
<1>4. CASE Offline!Pass
  <2>1. Passes
    BY <1>0, <1>1, <1>2, <1>3, <1>4
       DEF Offline!Pass, Offline!Ready, Offline!MoreToRead, Offline!output, Passes, Reads
  <2> QED
    BY <1>3, <1>4, <2>1 DEF Offline!Pass
<1>5. CASE Offline!Frame
  <2>1. BeginsPacket
    BY <1>0, <1>1, <1>2, <1>3, <1>5
       DEF Offline!Frame, Offline!Ready, Offline!MoreToRead, Offline!output,
           BeginsPacket, Reads, NextSeq
  <2> QED
    BY <1>3, <1>5, <2>1 DEF Offline!Frame
<1>6. CASE Offline!Message
  <2>1. Takes
    BY <1>0, <1>2, <1>3, <1>6
       DEF Offline!Message, Takes, InPacket, IsPlu
  <2> QED
    BY <1>3, <1>6, <2>1 DEF Offline!Message
<1>7. CASE Offline!EndSegment
  <2>1. EndsPacket
    BY <1>0, <1>2, <1>3, <1>7
       DEF Offline!EndSegment, EndsPacket, InPacket
  <2> QED
    BY <1>3, <1>7, <2>1 DEF Offline!EndSegment
<1> DEFINE q == offTaken[drained + 1]
           x == Decoded(q, offName')
<1>8. ASSUME Offline!Pop
      PROVE  /\ Outputs
             /\ offName' = Interned(offName, Payload[q].name)
             /\ Offline!Decoded(offTaken[drained'], offName') = x
  <2>1. /\ drained' = drained + 1 /\ UNCHANGED Offline!reading
        /\ offCur = Offline!NotDeep /\ drained < Len(offTaken)
        /\ offName' = Offline!Interned(offName, Payload[offTaken[drained']].name)
    BY <1>8 DEF Offline!Pop
  <2>2. Outputs
    BY <1>0, <1>2, <2>1 DEF Offline!reading, Outputs
  <2> QED
    BY <2>1, <2>2, OfflineDecodes
<1>9. CASE Offline!Skip
  <2>1. /\ Offline!Pop /\ UNCHANGED <<offLevels, offBookSt, offLines>>
        /\ Offline!Decoded(offTaken[drained'], offName') = Offline!NoUpdate
    BY <1>9 DEF Offline!Skip
  <2>2. x = NoUpdate /\ offName' = Interned(offName, Payload[q].name)
    BY <1>8, <2>1, OfflineDecodes
  <2>3. Turn(q, wanted, OffState, OffState')
    BY <2>1, <2>2 DEF Turn, OffState
  <2> QED
    BY <1>8, <2>1, <2>3
<1>10. CASE Offline!Update
  <2>1. /\ Offline!Pop
        /\ Offline!Decoded(offTaken[drained'], offName') # Offline!NoUpdate
        /\ \E y : /\ y = Offline!Decoded(offTaken[drained'], offName')
                  /\ Offline!Book!Apply(<<y.sym, y.side>>, y.price, y.size)
                  /\ Offline!Emit(y)
    BY <1>10 DEF Offline!Update
  <2>2. PICK y : /\ y = Offline!Decoded(offTaken[drained'], offName')
                 /\ Offline!Book!Apply(<<y.sym, y.side>>, y.price, y.size)
                 /\ Offline!Emit(y)
    BY <2>1
  <2>3. x # NoUpdate /\ y = x /\ offName' = Interned(offName, Payload[q].name)
    BY <1>8, <2>1, <2>2, OfflineDecodes
  <2>4. Applied(offLevels, offBookSt, <<y.sym, y.side>>, y.price, y.size,
                offLevels', offBookSt')
    BY <2>2, OfflineApplies
  <2>5. offLines' = IF y.epc /\ offName'[y.sym + 1] \in wanted
                    THEN Append(offLines, Line(y, offName', offLevels')) ELSE offLines
    BY <2>2, OfflineDecodes DEF Offline!Emit, Offline!Complete
  <2> HIDE DEF x
  <2>6. Turn(q, wanted, OffState, OffState')
    BY <2>3, <2>4, <2>5 DEF Turn, OffState, x
  <2> QED
    BY <1>8, <2>1, <2>6
<1> QED
  BY <1>4, <1>5, <1>6, <1>7, <1>9, <1>10 DEF Offline!Next

(* A packet is framed as the stage frames it.                              *)
LEMMA PayloadIsFramed ==
  ASSUME NEW f \in Files, NEW b \in DOMAIN f.blocks
  PROVE  PayloadAt(f, b) \in Frames
<1>1. CASE ~HasPayload(f.blocks[b])
  BY <1>1 DEF PayloadAt, Frames
<1>2. CASE HasPayload(f.blocks[b])
  <2>1. f.blocks[b].type # "section"
    BY <1>2 DEF HasPayload
  <2>2. PayloadLen(f.blocks[b]) \in Int
    BY <2>1, LengthFacts
  <2> QED
    BY <1>2, <2>1, <2>2, DatagramIsFramed DEF PayloadAt
<1> QED
  BY <1>1, <1>2

(* What the place in the file and in a packet says.                        *)
LEMMA ReadingFacts ==
  ASSUME Reading
  PROVE  /\ Len(file.blocks) \in Nat /\ block \in Nat /\ block >= 1
         /\ \A b \in 1 .. block - 1 : b \in DOMAIN file.blocks
         /\ \A b \in DOMAIN file.blocks : b \in Nat /\ PayloadAt(file, b) \in Frames
         /\ Len(offTaken) \in Nat /\ drained \in Nat
         /\ Capacity \in Nat
         /\ offI \in Nat
         /\ offCur # NotDeep =>
              /\ offCur.seg \in SegIds /\ offCur.intact \in Nat
              /\ offI <= offCur.intact /\ offCur.intact <= MsgCount(offCur.seg)
              /\ MsgCount(offCur.seg) \in Nat /\ Feed[offCur.seg].first \in Nat
              /\ NextSeq(offCur.seg) = Feed[offCur.seg].first + MsgCount(offCur.seg)
<1>1. /\ Len(file.blocks) \in Nat /\ DOMAIN file.blocks = 1 .. Len(file.blocks)
  BY CaptureAssumption DEF Reading
<1>2. block \in 1 .. Len(file.blocks) + 1
  BY DEF Reading
<1>3. /\ block \in Nat /\ block >= 1
      /\ \A b \in 1 .. block - 1 : b \in DOMAIN file.blocks
      /\ \A b \in DOMAIN file.blocks : b \in Nat
  BY <1>1, <1>2
<1>4. \A b \in DOMAIN file.blocks : PayloadAt(file, b) \in Frames
  BY PayloadIsFramed DEF Reading
<1>5. Len(offTaken) \in Nat /\ drained \in Nat /\ Capacity \in Nat
  BY StageAssumption DEF Reading
<1>6. offCur \in Frames /\ offI \in 0 .. offCur.intact
  BY DEF Reading
<1>7. offCur.intact \in Nat /\ (offCur.seg # 0 => /\ offCur.seg \in SegIds
                                                  /\ offCur.intact <= MsgCount(offCur.seg))
  BY <1>6, FrameFacts
<1>8. offI \in Nat /\ offI <= offCur.intact
  BY <1>6, <1>7
<1>9. ASSUME offCur # NotDeep
      PROVE  offCur.seg \in SegIds
  BY <1>7, <1>9 DEF Reading, HasMsgs
<1>10. ASSUME offCur # NotDeep
       PROVE  /\ MsgCount(offCur.seg) \in Nat /\ Feed[offCur.seg].first \in Nat
              /\ NextSeq(offCur.seg) = Feed[offCur.seg].first + MsgCount(offCur.seg)
              /\ offCur.intact <= MsgCount(offCur.seg)
  <2>1. offCur.seg \in SegIds
    BY <1>9, <1>10
  <2>2. 0 \notin SegIds
    BY DEF SegIds
  <2> QED
    BY <1>7, <2>1, <2>2, SegmentFacts DEF NextSeq
<1> QED
  BY <1>1, <1>3, <1>4, <1>5, <1>7, <1>8, <1>9, <1>10

(* Before it starts nothing was read.                                      *)
LEMMA ReadingInit ==
  PipelinesInit => OffInv
<1> SUFFICES ASSUME PipelinesInit PROVE OffInv
  OBVIOUS
<1>1. /\ block = 1 /\ offCur = NotDeep /\ offI = 0
      /\ expected = -1 /\ offReorders = 0 /\ offDropped = 0
      /\ offTaken = <<>> /\ drained = 0 /\ file \in Files
  BY DEF PipelinesInit, Offline!Init, Offline!NotDeep, NotDeep
<1>2. Len(file.blocks) \in Nat
  BY <1>1, CaptureAssumption
<1>3. NotDeep \in Frames /\ NotDeep.intact = 0
  BY DEF Frames, NotDeep
<1>4. 1 .. block - 1 = {} /\ Len(offTaken) = 0 /\ offTaken \in Seq(DOMAIN Payload)
      /\ 1 .. 0 = {} /\ 0 \in 0 .. 0 /\ block \in 1 .. Len(file.blocks) + 1
  BY <1>1, <1>2
<1>5. Reading
  BY <1>1, <1>2, <1>3, <1>4 DEF Reading
<1>6. AllTaken /\ FileInOrder
  BY <1>1, <1>4 DEF AllTaken, FileInOrder
<1> QED
  BY <1>5, <1>6 DEF OffInv

(* The update at offI is one of the feed.                                  *)
LEMMA TakesFacts ==
  ASSUME Reading, Takes
  PROVE  /\ offDropped' = 0
         /\ IsPlu(offCur.seg, offI + 1) =>
              /\ Feed[offCur.seg].first + offI \in DOMAIN Payload
              /\ offTaken' = Append(offTaken, Feed[offCur.seg].first + offI)
         /\ ~IsPlu(offCur.seg, offI + 1) => offTaken' = offTaken
<1> DEFINE k == offCur.seg
           n == offI + 1
           rest == {j \in n .. offCur.intact : IsPlu(k, j)}
           last == {j \in n + 1 .. offCur.intact : IsPlu(k, j)}
<1>0. /\ k \in SegIds /\ offI \in Nat /\ offI < offCur.intact
      /\ offCur.intact \in Nat /\ offCur.intact <= MsgCount(k)
      /\ MsgCount(k) \in Nat /\ Feed[k].first \in Nat
      /\ Len(offTaken) \in Nat /\ drained \in Nat /\ Capacity \in Nat
      /\ Len(offTaken) - drained + Cardinality(rest) <= Capacity
      /\ offDropped = 0
  BY ReadingFacts DEF Takes, Reading
<1>1. n \in 1 .. MsgCount(k) /\ n \in Int /\ n <= offCur.intact
  BY <1>0
<1>2. IsPlu(k, n) => Feed[k].first + offI \in DOMAIN Payload
  <2> SUFFICES ASSUME IsPlu(k, n) PROVE Feed[k].first + offI \in DOMAIN Payload
    OBVIOUS
  <2>1. Feed[k].first + n - 1 \in DOMAIN Payload
    BY <1>0, <1>1, PayloadAssumption DEF IsPlu
  <2>2. Feed[k].first + n - 1 = Feed[k].first + offI
    BY <1>0
  <2> QED
    BY <2>1, <2>2
<1>3. IsPlu(k, n) => Len(offTaken) - drained # Capacity
  <2> SUFFICES ASSUME IsPlu(k, n) PROVE Len(offTaken) - drained # Capacity
    OBVIOUS
  <2>1. Cardinality(rest) = Cardinality(last) + 1 /\ Cardinality(last) \in Nat
    <3>1. n \in Int /\ n + 1 \in Int /\ offCur.intact \in Int /\ n <= offCur.intact
      BY <1>0, <1>1
    <3> HIDE DEF n
    <3> QED
      BY <3>1, RemainingStep, RemainingFinite
  <2> HIDE DEF rest, last
  <2> QED
    BY <1>0, <2>1
<1> QED
  BY <1>0, <1>2, <1>3 DEF Takes

(* The ring always has room for what is left of the packet: when a packet  *)
(* begins the ring is empty.                                               *)
LEMMA ReadingStep ==
  ASSUME Reading, Passes \/ BeginsPacket \/ Takes \/ EndsPacket \/ Outputs
  PROVE  Reading'
<1>0. /\ Len(file.blocks) \in Nat /\ block \in Nat /\ block >= 1
      /\ Len(offTaken) \in Nat /\ drained \in Nat /\ Capacity \in Nat
  BY ReadingFacts
<1>1. ASSUME Reads
      PROVE  /\ block' \in 1 .. Len(file'.blocks) + 1
             /\ \A b \in 1 .. block' - 1 : AllThere(file', b)
             /\ block \in DOMAIN file.blocks /\ block' - 1 = block /\ block' > 1
  <2>1. block' = block + 1 /\ block <= Len(file.blocks) /\ AllThere(file, block)
        /\ file' = file
    BY <1>1 DEF Reads
  <2>2. \A b \in 1 .. block' - 1 : b \in 1 .. block - 1 \/ b = block
    BY <1>0, <2>1
  <2>3. DOMAIN file.blocks = 1 .. Len(file.blocks)
    BY CaptureAssumption DEF Reading
  <2> QED
    BY <1>0, <2>1, <2>2, <2>3 DEF Reading
<1>2. CASE Passes
  BY <1>1, <1>2 DEF Passes, Reads, Reading
<1>3. CASE BeginsPacket
  <2> DEFINE d == PayloadAt(file, block)
             all == {j \in 1 .. d.intact : IsPlu(d.seg, j)}
  <2>1. /\ Reads /\ HasMsgs(d) /\ expected' = NextSeq(d.seg) /\ offCur' = d /\ offI' = 0
        /\ offReorders' \in {offReorders, offReorders + 1}
        /\ drained = Len(offTaken)
        /\ UNCHANGED <<file, offDropped, offTaken, drained>>
    BY <1>3 DEF BeginsPacket, Reads
  <2>2. d \in Frames
    BY <1>1, <2>1, ReadingFacts
  <2>3. d.intact \in Nat /\ d.seg \in SegIds
    BY <2>1, <2>2, FrameFacts DEF HasMsgs
  <2>4. expected' \in Nat
    BY <2>1, <2>3, SeqsFacts
  <2>5. Cardinality(all) <= Capacity
    BY <1>1, <2>1, RingAssumption DEF Reading, IsPlu
  <2>7. d # NotDeep
    BY <2>1 DEF HasMsgs, NotDeep
  <2> HIDE DEF d
  <2>6. Cardinality(all) \in Nat
    <3>1. 1 \in Int /\ d.intact \in Int
      BY <2>3
    <3> QED
      BY <3>1, RemainingFinite
  <2>8. /\ offI' \in 0 .. offCur'.intact
        /\ Len(offTaken') - drained' + Cardinality(all) <= Capacity
        /\ offI' + 1 = 1 /\ offReorders' \in Nat
    BY <1>0, <2>1, <2>3, <2>5, <2>6 DEF Reading
  <2>9. block' > 1 /\ offCur' = PayloadAt(file', block' - 1)
    BY <1>1, <2>1 DEF d
  <2> QED
    BY <1>1, <2>1, <2>2, <2>4, <2>8, <2>9 DEF Reading
<1>4. CASE Takes
  <2> DEFINE k == offCur.seg
             n == offI + 1
             R(m) == {j \in m .. offCur.intact : IsPlu(k, j)}
  <2>1. /\ offI \in Nat /\ offCur.intact \in Nat /\ offI < offCur.intact
        /\ Len(offTaken) - drained + Cardinality(R(n)) <= Capacity
        /\ offI' = n /\ offCur' = offCur
        /\ UNCHANGED <<file, block, expected, offReorders, drained>>
        /\ offCur # NotDeep
    BY <1>4, ReadingFacts DEF Takes, InPacket, Reading
  <2>2. /\ n \in Int /\ n \in 0 .. offCur.intact /\ n + 1 \in Int
        /\ n <= offCur.intact /\ offCur.intact \in Int
    BY <2>1
  <2> HIDE DEF n
  <2>3. /\ Cardinality(R(n)) = Cardinality(R(n + 1)) + (IF IsPlu(k, n) THEN 1 ELSE 0)
        /\ Cardinality(R(n + 1)) \in Nat
    <3> DEFINE x == offCur.intact
    <3>1. n \in Int /\ n + 1 \in Int /\ x \in Int /\ n <= x
      BY <2>2
    <3>2. /\ Cardinality({j \in n .. x : IsPlu(k, j)})
               = Cardinality({j \in n + 1 .. x : IsPlu(k, j)})
                 + (IF IsPlu(k, n) THEN 1 ELSE 0)
          /\ Cardinality({j \in n + 1 .. x : IsPlu(k, j)}) \in Nat
      <4> HIDE DEF x, k
      <4>1. Cardinality({j \in n .. x : IsPlu(k, j)})
               = Cardinality({j \in n + 1 .. x : IsPlu(k, j)})
                 + (IF IsPlu(k, n) THEN 1 ELSE 0)
        BY <3>1, RemainingStep
      <4>2. Cardinality({j \in n + 1 .. x : IsPlu(k, j)}) \in Nat
        BY <3>1, RemainingFinite
      <4> QED
        BY <4>1, <4>2
    <3> QED
      BY <3>2
  <2>4. /\ offDropped' = 0 /\ offTaken' \in Seq(DOMAIN Payload)
        /\ Len(offTaken') = Len(offTaken) + (IF IsPlu(k, n) THEN 1 ELSE 0)
    <3>1. offTaken \in Seq(DOMAIN Payload)
      BY DEF Reading
    <3>2. CASE IsPlu(k, n)
      BY <1>4, <3>1, <3>2, TakesFacts DEF n
    <3>3. CASE ~IsPlu(k, n)
      BY <1>4, <3>1, <3>3, TakesFacts DEF n
    <3> QED
      BY <3>2, <3>3
  <2> DEFINE c == Cardinality(R(n))
             e == Cardinality(R(n + 1))
  <2>5. Len(offTaken') - drained' + e <= Capacity /\ drained' <= Len(offTaken')
    <3>1. drained <= Len(offTaken) /\ Len(offTaken) - drained + c <= Capacity
      BY <2>1 DEF Reading
    <3>2. c = e + (IF IsPlu(k, n) THEN 1 ELSE 0) /\ e \in Nat
      BY <2>3
    <3> HIDE DEF c, e
    <3>3. CASE IsPlu(k, n)
      BY <1>0, <2>1, <2>4, <3>1, <3>2, <3>3
    <3>4. CASE ~IsPlu(k, n)
      BY <1>0, <2>1, <2>4, <3>1, <3>2, <3>4
    <3> QED
      BY <3>3, <3>4
  <2>6. offI' \in 0 .. offCur'.intact /\ e = Cardinality(R(offI' + 1))
    BY <2>1, <2>2
  <2> HIDE DEF e
  <2> QED
    BY <2>1, <2>4, <2>5, <2>6 DEF Reading
<1>5. CASE EndsPacket
  <2>1. NotDeep \in Frames /\ NotDeep.intact = 0 /\ 0 \in 0 .. 0
    BY DEF Frames, NotDeep
  <2> QED
    BY <1>5, <2>1 DEF EndsPacket, InPacket, Reading
<1>6. CASE Outputs
  <2>1. drained' \in Nat /\ drained' <= Len(offTaken)
    BY <1>0, <1>6 DEF Outputs
  <2> QED
    BY <1>6, <2>1 DEF Outputs, Reading
<1> QED
  BY <1>2, <1>3, <1>4, <1>5, <1>6

(* The framer pushes what it passes, and nothing else.                     *)
LEMMA AllTakenStep ==
  ASSUME Reading, AllTaken,
         Passes \/ BeginsPacket \/ Takes \/ EndsPacket \/ Outputs
  PROVE  AllTaken'
<1>0. /\ block \in Nat /\ block >= 1 /\ Len(offTaken) \in Nat
      /\ offTaken \in Seq(DOMAIN Payload)
      /\ offI \in Nat
  BY ReadingFacts DEF Reading
<1>1. file' = file
  BY DEF Passes, BeginsPacket, Reads, Takes, EndsPacket, InPacket, Outputs
<1>2. \A b, j : /\ IsUpdate(b, j)' <=> IsUpdate(b, j)
                /\ NumberOf(b, j)' = NumberOf(b, j)
  BY <1>1 DEF IsUpdate, NumberOf
<1>3. CASE Passes \/ BeginsPacket
  <2>1. /\ block' = block + 1 /\ offTaken' = offTaken /\ offCur = NotDeep
        /\ block \in DOMAIN file.blocks
    <3>1. Reads /\ block <= Len(file.blocks)
      BY <1>3 DEF Passes, BeginsPacket, Reads
    <3>2. DOMAIN file.blocks = 1 .. Len(file.blocks) /\ Len(file.blocks) \in Nat
      BY CaptureAssumption DEF Reading
    <3> QED
      BY <1>0, <3>1, <3>2 DEF Reads
  <2>2. \A b \in 1 .. block' - 1 : b \in 1 .. block - 1 \/ b = block
    BY <1>0, <2>1
  <2>3. \A b \in 1 .. block - 1 : b \in 1 .. block' - 1
    BY <1>0, <2>1
  <2>4. ASSUME NEW b, NEW j \in Nat, b = block, IsUpdate(b, j)
        PROVE  ~Passed(b, j)'
    <3> DEFINE d == PayloadAt(file, b)
    <3>1. d \in Frames
      BY <2>1, <2>4, ReadingFacts
    <3>2. d.seg # 0 /\ j \in 1 .. d.intact
      BY <2>4 DEF IsUpdate
    <3> HIDE DEF d
    <3>3. d.seg \in SegIds /\ d.intact \in Nat /\ d.intact <= MsgCount(d.seg)
          /\ d # NotDeep
      BY <3>1, <3>2, FrameFacts DEF NoSegment
    <3>4. MsgCount(d.seg) \in Nat /\ j >= 1 /\ MsgCount(d.seg) > 0
      BY <3>2, <3>3, SegmentFacts
    <3>5. HasMsgs(d)
      BY <3>2, <3>4 DEF HasMsgs
    <3>6. offCur' = d /\ offI' = 0
      BY <1>3, <2>4, <3>5 DEF Passes, BeginsPacket, d
    <3>7. b = block' - 1
      BY <1>0, <2>1, <2>4
    <3>8. offCur' # NotDeep /\ ~(j <= offI')
      BY <3>3, <3>4, <3>6
    <3> QED
      BY <3>7, <3>8 DEF Passed
  <2>5. ASSUME NEW b \in 1 .. block' - 1, NEW j \in Nat,
               IsUpdate(b, j)', Passed(b, j)'
        PROVE  \E n \in 1 .. Len(offTaken') : offTaken'[n] = NumberOf(b, j)'
    <3>0. IsUpdate(b, j)
      BY <1>2, <2>5
    <3>1. b \in 1 .. block - 1
      <4>1. CASE b = block
        BY <2>4, <2>5, <3>0, <4>1
      <4> QED
        BY <2>2, <4>1
    <3>2. Passed(b, j)
      BY <2>1 DEF Passed
    <3> QED
      BY <1>2, <2>1, <2>5, <3>1, <3>2 DEF AllTaken
  <2>6. ASSUME NEW n \in 1 .. Len(offTaken')
        PROVE  \E b \in 1 .. block' - 1, j \in Nat :
                 IsUpdate(b, j)' /\ offTaken'[n] = NumberOf(b, j)'
    BY <1>2, <2>1, <2>3 DEF AllTaken
  <2> QED
    BY <2>5, <2>6 DEF AllTaken
<1>4. CASE Takes
  <2> DEFINE k == offCur.seg
             e == Feed[k].first + offI
  <2>1. /\ block' = block /\ offCur' = offCur /\ offCur # NotDeep /\ offI' = offI + 1
        /\ offI < offCur.intact
    BY <1>4 DEF Takes, InPacket
  <2>2. /\ offCur = PayloadAt(file, block - 1) /\ k \in SegIds
        /\ block - 1 \in 1 .. block - 1
        /\ offCur.intact \in Nat /\ Feed[k].first \in Nat
    BY <1>0, <2>1, ReadingFacts DEF Reading
  <2>3. k # 0
    BY <2>2 DEF SegIds
  <2>4. /\ \A n \in 1 .. Len(offTaken) : /\ n \in 1 .. Len(offTaken')
                                         /\ offTaken'[n] = offTaken[n]
        /\ IsPlu(k, offI + 1) => /\ Len(offTaken') = Len(offTaken) + 1
                                 /\ offTaken'[Len(offTaken) + 1] = e
        /\ ~IsPlu(k, offI + 1) => Len(offTaken') = Len(offTaken)
    <3>1. CASE IsPlu(k, offI + 1)
      <4>1. e \in DOMAIN Payload /\ offTaken' = Append(offTaken, e)
        BY <1>4, <3>1, TakesFacts
      <4> HIDE DEF e
      <4> QED
        BY <1>0, <3>1, <4>1
    <3>2. CASE ~IsPlu(k, offI + 1)
      BY <1>4, <3>2, TakesFacts
    <3> QED
      BY <3>1, <3>2
  <2>5. IsPlu(k, offI + 1) => /\ IsUpdate(block - 1, offI + 1)
                              /\ NumberOf(block - 1, offI + 1) = e
    <3>1. offI + 1 \in 1 .. offCur.intact
      BY <1>0, <2>1, <2>2
    <3>2. Feed[k].first + (offI + 1) - 1 = e
      BY <1>0, <2>2
    <3> QED
      BY <2>2, <2>3, <3>1, <3>2 DEF IsUpdate, NumberOf
  <2>6. ASSUME NEW b \in 1 .. block - 1, NEW j \in Nat,
               IsUpdate(b, j), Passed(b, j)'
        PROVE  \E n \in 1 .. Len(offTaken') : offTaken'[n] = NumberOf(b, j)
    <3>1. CASE Passed(b, j)
      BY <2>4, <2>6, <3>1 DEF AllTaken
    <3>2. CASE ~Passed(b, j)
      <4>1. b = block - 1 /\ j = offI + 1
        BY <1>0, <2>1, <2>6, <3>2 DEF Passed
      <4>2. IsPlu(k, offI + 1)
        BY <2>2, <2>6, <4>1 DEF IsUpdate
      <4>3. Len(offTaken) + 1 \in 1 .. Len(offTaken')
        BY <1>0, <2>4, <4>2
      <4> QED
        BY <2>4, <2>5, <4>1, <4>2, <4>3
    <3> QED
      BY <3>1, <3>2
  <2>7. ASSUME NEW n \in 1 .. Len(offTaken')
        PROVE  \E b \in 1 .. block - 1, j \in Nat :
                 IsUpdate(b, j) /\ offTaken'[n] = NumberOf(b, j)
    <3>1. CASE n \in 1 .. Len(offTaken)
      BY <2>4, <3>1 DEF AllTaken
    <3>2. CASE n \notin 1 .. Len(offTaken)
      <4>1. IsPlu(k, offI + 1) /\ n = Len(offTaken) + 1
        BY <1>0, <2>4, <3>2
      <4>2. offI + 1 \in Nat
        BY <1>0
      <4> QED
        BY <2>2, <2>4, <2>5, <4>1, <4>2
    <3> QED
      BY <3>1, <3>2
  <2> QED
    BY <1>2, <2>1, <2>6, <2>7 DEF AllTaken
<1>5. CASE EndsPacket \/ Outputs
  <2>1. /\ block' = block /\ offTaken' = offTaken
        /\ \A b, j : b \in 1 .. block - 1 /\ j \in Nat /\ IsUpdate(b, j) => Passed(b, j)
    <3>1. CASE Outputs
      BY <3>1 DEF Outputs, Passed
    <3>2. CASE EndsPacket
      <4>1. /\ offCur # NotDeep /\ offI = offCur.intact
            /\ offCur = PayloadAt(file, block - 1)
        BY <3>2 DEF EndsPacket, Reading
      <4>2. ASSUME NEW j \in Nat, IsUpdate(block - 1, j)
            PROVE  j <= offI
        BY <1>0, <4>1, <4>2 DEF IsUpdate
      <4> QED
        BY <3>2, <4>2 DEF EndsPacket, InPacket, Passed
    <3> QED
      BY <1>5, <3>1, <3>2
  <2> QED
    BY <1>2, <2>1 DEF AllTaken
<1> QED
  BY <1>3, <1>4, <1>5

(* Without a reorder each packet is behind the one before.                 *)
LEMMA FileInOrderStep ==
  ASSUME Reading, FileInOrder,
         Passes \/ BeginsPacket \/ Takes \/ EndsPacket \/ Outputs
  PROVE  FileInOrder'
<1>0. /\ block \in Nat /\ block >= 1 /\ Len(offTaken) \in Nat
      /\ offTaken \in Seq(DOMAIN Payload) /\ offI \in Nat
      /\ expected \in Nat \cup {-1} /\ offReorders \in Nat
      /\ \A n \in 1 .. Len(offTaken) : offTaken[n] \in Nat
      /\ file' = file
  <2>1. offTaken \in Seq(DOMAIN Payload) /\ DOMAIN Payload \subseteq Nat
    BY PayloadAssumption DEF Reading
  <2>2. \A n \in 1 .. Len(offTaken) : offTaken[n] \in Nat
    BY <2>1
  <2>3. file' = file
    BY DEF Passes, BeginsPacket, Reads, Takes, EndsPacket, InPacket, Outputs
  <2> QED
    BY <2>1, <2>2, <2>3, ReadingFacts DEF Reading
<1> SUFFICES ASSUME offReorders' = 0
             PROVE  /\ \A m, n \in 1 .. Len(offTaken') : m < n => offTaken'[m] < offTaken'[n]
                    /\ \A n \in 1 .. Len(offTaken') : offTaken'[n] < OffAhead'
                    /\ \A b \in 1 .. block' - 1 :
                         HasMsgs(PayloadAt(file, b))
                           => NextSeq(PayloadAt(file, b).seg) <= expected'
                    /\ \A b, c \in 1 .. block' - 1 :
                         (b < c /\ HasMsgs(PayloadAt(file, b))
                                /\ HasMsgs(PayloadAt(file, c)))
                           => NextSeq(PayloadAt(file, b).seg)
                                <= Feed[PayloadAt(file, c).seg].first
  BY <1>0 DEF FileInOrder
<1>1. offReorders = 0
  <2>1. offReorders' \in {offReorders, offReorders + 1}
    BY DEF Passes, BeginsPacket, Takes, EndsPacket, InPacket, Outputs
  <2> QED
    BY <1>0, <2>1
<1>2. /\ \A m, n \in 1 .. Len(offTaken) : m < n => offTaken[m] < offTaken[n]
      /\ \A n \in 1 .. Len(offTaken) : offTaken[n] < OffAhead
      /\ \A b \in 1 .. block - 1 :
           HasMsgs(PayloadAt(file, b)) => NextSeq(PayloadAt(file, b).seg) <= expected
      /\ \A b, c \in 1 .. block - 1 :
           (b < c /\ HasMsgs(PayloadAt(file, b)) /\ HasMsgs(PayloadAt(file, c)))
             => NextSeq(PayloadAt(file, b).seg) <= Feed[PayloadAt(file, c).seg].first
  BY <1>1 DEF FileInOrder
<1>3. CASE Passes
  <2>1. /\ block' = block + 1 /\ UNCHANGED <<offTaken, expected, offCur, offI>>
        /\ ~HasMsgs(PayloadAt(file, block))
    BY <1>3 DEF Passes, Reads
  <2>2. \A b \in 1 .. block' - 1 : b \in 1 .. block - 1 \/ b = block
    BY <1>0, <2>1
  <2>3. OffAhead' = OffAhead
    <3>1. (IF offCur' = NotDeep THEN expected' ELSE Feed[offCur'.seg].first + offI')
            = (IF offCur = NotDeep THEN expected ELSE Feed[offCur.seg].first + offI)
      BY <2>1
    <3> QED
      BY <3>1 DEF OffAhead
  <2> QED
    BY <1>2, <2>1, <2>2, <2>3
<1>4. CASE BeginsPacket
  <2> DEFINE d == PayloadAt(file, block)
             a == Feed[d.seg].first
  <2>1. /\ block' = block + 1 /\ offTaken' = offTaken /\ offCur = NotDeep
        /\ HasMsgs(d) /\ expected' = NextSeq(d.seg) /\ offCur' = d /\ offI' = 0
        /\ block <= Len(file.blocks)
        /\ offReorders' = IF expected >= 0 /\ a < expected
                          THEN offReorders + 1 ELSE offReorders
    BY <1>4 DEF BeginsPacket, Reads
  <2>2. d \in Frames
    <3>1. DOMAIN file.blocks = 1 .. Len(file.blocks) /\ Len(file.blocks) \in Nat
      BY CaptureAssumption DEF Reading
    <3>2. block \in DOMAIN file.blocks
      BY <1>0, <2>1, <3>1
    <3> QED
      BY <3>2, ReadingFacts
  <2>3. /\ d.seg \in SegIds /\ d # NotDeep
        /\ a \in Nat /\ MsgCount(d.seg) \in Nat /\ MsgCount(d.seg) > 0
        /\ NextSeq(d.seg) = a + MsgCount(d.seg)
    BY <2>1, <2>2, FrameFacts, SegmentFacts DEF HasMsgs, NoSegment, NextSeq
  <2>4. ~(expected >= 0 /\ a < expected)
    BY <1>0, <1>1, <2>1
  <2>5. expected <= a /\ expected <= NextSeq(d.seg)
    BY <1>0, <2>3, <2>4
  <2>6. OffAhead = expected /\ OffAhead' = a
    <3>1. Feed[d.seg].first + 0 = a
      BY <2>3
    <3> QED
      BY <2>1, <2>3, <3>1 DEF OffAhead
  <2>7. \A b \in 1 .. block' - 1 : b \in 1 .. block - 1 \/ b = block
    BY <1>0, <2>1
  <2>8. \A n \in 1 .. Len(offTaken) : offTaken[n] < a
    BY <1>0, <1>2, <2>3, <2>5, <2>6
  <2>9. ASSUME NEW b \in 1 .. block - 1, HasMsgs(PayloadAt(file, b))
        PROVE  /\ NextSeq(PayloadAt(file, b).seg) <= expected'
               /\ NextSeq(PayloadAt(file, b).seg) <= a
    <3> DEFINE x == NextSeq(PayloadAt(file, b).seg)
    <3>1. PayloadAt(file, b) \in Frames
      BY ReadingFacts
    <3>2. x \in Nat
      BY <2>9, <3>1, FrameFacts, SeqsFacts DEF HasMsgs
    <3>3. x <= expected
      BY <1>2, <2>9
    <3> HIDE DEF x, d
    <3>4. x <= NextSeq(d.seg) /\ x <= a
      BY <1>0, <2>3, <2>5, <3>2, <3>3
    <3> QED
      BY <2>1, <3>4 DEF x
  <2>10. ASSUME NEW b \in 1 .. block' - 1, NEW c \in 1 .. block' - 1, b < c,
                HasMsgs(PayloadAt(file, b)), HasMsgs(PayloadAt(file, c))
         PROVE  NextSeq(PayloadAt(file, b).seg) <= Feed[PayloadAt(file, c).seg].first
    <3>1. b \in 1 .. block - 1
      BY <1>0, <2>1, <2>10
    <3>2. CASE c = block
      BY <2>9, <2>10, <3>1, <3>2
    <3>3. CASE c \in 1 .. block - 1
      BY <1>2, <2>10, <3>1, <3>3
    <3> QED
      BY <2>7, <3>2, <3>3
  <2>11. ASSUME NEW b \in 1 .. block' - 1, HasMsgs(PayloadAt(file, b))
         PROVE  NextSeq(PayloadAt(file, b).seg) <= expected'
    <3>1. CASE b = block
      BY <2>1, <2>3, <3>1
    <3>2. CASE b \in 1 .. block - 1
      BY <2>9, <2>11, <3>2
    <3> QED
      BY <2>7, <3>1, <3>2
  <2> HIDE DEF d, a
  <2> QED
    BY <1>2, <2>1, <2>6, <2>8, <2>10, <2>11
<1>5. CASE Takes
  <2> DEFINE k == offCur.seg
             e == Feed[k].first + offI
             L == Len(offTaken)
  <2>1. /\ offI' = offI + 1 /\ offCur' = offCur /\ offCur # NotDeep
        /\ expected' = expected /\ block' = block
    BY <1>5 DEF Takes, InPacket
  <2>2. Feed[k].first \in Nat
    BY <2>1, ReadingFacts
  <2>3. OffAhead = e /\ OffAhead' = e + 1 /\ e \in Nat
    <3> DEFINE f == Feed[k].first
    <3>1. OffAhead = f + offI /\ OffAhead' = f + (offI + 1)
      BY <2>1 DEF OffAhead
    <3>2. e = f + offI /\ f \in Nat
      BY <2>2
    <3>3. offI \in Nat
      BY <1>0
    <3> HIDE DEF e, f
    <3> QED
      BY <3>1, <3>2, <3>3
  <2> HIDE DEF e
  <2>4. \A n \in 1 .. L : offTaken[n] < e /\ offTaken[n] \in Nat
    BY <1>0, <1>2, <2>3
  <2>5. /\ \A m, n \in 1 .. Len(offTaken') : m < n => offTaken'[m] < offTaken'[n]
        /\ \A n \in 1 .. Len(offTaken') : offTaken'[n] < e + 1
    <3>1. CASE IsPlu(k, offI + 1)
      <4>1. offTaken' = Append(offTaken, e)
        BY <1>5, <3>1, TakesFacts DEF e
      <4>2. /\ Len(offTaken') = L + 1 /\ offTaken'[L + 1] = e
            /\ \A n \in 1 .. L : offTaken'[n] = offTaken[n]
        BY <1>0, <4>1
      <4>3. \A n \in 1 .. L + 1 : n \in 1 .. L \/ n = L + 1
        BY <1>0
      <4>4. \A n \in 1 .. L + 1 : offTaken'[n] < e + 1
        <5> TAKE n \in 1 .. L + 1
        <5>1. CASE n \in 1 .. L
          <6>1. offTaken'[n] < e /\ offTaken'[n] \in Nat
            BY <2>4, <4>2, <5>1
          <6> QED
            BY <2>3, <6>1
        <5>2. CASE n = L + 1
          BY <2>3, <4>2, <5>2
        <5> QED
          BY <4>3, <5>1, <5>2
      <4>5. ASSUME NEW m \in 1 .. L + 1, NEW n \in 1 .. L + 1, m < n
            PROVE  offTaken'[m] < offTaken'[n]
        <5>1. m \in 1 .. L
          BY <1>0, <4>5
        <5>2. CASE n \in 1 .. L
          BY <1>2, <4>2, <4>5, <5>1, <5>2
        <5>3. CASE n = L + 1
          BY <2>4, <4>2, <5>1, <5>3
        <5> QED
          BY <4>3, <5>2, <5>3
      <4> QED
        BY <4>2, <4>4, <4>5
    <3>2. CASE ~IsPlu(k, offI + 1)
      <4>1. offTaken' = offTaken
        BY <1>5, <3>2, TakesFacts
      <4>2. \A n \in 1 .. L : offTaken[n] < e + 1
        BY <2>3, <2>4
      <4> QED
        BY <1>2, <4>1, <4>2
    <3> QED
      BY <3>1, <3>2
  <2> QED
    BY <1>2, <2>1, <2>3, <2>5
<1>6. CASE EndsPacket
  <2>1. /\ offCur # NotDeep /\ offI = offCur.intact /\ offCur' = NotDeep
        /\ UNCHANGED <<offTaken, expected, block>>
    BY <1>6 DEF EndsPacket, InPacket
  <2>2. /\ offCur.intact <= MsgCount(offCur.seg) /\ offCur.intact \in Nat
        /\ Feed[offCur.seg].first \in Nat /\ MsgCount(offCur.seg) \in Nat
        /\ expected = Feed[offCur.seg].first + MsgCount(offCur.seg)
    BY <2>1, ReadingFacts DEF Reading
  <2>3. OffAhead = Feed[offCur.seg].first + offI /\ OffAhead' = expected
    BY <2>1 DEF OffAhead
  <2>4. OffAhead <= OffAhead' /\ OffAhead \in Nat /\ OffAhead' \in Nat
    BY <2>1, <2>2, <2>3
  <2>5. \A n \in 1 .. Len(offTaken) : offTaken[n] < OffAhead'
    BY <1>0, <1>2, <2>4
  <2> QED
    BY <1>2, <2>1, <2>5
<1>7. CASE Outputs
  <2>1. UNCHANGED <<offTaken, expected, block, offCur, offI>>
    BY <1>7 DEF Outputs
  <2>2. OffAhead' = OffAhead
    <3>1. (IF offCur' = NotDeep THEN expected' ELSE Feed[offCur'.seg].first + offI')
            = (IF offCur = NotDeep THEN expected ELSE Feed[offCur.seg].first + offI)
      BY <2>1
    <3> QED
      BY <3>1 DEF OffAhead
  <2> QED
    BY <1>2, <2>1, <2>2
<1> QED
  BY <1>3, <1>4, <1>5, <1>6, <1>7

(* The steps of the live pipeline touch neither the file nor the other     *)
(* program.                                                                *)
LEMMA FileStays ==
  ASSUME [PipelinesNext]_allVars
  PROVE  file' = file /\ wanted' = wanted
<1>1. CASE UNCHANGED liveVars \/ UNCHANGED allVars
  BY <1>1 DEF allVars, liveVars, rx
<1>2. CASE LiveNext
  <2>1. CASE Stage \/ RxDone \/ Joined
    BY <2>1 DEF Stage, RxDone, Joined, liveVars, rx
  <2>2. CASE PopEnd
    BY <2>2 DEF PopEnd
  <2>3. CASE \/ Look \/ NotDone \/ SeeDone \/ SecondLook \/ Decode \/ Apply \/ Emit
    BY <2>3 DEF Look, NotDone, SeeDone, SecondLook, Decode, Apply, Emit, rx
  <2> QED
    BY <1>2, <2>1, <2>2, <2>3 DEF LiveNext, ReceiveThread, DrainThread
<1> QED
  BY <1>1, <1>2 DEF PipelinesNext

(* Both pipelines keep it, the live one by leaving it alone.               *)
LEMMA OffInvStep ==
  OffInv /\ [PipelinesNext]_allVars => OffInv'
<1> SUFFICES ASSUME OffInv, [PipelinesNext]_allVars PROVE OffInv'
  OBVIOUS
<1>0. Reading /\ AllTaken /\ FileInOrder
  BY DEF OffInv
<1>1. CASE Offline!Next /\ UNCHANGED liveVars
  <2>1. Passes \/ BeginsPacket \/ Takes \/ EndsPacket \/ Outputs
    BY <1>1, OfflineSteps
  <2>2. Reading' /\ AllTaken' /\ FileInOrder'
    BY <1>0, <2>1, ReadingStep, AllTakenStep, FileInOrderStep
  <2> QED
    BY <2>2 DEF OffInv
<1>2. CASE UNCHANGED offlineVars
  <2>1. /\ UNCHANGED <<file, block, offCur, offI, expected, offReorders, offDropped>>
        /\ UNCHANGED <<offTaken, drained>>
    BY <1>2, FileStays DEF offlineVars
  <2>2. Reading'
    BY <1>0, <2>1 DEF Reading
  <2>3. /\ \A b, j : /\ IsUpdate(b, j)' <=> IsUpdate(b, j)
                     /\ NumberOf(b, j)' = NumberOf(b, j)
                     /\ Passed(b, j)' <=> Passed(b, j)
        /\ OffAhead' = OffAhead
    BY <2>1 DEF IsUpdate, NumberOf, Passed, OffAhead
  <2>4. AllTaken'
    BY <1>0, <2>1, <2>3 DEF AllTaken
  <2>5. FileInOrder'
    BY <1>0, <2>1, <2>3 DEF FileInOrder
  <2> QED
    BY <2>2, <2>4, <2>5 DEF OffInv
<1> QED
  BY <1>1, <1>2 DEF PipelinesNext, allVars

(* The inductive invariant of the offline pipeline: what was pushed is     *)
(* what the packets read so far hold, in order, and the ring has room for  *)
(* the rest of the packet being framed.                                    *)
THEOREM OfflineInvariant == PipelinesSpec => []OffInv
BY ReadingInit, OffInvStep, PTL DEF PipelinesSpec

(* The offline pipeline drops no update for a full ring, as book_offline.c *)
(* says: drain leaves nothing of one packet behind for the next, and a     *)
(* packet has at most as many updates as the ring has slots.               *)
THEOREM OfflineNeverDrops == PipelinesSpec => []OfflineDropsNone
<1>1. OffInv => OfflineDropsNone
  BY DEF OffInv, Reading, OfflineDropsNone
<1> QED
  BY <1>1, OfflineInvariant, PTL

-----------------------------------------------------------------------------
(* The live pipeline on the way of the offline one.                        *)

(* Offline!Finished, in the words of the live pipeline.                    *)
FileDone ==
    /\ offCur = NotDeep /\ drained = Len(offTaken)
    /\ ~(block <= Len(file.blocks) /\ AllThere(file, block))

(* The two say the same.                                                   *)
LEMMA FinishedIsDone == Offline!Finished <=> FileDone
<1>1. Offline!NotDeep = NotDeep /\ Offline!AllThere(file, block) = AllThere(file, block)
  BY OfflineReads DEF Offline!NotDeep, NotDeep
<1> QED
  BY <1>1 DEF Offline!Finished, Offline!Ready, Offline!MoreToRead, FileDone

(* The drain thread waits for the offline program.                         *)
Still == ~FileDone => dpc = "look" /\ pops = 0

(* The drain thread goes on waiting, and a finished program has no step.   *)
LEMMA StillStep ==
  ASSUME OffInv, Still, [PipelinesNext]_allVars
  PROVE  /\ Still'
         /\ Offline!Next /\ UNCHANGED liveVars => ~FileDone
<1>1. ASSUME Offline!Next, UNCHANGED liveVars
      PROVE  ~FileDone
  <2>0. Len(offTaken) \in Nat /\ drained \in Nat
    BY ReadingFacts DEF OffInv
  <2>1. Passes \/ BeginsPacket \/ Takes \/ EndsPacket \/ Outputs
    BY <1>1, OfflineSteps
  <2>2. CASE Passes \/ BeginsPacket
    BY <2>2 DEF Passes, BeginsPacket, Reads, FileDone
  <2>3. CASE Takes \/ EndsPacket
    BY <2>3 DEF Takes, EndsPacket, FileDone
  <2>4. CASE Outputs
    BY <2>0, <2>4 DEF Outputs, FileDone
  <2> QED
    BY <2>1, <2>2, <2>3, <2>4
<1>2. CASE Offline!Next /\ UNCHANGED liveVars
  BY <1>1, <1>2 DEF Still, liveVars, drain
<1>3. CASE Offline!Finished /\ LiveNext /\ UNCHANGED offlineVars
  <2>1. FileDone
    BY <1>3, FinishedIsDone
  <2>2. FileDone'
    BY <1>3, <2>1, FileStays DEF FileDone, offlineVars
  <2> QED
    BY <1>1, <2>2 DEF Still
<1>4. CASE UNCHANGED allVars
  <2>1. UNCHANGED <<dpc, pops, offCur, drained, offTaken, block, file>>
    BY <1>4 DEF allVars, liveVars, drain, rx, offlineVars
  <2> QED
    BY <1>1, <2>1 DEF Still, FileDone
<1> QED
  BY <1>1, <1>2, <1>3, <1>4 DEF PipelinesNext

(* So far both have the same updates.                                      *)
Agree(s, t, n) == \A m \in 1 .. n : s[m] = t[m]

LiveState == [tab |-> name, lv |-> levels, cs |-> bookSt, out |-> lines]

(* Where the drain thread is (ph), with state a, after the pop of n        *)
(* updates s: if they are the first n of t, it is at the n-th of the       *)
(* states tr, or between two of them.                                      *)
LiveAt(tr, max, s, t, ph, n, x, a) ==
    /\ ph \in Idle /\ n <= max /\ Agree(s, t, n) => Same(a, tr[n])
    /\ ph = "decoded" /\ n + 1 <= max /\ Agree(s, t, n + 1) =>
         /\ x = Decoded(t[n + 1], a.tab) /\ a.tab = tr[n + 1].tab
         /\ a.lv = tr[n].lv /\ a.cs = tr[n].cs /\ a.out = tr[n].out
    /\ ph \in {"apply", "emit"} => n > 0
    /\ ph \in {"apply", "emit"} /\ n <= max /\ Agree(s, t, n) =>
         /\ x = Decoded(t[n], a.tab) /\ x # NoUpdate /\ a.tab = tr[n].tab
         /\ a.out = tr[n - 1].out
    /\ ph = "apply" /\ n <= max /\ Agree(s, t, n) =>
         a.lv = tr[n - 1].lv /\ a.cs = tr[n - 1].cs
    /\ ph = "emit" /\ n <= max /\ Agree(s, t, n) =>
         x.epc /\ a.lv = tr[n].lv /\ a.cs = tr[n].cs

(* All places without an update are alike.                                 *)
LEMMA LiveAtIdle ==
  ASSUME NEW tr, NEW max, NEW s, NEW t, NEW ph \in Idle, NEW qh \in Idle, NEW n,
         NEW x, NEW y, NEW a, LiveAt(tr, max, s, t, ph, n, x, a)
  PROVE  LiveAt(tr, max, s, t, qh, n, y, a)
<1>1. qh # "decoded" /\ qh \notin {"apply", "emit"} /\ qh # "apply" /\ qh # "emit"
  BY DEF Idle
<1> QED
  BY <1>1 DEF LiveAt

(* The receive thread pushes more.                                         *)
LEMMA LiveAtGrows ==
  ASSUME NEW tr, NEW max, NEW s, NEW r, NEW t, NEW len \in Nat, NEW ph,
         NEW n \in Nat, n <= len, ph = "decoded" => n < len, NEW x, NEW a,
         \A m \in 1 .. len : r[m] = s[m],
         LiveAt(tr, max, s, t, ph, n, x, a)
  PROVE  LiveAt(tr, max, r, t, ph, n, x, a)
<1>1. Agree(r, t, n) => Agree(s, t, n)
  <2>1. \A m \in 1 .. n : m \in 1 .. len
    OBVIOUS
  <2> QED
    BY <2>1 DEF Agree
<1>2. ph = "decoded" /\ Agree(r, t, n + 1) => Agree(s, t, n + 1)
  <2>1. ph = "decoded" => \A m \in 1 .. n + 1 : m \in 1 .. len
    OBVIOUS
  <2> QED
    BY <2>1 DEF Agree
<1> QED
  BY <1>1, <1>2 DEF LiveAt

(* deep_decode.                                                            *)
LEMMA LiveAtDecode ==
  ASSUME NEW tr, NEW max \in Nat, NEW s, NEW t, NEW w, NEW n \in Nat, NEW x,
         NEW a, NEW c, NEW y, Trace(tr, t, max, w),
         LiveAt(tr, max, s, t, "held", n, x, a),
         c.tab = Interned(a.tab, Payload[s[n + 1]].name),
         c.lv = a.lv, c.cs = a.cs, c.out = a.out,
         y = Decoded(s[n + 1], c.tab)
  PROVE  LiveAt(tr, max, s, t, "decoded", n, y, c)
<1>1. ASSUME n + 1 <= max, Agree(s, t, n + 1)
      PROVE  /\ y = Decoded(t[n + 1], c.tab) /\ c.tab = tr[n + 1].tab
             /\ c.lv = tr[n].lv /\ c.cs = tr[n].cs /\ c.out = tr[n].out
  <2>1. n <= max /\ n + 1 \in 1 .. max /\ n + 1 - 1 = n /\ n + 1 \in 1 .. n + 1
    BY <1>1
  <2>2. Agree(s, t, n) /\ s[n + 1] = t[n + 1]
    <3>1. \A m \in 1 .. n : m \in 1 .. n + 1
      OBVIOUS
    <3> QED
      BY <1>1, <2>1, <3>1 DEF Agree
  <2>3. Same(a, tr[n])
    BY <2>1, <2>2 DEF LiveAt, Idle
  <2>4. Turn(t[n + 1], w, tr[n + 1 - 1], tr[n + 1])
    BY <2>1 DEF Trace
  <2>5. tr[n + 1].tab = Interned(tr[n].tab, Payload[t[n + 1]].name)
    BY <2>1, <2>4 DEF Turn
  <2> QED
    BY <2>2, <2>3, <2>5 DEF Same
<1> QED
  BY <1>1 DEF LiveAt, Idle

(* pop_end.                                                                *)
LEMMA LiveAtPop ==
  ASSUME NEW tr, NEW max \in Nat, NEW s, NEW t, NEW w, NEW n \in Nat, NEW x,
         NEW a, NEW ph, Trace(tr, t, max, w),
         LiveAt(tr, max, s, t, "decoded", n, x, a),
         ph = IF x = NoUpdate THEN "look" ELSE "apply"
  PROVE  LiveAt(tr, max, s, t, ph, n + 1, x, a)
<1>0. n + 1 > 0 /\ n + 1 - 1 = n /\ n + 1 \in Nat
  OBVIOUS
<1>1. ASSUME n + 1 <= max, Agree(s, t, n + 1)
      PROVE  /\ x = Decoded(t[n + 1], a.tab) /\ a.tab = tr[n + 1].tab
             /\ a.lv = tr[n].lv /\ a.cs = tr[n].cs /\ a.out = tr[n].out
             /\ Turn(t[n + 1], w, tr[n], tr[n + 1])
  <2>1. n + 1 \in 1 .. max
    BY <1>1
  <2>2. Turn(t[n + 1], w, tr[n + 1 - 1], tr[n + 1])
    BY <2>1 DEF Trace
  <2> QED
    BY <1>0, <1>1, <2>2 DEF LiveAt
<1>2. CASE x = NoUpdate
  <2>1. ASSUME n + 1 <= max, Agree(s, t, n + 1)
        PROVE  Same(a, tr[n + 1])
    BY <1>1, <1>2, <2>1 DEF Turn, Same
  <2>2. ph = "look"
    BY <1>2
  <2> QED
    BY <2>1, <2>2 DEF LiveAt, Idle
<1>3. CASE x # NoUpdate
  <2>1. ph = "apply" /\ ph \notin Idle
    BY <1>3 DEF Idle
  <2> QED
    BY <1>0, <1>1, <1>3, <2>1 DEF LiveAt
<1> QED
  BY <1>2, <1>3

(* book_apply: what an update makes of the books leaves no choice.         *)
LEMMA LiveAtApply ==
  ASSUME NEW tr, NEW max \in Nat, NEW s, NEW t, NEW w, NEW n \in Nat, NEW x,
         NEW a, NEW c, NEW ph, Trace(tr, t, max, w),
         LiveAt(tr, max, s, t, "apply", n, x, a),
         Applied(a.lv, a.cs, <<x.sym, x.side>>, x.price, x.size, c.lv, c.cs),
         c.tab = a.tab, c.out = a.out,
         ph = IF x.epc THEN "emit" ELSE "look"
  PROVE  LiveAt(tr, max, s, t, ph, n, x, c)
<1>0. n > 0
  BY DEF LiveAt
<1>1. ASSUME n <= max, Agree(s, t, n)
      PROVE  /\ x = Decoded(t[n], c.tab) /\ x # NoUpdate /\ c.tab = tr[n].tab
             /\ c.lv = tr[n].lv /\ c.cs = tr[n].cs /\ c.out = tr[n - 1].out
             /\ ~x.epc => c.out = tr[n].out
  <2>0. n \in 1 .. max /\ n - 1 \in 0 .. max /\ n \in 0 .. max
    BY <1>0, <1>1
  <2>1. /\ x = Decoded(t[n], a.tab) /\ x # NoUpdate /\ a.tab = tr[n].tab
        /\ a.out = tr[n - 1].out /\ a.lv = tr[n - 1].lv /\ a.cs = tr[n - 1].cs
    BY <1>1 DEF LiveAt
  <2>2. Turn(t[n], w, tr[n - 1], tr[n]) /\ Sane(tr[n]) /\ Sane(tr[n - 1])
        /\ t[n] \in DOMAIN Payload
    BY <2>0 DEF Trace
  <2>3. /\ Applied(tr[n - 1].lv, tr[n - 1].cs, <<x.sym, x.side>>, x.price, x.size,
                   tr[n].lv, tr[n].cs)
        /\ ~x.epc => tr[n].out = tr[n - 1].out
    BY <2>1, <2>2 DEF Turn
  <2>4. <<x.sym, x.side>> \in Book!Books /\ x.price \in Int
    BY <2>1, <2>2, DecodedSane DEF Sane
  <2>5. DOMAIN tr[n - 1].lv[<<x.sym, x.side>>] \subseteq Int
    BY <2>2, <2>4 DEF Sane
  <2>6. Applied(tr[n - 1].lv, tr[n - 1].cs, <<x.sym, x.side>>, x.price, x.size,
                c.lv, c.cs)
    BY <2>1
  <2>7. c.lv = tr[n].lv /\ c.cs = tr[n].cs
    BY <2>3, <2>4, <2>5, <2>6, AppliedOnce
  <2> QED
    BY <2>1, <2>3, <2>7
<1>2. CASE x.epc
  <2>1. ph = "emit" /\ ph \notin Idle
    BY <1>2 DEF Idle
  <2> QED
    BY <1>0, <1>1, <1>2, <2>1 DEF LiveAt
<1>3. CASE ~x.epc
  <2>1. ph = "look"
    BY <1>3
  <2> QED
    BY <1>1, <1>3, <2>1 DEF LiveAt, Idle, Same
<1> QED
  BY <1>2, <1>3

(* emit_bbo.                                                               *)
LEMMA LiveAtEmit ==
  ASSUME NEW tr, NEW max \in Nat, NEW s, NEW t, NEW w, NEW n \in Nat, NEW x,
         NEW a, NEW c, Trace(tr, t, max, w),
         LiveAt(tr, max, s, t, "emit", n, x, a),
         c.tab = a.tab, c.lv = a.lv, c.cs = a.cs,
         c.out = IF a.tab[x.sym + 1] \notin w THEN a.out
                 ELSE Append(a.out, Line(x, a.tab, a.lv))
  PROVE  LiveAt(tr, max, s, t, "look", n, x, c)
<1>0. n > 0
  BY DEF LiveAt
<1>1. ASSUME n <= max, Agree(s, t, n)
      PROVE  Same(c, tr[n])
  <2>0. n \in 1 .. max
    BY <1>0, <1>1
  <2>1. /\ x = Decoded(t[n], a.tab) /\ x # NoUpdate /\ a.tab = tr[n].tab
        /\ a.out = tr[n - 1].out /\ a.lv = tr[n].lv /\ a.cs = tr[n].cs /\ x.epc
    BY <1>1 DEF LiveAt
  <2>2. Turn(t[n], w, tr[n - 1], tr[n])
    BY <2>0 DEF Trace
  <2>3. tr[n].out = IF x.epc /\ tr[n].tab[x.sym + 1] \in w
                    THEN Append(tr[n - 1].out, Line(x, tr[n].tab, tr[n].lv))
                    ELSE tr[n - 1].out
    BY <2>1, <2>2 DEF Turn
  <2> QED
    BY <2>1, <2>3 DEF Same
<1> QED
  BY <1>1 DEF LiveAt, Idle

(* The offline program's way is the trace; the drain thread is on it as    *)
(* long as both have the same updates.                                     *)
Follows ==
    \E tr : /\ Trace(tr, offTaken, drained, wanted)
            /\ Same(OffState, tr[drained])
            /\ LiveAt(tr, drained, Seqs, offTaken, dpc, pops, u, LiveState)

(* Before the start both are at the start.                                 *)
LEMMA FollowsInit ==
  PipelinesInit => Follows /\ Still
<1> SUFFICES ASSUME PipelinesInit PROVE Follows /\ Still
  OBVIOUS
<1>1. /\ dpc = "look" /\ pops = 0 /\ name = <<>> /\ lines = <<>> /\ drained = 0
      /\ levels = [b \in Book!Books |-> [p \in {} |-> 0]] /\ bookSt = Book!ZeroStats
      /\ offName = <<>> /\ offLines = <<>>
  BY DEF PipelinesInit, LiveInit, Init, Book!Init, Offline!Init
<1>2. offLevels = levels /\ offBookSt = bookSt
  <2>1. /\ Offline!Book!Books = Book!Books
        /\ Offline!Book!ZeroStats = Book!ZeroStats
    BY DEF Offline!Book!Books, Book!Books, Offline!Book!Sides, Book!Sides,
           Offline!Book!ZeroStats, Book!ZeroStats, Offline!Indices, Indices
  <2>2. /\ offLevels = [b \in Offline!Book!Books |-> [p \in {} |-> 0]]
        /\ offBookSt = Offline!Book!ZeroStats
    BY DEF PipelinesInit, Offline!Init, Offline!Book!Init
  <2> QED
    BY <1>1, <2>1, <2>2
<1> DEFINE tr == [m \in 0 .. 0 |-> Start]
<1>3. Trace(tr, offTaken, drained, wanted) /\ tr[0] = Start
  BY <1>1, TraceInit
<1> HIDE DEF tr
<1>4. Same(OffState, tr[0]) /\ Same(LiveState, tr[0])
  BY <1>1, <1>2, <1>3 DEF Same, OffState, LiveState, Start
<1>5. LiveAt(tr, drained, Seqs, offTaken, dpc, pops, u, LiveState)
  BY <1>1, <1>4 DEF LiveAt, Idle
<1> QED
  BY <1>1, <1>3, <1>4, <1>5 DEF Follows, Still

(* While the offline program runs, the drain thread has not begun.         *)
LEMMA FollowsOffline ==
  ASSUME OffInv, OffInv', Follows, Still, Offline!Next, UNCHANGED liveVars
  PROVE  Follows'
<1>0. /\ drained \in Nat /\ Len(offTaken) \in Nat /\ drained <= Len(offTaken)
      /\ offTaken \in Seq(DOMAIN Payload)
  BY ReadingFacts DEF OffInv, Reading
<1>1. dpc = "look" /\ pops = 0
  <2>1. [PipelinesNext]_allVars
    BY DEF PipelinesNext
  <2> QED
    BY <2>1, StillStep DEF Still
<1>2. PICK tr : /\ Trace(tr, offTaken, drained, wanted)
                /\ Same(OffState, tr[drained])
                /\ LiveAt(tr, drained, Seqs, offTaken, dpc, pops, u, LiveState)
  BY DEF Follows
<1>3. dpc' = "look" /\ pops' = 0 /\ wanted' = wanted /\ LiveState' = LiveState
  BY <1>1 DEF liveVars, drain, rx, books, LiveState
<1>4. Same(LiveState, Start)
  <2>1. tr[0] = Start
    BY <1>2 DEF Trace
  <2>2. Agree(Seqs, offTaken, 0) /\ 0 <= drained
    BY <1>0 DEF Agree
  <2> QED
    BY <1>1, <1>2, <2>1, <2>2 DEF LiveAt, Idle
<1>5. ASSUME NEW tx, tx[0] = Start
      PROVE  LiveAt(tx, drained', Seqs', offTaken', dpc', pops', u', LiveState')
  BY <1>3, <1>4, <1>5 DEF LiveAt, Idle
<1>6. CASE (Passes \/ BeginsPacket \/ Takes \/ EndsPacket) /\ OffState' = OffState
  <2>1. drained' = drained
    BY <1>6 DEF Passes, BeginsPacket, Reads, Takes, EndsPacket, InPacket
  <2>2. \A m \in 1 .. drained : offTaken'[m] = offTaken[m]
    <3>1. CASE Passes \/ BeginsPacket \/ EndsPacket
      BY <3>1 DEF Passes, BeginsPacket, Reads, EndsPacket
    <3>2. CASE Takes
      <4>1. \/ offTaken' = offTaken
            \/ /\ Feed[offCur.seg].first + offI \in DOMAIN Payload
               /\ offTaken' = Append(offTaken, Feed[offCur.seg].first + offI)
        BY <3>2, TakesFacts DEF OffInv
      <4>2. \A m \in 1 .. drained : m \in 1 .. Len(offTaken)
        BY <1>0
      <4> QED
        BY <1>0, <4>1, <4>2
    <3> QED
      BY <1>6, <3>1, <3>2
  <2>3. Trace(tr, offTaken', drained, wanted)
    BY <1>2, <2>2, TraceSame
  <2>4. tr[0] = Start
    BY <1>2 DEF Trace
  <2>5. LiveAt(tr, drained', Seqs', offTaken', dpc', pops', u', LiveState')
    BY <1>5, <2>4
  <2>6. /\ Trace(tr, offTaken', drained', wanted')
        /\ Same(OffState', tr[drained'])
    BY <1>2, <1>3, <1>6, <2>1, <2>3
  <2> QED
    BY <2>5, <2>6 DEF Follows
<1>7. CASE Outputs /\ Turn(offTaken[drained + 1], wanted, OffState, OffState')
  <2>1. drained' = drained + 1 /\ offTaken' = offTaken /\ drained < Len(offTaken)
    BY <1>7 DEF Outputs
  <2>2. offTaken[drained + 1] \in DOMAIN Payload
    <3>1. drained + 1 \in 1 .. Len(offTaken)
      BY <1>0, <2>1
    <3> QED
      BY <1>0, <3>1
  <2>3. Turn(offTaken[drained + 1], wanted, tr[drained], OffState')
    BY <1>2, <1>7 DEF Turn, Same
  <2> DEFINE tx == [m \in 0 .. drained + 1 |-> IF m = drained + 1 THEN OffState' ELSE tr[m]]
  <2>4. Trace(tx, offTaken, drained + 1, wanted)
    BY <1>0, <1>2, <2>2, <2>3, TraceNext
  <2>5. tx[drained + 1] = OffState'
    BY <1>0
  <2> HIDE DEF tx
  <2>6. tx[0] = Start
    BY <2>4 DEF Trace
  <2>7. LiveAt(tx, drained', Seqs', offTaken', dpc', pops', u', LiveState')
    BY <1>5, <2>6
  <2>8. /\ Trace(tx, offTaken', drained', wanted')
        /\ Same(OffState', tx[drained'])
    BY <1>3, <2>1, <2>4, <2>5 DEF Same
  <2> QED
    BY <2>7, <2>8 DEF Follows
<1> QED
  BY <1>6, <1>7, OfflineSteps

(* Afterwards it follows.                                                  *)
LEMMA FollowsLive ==
  ASSUME LiveInv, LiveInv', OffInv, Follows, [PipelinesNext]_allVars,
         UNCHANGED offlineVars
  PROVE  Follows'
<1> DEFINE L == Len(pushes)
<1>0. /\ \A n \in 1 .. L : Seqs[n] = pushes[n].seq
      /\ pops \in Nat /\ L \in Nat /\ pops <= L
      /\ dpc \in {"held", "decoded"} => pops < L
      /\ drained \in Nat
  <2>1. /\ pops \in Nat /\ pops <= Len(pushes) /\ pushes \in Seq(Slots)
        /\ cachedTail \in Nat /\ mustSee \in Nat
        /\ cachedTail <= mustSee /\ mustSee <= Len(pushes)
        /\ dpc \in {"held", "decoded"} => pops < cachedTail
    BY DEF LiveInv, StageInv, Typed, Drains
  <2>2. Len(pushes) \in Nat
    BY <2>1
  <2>3. pops < cachedTail => pops < Len(pushes)
    BY <2>1, <2>2
  <2> QED
    BY <2>1, <2>2, <2>3, ReadingFacts DEF Seqs, OffInv
<1>1. PICK tr : /\ Trace(tr, offTaken, drained, wanted)
                /\ Same(OffState, tr[drained])
                /\ LiveAt(tr, drained, Seqs, offTaken, dpc, pops, u, LiveState)
  BY DEF Follows
<1>2. offTaken' = offTaken /\ drained' = drained /\ OffState' = OffState /\ wanted' = wanted
  BY FileStays DEF offlineVars, OffState
<1> SUFFICES LiveAt(tr, drained, Seqs', offTaken, dpc', pops', u', LiveState')
  BY <1>1, <1>2 DEF Follows
<1> HIDE DEF L
<1>3. CASE Stage
  <2>1. UNCHANGED <<dpc, u>> /\ pops' = pops /\ LiveState' = LiveState
    <3>1. UNCHANGED drain
      BY <1>3 DEF Stage
    <3>2. pops' = pops
      BY <1>3, StageFills DEF LiveInv, StageInv
    <3> QED
      BY <3>1, <3>2 DEF drain, books, LiveState
  <2>2. StepKinds
    <3>1. Typed /\ EveryMessageCounted /\ file \in Files
      BY DEF LiveInv, StageInv, Drains
    <3> QED
      BY <3>1, LiveIsStage, StageStep
  <2>3. \A m \in 1 .. L : Seqs'[m] = Seqs[m]
    BY <2>2, PushesGrow DEF Extends, L
  <2>4. LiveAt(tr, drained, Seqs', offTaken, dpc, pops, u, LiveState)
    BY <1>0, <1>1, <2>3, LiveAtGrows
  <2> QED
    BY <2>1, <2>4
<1>4. CASE RxDone \/ Joined \/ UNCHANGED liveVars
  <2>1. UNCHANGED <<pushes, dpc, pops, u>> /\ LiveState' = LiveState
    BY <1>4 DEF RxDone, Joined, liveVars, vars, rx, drain, books, LiveState
  <2>2. Seqs' = Seqs
    BY <2>1 DEF Seqs
  <2> QED
    BY <1>1, <2>1, <2>2
<1>5. CASE Look \/ NotDone \/ SeeDone \/ SecondLook
  <2>1. UNCHANGED <<pushes, pops, u>> /\ LiveState' = LiveState
    BY <1>5 DEF Look, NotDone, SeeDone, SecondLook, rx, books, LiveState
  <2>2. Seqs' = Seqs
    BY <2>1 DEF Seqs
  <2>3. dpc \in Idle /\ dpc' \in Idle
    BY <1>5 DEF Look, NotDone, SeeDone, SecondLook, AfterDone, Idle
  <2>4. LiveAt(tr, drained, Seqs, offTaken, dpc', pops, u, LiveState)
    BY <1>1, <2>3, LiveAtIdle
  <2> QED
    BY <2>1, <2>2, <2>4
<1>6. CASE Decode
  <2>1. /\ UNCHANGED <<pushes, pops, levels, bookSt, lines>>
        /\ dpc = "held" /\ dpc' = "decoded"
        /\ name' = Interned(name, Payload[Slot(pops + 1)].name)
        /\ u' = Decoded(Slot(pops + 1), name')
    BY <1>6 DEF Decode, rx, books
  <2>2. Seqs' = Seqs
    BY <2>1 DEF Seqs
  <2>3. Slot(pops + 1) = Seqs[pops + 1]
    <3>1. SlotIntact
      BY LiveInvIntact
    <3>2. Slot(pops + 1) = pushes[pops + 1].seq
      BY <2>1, <3>1 DEF SlotIntact
    <3>3. pops + 1 \in 1 .. L
      BY <1>0, <2>1
    <3> QED
      BY <1>0, <3>2, <3>3
  <2>4. LiveAt(tr, drained, Seqs, offTaken, "held", pops, u, LiveState)
    BY <1>1, <2>1
  <2>5. /\ LiveState'.tab = Interned(LiveState.tab, Payload[Seqs[pops + 1]].name)
        /\ LiveState'.lv = LiveState.lv /\ LiveState'.cs = LiveState.cs
        /\ LiveState'.out = LiveState.out
        /\ u' = Decoded(Seqs[pops + 1], LiveState'.tab)
    BY <2>1, <2>3 DEF LiveState
  <2>6. LiveAt(tr, drained, Seqs, offTaken, "decoded", pops, u', LiveState')
    BY <1>0, <1>1, <2>4, <2>5, LiveAtDecode
  <2> QED
    BY <2>1, <2>2, <2>6
<1>7. CASE PopEnd
  <2>1. /\ UNCHANGED <<pushes, u>> /\ LiveState' = LiveState
        /\ dpc = "decoded" /\ pops' = pops + 1
        /\ dpc' = IF u = NoUpdate THEN "look" ELSE "apply"
    BY <1>7 DEF PopEnd, Pop, books, LiveState
  <2>2. Seqs' = Seqs
    BY <2>1 DEF Seqs
  <2>3. LiveAt(tr, drained, Seqs, offTaken, "decoded", pops, u, LiveState)
    BY <1>1, <2>1
  <2>4. LiveAt(tr, drained, Seqs, offTaken, dpc', pops + 1, u, LiveState)
    BY <1>0, <1>1, <2>1, <2>3, LiveAtPop
  <2> QED
    BY <2>1, <2>2, <2>4
<1>8. CASE Apply
  <2>1. /\ UNCHANGED <<pushes, pops, name, u, lines>>
        /\ dpc = "apply" /\ Book!Apply(<<u.sym, u.side>>, u.price, u.size)
        /\ dpc' = IF u.epc THEN "emit" ELSE "look"
    BY <1>8 DEF Apply, Size, rx
  <2>2. Seqs' = Seqs
    BY <2>1 DEF Seqs
  <2>3. LiveAt(tr, drained, Seqs, offTaken, "apply", pops, u, LiveState)
    BY <1>1, <2>1
  <2>4. Applied(levels, bookSt, <<u.sym, u.side>>, u.price, u.size, levels', bookSt')
    BY <2>1, LiveApplies
  <2>5. /\ Applied(LiveState.lv, LiveState.cs, <<u.sym, u.side>>, u.price, u.size,
                   LiveState'.lv, LiveState'.cs)
        /\ LiveState'.tab = LiveState.tab /\ LiveState'.out = LiveState.out
    BY <2>1, <2>4 DEF LiveState
  <2>6. LiveAt(tr, drained, Seqs, offTaken, dpc', pops, u, LiveState')
    BY <1>0, <1>1, <2>1, <2>3, <2>5, LiveAtApply
  <2> QED
    BY <2>1, <2>2, <2>6
<1>9. CASE Emit
  <2>1. /\ UNCHANGED <<pushes, pops, name, u, levels, bookSt>>
        /\ dpc = "emit" /\ dpc' = "look"
        /\ lines' = IF name[u.sym + 1] \notin wanted THEN lines
                    ELSE Append(lines, Line(u, name, levels))
    BY <1>9 DEF Emit, rx, books
  <2>2. Seqs' = Seqs
    BY <2>1 DEF Seqs
  <2>3. LiveAt(tr, drained, Seqs, offTaken, "emit", pops, u, LiveState)
    BY <1>1, <2>1
  <2>4. /\ LiveState'.tab = LiveState.tab /\ LiveState'.lv = LiveState.lv
        /\ LiveState'.cs = LiveState.cs
        /\ LiveState'.out = IF LiveState.tab[u.sym + 1] \notin wanted THEN LiveState.out
                            ELSE Append(LiveState.out, Line(u, LiveState.tab, LiveState.lv))
    BY <2>1 DEF LiveState
  <2>5. LiveAt(tr, drained, Seqs, offTaken, "look", pops, u, LiveState')
    BY <1>0, <1>1, <2>3, <2>4, LiveAtEmit
  <2> QED
    BY <2>1, <2>2, <2>5
<1>10. CASE Offline!Next /\ UNCHANGED liveVars
  BY <1>4, <1>10
<1> QED
  BY <1>3, <1>4, <1>5, <1>6, <1>7, <1>8, <1>9, <1>10
     DEF PipelinesNext, LiveNext, ReceiveThread, DrainThread, allVars

-----------------------------------------------------------------------------
(* What the live pipeline pushes of the file.                              *)

(* Block j of datagram d is an update.                                     *)
Holds(d, j) == d.seg # 0 /\ j \in 1 .. d.intact /\ IsPlu(d.seg, j)

Number(d, j) == Feed[d.seg].first + j - 1

Got(q) == \E n \in 1 .. Len(pushes) : pushes[n].seq = q

(* Everything comes from datagrams of the file; and as long as nothing was *)
(* dropped, what is missing of a framed segment is missing in one of them, *)
(* or still to come.                                                       *)
Arrived ==
    /\ cur # NoSegment => cur \in Incoming[file]
    /\ \A n \in 1 .. Len(pushes) : \E d \in Incoming[file], j \in Nat :
         Holds(d, j) /\ pushes[n].seq = Number(d, j)
    /\ st.dropped_full = 0 =>
         \A k \in framed : MsgCount(k) > 0 =>
           \E d \in Incoming[file] :
             /\ d.seg = k
             /\ \A j \in Nat : Holds(d, j) => Got(Number(d, j)) \/ (cur = d /\ j > i)

(* Before the first datagram nothing is framed.                            *)
LEMMA ArrivedInit ==
  PipelinesInit => Arrived
<1> SUFFICES ASSUME PipelinesInit PROVE Arrived
  OBVIOUS
<1>1. cur = NoSegment /\ pushes = <<>> /\ framed = {}
  BY DEF PipelinesInit, LiveInit, Init
<1>2. Len(pushes) = 0 /\ 1 .. 0 = {}
  BY <1>1
<1> QED
  BY <1>1, <1>2 DEF Arrived

(* Each turn of the block loop deals with one block, and the next datagram *)
(* is taken when the last one is through.                                  *)
LEMMA ArrivedStep ==
  ASSUME LiveInv, Arrived, [PipelinesNext]_allVars
  PROVE  Arrived'
<1>0. /\ Typed /\ file' = file /\ file \in Files
      /\ pushes \in Seq(Slots) /\ Len(pushes) \in Nat
      /\ framed \subseteq SegIds /\ st \in [Counters -> Nat]
      /\ i \in Nat
      /\ \A d \in Incoming[file] : d \in Frames
  <2>1. Typed /\ file \in Files
    BY DEF LiveInv, StageInv, Drains
  <2>2. i \in 0 .. cur.intact /\ cur.intact \in Nat
    BY <2>1, FrameFacts DEF Typed
  <2> QED
    BY <2>1, <2>2, FileStays, IncomingIsFramed DEF Typed
<1>1. \A d, j : Holds(d, j)' = Holds(d, j) /\ Number(d, j)' = Number(d, j)
  BY DEF Holds, Number
<1> DEFINE Kept ==
        /\ cur' # NoSegment => cur' \in Incoming[file]
        /\ \A n \in 1 .. Len(pushes') : \E d \in Incoming[file], j \in Nat :
             Holds(d, j) /\ pushes'[n].seq = Number(d, j)
        /\ st'.dropped_full = 0 =>
             \A k \in framed' : MsgCount(k) > 0 =>
               \E d \in Incoming[file] :
                 /\ d.seg = k
                 /\ \A j \in Nat : Holds(d, j) =>
                      (\E n \in 1 .. Len(pushes') : pushes'[n].seq = Number(d, j))
                      \/ (cur' = d /\ j > i')
<1>2. SUFFICES Kept
  BY <1>0, <1>1 DEF Arrived, Got
<1>3. /\ cur # NoSegment => cur \in Incoming[file]
      /\ \A n \in 1 .. Len(pushes) : \E d \in Incoming[file], j \in Nat :
           Holds(d, j) /\ pushes[n].seq = Number(d, j)
      /\ st.dropped_full = 0 =>
           \A k \in framed : MsgCount(k) > 0 =>
             \E d \in Incoming[file] :
               /\ d.seg = k
               /\ \A j \in Nat : Holds(d, j) =>
                    (\E n \in 1 .. Len(pushes) : pushes[n].seq = Number(d, j))
                    \/ (cur = d /\ j > i)
  BY DEF Arrived, Got
<1>4. ASSUME NEW d \in Incoming[file], d.seg # 0, Segment(d.seg, d)
      PROVE  Kept
  <2>1. /\ cur = NoSegment /\ cur' = d /\ i' = 0 /\ pushes' = pushes
        /\ framed' = framed \cup {d.seg}
        /\ st'.dropped_full = st.dropped_full
    BY <1>0, <1>4 DEF Segment, Arrive, Count, Counters
  <2>2. \A e \in Incoming[file] : e.seg \in framed => e # NoSegment
    BY <1>0 DEF NoSegment, NotDeep, SegIds
  <2>3. ASSUME st'.dropped_full = 0, NEW k \in framed', MsgCount(k) > 0
        PROVE  \E e \in Incoming[file] :
                 /\ e.seg = k
                 /\ \A j \in Nat : Holds(e, j) =>
                      (\E n \in 1 .. Len(pushes') : pushes'[n].seq = Number(e, j))
                      \/ (cur' = e /\ j > i')
    <3>1. CASE k \in framed
      BY <1>3, <2>1, <2>2, <2>3, <3>1
    <3>2. CASE k = d.seg
      <4>1. \A j \in Nat : Holds(d, j) => j > 0
        BY <1>0, FrameFacts DEF Holds
      <4> QED
        BY <2>1, <3>2, <4>1
    <3> QED
      BY <2>1, <3>1, <3>2
  <2> QED
    BY <1>3, <2>1, <2>3
<1>5. ASSUME NEW d \in Incoming[file], NonDeep \/ Heartbeat(d.seg)
      PROVE  Kept
  <2>1. /\ UNCHANGED <<cur, i, pushes>>
        /\ st'.dropped_full = st.dropped_full
        /\ \A k \in framed' : k \in framed \/ MsgCount(k) = 0
    BY <1>0, <1>5 DEF NonDeep, Heartbeat, Arrive, Count, Counters
  <2>2. ASSUME st'.dropped_full = 0, NEW k \in framed', MsgCount(k) > 0
        PROVE  \E e \in Incoming[file] :
                 /\ e.seg = k
                 /\ \A j \in Nat : Holds(e, j) =>
                      (\E n \in 1 .. Len(pushes') : pushes'[n].seq = Number(e, j))
                      \/ (cur' = e /\ j > i')
    <3>1. k \in framed /\ st.dropped_full = 0
      <4>1. MsgCount(k) # 0
        BY <2>2
      <4> QED
        BY <2>1, <2>2, <4>1
    <3>2. PICK e \in Incoming[file] :
            /\ e.seg = k
            /\ \A j \in Nat : Holds(e, j) =>
                 (\E n \in 1 .. Len(pushes) : pushes[n].seq = Number(e, j))
                 \/ (cur = e /\ j > i)
      BY <1>3, <2>2, <3>1
    <3> QED
      BY <2>1, <3>2
  <2> QED
    BY <1>3, <2>1, <2>2
<1>6. CASE Filter
  <2>1. /\ UNCHANGED <<cur, pushes, framed>> /\ i' = i + 1
        /\ st'.dropped_full = st.dropped_full /\ ~IsPlu(cur.seg, i + 1)
    BY <1>0, <1>6 DEF Filter, BlockKind, IsPlu, Count, Counters
  <2>2. \A d, j : j \in Nat /\ Holds(d, j) /\ cur = d /\ j > i => j > i'
    <3> TAKE d, j
    <3> SUFFICES ASSUME j \in Nat, Holds(d, j), cur = d, j > i PROVE j > i'
      OBVIOUS
    <3>1. j # i + 1
      BY <2>1 DEF Holds
    <3> QED
      BY <1>0, <2>1, <3>1
  <2> QED
    BY <1>3, <2>1, <2>2
<1>7. CASE Push
  <2> DEFINE q == Feed[cur.seg].first + i
  <2>1. /\ UNCHANGED <<cur, framed>> /\ i' = i + 1 /\ cur # NoSegment
        /\ pushes' = Append(pushes, [seq |-> q, after_gap |-> pending_flags])
        /\ st'.dropped_full = st.dropped_full /\ IsPlu(cur.seg, i + 1)
        /\ i < cur.intact
    BY <1>0, <1>7 DEF Push, InBlocks, SlotSeq, BlockKind, IsPlu, Count, Counters
  <2>2. /\ cur.seg \in SegIds /\ cur.intact \in Nat /\ cur.seg # 0
        /\ Feed[cur.seg].first \in Nat
    <3>1. cur.seg \in SegIds /\ cur.intact \in Nat
      BY <1>0, <2>1, InBlocksFacts
    <3> QED
      BY <3>1, SegmentFacts DEF SegIds
  <2>3. i + 1 \in Nat /\ Holds(cur, i + 1) /\ Number(cur, i + 1) = q
    <3>1. i + 1 \in 1 .. cur.intact
      BY <1>0, <2>1, <2>2
    <3>2. Feed[cur.seg].first + (i + 1) - 1 = q
      BY <1>0, <2>2
    <3> QED
      BY <1>0, <2>1, <2>2, <3>1, <3>2 DEF Holds, Number
  <2> HIDE DEF q
  <2>4. /\ Len(pushes') = Len(pushes) + 1
        /\ \A n \in 1 .. Len(pushes) : n \in 1 .. Len(pushes') /\ pushes'[n] = pushes[n]
        /\ pushes'[Len(pushes) + 1].seq = q
        /\ Len(pushes) + 1 \in 1 .. Len(pushes')
        /\ \A n \in 1 .. Len(pushes') : n \in 1 .. Len(pushes) \/ n = Len(pushes) + 1
    BY <1>0, <2>1
  <2>5. ASSUME NEW n \in 1 .. Len(pushes')
        PROVE  \E d \in Incoming[file], j \in Nat :
                 Holds(d, j) /\ pushes'[n].seq = Number(d, j)
    <3>1. CASE n \in 1 .. Len(pushes)
      BY <1>3, <2>4, <3>1
    <3>2. CASE n = Len(pushes) + 1
      BY <1>3, <2>1, <2>3, <2>4, <3>2
    <3> QED
      BY <2>4, <3>1, <3>2
  <2>6. ASSUME NEW d \in Incoming[file], NEW j \in Nat, Holds(d, j),
               (\E n \in 1 .. Len(pushes) : pushes[n].seq = Number(d, j))
                 \/ (cur = d /\ j > i)
        PROVE  (\E n \in 1 .. Len(pushes') : pushes'[n].seq = Number(d, j))
                 \/ (cur' = d /\ j > i')
    <3>1. CASE \E n \in 1 .. Len(pushes) : pushes[n].seq = Number(d, j)
      BY <2>4, <3>1
    <3>2. CASE cur = d /\ j = i + 1
      BY <2>3, <2>4, <3>2
    <3>3. CASE cur = d /\ j > i /\ j # i + 1
      BY <1>0, <2>1, <3>3
    <3> QED
      BY <2>6, <3>1, <3>2, <3>3
  <2>7. ASSUME st'.dropped_full = 0, NEW k \in framed', MsgCount(k) > 0
        PROVE  \E d \in Incoming[file] :
                 /\ d.seg = k
                 /\ \A j \in Nat : Holds(d, j) =>
                      (\E n \in 1 .. Len(pushes') : pushes'[n].seq = Number(d, j))
                      \/ (cur' = d /\ j > i')
    <3>1. PICK d \in Incoming[file] :
            /\ d.seg = k
            /\ \A j \in Nat : Holds(d, j) =>
                 (\E n \in 1 .. Len(pushes) : pushes[n].seq = Number(d, j))
                 \/ (cur = d /\ j > i)
      BY <1>3, <2>1, <2>7
    <3> QED
      BY <2>6, <3>1
  <2>8. cur' # NoSegment => cur' \in Incoming[file]
    BY <1>3, <2>1
  <2> QED
    BY <2>5, <2>7, <2>8
<1>8. CASE DropFull
  <2>1. /\ UNCHANGED <<cur, pushes>>
        /\ st'.dropped_full = st.dropped_full + 1
    BY <1>0, <1>8 DEF DropFull, DropCounted, Count, Counters
  <2>2. st'.dropped_full # 0
    BY <1>0, <2>1 DEF Counters
  <2> QED
    BY <1>3, <2>1, <2>2
<1>9. CASE EndSegment
  <2>1. /\ UNCHANGED <<pushes, framed>> /\ cur' = NoSegment /\ i = cur.intact
        /\ st'.dropped_full = st.dropped_full
    BY <1>0, <1>9 DEF EndSegment, Count, Counters
  <2>2. \A d \in Incoming[file], j \in Nat : Holds(d, j) => ~(cur = d /\ j > i)
    BY <1>0, <2>1 DEF Holds
  <2> QED
    BY <1>3, <2>1, <2>2
<1>10. CASE UNCHANGED <<cur, i, pushes, framed, st>>
  BY <1>3, <1>10
<1>11. CASE Stage
  <2>1. CASE \E d \in Incoming[file] : Deliver(d)
    <3>1. PICK d \in Incoming[file] : \/ d.seg = 0 /\ NonDeep
                                      \/ d.seg # 0 /\ Heartbeat(d.seg)
                                      \/ d.seg # 0 /\ Segment(d.seg, d)
      BY <2>1 DEF Deliver
    <3>2. CASE d.seg # 0 /\ Segment(d.seg, d)
      BY <1>4, <3>2
    <3>3. CASE NonDeep \/ Heartbeat(d.seg)
      BY <1>5, <3>3
    <3> QED
      BY <3>1, <3>2, <3>3
  <2>2. CASE Timeout
    BY <1>10, <2>2 DEF Timeout, framer
  <2> QED
    BY <1>6, <1>7, <1>8, <1>9, <1>11, <2>1, <2>2 DEF Stage, TakeApart
<1>12. CASE RxDone \/ Joined \/ UNCHANGED liveVars
  BY <1>10, <1>12 DEF RxDone, Joined, liveVars, vars, rx, framer
<1>13. CASE Look \/ NotDone \/ SeeDone \/ SecondLook \/ Decode \/ Apply \/ Emit
  BY <1>10, <1>13 DEF Look, NotDone, SeeDone, SecondLook, Decode, Apply, Emit, rx, framer
<1>14. CASE PopEnd
  BY <1>10, <1>14 DEF PopEnd, Pop, framer
<1> HIDE DEF Kept
<1>15. CASE Offline!Next /\ UNCHANGED liveVars
  BY <1>12, <1>15
<1>16. CASE LiveNext
  BY <1>11, <1>12, <1>13, <1>14, <1>16 DEF LiveNext, ReceiveThread, DrainThread
<1>17. CASE UNCHANGED allVars
  BY <1>12, <1>17 DEF allVars
<1> QED
  BY <1>15, <1>16, <1>17 DEF PipelinesNext

-----------------------------------------------------------------------------
(* Where sender and reader cut a packet alike, what arrives of it is what  *)
(* is read of it.                                                          *)
LEMMA ReceivedIsRead ==
  ASSUME SameBytes, NEW f \in Files, NEW b \in DOMAIN f.blocks,
         f.blocks[b].type # "section", SentLen(f.blocks[b]) > 0
  PROVE  Received(f.blocks[b]) = PayloadAt(f, b)
<1> DEFINE c == f.blocks[b]
<1>1. c.caplen = CapLen(c) /\ c.ulen - 8 <= BufferLen
  BY DEF SameBytes
<1>2. /\ PayloadLen(c) \in Int /\ PayloadLen(c) <= c.ulen - 8
      /\ c.ulen \in Int /\ BufferLen \in Int
  BY LengthFacts, CaptureAssumption, BufferAssumption
<1>3. c.type # "section" /\ SentLen(c) > 0
  OBVIOUS
<1>4. PayloadAt(f, b) = IF HasPayload(c) THEN Datagram(c, PayloadLen(c)) ELSE NotDeep
  BY DEF PayloadAt
<1> HIDE DEF c
<1>5. c.udp /\ UdpAt(c) + 8 <= c.caplen
  BY <1>3 DEF SentLen
<1>6. HasPayload(c) /\ SentLen(c) = PayloadLen(c)
  BY <1>1, <1>3, <1>5 DEF HasPayload, SentLen, PayloadLen
<1>7. Min({PayloadLen(c), BufferLen}) = PayloadLen(c)
  <2>1. PayloadLen(c) <= BufferLen
    BY <1>1, <1>2
  <2> QED
    BY <1>2, <2>1 DEF Min
<1>8. Received(c) = PayloadAt(f, b)
  BY <1>4, <1>6, <1>7 DEF Received
<1> QED
  BY <1>8 DEF c

(* What is sent of the file, the offline pipeline reads.                   *)
LEMMA SentIsRead ==
  ASSUME SameBytes, Reading, FileDone, NEW d \in Incoming[file]
  PROVE  \E b \in 1 .. block - 1 : d = PayloadAt(file, b)
<1>1. PICK b \in DOMAIN file.blocks : AllThere(file, b) /\ d = PayloadAt(file, b)
  <2>0. file \in Files
    BY DEF Reading
  <2>1. PICK c \in Sent[file] : d = Received(c)
    BY <2>0 DEF Incoming
  <2>2. PICK b \in DOMAIN file.blocks :
          /\ c = file.blocks[b] /\ c.type # "section"
          /\ AllThere(file, b) /\ SentLen(c) > 0
    BY <2>0, <2>1 DEF Sent
  <2>3. d = PayloadAt(file, b)
    BY <2>0, <2>1, <2>2, ReceivedIsRead
  <2> QED
    BY <2>2, <2>3
<1>2. /\ Len(file.blocks) \in Nat /\ DOMAIN file.blocks = 1 .. Len(file.blocks)
      /\ block \in Nat
  BY ReadingFacts, CaptureAssumption DEF Reading
<1>3. ASSUME b >= block
      PROVE  FALSE
  <2>1. block <= Len(file.blocks)
    BY <1>2, <1>3
  <2>2. PICK c \in 1 .. block : ~(BytesThrough(file, c) <= file.size)
    BY <2>1 DEF FileDone, AllThere
  <2>3. c \in 1 .. b
    BY <1>2, <1>3
  <2> QED
    BY <1>1, <2>2, <2>3 DEF AllThere
<1>4. b \in 1 .. block - 1
  BY <1>2, <1>3
<1> QED
  BY <1>1, <1>4

(* An update sent is one the offline pipeline pushed.                      *)
LEMMA SentIsTaken ==
  ASSUME SameBytes, OffInv, FileDone, NEW d \in Incoming[file], NEW j \in Nat, Holds(d, j)
  PROVE  \E m \in 1 .. Len(offTaken) : offTaken[m] = Number(d, j)
<1>1. PICK b \in 1 .. block - 1 : d = PayloadAt(file, b)
  BY SentIsRead DEF OffInv
<1>2. IsUpdate(b, j) /\ Passed(b, j) /\ NumberOf(b, j) = Number(d, j)
  BY <1>1 DEF IsUpdate, Holds, Passed, FileDone, NumberOf, Number
<1> QED
  BY <1>2 DEF OffInv, AllTaken

(* An update of the file has one packet, when there was no reorder, so the *)
(* live pipeline got it of the framed segment, or is about to.             *)
LEMMA TakenWasGot ==
  ASSUME SameBytes, OffInv, FileDone, LiveInv, Arrived,
         offReorders = 0, st.dropped_full = 0,
         NEW m \in 1 .. Len(offTaken), offTaken[m] \in FramedSeqs
  PROVE  \/ Got(offTaken[m])
         \/ cur # NoSegment /\ offTaken[m] >= Ahead
<1> DEFINE x == offTaken[m]
<1>1. PICK k \in framed : x \in SeqsOf(k)
  BY DEF FramedSeqs
<1>2. PICK b \in 1 .. block - 1, j \in Nat : IsUpdate(b, j) /\ x = NumberOf(b, j)
  BY DEF OffInv, AllTaken
<1> DEFINE p == PayloadAt(file, b)
<1>3. k \in SegIds
  BY DEF LiveInv, StageInv, Typed
<1>4. /\ p.seg \in SegIds /\ p.intact \in Nat /\ p.intact <= MsgCount(p.seg)
      /\ j \in 1 .. p.intact /\ IsPlu(p.seg, j) /\ x = Feed[p.seg].first + j - 1
      /\ MsgCount(p.seg) \in Nat /\ Feed[p.seg].first \in Nat
  <2>1. p \in Frames
    BY ReadingFacts DEF OffInv
  <2>2. p.seg # 0 /\ j \in 1 .. p.intact /\ IsPlu(p.seg, j)
        /\ x = Feed[p.seg].first + j - 1
    BY <1>2 DEF IsUpdate, NumberOf
  <2> HIDE DEF p, x
  <2> QED
    BY <2>1, <2>2, FrameFacts, SegmentFacts
<1> HIDE DEF p
<1>5. /\ x \in Nat /\ x \in SeqsOf(p.seg) /\ MsgCount(p.seg) > 0 /\ HasMsgs(p)
      /\ NextSeq(p.seg) > Feed[p.seg].first /\ NextSeq(p.seg) \in Nat
  <2> DEFINE f == Feed[p.seg].first
             size == MsgCount(p.seg)
             last == p.intact
  <2>0. /\ f \in Nat /\ size \in Nat /\ last \in Nat /\ last <= size
        /\ j \in 1 .. last /\ x = f + j - 1
    BY <1>4
  <2>1. NextSeq(p.seg) = f + size
    BY DEF NextSeq
  <2>2. p.seg # 0
    BY <1>4 DEF SegIds
  <2> HIDE DEF x, f, size, last
  <2>3. /\ x \in Nat /\ f <= x /\ x < f + size
        /\ size > 0 /\ f + size > f /\ f + size \in Nat
    BY <2>0
  <2>4. x \in SeqsOf(p.seg)
    <3>1. \A q \in Int : q \in SeqsOf(p.seg) <=> f <= q /\ q < NextSeq(p.seg)
      BY <1>4, SeqsFacts DEF f
    <3> QED
      BY <2>1, <2>3, <3>1
  <2>5. MsgCount(p.seg) > 0 /\ HasMsgs(p)
    BY <2>2, <2>3 DEF size, HasMsgs
  <2>6. NextSeq(p.seg) > Feed[p.seg].first /\ NextSeq(p.seg) \in Nat
    BY <2>1, <2>3 DEF f
  <2> QED
    BY <2>3, <2>4, <2>5, <2>6
<1>6. p.seg = k
  BY <1>1, <1>3, <1>4, <1>5, OneSegment
<1>7. PICK d \in Incoming[file] :
        /\ d.seg = k
        /\ \A n \in Nat : Holds(d, n) => Got(Number(d, n)) \/ (cur = d /\ n > i)
  BY <1>5, <1>6 DEF Arrived
<1>8. PICK c \in 1 .. block - 1 : d = PayloadAt(file, c)
  BY SentIsRead DEF OffInv
<1>9. c = b
  <2>0. HasMsgs(PayloadAt(file, c)) /\ HasMsgs(PayloadAt(file, b))
        /\ PayloadAt(file, c).seg = k /\ PayloadAt(file, b).seg = k
    BY <1>5, <1>6, <1>7, <1>8 DEF p, HasMsgs
  <2>1. ~(NextSeq(k) <= Feed[k].first)
    BY <1>4, <1>5, <1>6
  <2>2. \A g, h \in 1 .. block - 1 :
          (g < h /\ HasMsgs(PayloadAt(file, g)) /\ HasMsgs(PayloadAt(file, h)))
            => NextSeq(PayloadAt(file, g).seg) <= Feed[PayloadAt(file, h).seg].first
    BY DEF OffInv, FileInOrder
  <2>3. ~(c < b) /\ ~(b < c)
    BY <2>0, <2>1, <2>2
  <2>4. b \in Int /\ c \in Int
    OBVIOUS
  <2> QED
    BY <2>3, <2>4
<1>10. Holds(d, j) /\ Number(d, j) = x
  <2>1. p.seg # 0
    BY <1>4 DEF SegIds
  <2> QED
    BY <1>4, <1>8, <1>9, <2>1 DEF Holds, Number, p
<1>11. CASE Got(Number(d, j))
  BY <1>10, <1>11
<1>12. CASE cur = d /\ j > i
  <2>1. cur # NoSegment /\ cur.seg = k
    BY <1>3, <1>7, <1>12 DEF NoSegment, NotDeep, SegIds
  <2>2. Ahead = Feed[k].first + i /\ i \in Nat
    BY <2>1, InBlocksFacts DEF Ahead, LiveInv, StageInv
  <2>3. x >= Feed[k].first + i
    <3> DEFINE f == Feed[k].first
    <3>1. f \in Nat /\ x = f + j - 1
      BY <1>4, <1>6
    <3> HIDE DEF x, f
    <3>2. x >= f + i
      BY <1>12, <2>2, <3>1
    <3> QED
      BY <3>2 DEF f
  <2> QED
    BY <2>1, <2>2, <2>3
<1> QED
  BY <1>7, <1>10, <1>11, <1>12

(* Both programs process the same updates, as long as nothing is reported: *)
(* a jump over one the file has would leave a message that arrived and was *)
(* not pushed.                                                             *)
LEMMA SameUpdates ==
  ASSUME SameBytes, OffInv, FileDone, LiveInv, InOrder, Arrived, NothingReported
  PROVE  pops <= Len(offTaken) /\ Agree(Seqs, offTaken, pops)
<1> DEFINE K == Len(offTaken)
           L == Len(pushes)
           A == {n \in Nat : n <= pops =>
                   n <= K /\ \A m \in 1 .. n : pushes[m].seq = offTaken[m]}
<1>0. /\ st.dropped_full = 0 /\ st.reorders = 0 /\ offReorders = 0
      /\ \A n \in 1 .. pops : ~pushes[n].after_gap
      /\ pops > 0 => pushes[1].seq = offTaken[1]
  BY DEF NothingReported
<1>1. /\ K \in Nat /\ L \in Nat /\ pops \in Nat /\ pops <= L
      /\ pushes \in Seq(Slots) /\ offTaken \in Seq(DOMAIN Payload)
      /\ \A n \in 1 .. L : pushes[n].seq \in Nat
      /\ \A n \in 1 .. K : offTaken[n] \in Nat
  <2>1. /\ pushes \in Seq(Slots) /\ offTaken \in Seq(DOMAIN Payload)
        /\ pops \in Nat /\ pops <= L
    BY DEF LiveInv, StageInv, Typed, OffInv, Reading
  <2>2. DOMAIN Payload \subseteq Nat
    BY PayloadAssumption
  <2>3. \A n \in 1 .. L : pushes[n] \in Slots
    BY <2>1
  <2>4. \A n \in 1 .. K : offTaken[n] \in DOMAIN Payload
    BY <2>1
  <2> QED
    BY <2>1, <2>2, <2>3, <2>4 DEF Slots
<1> HIDE DEF K, L
<1>2. /\ \A m, n \in 1 .. K : m < n => offTaken[m] < offTaken[n]
      /\ \A m, n \in 1 .. L : m < n => pushes[m].seq < pushes[n].seq
      /\ \A n \in 1 .. L : pushes[n].seq < Ahead
  BY <1>0 DEF OffInv, FileInOrder, InOrder, K, L
<1>3. \A n \in 1 .. L : \E m \in 1 .. K : offTaken[m] = pushes[n].seq
  BY SentIsTaken DEF Arrived, K, L
<1>4. 0 \in A
  BY <1>1
<1>5. ASSUME NEW n \in Nat, n \in A
      PROVE  n + 1 \in A
  <2> SUFFICES ASSUME n + 1 <= pops
               PROVE  n + 1 <= K /\ \A m \in 1 .. n + 1 : pushes[m].seq = offTaken[m]
    OBVIOUS
  <2>1. n <= pops /\ n <= K /\ n + 1 \in 1 .. L
    BY <1>1, <1>5
  <2>2. \A m \in 1 .. n : pushes[m].seq = offTaken[m]
    BY <1>5, <2>1
  <2> HIDE DEF A
  <2>3. PICK l \in 1 .. K : offTaken[l] = pushes[n + 1].seq
    BY <1>3, <2>1
  <2>4. l = n + 1
    <3>1. CASE n = 0
      <4>1. pushes[1].seq = offTaken[1] /\ 1 \in 1 .. K
        BY <1>0, <1>1, <2>3, <3>1
      <4>2. offTaken[l] = offTaken[1]
        BY <2>3, <3>1, <4>1
      <4>3. ~(1 < l)
        BY <1>1, <1>2, <4>1, <4>2
      <4> QED
        BY <3>1, <4>3
    <3>2. CASE n > 0
      <4>1. n \in 1 .. L /\ n \in 1 .. K /\ n \in 1 .. n /\ n < n + 1
        BY <1>1, <2>1, <3>2
      <4>2. offTaken[n] = pushes[n].seq /\ pushes[n].seq < pushes[n + 1].seq
        BY <1>2, <2>1, <2>2, <4>1
      <4>3. ~(l <= n)
        <5>1. offTaken[n] < offTaken[l]
          BY <2>3, <4>2
        <5>2. ~(l < n) /\ l # n
          BY <1>1, <1>2, <4>1, <5>1
        <5> QED
          BY <5>2
      <4>4. ASSUME l > n + 1
            PROVE  FALSE
        <5>1. n + 1 \in 1 .. K /\ n + 1 < l /\ n + 1 \in 1 .. pops
              /\ n \in 1 .. L - 1
          BY <1>1, <2>1, <3>2, <4>4
        <5> DEFINE x == offTaken[n + 1]
        <5>2. pushes[n].seq < x /\ x < pushes[n + 1].seq
              /\ x \in Nat
          BY <1>1, <1>2, <2>3, <4>1, <4>2, <5>1
        <5> HIDE DEF x
        <5>3. x \in pushes[n].seq + 1 .. pushes[n + 1].seq - 1
          BY <1>1, <2>1, <4>1, <5>2
        <5>4. x \in FramedSeqs
          <6>1. UnflaggedMeansArrived
            BY DEF LiveInv, StageInv
          <6> QED
            BY <1>0, <5>1, <5>3, <6>1 DEF UnflaggedMeansArrived, L
        <5>5. Got(x) \/ (cur # NoSegment /\ x >= Ahead)
          BY <1>0, <5>1, <5>4, TakenWasGot DEF x, K
        <5>6. CASE Got(x)
          <6>1. PICK h \in 1 .. L : pushes[h].seq = x
            BY <5>6 DEF Got, L
          <6>2. ~(h <= n) /\ ~(h >= n + 1)
            <7>1. ~(h < n) /\ h # n /\ h # n + 1 /\ ~(n + 1 < h)
              BY <1>1, <1>2, <2>1, <4>1, <5>2, <6>1
            <7> QED
              BY <7>1
          <6> QED
            BY <6>2
        <5>7. CASE cur # NoSegment /\ x >= Ahead
          <6>1. Ahead \in Nat
            <7>1. Typed /\ i \in Nat /\ cur.seg \in SegIds
              BY <5>7, InBlocksFacts DEF LiveInv, StageInv
            <7>2. Feed[cur.seg].first \in Nat
              BY <7>1, SegmentFacts
            <7> QED
              BY <5>7, <7>1, <7>2 DEF Ahead
          <6>2. pushes[n + 1].seq < Ahead
            BY <1>2, <2>1
          <6> QED
            BY <1>1, <2>1, <5>2, <5>7, <6>1, <6>2
        <5> QED
          BY <5>5, <5>6, <5>7
      <4> QED
        BY <4>3, <4>4
    <3> QED
      BY <3>1, <3>2
  <2>5. \A m \in 1 .. n + 1 : m \in 1 .. n \/ m = n + 1
    OBVIOUS
  <2> QED
    BY <1>1, <2>2, <2>3, <2>4, <2>5
<1>6. pops \in A
  <2> HIDE DEF A
  <2>1. \A n \in Nat : n \in A => n + 1 \in A
    BY <1>5
  <2>2. Nat \subseteq A
    BY <1>4, <2>1, InductionOnSet
  <2> QED
    BY <1>1, <2>2
<1>7. pops <= K /\ \A m \in 1 .. pops : pushes[m].seq = offTaken[m]
  BY <1>1, <1>6
<1>8. \A m \in 1 .. pops : Seqs[m] = pushes[m].seq
  <2>1. \A m \in 1 .. pops : m \in 1 .. Len(pushes)
    BY <1>1 DEF L
  <2> QED
    BY <2>1 DEF Seqs
<1> QED
  BY <1>7, <1>8 DEF Agree, K

(* The same in the words of the sequence library.                          *)
LEMMA StartsPrefix ==
  ASSUME NEW S, NEW s \in Seq(S), NEW T, NEW t \in Seq(T), Starts(s, t)
  PROVE  /\ IsPrefix(s, t)
         /\ Len(s) = Len(t) => s = t
<1>1. Len(s) \in Nat /\ Len(t) \in Nat /\ Len(s) <= Len(t)
      /\ \A k \in 1 .. Len(s) : s[k] = t[k]
      /\ s \in Seq(S \cup T) /\ t \in Seq(S \cup T)
  BY DEF Starts
<1>2. SubSeq(s, 1, Len(s)) = SubSeq(t, 1, Len(s))
  BY <1>1
<1> QED
  BY <1>1, <1>2 DEF IsPrefix

(* The invariant of both pipelines.                                        *)
SameInv == ShownInv /\ OffInv /\ Still /\ Follows /\ Arrived

(* It is inductive: the offline program first writes the trace, the drain  *)
(* thread then follows it as far as the two have the same updates.         *)
THEOREM SameInvariant == PipelinesSpec => []SameInv
<1>1. PipelinesInit => SameInv
  BY LiveInvInit, LinesInit, ReadingInit, FollowsInit, ArrivedInit DEF SameInv, ShownInv
<1>2. SameInv /\ [PipelinesNext]_allVars => SameInv'
  <2> SUFFICES ASSUME SameInv, [PipelinesNext]_allVars
               PROVE  SameInv'
    OBVIOUS
  <2>1. LiveInv /\ LinesInv /\ InOrder /\ OffInv /\ Still /\ Follows /\ Arrived
    BY DEF SameInv, ShownInv
  <2>2. LiveInv' /\ OffInv'
    BY <2>1, LiveInvStep, OffInvStep
  <2>3. LinesInv' /\ InOrder' /\ Still' /\ Arrived'
    BY <2>1, <2>2, LinesStep, InOrderStep, StillStep, ArrivedStep
  <2>4. Follows'
    <3>1. CASE Offline!Next /\ UNCHANGED liveVars
      BY <2>1, <2>2, <3>1, FollowsOffline
    <3>2. CASE UNCHANGED offlineVars
      BY <2>1, <2>2, <3>2, FollowsLive
    <3> QED
      BY <3>1, <3>2 DEF PipelinesNext, allVars
  <2> QED
    BY <2>2, <2>3, <2>4 DEF SameInv, ShownInv
<1> QED
  BY <1>1, <1>2, PTL DEF PipelinesSpec

(* What rx_main.c:10 promises: as long as nothing is reported, the live    *)
(* pipeline prints the beginning of what the offline one prints, and all of*)
(* it, with the same books, when it popped as many updates.  Both have to  *)
(* get the same bytes of each packet: of those of a capture cut within a   *)
(* word, or too long for the receive buffer, they do not.                  *)
THEOREM LiveSameAsOffline ==
  ASSUME SameBytes
  PROVE  PipelinesSpec => []SameAsOffline
<1>1. SameInv => SameAsOffline
  <2> SUFFICES ASSUME SameInv, Offline!Finished, Resting, NothingReported
               PROVE  /\ IsPrefix(lines, offLines)
                      /\ pops = Len(offTaken) =>
                           /\ lines = offLines
                           /\ name = offName
                           /\ levels = offLevels /\ bookSt = offBookSt
    BY DEF SameAsOffline
  <2>1. /\ LiveInv /\ InOrder /\ OffInv /\ Arrived /\ Follows
        /\ FileDone /\ drained = Len(offTaken)
    BY FinishedIsDone DEF SameInv, ShownInv, FileDone
  <2>2. pops <= drained /\ Agree(Seqs, offTaken, pops)
        /\ pops \in Nat /\ drained \in Nat
    BY <2>1, SameUpdates DEF LiveInv, StageInv, Typed, OffInv, Reading
  <2>3. PICK tr : /\ Trace(tr, offTaken, drained, wanted)
                  /\ Same(OffState, tr[drained])
                  /\ LiveAt(tr, drained, Seqs, offTaken, dpc, pops, u, LiveState)
    BY <2>1 DEF Follows
  <2>4. Same(LiveState, tr[pops])
    <3>1. dpc \in Idle
      BY DEF Resting, Idle
    <3> QED
      BY <2>2, <2>3, <3>1 DEF LiveAt
  <2>5. /\ name = tr[pops].tab /\ levels = tr[pops].lv
        /\ bookSt = tr[pops].cs /\ lines = tr[pops].out
        /\ offName = tr[drained].tab /\ offLevels = tr[drained].lv
        /\ offBookSt = tr[drained].cs /\ offLines = tr[drained].out
    BY <2>3, <2>4 DEF Same, LiveState, OffState
  <2>6. pops \in 0 .. drained /\ drained \in 0 .. drained
    BY <2>2
  <2>7. Starts(lines, offLines) /\ (\E S : lines \in Seq(S)) /\ (\E S : offLines \in Seq(S))
    BY <2>2, <2>3, <2>5, <2>6 DEF Trace, Sane
  <2>8. IsPrefix(lines, offLines)
    BY <2>7, StartsPrefix
  <2> QED
    BY <2>1, <2>5, <2>8
<1> QED
  BY <1>1, SameInvariant, PTL

-----------------------------------------------------------------------------
(* What the pipeline is made of keeps its promise there.                   *)

(* The ring between the threads, and what went through it.                 *)
Waiting   == SubSeq(pushes, pops + 1, Len(pushes))
Delivered == SubSeq(pushes, 1, pops)

Ring == INSTANCE BoundedFifo WITH
          Messages <- Slots, chan <- Waiting, out <- Delivered

(* The two sequences, entry by entry.                                      *)
LEMMA RingHolds ==
  ASSUME NEW s \in Seq(Slots), NEW n \in Nat, n <= Len(s)
  PROVE  /\ SubSeq(s, n + 1, Len(s)) \in Seq(Slots)
         /\ Len(SubSeq(s, n + 1, Len(s))) = Len(s) - n
         /\ \A k \in 1 .. Len(s) - n : SubSeq(s, n + 1, Len(s))[k] = s[n + k]
         /\ SubSeq(s, 1, n) \in Seq(Slots)
         /\ Len(SubSeq(s, 1, n)) = n
         /\ \A k \in 1 .. n : SubSeq(s, 1, n)[k] = s[k]
<1> DEFINE L == Len(s)
           w == SubSeq(s, n + 1, L)
           d == SubSeq(s, 1, n)
<1>1. L \in Nat /\ n <= L /\ \A k \in 1 .. L : s[k] \in Slots
  OBVIOUS
<1> HIDE DEF L
<1>2. /\ w \in Seq(Slots)
      /\ Len(w) = IF n + 1 <= L THEN L - (n + 1) + 1 ELSE 0
      /\ \A k \in 1 .. L - (n + 1) + 1 : w[k] = s[n + 1 + k - 1]
  <2>1. \A k \in n + 1 .. L : s[k] \in Slots
    BY <1>1
  <2> QED
    BY <1>1, <2>1, SubSeqProperties
<1>3. /\ d \in Seq(Slots)
      /\ Len(d) = IF 1 <= n THEN n - 1 + 1 ELSE 0
      /\ \A k \in 1 .. n - 1 + 1 : d[k] = s[1 + k - 1]
  <2>1. \A k \in 1 .. n : s[k] \in Slots
    BY <1>1
  <2> QED
    BY <1>1, <2>1, SubSeqProperties
<1> HIDE DEF w, d
<1>4. Len(w) = L - n /\ Len(d) = n
  BY <1>1, <1>2, <1>3
<1>5. ASSUME NEW k \in 1 .. L - n
      PROVE  w[k] = s[n + k]
  <2>1. k \in 1 .. L - (n + 1) + 1 /\ n + 1 + k - 1 = n + k
    BY <1>1
  <2> QED
    BY <1>2, <2>1
<1>6. ASSUME NEW k \in 1 .. n
      PROVE  d[k] = s[k]
  <2>1. k \in 1 .. n - 1 + 1 /\ 1 + k - 1 = k
    OBVIOUS
  <2> QED
    BY <1>3, <2>1
<1> QED
  BY <1>2, <1>3, <1>4, <1>5, <1>6 DEF w, d, L

(* A step of the pipeline puts one message into the ring, takes one out, or*)
(* leaves it alone.                                                        *)
LEMMA RingSteps ==
  ASSUME LiveInv, [PipelinesNext]_allVars
  PROVE  \/ /\ pops' = pops /\ Len(pushes) - pops < Capacity
            /\ \E m \in Slots : pushes' = Append(pushes, m)
         \/ pushes' = pushes /\ pops < Len(pushes) /\ pops' = pops + 1
         \/ pushes' = pushes /\ pops' = pops
<1>0. /\ pushes \in Seq(Slots) /\ Len(pushes) \in Nat
      /\ pops \in Nat /\ seen \in Nat /\ seen <= pops /\ pops <= Len(pushes)
      /\ Typed /\ file \in Files /\ StageInv
  BY DEF LiveInv, StageInv, Typed, Drains
<1>1. CASE Stage
  <2>1. pops' = pops /\ Len(pushes') - seen' <= Capacity
    BY <1>1, StageFills DEF LiveInv, StageInv
  <2>2. CASE pushes' = pushes
    BY <2>1, <2>2
  <2>3. CASE pushes' # pushes
    <3>0. Push
      BY <1>1, <2>3 DEF Stage, Deliver, NonDeep, Heartbeat, Segment, Arrive, TakeApart,
         Filter, DropFull, EndSegment, Timeout, framer
    <3>1. PICK m : pushes' = Append(pushes, m) /\ seen' \in (seen .. pops) \cup {seen}
      BY <3>0 DEF Push, HasRoom, RefreshSeen, HeadLoads
    <3>2. pushes' \in Seq(Slots) /\ seen' \in Nat
      BY LiveInvStep DEF LiveInv, StageInv, Typed
    <3>3. /\ Len(pushes') = Len(pushes) + 1
          /\ pushes'[Len(pushes')] = m /\ Len(pushes') \in 1 .. Len(pushes')
      BY <1>0, <3>1
    <3>4. m \in Slots
      BY <3>2, <3>3
    <3>5. seen' <= pops
      BY <1>0, <3>1
    <3> QED
      BY <1>0, <2>1, <3>1, <3>2, <3>3, <3>4, <3>5, StageAssumption
  <2> QED
    BY <2>2, <2>3
<1>2. CASE PopEnd
  BY <1>2 DEF PopEnd, Pop
<1>3. CASE \/ RxDone \/ Look \/ NotDone \/ SeeDone \/ SecondLook \/ Decode
           \/ Apply \/ Emit \/ Joined \/ UNCHANGED liveVars
  BY <1>3 DEF RxDone, Look, NotDone, SeeDone, SecondLook, Decode, Apply, Emit,
              Joined, liveVars, rx, vars, drain
<1>4. Offline!Next /\ UNCHANGED liveVars => UNCHANGED liveVars
  OBVIOUS
<1> QED
  BY <1>1, <1>2, <1>3, <1>4
     DEF PipelinesNext, LiveNext, ReceiveThread, DrainThread, allVars

(* Each of these is a step of the bounded FIFO.                            *)
LEMMA RingRefines ==
  ASSUME LiveInv, [PipelinesNext]_allVars
  PROVE  [Ring!Next]_(Ring!vars)
<1>1. /\ pushes \in Seq(Slots) /\ Len(pushes) \in Nat
      /\ pops \in Nat /\ pops <= Len(pushes)
  BY DEF LiveInv, StageInv, Typed, Drains
<1>2. /\ pushes' \in Seq(Slots) /\ Len(pushes') \in Nat
      /\ pops' \in Nat /\ pops' <= Len(pushes')
  BY LiveInvStep DEF LiveInv, StageInv, Typed, Drains
<1>3. /\ Waiting \in Seq(Slots) /\ Len(Waiting) = Len(pushes) - pops
      /\ \A k \in 1 .. Len(pushes) - pops : Waiting[k] = pushes[pops + k]
      /\ Delivered \in Seq(Slots) /\ Len(Delivered) = pops
      /\ \A k \in 1 .. pops : Delivered[k] = pushes[k]
  BY <1>1, RingHolds DEF Waiting, Delivered
<1>4. /\ Waiting' \in Seq(Slots) /\ Len(Waiting') = Len(pushes') - pops'
      /\ \A k \in 1 .. Len(pushes') - pops' : Waiting'[k] = pushes'[pops' + k]
      /\ Delivered' \in Seq(Slots) /\ Len(Delivered') = pops'
      /\ \A k \in 1 .. pops' : Delivered'[k] = pushes'[k]
  <2>1. Waiting' = SubSeq(pushes', pops' + 1, Len(pushes'))
        /\ Delivered' = SubSeq(pushes', 1, pops')
    BY DEF Waiting, Delivered
  <2> QED
    BY <1>2, <2>1, RingHolds
<1>5. ASSUME NEW m \in Slots, pushes' = Append(pushes, m), pops' = pops,
             Len(pushes) - pops < Capacity
      PROVE  Ring!Send(m)
  <2>1. /\ Len(pushes') = Len(pushes) + 1 /\ pushes'[Len(pushes) + 1] = m
        /\ \A k \in 1 .. Len(pushes) : pushes'[k] = pushes[k]
    BY <1>1, <1>5, AppendProperties
  <2>2. /\ Append(Waiting, m) \in Seq(Slots)
        /\ Len(Append(Waiting, m)) = Len(Waiting) + 1
        /\ \A k \in 1 .. Len(Waiting) : Append(Waiting, m)[k] = Waiting[k]
        /\ Append(Waiting, m)[Len(Waiting) + 1] = m
    BY <1>3, <1>5, AppendProperties
  <2>3. Waiting' = Append(Waiting, m)
    <3>1. Len(Waiting') = Len(Append(Waiting, m))
      BY <1>1, <1>3, <1>4, <1>5, <2>1, <2>2
    <3>2. ASSUME NEW k \in 1 .. Len(Waiting')
          PROVE  Waiting'[k] = Append(Waiting, m)[k]
      <4>1. k \in 1 .. Len(pushes') - pops' /\ k \in Nat
        BY <1>2, <1>4, <3>2
      <4>2. Waiting'[k] = pushes'[pops + k]
        BY <1>4, <1>5, <4>1
      <4>3. CASE k = Len(Waiting) + 1
        <5>1. pops + k = Len(pushes) + 1
          BY <1>1, <1>3, <4>3
        <5> QED
          BY <2>1, <2>2, <4>2, <4>3, <5>1
      <4>4. CASE k # Len(Waiting) + 1
        <5>1. k \in 1 .. Len(Waiting) /\ k \in 1 .. Len(pushes) - pops
              /\ pops + k \in 1 .. Len(pushes)
          BY <1>1, <1>3, <1>5, <2>1, <4>1, <4>4
        <5> QED
          BY <1>3, <2>1, <2>2, <4>2, <5>1
      <4> QED
        BY <4>3, <4>4
    <3> QED
      BY <1>4, <2>2, <3>1, <3>2, SeqEqual
  <2>4. Delivered' = Delivered
    <3>1. \A k \in 1 .. Len(Delivered) : Delivered'[k] = Delivered[k]
      BY <1>1, <1>3, <1>4, <1>5, <2>1
    <3> QED
      BY <1>3, <1>4, <1>5, <3>1, SeqEqual
  <2> QED
    BY <1>3, <1>5, <2>3, <2>4 DEF Ring!Send
<1>6. ASSUME pushes' = pushes, pops < Len(pushes), pops' = pops + 1
      PROVE  Ring!Receive
  <2>1. Waiting # <<>>
    <3>1. Len(Waiting) # 0
      BY <1>1, <1>3, <1>6
    <3> QED
      BY <3>1
  <2>2. /\ Tail(Waiting) \in Seq(Slots) /\ Len(Tail(Waiting)) = Len(Waiting) - 1
        /\ \A k \in 1 .. Len(Tail(Waiting)) : Tail(Waiting)[k] = Waiting[k + 1]
        /\ Head(Waiting) \in Slots
    BY <1>3, <2>1, HeadTailProperties
  <2>3. Head(Waiting) = pushes[pops + 1]
    <3>1. 1 \in 1 .. Len(pushes) - pops
      BY <1>1, <1>6
    <3>2. Head(Waiting) = Waiting[1]
      BY <1>3, <2>1
    <3> QED
      BY <1>3, <3>1, <3>2
  <2>4. Waiting' = Tail(Waiting)
    <3>1. Len(Waiting') = Len(Tail(Waiting))
      BY <1>1, <1>3, <1>4, <1>6, <2>2
    <3>2. ASSUME NEW k \in 1 .. Len(Waiting')
          PROVE  Waiting'[k] = Tail(Waiting)[k]
      <4>1. /\ k \in 1 .. Len(pushes') - pops' /\ k \in Nat
            /\ k \in 1 .. Len(Tail(Waiting))
            /\ k + 1 \in 1 .. Len(pushes) - pops
            /\ pops' + k = pops + (k + 1)
        BY <1>1, <1>3, <1>4, <1>6, <2>2, <3>2
      <4>2. Waiting'[k] = pushes[pops + (k + 1)]
        BY <1>4, <1>6, <4>1
      <4>3. Tail(Waiting)[k] = Waiting[k + 1]
        BY <2>2, <4>1
      <4>4. Waiting[k + 1] = pushes[pops + (k + 1)]
        BY <1>3, <4>1
      <4> QED
        BY <4>2, <4>3, <4>4
    <3> QED
      BY <1>4, <2>2, <3>1, <3>2, SeqEqual
  <2>5. Delivered' = Append(Delivered, Head(Waiting))
    <3>1. /\ Append(Delivered, Head(Waiting)) \in Seq(Slots)
          /\ Len(Append(Delivered, Head(Waiting))) = pops + 1
          /\ \A k \in 1 .. pops : Append(Delivered, Head(Waiting))[k] = Delivered[k]
          /\ Append(Delivered, Head(Waiting))[pops + 1] = Head(Waiting)
      BY <1>3, <2>2, AppendProperties
    <3>2. \A k \in 1 .. Len(Delivered') :
            Delivered'[k] = Append(Delivered, Head(Waiting))[k]
      <4>1. \A k \in 1 .. pops + 1 : k \in 1 .. pops \/ k = pops + 1
        BY <1>1
      <4> QED
        BY <1>3, <1>4, <1>6, <2>3, <3>1, <4>1
    <3> QED
      BY <1>4, <1>6, <3>1, <3>2, SeqEqual
  <2> QED
    BY <2>1, <2>4, <2>5 DEF Ring!Receive
<1>7. ASSUME pushes' = pushes, pops' = pops
      PROVE  UNCHANGED Ring!vars
  BY <1>7 DEF Ring!vars, Waiting, Delivered
<1> QED
  BY <1>5, <1>6, <1>7, RingSteps DEF Ring!Next

(* In the pipeline, with a producer that decides on an old head and a      *)
(* consumer on an old tail, with drops and with everything a network does, *)
(* the ring is a FIFO of at most Capacity messages: what the drain thread  *)
(* gets is what the receive thread pushed, whole, once and in order.       *)
THEOREM LiveRingIsFifo == PipelinesSpec => Ring!Spec
<1>1. PipelinesInit => Ring!Init
  <2> SUFFICES ASSUME PipelinesInit PROVE Waiting = <<>> /\ Delivered = <<>>
    BY DEF Ring!Init
  <2>1. pushes = <<>> /\ pops = 0 /\ Len(<<>>) = 0
    BY DEF PipelinesInit, LiveInit, Init
  <2> QED
    BY <2>1, SubSeqEmpty DEF Waiting, Delivered
<1> QED
  BY <1>1, RingRefines, LiveInvariant, PTL DEF PipelinesSpec, Ring!Spec

(* What a message decodes to is an update PriceBook knows.                 *)
LEMMA DecodedInBounds ==
  ASSUME NEW tab, NEW q \in DOMAIN Payload, Decoded(q, tab) # NoUpdate
  PROVE  LET x == Decoded(q, tab)
         IN  x.price \in Prices /\ x.size \in Sizes \cup {0}
<1> DEFINE x == Decoded(q, tab)
<1>1. x.price = Payload[q].price /\ x.size = Payload[q].size
  BY DEF Decoded
<1> QED
  BY <1>1 DEF Prices, Sizes

(* The drain thread's step is a step of its books.                         *)
LEMMA LiveBookStep ==
  ASSUME ShownInv, [PipelinesNext]_allVars
  PROVE  [Book!Next]_(Book!vars)
<1>1. CASE Apply
  <2>1. Book!Apply(<<u.sym, u.side>>, u.price, u.size) /\ dpc = "apply"
    BY <1>1 DEF Apply, Size
  <2>2. /\ pops > 0 /\ u = Decoded(Seqs[pops], name) /\ Table(Seqs, pops, name)
        /\ Known(name, Msg(Seqs, pops).name)
    BY <2>1 DEF ShownInv, LinesInv, LinesAt
  <2>3. UpdateSeq(Seqs, Len(pushes)) /\ pops \in 1 .. Len(pushes) /\ pops \in Nat
    <3>1. LiveInv
      BY DEF ShownInv
    <3>2. pops \in Nat /\ pops <= Len(pushes) /\ Len(pushes) \in Nat
      BY <3>1 DEF LiveInv, StageInv, Typed
    <3> QED
      BY <2>2, <3>1, <3>2, SeqsOfFeed DEF OfFeed
  <2>4. u.sym \in Indices /\ u.side = Msg(Seqs, pops).side /\ u # NoUpdate
    BY <2>2, <2>3, DecodedFacts
  <2>5. u.side \in {"bid", "ask"} /\ Seqs[pops] \in DOMAIN Payload
    BY <2>3, <2>4, MsgFacts DEF UpdateSeq
  <2>6. <<u.sym, u.side>> \in Book!Books
    BY <2>4, <2>5 DEF Book!Books, Book!Sides
  <2>7. u.price \in Prices /\ u.size \in Sizes \cup {0}
    BY <2>2, <2>4, <2>5, DecodedInBounds
  <2> QED
    BY <2>1, <2>6, <2>7 DEF Book!Next
<1>2. CASE \/ Stage \/ RxDone \/ Look \/ NotDone \/ SeeDone \/ SecondLook \/ Decode
           \/ PopEnd \/ Emit \/ Joined \/ UNCHANGED liveVars
  <2>1. UNCHANGED <<levels, bookSt>>
    BY <1>2 DEF Stage, RxDone, Look, NotDone, SeeDone, SecondLook, Decode, PopEnd, Emit,
                Joined, liveVars, drain, books
  <2> QED
    BY <2>1 DEF Book!vars
<1>3. Offline!Next /\ UNCHANGED liveVars => UNCHANGED liveVars
  OBVIOUS
<1> QED
  BY <1>1, <1>2, <1>3
     DEF PipelinesNext, LiveNext, ReceiveThread, DrainThread, allVars

(* What an update does, in the words of the offline program.               *)
LEMMA AppliedIsApply ==
  ASSUME NEW b, NEW p, NEW z,
         Applied(offLevels, offBookSt, b, p, z, offLevels', offBookSt')
  PROVE  Offline!Book!Apply(b, p, z)
BY OfflineBook
   DEF Applied, Offline!Book!Apply, Offline!Book!Delete,
         Offline!Book!DeleteMissing, Offline!Book!Update, Offline!Book!Insert,
         Offline!Book!Displace, Offline!Book!Refuse, Offline!Book!Count,
         Offline!Book!IsWorst

(* So is the offline program's.                                            *)
LEMMA OffBookStep ==
  ASSUME SameInv, SameInv', [PipelinesNext]_allVars
  PROVE  [Offline!Book!Next]_(Offline!Book!vars)
<1>1. CASE Offline!Next /\ UNCHANGED liveVars
  <2>1. CASE OffState' = OffState
    BY <2>1 DEF OffState, Offline!Book!vars
  <2>2. CASE Outputs /\ Turn(offTaken[drained + 1], wanted, OffState, OffState')
    <3> DEFINE q == offTaken[drained + 1]
               x == Decoded(q, offName')
    <3>1. q \in DOMAIN Payload
      <4>1. /\ drained \in Nat /\ drained < Len(offTaken) /\ Len(offTaken) \in Nat
            /\ offTaken \in Seq(DOMAIN Payload)
        BY <2>2, ReadingFacts DEF SameInv, OffInv, Reading, Outputs
      <4>2. drained + 1 \in 1 .. Len(offTaken)
        BY <4>1
      <4> QED
        BY <4>1, <4>2
    <3>2. /\ x = NoUpdate => offLevels' = offLevels /\ offBookSt' = offBookSt
          /\ x # NoUpdate => Applied(offLevels, offBookSt, <<x.sym, x.side>>, x.price, x.size,
                                     offLevels', offBookSt')
      BY <2>2 DEF Turn, OffState
    <3>3. (\E S : offName' \in Seq(S)) /\ Len(offName') <= MaxSymbols
      <4>1. PICK tr : /\ Trace(tr, offTaken', drained', wanted')
                      /\ Same(OffState', tr[drained'])
        BY DEF SameInv, Follows
      <4>2. drained' \in 0 .. drained'
        BY ReadingFacts DEF SameInv, OffInv, Reading
      <4> QED
        BY <4>1, <4>2 DEF Trace, Sane, Same, OffState
    <3> HIDE DEF q
    <3>4. CASE x = NoUpdate
      BY <3>2, <3>4 DEF Offline!Book!vars
    <3>5. CASE x # NoUpdate
      <4>1. /\ <<x.sym, x.side>> \in Offline!Book!Books /\ x.price \in Offline!Prices
            /\ x.size \in Offline!Sizes \cup {0}
        <5>1. <<x.sym, x.side>> \in Book!Books
          BY <3>1, <3>3, <3>5, DecodedSane
        <5>2. x.price \in Prices /\ x.size \in Sizes \cup {0}
          BY <3>1, <3>5, DecodedInBounds
        <5> QED
          BY <5>1, <5>2
             DEF Book!Books, Book!Sides, Offline!Book!Books, Offline!Book!Sides,
                 Indices, Offline!Indices, Prices, Offline!Prices, Sizes, Offline!Sizes
      <4> HIDE DEF x
      <4>2. Offline!Book!Apply(<<x.sym, x.side>>, x.price, x.size)
        <5>1. Applied(offLevels, offBookSt, <<x.sym, x.side>>, x.price, x.size,
                      offLevels', offBookSt')
          BY <3>2, <3>5
        <5> QED
          BY <5>1, AppliedIsApply
      <4> QED
        BY <4>1, <4>2 DEF Offline!Book!Next
    <3> QED
      BY <3>4, <3>5
  <2> QED
    BY <1>1, <2>1, <2>2, OfflineSteps
<1>2. CASE UNCHANGED offlineVars
  BY <1>2 DEF offlineVars, Offline!Book!vars
<1> QED
  BY <1>1, <1>2 DEF PipelinesNext, allVars

(* The books of both pipelines, written with the operators of PriceBook,   *)
(* are price maps of bounded depth all the time: what was proved of book.c *)
(* (BookRefines) is what the pipelines rely on, and they never use it      *)
(* outside its bounds.                                                     *)
THEOREM PipelineBooks == PipelinesSpec => Book!Spec /\ Offline!Book!Spec
<1>1. PipelinesInit => Book!Init /\ Offline!Book!Init
  BY DEF PipelinesInit, LiveInit, Offline!Init
<1>2. SameInv => ShownInv
  BY DEF SameInv
<1> QED
  BY <1>1, <1>2, LiveBookStep, OffBookStep, SameInvariant, PTL
     DEF PipelinesSpec, Book!Spec, Offline!Book!Spec
=============================================================================
