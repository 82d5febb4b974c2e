----------------------------- MODULE UdpServer -----------------------------
(***************************************************************************)
(* test/udp/udp_deep_server.c: the first receiver, which only counts.  It  *)
(* checks the sequence numbers of what arrives and, when the feed has been *)
(* silent for two seconds, reports whether anything was lost.  It has no   *)
(* other thread, so a datagram is one step.  The feed and the network are  *)
(* those of RxFramer.                                                      *)
(***************************************************************************)
EXTENDS Wire

VARIABLES expected_seq, st,
          reported,  (* the summary is printed                             *)
          taken      (* history: how often a segment's header was accepted *)

vars == <<expected_seq, st, reported, taken>>

Init ==
    /\ expected_seq = -1
    /\ st = [c \in {"datagrams", "heartbeats", "messages", "plu_cnt", "gaps",
                    "gap_msgs", "reorders"} |-> 0]
    /\ reported = FALSE
    /\ taken = [k \in SegIds |-> 0]

(* Too short for the header, or another protocol: not even counted.        *)
Ignore == ~reported /\ UNCHANGED vars

Accept(k) ==
    /\ ~reported
    /\ taken' = [taken EXCEPT ![k] = @ + 1]
    /\ UNCHANGED reported

Heartbeat(k) ==
    /\ MsgCount(k) = 0
    /\ Accept(k)
    /\ st' = [st EXCEPT !.datagrams = @ + 1, !.heartbeats = @ + 1]
    /\ UNCHANGED expected_seq

(* How far the segment is ahead of what is expected.                       *)
Ahead(k) == IF expected_seq < 0 THEN 0 ELSE Feed[k].first - expected_seq

(* Fault: what is late is not looked at.                                   *)
LateUnseen(k) == 0

Late(k) == IF Ahead(k) < 0 THEN 1 ELSE 0

(* Fault: what is late does not change what is expected next.              *)
NextSeqKept(k) ==
    IF Ahead(k) < 0 THEN expected_seq ELSE Feed[k].first + MsgCount(k)

NextSeq(k) == Feed[k].first + MsgCount(k)

(* A segment with messages, of which `intact` arrived whole.               *)
Segment(k, intact) ==
    /\ MsgCount(k) > 0
    /\ Accept(k)
    /\ st' = [st EXCEPT
                !.datagrams = @ + 1,
                !.gaps      = IF Ahead(k) > 0 THEN @ + 1 ELSE @,
                !.gap_msgs  = IF Ahead(k) > 0 THEN @ + Ahead(k) ELSE @,
                !.reorders  = @ + Late(k),
                !.messages  = @ + intact,
                !.plu_cnt   = @ + Cardinality({j \in 1 .. intact :
                                                 Feed[k].blocks[j] = "plu"})]
    /\ expected_seq' = NextSeq(k)

(* recvfrom timed out: the summary, and the end.                           *)
Report == ~reported /\ reported' = TRUE /\ UNCHANGED <<expected_seq, st, taken>>

Deliver(d) == \/ d.seg = 0 /\ Ignore
              \/ d.seg # 0 /\ (Heartbeat(d.seg) \/ Segment(d.seg, d.intact))

Next == \/ \E d \in {NotDeep} \cup UNION {Arrivals[k] : k \in SegIds} : Deliver(d)
        \/ Report

Spec == Init /\ [][Next]_vars

(* What the summary calls lossless.                                        *)
Quiet == st.gaps = 0 /\ st.reorders = 0
=============================================================================
