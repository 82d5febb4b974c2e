----------------------------- MODULE Receivers -----------------------------
(***************************************************************************)
(* The receive stage and the reference server it was promoted from, with   *)
(* the same datagrams arriving at both (rx_stage.c:9: the parsing is that  *)
(* of udp_deep_server.c, and what becomes of the messages is the only      *)
(* difference).                                                            *)
(***************************************************************************)
EXTENDS RxFramer

VARIABLES srvSeq, srvSt, reported, taken

Server == INSTANCE UdpServer WITH expected_seq <- srvSeq, st <- srvSt

serverVars == <<srvSeq, srvSt, reported, taken>>
bothVars   == <<vars, serverVars>>

BothInit == Init /\ Server!Init

BothReceive == \E d \in Anything : Deliver(d) /\ Server!Deliver(d)

BothNext ==
    \/ BothReceive
    \/ (TakeApart \/ Pop) /\ UNCHANGED serverVars
    \/ Timeout /\ Server!Report

(* The receive thread runs; nothing is assumed of the network or of the    *)
(* consumer.                                                               *)
BothSpec == BothInit /\ [][BothNext]_bothVars /\ WF_vars(TakeApart)

-----------------------------------------------------------------------------
(* Properties.                                                             *)

(* Both receivers count the same things the same way, whatever was lost,   *)
(* late, repeated or cut, and whatever the receive stage had to drop: its  *)
(* updates are pushed or counted as dropped.                               *)
SameCounts ==
    cur = NoSegment =>
      /\ expected_seq = srvSeq
      /\ \A c \in DOMAIN srvSt \ {"plu_cnt"} : st[c] = srvSt[c]
      /\ srvSt.plu_cnt = st.pushed + st.dropped_full

WithMessages == {k \in SegIds : MsgCount(k) > 0}

(* What the absence of gaps and reorders does show: from the first to the  *)
(* last segment taken, every one was taken, and once.                      *)
ContiguousIfQuiet ==
    LET got == {k \in WithMessages : taken[k] > 0}
    IN  (Server!Quiet /\ got # {}) =>
          \A k \in WithMessages : k \in Min(got) .. Max(got) => taken[k] = 1

(* udp_deep_server.c:174: gaps = 0 and reorders = 0 is reported as         *)
(* lossless reception, with the sequence continuity of the original pcap.  *)
(* It is so reported also when the last segments are lost, or the first,   *)
(* or the rest of a short datagram (and when nothing came, left out here). *)
LosslessIfQuiet ==
    (reported /\ Server!Quiet /\ srvSt.messages > 0) =>
        srvSt.messages = MapThenSumSet(MsgCount, WithMessages)
=============================================================================
