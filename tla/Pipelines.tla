----------------------------- MODULE Pipelines -----------------------------
(***************************************************************************)
(* The live and the offline pipeline on the same capture, which the replay *)
(* sender sends to the one and the other reads itself.  The two are        *)
(* programs of their own that share nothing, so it does not matter which   *)
(* runs first: the offline one does.                                       *)
(***************************************************************************)
EXTENDS LivePipeline

CONSTANT Wanted        (* the symbols that may be asked for                *)

VARIABLES block, offCur, offI, expected, offReorders, offDropped, offTaken, drained,
          offName, offLevels, offBookSt, offLines

Offline == INSTANCE OfflinePipeline WITH
             cur <- offCur, i <- offI,
             reorders <- offReorders, dropped_full <- offDropped,
             taken <- offTaken,
             name <- offName, levels <- offLevels, bookSt <- offBookSt,
             lines <- offLines

offlineVars == <<block, offCur, offI, expected, offReorders, offDropped, offTaken,
                 drained, offName, offLevels, offBookSt, offLines>>
allVars == <<liveVars, offlineVars>>

(* No packet has more updates than the ring has slots: an Ethernet frame   *)
(* holds 45, the ring 1024.                                                *)
ASSUME RingAssumption ==
    \A f \in Files : \A b \in DOMAIN f.blocks :
        LET d == PayloadAt(f, b)
        IN  Cardinality({j \in 1 .. d.intact : Feed[d.seg].blocks[j] = "plu"})
              <= Capacity

(* The sender and the reader of the file cut each packet at the same byte, *)
(* and the receive buffer holds it.  Not so of a simple packet that was    *)
(* captured in part, up to a byte within a word: there the reader takes    *)
(* the padding for captured bytes.                                         *)
SameBytes ==
    \A f \in Files : \A b \in DOMAIN f.blocks :
        LET c == f.blocks[b]
        IN  c.type # "section" => c.caplen = CapLen(c) /\ c.ulen - 8 <= BufferLen

PipelinesInit ==
    /\ file \in Files /\ wanted \in Wanted
    /\ LiveInit /\ Offline!Init

PipelinesNext == \/ Offline!Next /\ UNCHANGED liveVars
                 \/ Offline!Finished /\ LiveNext /\ UNCHANGED offlineVars

(* The offline program runs to its end; the threads of the live one as in  *)
(* LivePipeline.                                                           *)
PipelinesSpec ==
    /\ PipelinesInit /\ [][PipelinesNext]_allVars
    /\ WF_allVars(Offline!Next /\ UNCHANGED liveVars)
    /\ LiveFairness

-----------------------------------------------------------------------------
(* Properties.                                                             *)

(* book_offline.c:213, of the drops for a full ring: it must be 0, as a    *)
(* packet has fewer updates than the ring has slots (RingAssumption).  It  *)
(* takes that drain leaves nothing of one packet behind for the next.      *)
OfflineDropsNone == offDropped = 0

(* Nothing tells of a difference: no drop, no reorder on either side, the  *)
(* feed was joined at its first update, and no message popped so far is    *)
(* marked AFTER_GAP.                                                       *)
NothingReported ==
    /\ st.dropped_full = 0 /\ st.reorders = 0 /\ offReorders = 0
    /\ \A n \in 1 .. pops : ~pushes[n].after_gap
    /\ pops > 0 => pushes[1].seq = offTaken[1]

(* rx_main.c:10: the output of the live pipeline can be compared with that *)
(* of the offline one.  As long as nothing is reported, what two racing    *)
(* threads have printed of what an unreliable network brought is the       *)
(* beginning of what one thread prints of the file, whatever the capture   *)
(* itself lacks.  When all its updates were popped, the books and the      *)
(* symbol tables are the same, too.  It takes SameBytes: that the two cut  *)
(* the packets alike.                                                      *)
SameAsOffline ==
    (Offline!Finished /\ Resting /\ NothingReported) =>
      /\ IsPrefix(lines, offLines)
      /\ pops = Len(offTaken) =>
           /\ lines = offLines
           /\ name = offName
           /\ levels = offLevels /\ bookSt = offBookSt
=============================================================================
