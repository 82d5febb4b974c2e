-------------------------- MODULE OfflinePipeline --------------------------
(***************************************************************************)
(* src/book/book_offline.c: the pipeline on a capture, in one thread.  The *)
(* payload of each packet goes through the framer of the receive stage     *)
(* into the ring, and drain takes the updates all out again, decodes and   *)
(* applies them, before the next packet.                                   *)
(*                                                                         *)
(* The ring is its history, as in RxFramer: `taken` is everything pushed,  *)
(* `drained` how much of it was popped.  One thread always knows both.     *)
(***************************************************************************)
EXTENDS Capture, DeepDecode

CONSTANT Capacity         (* RX_QUEUE_CAPACITY                             *)

VARIABLES block,          (* the next block of the file                    *)
          cur, i,         (* the payload being framed, and the blocks of   *)
                          (* it already passed                             *)
          expected,       (* expected_seq of the framer                    *)
          reorders,       (* of its counters, the two that matter here     *)
          dropped_full,
          taken,          (* the numbers of the updates pushed             *)
          drained,        (* how many of them were popped                  *)
          name,           (* the symbol table                              *)
          levels, bookSt, (* the books                                     *)
          wanted,         (* --symbol                                      *)
          lines           (* the lines printed                             *)

reading == <<block, cur, i, expected, reorders, dropped_full, taken>>
output  == <<drained, name, levels, bookSt, lines>>

Book == INSTANCE PriceBook WITH Symbols <- Indices, st <- bookSt

Init ==
    /\ block = 1 /\ cur = NotDeep /\ i = 0
    /\ expected = -1 /\ reorders = 0 /\ dropped_full = 0
    /\ taken = <<>> /\ drained = 0
    /\ name = <<>> /\ Book!Init /\ lines = <<>>

-----------------------------------------------------------------------------
(* Fault: the next packet is framed before drain is through.               *)
ReadyEager == cur = NotDeep

(* parse_frame has returned: the payload is framed, the ring drained.      *)
Ready == cur = NotDeep /\ drained = Len(taken)

MoreToRead == block <= Len(file.blocks) /\ AllThere(file, block)

HasMessages(d) == d.seg # 0 /\ MsgCount(d.seg) > 0

(* Nothing of the feed, or a heartbeat.                                    *)
Pass ==
    /\ Ready /\ MoreToRead
    /\ ~HasMessages(PayloadAt(file, block))
    /\ block' = block + 1
    /\ UNCHANGED <<cur, i, expected, reorders, dropped_full, taken, output>>

(* rx_framer_segment up to its loop.                                       *)
Frame ==
    /\ Ready /\ MoreToRead
    /\ LET d == PayloadAt(file, block)
       IN  /\ HasMessages(d)
           /\ reorders' = IF expected >= 0 /\ Feed[d.seg].first < expected
                          THEN reorders + 1 ELSE reorders
           /\ expected' = Feed[d.seg].first + MsgCount(d.seg)
           /\ cur' = d /\ i' = 0
    /\ block' = block + 1
    /\ UNCHANGED <<dropped_full, taken, output>>

(* One turn of its loop: an update is pushed, or dropped when the ring is  *)
(* full.                                                                   *)
Message ==
    /\ cur # NotDeep /\ i < cur.intact
    /\ LET plu  == Feed[cur.seg].blocks[i + 1] = "plu"
           full == Len(taken) - drained = Capacity
       IN  /\ taken' = IF plu /\ ~full THEN Append(taken, Feed[cur.seg].first + i)
                       ELSE taken
           /\ dropped_full' = IF plu /\ full THEN dropped_full + 1
                              ELSE dropped_full
    /\ i' = i + 1
    /\ UNCHANGED <<block, cur, expected, reorders, output>>

EndSegment ==
    /\ cur # NotDeep /\ i = cur.intact
    /\ cur' = NotDeep /\ i' = 0
    /\ UNCHANGED <<block, expected, reorders, dropped_full, taken, output>>

-----------------------------------------------------------------------------
(* One turn of drain's loop: the symbol of the next update is looked up.   *)
Pop ==
    /\ cur = NotDeep /\ drained < Len(taken)
    /\ drained' = drained + 1
    /\ name' = Interned(name, Payload[taken[drained']].name)
    /\ UNCHANGED reading

(* It has no place in the table ...                                        *)
Skip ==
    /\ Pop
    /\ Decoded(taken[drained'], name') = NoUpdate
    /\ UNCHANGED <<levels, bookSt, lines>>

Complete(u) == u.epc

(* The line of on_update: only when the event is complete.                 *)
Emit(u) ==
    lines' = IF Complete(u) /\ name'[u.sym + 1] \in wanted
             THEN Append(lines, Line(u, name', levels')) ELSE lines

(* ... or it has: on_update, after the slot was given back.                *)
Update ==
    /\ Pop
    /\ LET u == Decoded(taken[drained'], name')
       IN  /\ u # NoUpdate
           /\ Book!Apply(<<u.sym, u.side>>, u.price, u.size)
           /\ Emit(u)

Next == Pass \/ Frame \/ Message \/ EndSegment \/ Skip \/ Update

Finished == Ready /\ ~MoreToRead
=============================================================================
