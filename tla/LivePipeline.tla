---------------------------- MODULE LivePipeline ----------------------------
(***************************************************************************)
(* src/net/rx_main.c: the receive thread and the drain thread around the   *)
(* ring.  The receive thread is the stage of RxFramer, fed with what the   *)
(* replay sender sends of a capture and the network does not lose; when    *)
(* the stage is over it raises g_rx_done.  The drain thread decodes an     *)
(* update while it holds the slot, gives the slot back, interns the        *)
(* symbol, applies the update to the symbol's book and, at the end of an   *)
(* event, prints the best bid and ask.                                     *)
(*                                                                         *)
(* What the drain thread sees of the two words it shares is kept: a load   *)
(* of q->tail may return any store from the newest one it must know of     *)
(* (`mustSee`) on, and a load of g_rx_done may miss the store.  Only the   *)
(* acquire of g_rx_done = 1 makes every push known.                        *)
(***************************************************************************)
EXTENDS RxFramer, Capture, DeepDecode

CONSTANT BufferLen   (* of the buffer of rx_stage_run                      *)

ASSUME BufferAssumption == BufferLen \in Nat

VARIABLES
  done,        (* g_rx_done                                                *)
  dpc,         (* drain thread: where it is in its loop                    *)
  cachedTail,  (* cached_tail                                              *)
  mustSee,     (* the newest tail the drain thread cannot miss             *)
  u,           (* its deep_update_t, with the symbol as an index           *)
  name,        (* the symbol table: index (from 0) to symbol               *)
  levels, bookSt,  (* the books, as PriceBook has them                     *)
  wanted,      (* the symbols whose lines are printed (--symbol), constant *)
  lines        (* the lines printed                                        *)

books == <<levels, bookSt>>
drain == <<dpc, cachedTail, mustSee, u, name, books, lines>>
rx    == <<framer, network, pushes, seen, framed, done, file, wanted>>
liveVars == <<rx, pops, drain>>

(* Every update of the feed says something, with the types of              *)
(* deep_plu_t.                                                             *)
ASSUME PayloadAssumption ==
    /\ \A k \in SegIds : \A j \in 1 .. MsgCount(k) :
         Feed[k].blocks[j] = "plu" => Feed[k].first + j - 1 \in DOMAIN Payload
    /\ \A q \in DOMAIN Payload :
         /\ q \in Nat
         /\ Payload[q].side \in {"bid", "ask"} /\ Payload[q].price \in Int
         /\ Payload[q].size \in Nat /\ Payload[q].epc \in BOOLEAN
    /\ MaxSymbols \in Nat /\ MaxLevels \in Nat \ {0}

Book == INSTANCE PriceBook WITH Symbols <- Indices, st <- bookSt

(* What slot k holds: the last message put there.                          *)
Slot(k) == pushes[Max({n \in DOMAIN pushes : n % Capacity = k % Capacity})].seq

-----------------------------------------------------------------------------
LiveInit ==
    /\ Init
    /\ done = FALSE
    /\ dpc = "look" /\ cachedTail = 0 /\ mustSee = 0
    /\ u = NoUpdate
    /\ name = <<>>
    /\ Book!Init
    /\ lines = <<>>

(* The datagrams of the sender as recvfrom returns them: what the buffer   *)
(* does not hold is cut off.                                               *)
Received(c) == Datagram(c, Min({SentLen(c), BufferLen}))

Incoming == [f \in Files |-> {Received(c) : c \in Sent[f]}]

(* A datagram of the sender arrives, or a block of it is dealt with, or    *)
(* nothing came for two seconds.                                           *)
Stage ==
    /\ (\E d \in Incoming[file] : Deliver(d)) \/ TakeApart \/ Timeout
    /\ UNCHANGED <<done, file, wanted, drain>>

(* rx_stage_run returned.                                                  *)
RxDone ==
    /\ ~running /\ ~done
    /\ done' = TRUE
    /\ UNCHANGED <<vars, file, wanted, drain>>

-----------------------------------------------------------------------------
(* pop_begin as the drain thread calls it: reload the tail when the cached *)
(* one shows an empty ring.                                                *)
LoadTail ==
    IF pops # cachedTail
    THEN UNCHANGED <<cachedTail, mustSee>>
    ELSE \E k \in mustSee .. Len(pushes) : cachedTail' = k /\ mustSee' = k

(* The pop at the top of the loop.                                         *)
Look ==
    /\ dpc = "look"
    /\ LoadTail
    /\ dpc' = IF cachedTail' # pops THEN "held" ELSE "empty"
    /\ UNCHANGED <<rx, pops, u, name, books, lines>>

(* Nothing there, and g_rx_done read as 0 (perhaps an old value): again.   *)
NotDone ==
    /\ dpc = "empty"
    /\ dpc' = "look"
    /\ UNCHANGED <<rx, pops, cachedTail, mustSee, u, name, books, lines>>

(* Fault: a ring found empty before g_rx_done was read counts as drained.  *)
AfterDoneExit == "exit"

AfterDone == "second"

(* g_rx_done read as 1: the acquire makes the last push visible.           *)
SeeDone ==
    /\ dpc = "empty" /\ done
    /\ mustSee' = Len(pushes)
    /\ dpc' = AfterDone
    /\ UNCHANGED <<rx, pops, cachedTail, u, name, books, lines>>

(* Fault: the test of the second look is the wrong way round.              *)
DrainedInverted == cachedTail' # pops

Drained == cachedTail' = pops

(* The second look.  A slot it finds is not used: the loop starts over.    *)
SecondLook ==
    /\ dpc = "second"
    /\ LoadTail
    /\ dpc' = IF Drained THEN "exit" ELSE "look"
    /\ UNCHANGED <<rx, pops, u, name, books, lines>>

-----------------------------------------------------------------------------
(* deep_decode, while the slot is held.                                    *)
Decode ==
    /\ dpc = "held"
    /\ name' = Interned(name, Payload[Slot(pops + 1)].name)
    /\ u' = Decoded(Slot(pops + 1), name')
    /\ dpc' = "decoded"
    /\ UNCHANGED <<rx, pops, cachedTail, mustSee, books, lines>>

(* pop_end                                                                 *)
PopEnd ==
    /\ dpc = "decoded"
    /\ Pop
    /\ dpc' = IF u = NoUpdate THEN "look" ELSE "apply"
    /\ UNCHANGED <<done, file, wanted, cachedTail, mustSee, u, name, books, lines>>

(* Fault: the size is read from the slot, which was given back.            *)
SizeFromSlot == Payload[Slot(pops)].size

Size == u.size

(* book_apply, and the line of the BBO when the event is complete.         *)
Apply ==
    /\ dpc = "apply"
    /\ Book!Apply(<<u.sym, u.side>>, u.price, Size)
    /\ dpc' = IF u.epc THEN "emit" ELSE "look"
    /\ UNCHANGED <<rx, pops, cachedTail, mustSee, u, name, lines>>

(* emit_bbo                                                                *)
Emit ==
    /\ dpc = "emit"
    /\ lines' = IF name[u.sym + 1] \notin wanted THEN lines
                ELSE Append(lines, Line(u, name, levels))
    /\ dpc' = "look"
    /\ UNCHANGED <<rx, pops, cachedTail, mustSee, u, name, books>>

-----------------------------------------------------------------------------
ReceiveThread == Stage \/ RxDone

DrainThread == \/ Look \/ NotDone \/ SeeDone \/ SecondLook
               \/ Decode \/ PopEnd \/ Apply \/ Emit

(* main: pthread_join                                                      *)
Joined == dpc = "exit" /\ UNCHANGED liveVars

LiveNext == ReceiveThread \/ DrainThread \/ Joined

(* Both threads run, and a store that stays the newest is in the end the   *)
(* one a repeated load returns.                                            *)
LiveFairness ==
    /\ WF_liveVars(ReceiveThread) /\ WF_liveVars(DrainThread)
    /\ SF_liveVars(SeeDone)
    /\ SF_liveVars(Look /\ cachedTail' = Len(pushes))

-----------------------------------------------------------------------------
(* Properties.                                                             *)

(* The drain thread is between two messages.                               *)
Resting == dpc \in {"look", "empty", "second", "exit"}

(* The messages pushed, as the exchange wrote them.                        *)
Pushed(n) == Payload[pushes[n].seq]

(* What a book that never loses a level holds after the first m pushes:    *)
(* the last update of a price decides.                                     *)
LastSize(m, nm, side, p) ==
    LET at == {n \in 1 .. m : /\ Pushed(n).name = nm /\ Pushed(n).side = side
                              /\ Pushed(n).price = p}
    IN  IF at = {} THEN 0 ELSE Pushed(Max(at)).size

ReferenceBest(m, nm, side) ==
    LET live == {p \in Prices : LastSize(m, nm, side, p) # 0}
        p == IF side = "bid" THEN Max(live) ELSE Min(live)
    IN  IF live = {} THEN <<>> ELSE <<p, LastSize(m, nm, side, p)>>

(* A symbol has an index when it is among the first MaxSymbols pushed.     *)
HasIndex(nm) ==
    LET first == Min({n \in DOMAIN pushes : Pushed(n).name = nm})
    IN  Cardinality({Pushed(n).name : n \in 1 .. first - 1}) < MaxSymbols

(* The complete events among the first m pushes of which a line is due.    *)
Events(m) == {n \in 1 .. m : /\ Pushed(n).epc
                             /\ Pushed(n).name \in wanted
                             /\ HasIndex(Pushed(n).name)}

ReferenceLine(n) ==
    LET nm == Pushed(n).name
    IN  [seq |-> pushes[n].seq, name |-> nm,
         bid |-> ReferenceBest(n, nm, "bid"), ask |-> ReferenceBest(n, nm, "ask")]

(* While the drain thread reads a slot, the slot holds the update that was *)
(* pushed at that place: the receive thread never reuses it too early.     *)
SlotIntact ==
    dpc \in {"held", "decoded"} => Slot(pops + 1) = pushes[pops + 1].seq

(* Whatever the interleaving, and whatever the network did, the lines      *)
(* printed are the ones the reference prints for the updates pushed: each  *)
(* complete event once, in order, with the best prices of exactly the      *)
(* updates up to it.  A book that lost a level to overflow may differ.     *)
LinesFollowReference ==
    (Resting /\ bookSt.overflow = 0) =>
        /\ Len(lines) = Cardinality(Events(pops))
        /\ \A n \in Events(pops) :
             lines[Cardinality(Events(n))] = ReferenceLine(n)

(* Damage stays where it was done.  Updates are lost by the network, by a  *)
(* full ring and by cuts, and lost ones also take their event's line with  *)
(* them (rx_main.c:139).  Yet unless a reorder or an overflow was counted, *)
(* every level whose newest update the drain thread did get shows exactly  *)
(* that update: nothing older comes back, and no other level is touched.   *)
DamageConfined ==
    (Resting /\ pops > 0 /\ st.reorders = 0 /\ bookSt.overflow = 0) =>
        \A sym \in 0 .. Len(name) - 1, side \in Book!Sides, p \in Prices :
            LET sent == {q \in DOMAIN Payload :
                           /\ q <= pushes[pops].seq
                           /\ Payload[q].name = name[sym + 1]
                           /\ Payload[q].side = side /\ Payload[q].price = p}
                book == levels[<<sym, side>>]
            IN  (\E n \in 1 .. pops : sent # {} /\ pushes[n].seq = Max(sent)) =>
                  Payload[Max(sent)].size = IF p \in DOMAIN book THEN book[p] ELSE 0

(* The drain thread ends only after the receive thread did, with nothing   *)
(* left in the ring: popped = pushed, the check main prints                *)
(* (rx_main.c:254).                                                        *)
DrainedAtExit == dpc = "exit" => done /\ pops = st.pushed

(* pthread_join returns.                                                   *)
JoinReturns == <>(dpc = "exit")
=============================================================================
