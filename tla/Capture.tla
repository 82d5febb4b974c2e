------------------------------ MODULE Capture ------------------------------
(***************************************************************************)
(* A pcapng capture of the feed, and what its readers take from it: the    *)
(* offline pipeline (book_offline.c), the bench (book_layout_bench.c) and  *)
(* the replay sender (test/udp/udp_replay_send.c, which leaves the blocks  *)
(* to libpcap) peel the payloads out of it, each with code of its own.     *)
(*                                                                         *)
(* A frame may have been captured only in part (`caplen`), have VLAN tags, *)
(* padding, or no UDP in it, and the file may end within a block.          *)
(***************************************************************************)
EXTENDS Wire

CONSTANT Files         (* captures: their blocks, and the size in bytes    *)

(* A block: its type and length, and of a packet its captured and original *)
(* length, whether it is UDP over IPv4, the VLAN tags, the length of the   *)
(* IP header, the UDP length, and the segment (0: another payload).  The   *)
(* bytes captured are padded to whole words; a simple packet block does    *)
(* not tell how many they are, the snapshot length of its section does.    *)
Types == {"section", "enhanced", "simple"}

VARIABLE file          (* the capture in use, chosen at the start          *)

BytesThrough(f, b) == MapThenSumSet(LAMBDA c : f.blocks[c].blen, 1 .. b)

ASSUME CaptureAssumption ==
    \A f \in Files :
        /\ Len(f.blocks) \in Nat /\ DOMAIN f.blocks = 1 .. Len(f.blocks)
        /\ \A b \in DOMAIN f.blocks :
             LET c == f.blocks[b] IN
             /\ c.type \in Types /\ c.blen \in Nat /\ c.blen >= 12
             /\ c.type = "enhanced" => c.caplen <= c.blen - 32
             /\ c.type = "simple"   =>
                  c.caplen <= c.orig /\ c.blen - 16 \in c.caplen .. c.caplen + 3
             /\ c.type # "section"  =>
                  /\ {c.caplen, c.orig, c.tags, c.ihl, c.ulen} \subseteq Nat
                  /\ c.seg \in SegIds \cup {0} /\ c.ulen >= 8

(* The loop gets to block b: it stops at the first one that is not all     *)
(* there.                                                                  *)
AllThere(f, b) == \A c \in 1 .. b : BytesThrough(f, c) <= f.size

(* The captured length as the readers of the file take it: of a simple     *)
(* packet cut short, with its padding, here taken to have the value of the *)
(* bytes it stands for.                                                    *)
CapLen(c) == IF c.type = "enhanced" THEN c.caplen ELSE Min({c.blen - 16, c.orig})

UdpAt(c) == 14 + 4 * c.tags + c.ihl

(* parse_frame gets to the payload.                                        *)
HasPayload(c) ==
    /\ c.type # "section" /\ c.udp
    /\ UdpAt(c) + 8 <= CapLen(c)

(* Without the padding of the frame, and without what was not captured.    *)
PayloadLen(c) == Min({c.ulen - 8, CapLen(c) - UdpAt(c) - 8})

(* n bytes of a payload as the receive stage looks at them.                *)
Datagram(c, n) == IF c.seg = 0 \/ n < HeaderLen THEN NotDeep ELSE Cut(c.seg, n)

(* What a reader of the file frames of block b.                            *)
PayloadAt(f, b) ==
    LET c == f.blocks[b]
    IN  IF HasPayload(c) THEN Datagram(c, PayloadLen(c)) ELSE NotDeep

(* Fault: what was not captured is sent, too.                              *)
SentLenUncut(c) == IF c.udp /\ UdpAt(c) + 8 <= c.caplen THEN c.ulen - 8 ELSE 0

(* The sender's own reading of a frame, udp_payload: libpcap gives it      *)
(* exactly the bytes captured.                                             *)
SentLen(c) == IF c.udp /\ UdpAt(c) + 8 <= c.caplen
              THEN Min({c.ulen - 8, c.caplen - UdpAt(c) - 8}) ELSE 0

(* The packets of which it sends the payload: it leaves empty ones out.    *)
Sent == [f \in Files |->
           {f.blocks[b] : b \in
              {b \in DOMAIN f.blocks :
                 /\ f.blocks[b].type # "section" /\ AllThere(f, b)
                 /\ SentLen(f.blocks[b]) > 0}}]
=============================================================================
