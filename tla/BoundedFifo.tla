---------------------------- MODULE BoundedFifo ----------------------------
(***************************************************************************)
(* What every SPSC ring of include/ll promises its two callers: a FIFO of  *)
(* at most Capacity messages.  A message that was pushed is delivered      *)
(* whole, exactly once and in push order; nothing else is ever delivered.  *)
(* Memory, indices, caches and slots are not visible at this level.        *)
(***************************************************************************)
EXTENDS Naturals, Sequences

CONSTANTS Capacity,  (* CAPACITY of the ring macros *)
          Messages   (* the values of TYPE          *)

VARIABLES chan,  (* messages pushed and not yet popped, oldest first *)
          out    (* everything the consumer has popped, in order     *)

vars == <<chan, out>>

Init == chan = <<>> /\ out = <<>>

Send(m) ==
    /\ Len(chan) < Capacity
    /\ chan' = Append(chan, m)
    /\ UNCHANGED out

Receive ==
    /\ chan # <<>>
    /\ out' = Append(out, Head(chan))
    /\ chan' = Tail(chan)

Next == (\E m \in Messages : Send(m)) \/ Receive

Spec == Init /\ [][Next]_vars
=============================================================================
