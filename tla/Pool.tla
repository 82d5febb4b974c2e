-------------------------------- MODULE Pool --------------------------------
(***************************************************************************)
(* What a block pool promises: a block is free or in one hand; an          *)
(* allocation takes a free one, whichever, and a release puts it back.     *)
(***************************************************************************)
CONSTANT Blocks

VARIABLES free, held

vars == <<free, held>>

Init == free = Blocks /\ held = {}

Alloc == \E s \in free : free' = free \ {s} /\ held' = held \cup {s}

Free == \E s \in held : held' = held \ {s} /\ free' = free \cup {s}

Spec == Init /\ [][Alloc \/ Free]_vars
=============================================================================
