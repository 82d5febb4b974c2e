----------------------------- MODULE DeepDecode -----------------------------
(***************************************************************************)
(* What both pipelines share (rx_main.c:6-8): include/ll/deep_decode.h,    *)
(* the symbol table as SymNames promises it, and the line printed for an   *)
(* update.  A symbol table is the sequence of its names; the index of a    *)
(* name is its position, from 0.                                           *)
(***************************************************************************)
EXTENDS Integers, FiniteSetsExt, SequencesExt

CONSTANTS Payload,     (* per number of an update, what the message says:  *)
                       (* [name, side, price, size, epc]                   *)
          MaxSymbols,  (* LL_SYMTAB_MAX_SYMBOLS                            *)
          MaxLevels    (* BOOK_MAX_LEVELS                                  *)

Prices == {Payload[q].price : q \in DOMAIN Payload}
Sizes  == {Payload[q].size : q \in DOMAIN Payload} \ {0}

Indices == 0 .. MaxSymbols - 1

Known(table, nm) == nm \in ToSet(table)

IndexOf(table, nm) == (CHOOSE k \in 1 .. Len(table) : table[k] = nm) - 1

(* ll_symtab_intern: the table after nm was looked up in it.               *)
Interned(table, nm) ==
    IF Known(table, nm) \/ Len(table) = MaxSymbols THEN table
    ELSE Append(table, nm)

NoUpdate == [sym |-> -1]

(* deep_decode of message q with that table: the update, or none when its  *)
(* symbol has no index.                                                    *)
Decoded(q, table) ==
    LET m == Payload[q]
    IN  IF ~Known(table, m.name) THEN NoUpdate
        ELSE [sym |-> IndexOf(table, m.name), seq |-> q, side |-> m.side,
              price |-> m.price, size |-> m.size, epc |-> m.epc]

(* book_bbo, one side: price and size, or nothing.                         *)
Best(levels, sym, side) ==
    LET f == levels[<<sym, side>>]
        p == IF side = "bid" THEN Max(DOMAIN f) ELSE Min(DOMAIN f)
    IN  IF DOMAIN f = {} THEN <<>> ELSE <<p, f[p]>>

(* The line printed after update u.                                        *)
Line(u, table, levels) ==
    [seq |-> u.seq, name |-> table[u.sym + 1],
     bid |-> Best(levels, u.sym, "bid"), ask |-> Best(levels, u.sym, "ask")]
=============================================================================
