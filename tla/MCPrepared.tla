----------------------------- MODULE MCPrepared -----------------------------
(***************************************************************************)
(* A small instance of Prepared: statements of two parameters, and ones    *)
(* that do not prepare; vectors of the right length, too short, too long,  *)
(* and with a value bindParams refuses or raises on after one that it      *)
(* binds.  The number 9 has no double of its own.                          *)
(***************************************************************************)
EXTENDS Prepared

S(prepares, count) == [prepares |-> prepares, count |-> count]

V(kind, v) == [kind |-> kind, v |-> v]

Near == [v \in 0 .. 9 |-> IF v = 9 THEN 8 ELSE v]

Some == {S(FALSE, 0), S(TRUE, 2)}

Good == {<<V("large", 9), V("null", 0)>>, <<V("float", 9), V("int", 2)>>}

Odd == {<<V("bool", 0)>>,
        <<V("int", 4), V("wide", 5)>>,
        <<V("text", 6), V("char", 5), V("int", 7)>>}

Mixed == Good \cup Odd

OneTyped == {<<"BIGINT", 9>>}
==============================================================================
