---------------------------- MODULE MCBulkAppend ----------------------------
(***************************************************************************)
(* Small instances of BulkAppend: vectors of two rows, so that five rows   *)
(* take three batches with a short last one; an INTEGER, a VARCHAR and a   *)
(* TIMESTAMP column, or one TIME column.  Values differ from row to row,   *)
(* so that a shifted, repeated or mixed row shows.  "big" is a number that *)
(* no INTEGER holds.                                                       *)
(***************************************************************************)
EXTENDS BulkAppend

T == {"int", "text", "ts", "time", "interval"}

Num == {"a", "b", "c", "d", "e"}

Cells == Num \cup {"big", NULL}

Fit == [t \in T |-> IF t = "text" THEN Num \cup {FILL, "big"} ELSE Num \cup {FILL}]

Three == <<"int", "text", "ts">>

F(target, types, cols) == [target |-> target, types |-> types, data |-> cols]

Five == << <<"a", NULL, "c", "d", NULL>>,
           <<NULL, "b", NULL, "d", "e">>,
           <<"a", "b", "c", "d", "e">> >>

(* The second column is short, the third long.                             *)
Ragged == << <<"a", "b", NULL>>, <<"a", "b">>, <<"a", "b", "c", "d">> >>

Empty == << <<>>, <<>>, <<>> >>

Writable ==
  { F("here", Three, Five), F("here", Three, Ragged), F("here", Three, Empty),
    F("here", Three, << <<NULL, NULL, NULL>>, <<"big", "b", "c">>,
                        <<"a", "b", "c">> >>) }

Refused ==
  { F("missing", Three, Five), F("unnamed", Three, Five),
    F("here", <<"int", "text", "int">>, Five),
    F("here", Three, << <<"a">>, <<"b">> >>),
    F("here", Three, << <<"a", "b", "c", "big">>, <<"a", "b", "c", "d">>,
                        <<"a", "b", "c", "d">> >>),
    F("here", Three, << <<"a", "b">>, <<"a", "b">>, <<"a", NULL>> >>) }

All == Writable \cup Refused \cup { F("elsewhere", Three, Five) }

OneTime == <<"time">>

Times == { F("here", OneTime, << <<"a", "b", "c">> >>) }
==============================================================================
