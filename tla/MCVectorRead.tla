----------------------------- MODULE MCVectorRead -----------------------------
(***************************************************************************)
(* An instance of VectorRead, and of DateTime in it.  Ten microseconds to  *)
(* the second, so that the numbers of a day fit TLC's integers, and        *)
(* arguments at and around every boundary the code tests or carries over.  *)
(* Two rows to the byte of a mask, texts of up to two bytes in their slot, *)
(* two bits of fraction; vectors of three rows, so that a mask has a       *)
(* second byte, with every mask and rubbish in the slots of NULL rows.     *)
(***************************************************************************)
EXTENDS VectorRead

Around ==
  {-1, 0, 23, 24} \X {-1, 0, 1, 59, 60} \X {-1, 0, 59, 60} \X {-1, 0, MICROS - 1, MICROS}

Tuples == Around \cup {<<>>, <<1, 2, 3>>, <<1, 2, 3, 4, 5>>, <<1, 2, 3, 4>>}

Carries == {0, MICROS, 60 * MICROS, 3600 * MICROS, 24 * 3600 * MICROS}

Numbers == {c + d : c \in Carries, d \in -1 .. 1} \cup {37 * c + 11 : c \in Carries}

Decades == 1966 .. 2004

(* The ends of the months of years of every kind: common, leap, the leap   *)
(* century 2000, before and after the epoch.                               *)
MonthEnds ==
  {<<y, m, d>> : y \in {1968, 1969, 1970, 1999, 2000, 2001},
                 m \in {0, 1, 2, 3, 11, 12, 13}, d \in {0, 1, 28, 29, 30, 31, 32}}

DateTuples == MonthEnds \cup {<<>>, <<2000, 1>>, <<2000, 1, 1, 0>>}

DayNumbers == {-732, -731, -366, -365, -1, 0, 1, 30, 31, 58, 59, 60, 364, 365,
               10955, 10956, 10957, 11015, 11016, 11017, 11322, 11323}
-------------------------------------------------------------------------------
Masks == {NoMask} \cup ((0 .. 3) \X (0 .. 3))

Flat(kind, valid, data) ==
  [kind |-> kind, valid |-> valid, rows |-> Len(data), depth |-> 0, data |-> data]

(* Rows given by their number, and rubbish where the mask has no bit set.  *)
Filled(kind, valid, data, rubbish) ==
  LET v == Flat(kind, valid, data)
  IN [v EXCEPT !.data = [i \in DOMAIN data |-> IF Valid(v, i) THEN data[i] ELSE rubbish]]

Short  == [len |-> 1, bytes |-> <<"a", "0">>, at |-> "wild"]
Exact  == [len |-> 2, bytes |-> <<"b", "c">>, at |-> "wild"]
Long   == [len |-> 3, bytes |-> <<"d", "e">>, at |-> <<"d", "e", "f">>]
Nought == [len |-> 0, bytes |-> <<"0", "0">>, at |-> "wild"]
Stray  == [len |-> 9, bytes |-> <<"?", "?">>, at |-> "wild"]

Float(s, e, f) == [sign |-> s, exp |-> e, frac |-> f]

Plains == {Filled("plain", m, <<7, 8, 9>>, -1) : m \in Masks}
(* 99999 is a day of no year of the calendar.                              *)
DaysOf == {Filled("date", m, d, r) : m \in Masks, r \in {59, 99999},
                                     d \in {<<-1, 0, 11016>>, <<99999, 0, 59>>}}
Texts3 == {Filled("text", m, t, Stray) :
             m \in Masks, t \in {<<Short, Exact, Long>>, <<Long, Nought, Short>>}}
Floats3 == {Filled("float", m, f, Float(1, 3, 3)) :
              m \in Masks, f \in {<<Float(0, 1, 2), Float(1, 2, 0), Float(0, 3, 3)>>,
                                  <<Float(0, 1, 0), Float(0, 0, 0), Float(1, 0, 1)>>}}

Nested(kind, valid, data, child) ==
  LET v == Filled(kind, valid, data, [at |-> 7, len |-> 5])
  IN [kind |-> kind, valid |-> valid, rows |-> Len(data), depth |-> child.depth + 1,
      data |-> v.data, child |-> child]

Split(i, j) == <<[at |-> 0, len |-> i], [at |-> i, len |-> j - i], [at |-> j, len |-> 3 - j]>>

Spread == {Split(i, j) : i \in 0 .. 1, j \in 1 .. 3} \cup {Reverse(Split(1, 1))}

Elements == {Filled("plain", <<2, 1>>, <<7, 8, 9>>, -1), Flat("plain", NoMask, <<7, 8, 9>>),
             Filled("text", <<1, 3>>, <<Short, Exact, Long>>, Stray),
             Filled("date", <<2, 1>>, <<0, 59, -1>>, 58),
             Filled("date", <<2, 1>>, <<0, 59, -1>>, 99999),
             Filled("float", <<2, 1>>, <<Float(0, 1, 2), Float(0, 2, 1), Float(1, 1, 0)>>,
                    Float(1, 3, 3)),
             Filled("plain", <<0, 0>>, <<7, 8, 9>>, -1)}

Struct(valid, fields) ==
  [kind |-> "struct", valid |-> valid, rows |-> 3, depth |-> 1, fields |-> fields]

(* The fields of a NULL struct are NULL, and so are the elements of a NULL *)
(* array: DuckDB sets the children's masks with the parent's.              *)
StructsOf(valid) ==
  Struct(valid, [key   |-> Filled("plain", valid, <<7, 8, 9>>, -1),
                 value |-> Filled("text", IF valid = NoMask THEN <<2, 1>> ELSE valid,
                                  <<Short, Exact, Long>>, Stray)])

ListsOf(children) == {Nested("list", m, s, c) : m \in Masks, s \in Spread, c \in children}

Inner == {Nested("list", <<3, 0>>, Split(1, 3), c) : c \in Elements}

ArrayOf(valid, bits) ==
  [kind |-> "array", valid |-> valid, rows |-> 2, depth |-> 1, size |-> 2,
   child |-> Filled("plain", bits, <<1, 2, 3, 4>>, -1)]

Columns ==
  Plains \cup DaysOf \cup Texts3 \cup Floats3
    \cup ListsOf(Elements \cup Inner \cup {StructsOf(NoMask)})
    \cup {Nested("map", m, s, StructsOf(NoMask)) : m \in Masks, s \in Spread}
    \cup {StructsOf(m) : m \in Masks}
    \cup {ArrayOf(<<1>>, <<b, 0>>) : b \in 0 .. 3}
    \cup {ArrayOf(NoMask, b) : b \in Masks}

(* The children are vectors too: two levels of them, and then no more.     *)
WithChildren(set) == set \cup UNION {Children(v) : v \in set}

Memory == WithChildren(WithChildren(Columns))
===============================================================================
