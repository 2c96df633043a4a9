------------------------------ MODULE VectorRead ------------------------------
(***************************************************************************)
(* How db/readVector.aplf decodes a vector of DuckDB: the validity mask,   *)
(* the slots of every shape (numbers, dates, texts kept in the slot or     *)
(* elsewhere, floats taken apart bit by bit, lists, maps, arrays and       *)
(* structs, whose children are vectors read by the same function), and the *)
(* rows that are NULL, whose slots hold whatever DuckDB left there.        *)
(*                                                                         *)
(* It is one more call of the module of dates, whose calendar it needs: a  *)
(* function of the memory it is given, with no state of its own.           *)
(***************************************************************************)
EXTENDS DateTime, SequencesExt

CONSTANTS
  BITS,      \* the rows a byte of a validity mask tells of, 8 in the code
  INLINE,    \* the longest text kept in its slot, 12 in the code
  FRACTION,  \* the bits of a float's fraction, 23 in the code
  Vectors,   \* the vectors in DuckDB's memory, the children of vectors too
  NoMask,    \* no validity mask: every row is valid
  NULL       \* the value of a row that is not

ASSUME VectorAssumption == BITS \in Nat \ {0} /\ INLINE \in Nat /\ FRACTION \in Nat
-------------------------------------------------------------------------------
(* The memory DuckDB hands over.                                           *)

(* A row is valid when its bit is set (lib/duckdb.h:3449-3469).            *)
Valid(v, i) ==
  \/ v.valid = NoMask
  \/ (v.valid[((i - 1) \div BITS) + 1] \div 2^((i - 1) % BITS)) % 2 # 0

Children(v) ==
  CASE v.kind \in {"list", "map", "array"} -> {v.child}
    [] v.kind = "struct" -> {v.fields[name] : name \in DOMAIN v.fields}
    [] OTHER -> {}

MaskCovers(v) ==
  v.valid # NoMask => /\ v.valid \in Seq(0 .. 2^BITS - 1)
                      /\ v.rows <= BITS * Len(v.valid)

(* Where a valid row's elements are; the slot of a NULL row may say any    *)
(* thing.                                                                  *)
ElementsInChild(v) ==
  \A i \in 1 .. v.rows : Valid(v, i) =>
    /\ v.data[i].at \in Nat /\ v.data[i].len \in Nat
    /\ v.data[i].at + v.data[i].len <= v.child.rows

MadeOfEntries(v) ==
  /\ v.child.kind = "struct" /\ {"key", "value"} \subseteq DOMAIN v.child.fields
  /\ \A k \in 1 .. v.child.rows : Valid(v.child, k)

(* A vector has rows, and its type nests to some depth.                    *)
WellFormed(v) ==
  /\ v.rows \in Nat \ {0} /\ v.depth \in Nat /\ MaskCovers(v)
  /\ v.kind \in {"plain", "date", "text", "float", "list", "struct", "map", "array"}
  /\ \A c \in Children(v) : c \in Vectors /\ c.depth < v.depth
  /\ v.kind \in {"list", "map"} => ElementsInChild(v)
  /\ v.kind = "map" => MadeOfEntries(v)
  /\ v.kind = "struct" => \A c \in Children(v) : c.rows = v.rows
  /\ v.kind = "array" => v.size \in Nat /\ v.child.rows = v.rows * v.size

ASSUME VectorsAssumption == \A v \in Vectors : WellFormed(v)
-------------------------------------------------------------------------------
(* The validity mask.                                                      *)

(* The bits of a byte as the interpreter shows them, the highest first.    *)
BitsOf(byte) == [k \in 1 .. BITS |-> (byte \div 2^(BITS - k)) % 2]

NullMaskFaulty(valid, n) ==
  LET bytes == (n + BITS - 1) \div BITS
  IN SubSeq(FlattenSeq([b \in 1 .. bytes |-> BitsOf(valid[b])]), 1, n)

(* As many bytes as the rows need, each turned around, cut to the rows.    *)
NullMask(valid, n) ==
  LET bytes == (n + BITS - 1) \div BITS
  IN SubSeq(FlattenSeq([b \in 1 .. bytes |-> Reverse(BitsOf(valid[b]))]), 1, n)

(* One bit per row, all set where there is no mask.                        *)
RowMask(v, n) ==
  IF v.valid = NoMask THEN [i \in 1 .. n |-> 1] ELSE NullMask(v.valid, n)
-------------------------------------------------------------------------------
(* The slots.                                                              *)

Characters(bytes) == [utf8 |-> bytes]

(* A text is its length and the bytes behind it, the text itself or where  *)
(* it is.  Only the valid rows are turned into characters; the others keep *)
(* what was read with them, and no pointer of theirs is followed.          *)
Texts(v, n, mask) ==
  [i \in 1 .. n |->
     IF mask[i] = 0 THEN v.data[i].bytes
     ELSE Characters(IF v.data[i].len <= INLINE
                       THEN SubSeq(v.data[i].bytes, 1, v.data[i].len)
                       ELSE v.data[i].at)]

Sign(f) == IF f.sign = 1 THEN -1 ELSE 1

(* A float without a mask is decoded by the interpreter: an exponent of 0  *)
(* means no leading one.  Values are scaled by 2^(127 + FRACTION), so that *)
(* they are whole; the infinities and NaN have no value here.              *)
IEEE(f) ==
  IF f.exp = 0 THEN Sign(f) * (2 * f.frac)
               ELSE Sign(f) * ((2^FRACTION + f.frac) * 2^f.exp)

(* How a FLOAT x arrives: as a number, but from a vector with a mask as a  *)
(* vector of one number, because the sign it is multiplied with is one.    *)
Held(v, x) == IF v.valid = NoMask THEN x ELSE <<x>>

(* With a mask it is decoded by readVector: sign x 2^(exp - 127) x 1.frac  *)
(* of the valid rows, spread over the rows that are.                       *)
Floats(v, n, mask) ==
  [i \in 1 .. n |->
     Held(v, IF v.valid = NoMask THEN IEEE(v.data[i])
             ELSE IF mask[i] = 0 THEN 0
             ELSE Sign(v.data[i]) * ((2^FRACTION + v.data[i].frac) * 2^v.data[i].exp))]

Plain(v, n) == [i \in 1 .. n |-> v.data[i]]

(* What a read comes to: a column, or an error of the interpreter.         *)
Col(rows) == [raised |-> FALSE, rows |-> rows]
Error     == [raised |-> TRUE,  rows |-> <<>>]

(* The interpreter's calendar has a date for this number of days.          *)
Dated(days) == \E d \in Calendar : IsDate(d) /\ DT(d) = Base + days

(* The conversion to dates is made of every row, valid or not, and outside *)
(* the trap around the NULLs: a number that is of no date of the calendar  *)
(* is the interpreter's error, in the slot of a NULL row too.              *)
DatesOf(v, n) ==
  IF \A i \in 1 .. n : Dated(v.data[i])
    THEN Col([i \in 1 .. n |-> fromDate(v.data[i])])
    ELSE Error

EntriesFaulty(v, n, mask) == [i \in 1 .. n |-> v.data[i]]

(* Where a list's elements are, of no elements where the row is NULL.      *)
Entries(v, n, mask) ==
  [i \in 1 .. n |-> IF mask[i] = 0 THEN [at |-> 0, len |-> 0] ELSE v.data[i]]

(* The elements of each row, picked from the child's; an index outside the *)
(* child is the interpreter's error.                                       *)
Lists(v, n, mask, child) ==
  LET entries == Entries(v, n, mask)
      Outside(e) == e.len > 0 /\ e.at + e.len > v.child.rows
      Picked(e) == [k \in 1 .. e.len |-> child.rows[e.at + k]]
  IN IF child.raised \/ \E i \in 1 .. n : Outside(entries[i])
       THEN Error
       ELSE Col([i \in 1 .. n |-> Picked(entries[i])])

Side(list, name) == [k \in DOMAIN list |-> list[k][name]]

(* A map is a list of key and value structs, turned into a namespace of    *)
(* the keys and the values.                                                *)
Maps(v, n, mask, child) ==
  LET lists == Lists(v, n, mask, child)
  IN IF lists.raised
       THEN Error
       ELSE Col([i \in 1 .. n |-> [keys   |-> Side(lists.rows[i], "key"),
                                   values |-> Side(lists.rows[i], "value")]])

(* A struct is a namespace per row: the row of every child, by its name.   *)
Structs(n, cols) ==
  IF \E name \in DOMAIN cols : cols[name].raised
    THEN Error
    ELSE Col([i \in 1 .. n |-> [name \in DOMAIN cols |-> cols[name].rows[i]]])

(* An array's child holds the rows' elements one row after another.        *)
Arrays(v, n, child) ==
  IF child.raised
    THEN Error
    ELSE Col([i \in 1 .. n |-> [k \in 1 .. v.size |-> child.rows[(i - 1) * v.size + k]]])

(* A read is of a vector and a number of rows.  It reads the children: all *)
(* rows of a list's or a map's, as many rows of a struct's, and size times *)
(* as many of an array's.                                                  *)
Reads == Vectors \X Nat

ChildReads(x) ==
  LET v == x[1]
      n == x[2]
  IN CASE v.kind \in {"list", "map"} -> {<<v.child, v.child.rows>>}
       [] v.kind = "array"  -> {<<v.child, n * v.size>>}
       [] v.kind = "struct" -> {<<v.fields[name], n>> : name \in DOMAIN v.fields}
       [] OTHER -> {}

(* The column, given what came of the children's reads.                    *)
Decoded(v, n, mask, children) ==
  CASE v.kind = "plain"  -> Col(Plain(v, n))
    [] v.kind = "date"   -> DatesOf(v, n)
    [] v.kind = "text"   -> Col(Texts(v, n, mask))
    [] v.kind = "float"  -> Col(Floats(v, n, mask))
    [] v.kind = "list"   -> Lists(v, n, mask, children[<<v.child, v.child.rows>>])
    [] v.kind = "map"    -> Maps(v, n, mask, children[<<v.child, v.child.rows>>])
    [] v.kind = "array"  -> Arrays(v, n, children[<<v.child, n * v.size>>])
    [] v.kind = "struct" ->
         Structs(n, [name \in DOMAIN v.fields |-> children[<<v.fields[name], n>>]])

(* A vector with a mask and no valid row is not decoded at all: the column *)
(* never gets a value, and the trap around the NULLs makes it all NULL.    *)
Read(x, children) ==
  LET v    == x[1]
      n    == x[2]
      mask == RowMask(v, n)
      col  == Decoded(v, n, mask, children)
  IN IF \A i \in 1 .. n : mask[i] = 0 THEN Col([i \in 1 .. n |-> NULL])
     ELSE IF col.raised THEN Error
     ELSE Col([i \in 1 .. n |-> IF mask[i] = 0 THEN NULL ELSE col.rows[i]])

ReadVector[x \in Reads] == Read(x, [y \in ChildReads(x) |-> ReadVector[y]])

(* The answer depends on nothing but the vector, so one read, as the first *)
(* call, shows what any would.                                             *)
ReadColumn ==
  /\ asked.op = "none"
  /\ \E v \in Vectors : Ask("readVector", v, ReadVector[<<v, v.rows>>])

ReadNext == Next \/ ReadColumn

ReadSpec == Init /\ [][ReadNext]_vars
-------------------------------------------------------------------------------
(* What the rows of a vector mean, each looked at by itself, and only when *)
(* its bit is set.                                                         *)
Meaning(v, i, meant) ==
  LET slot == v.data[i]
      Elements(from, len) == [k \in 1 .. len |-> meant[v.child][from + k]]
  IN IF ~Valid(v, i) THEN NULL ELSE
     CASE v.kind = "plain"  -> slot
       [] v.kind = "date"   -> fromDate(slot)
       [] v.kind = "text"   -> Characters(IF slot.len <= INLINE
                                            THEN SubSeq(slot.bytes, 1, slot.len)
                                            ELSE slot.at)
       [] v.kind = "float"  -> Held(v, IEEE(slot))
       [] v.kind = "list"   -> Elements(slot.at, slot.len)
       [] v.kind = "map"    -> [keys   |-> Side(Elements(slot.at, slot.len), "key"),
                                values |-> Side(Elements(slot.at, slot.len), "value")]
       [] v.kind = "struct" -> [name \in DOMAIN v.fields |-> meant[v.fields[name]][i]]
       [] v.kind = "array"  -> Elements((i - 1) * v.size, v.size)

Meanings(v, meant) == [i \in 1 .. v.rows |-> Meaning(v, i, meant)]

Means[v \in Vectors] == Meanings(v, [c \in Children(v) |-> Means[c]])

(* A vector and the vectors below it.                                      *)
Down(v, below) == {v} \cup UNION {below[c] : c \in Children(v)}

Within[v \in Vectors] == Down(v, [c \in Children(v) |-> Within[c]])

(* No float that readVector takes apart has an exponent of 0, in the       *)
(* vector or below.                                                        *)
NormalFloats(v) ==
  v.kind = "float" /\ v.valid # NoMask
    => \A i \in 1 .. v.rows : Valid(v, i) => v.data[i].exp # 0

Normal(v) == \A w \in Within[v] : NormalFloats(w)

(* Every slot of dates, those of NULL rows too, is of a date, in the       *)
(* vector and below.                                                       *)
DatesRead(v) == v.kind = "date" => \A i \in 1 .. v.rows : Dated(v.data[i])

Readable(v) == \A w \in Within[v] : DatesRead(w)

(* A call answers in the shape of its question: the date and time helpers  *)
(* as DateTime says, a read with a value for every row of the vector.  The *)
(* one thing that a read raises an error for is a slot of dates with a     *)
(* number that is of none: not an offset or a length of a NULL row, at any *)
(* depth (readVector.aplf:47, 132-135, 161-164, 185-191).                  *)
AnswerShaped ==
  IF asked.op = "readVector"
    THEN IF reply.raised THEN ~Readable(asked.arg)
                         ELSE DOMAIN reply.rows = 1 .. asked.arg.rows
    ELSE TypeOK

(* Every row of a column that is read is what DuckDB stored there, at any  *)
(* depth of lists, maps, arrays and structs, and NULL exactly where its    *)
(* bit is clear: nothing of a NULL row's slot reaches the answer or is     *)
(* used to find it, neither a pointer nor an offset (readVector.aplf:18,   *)
(* 59-78, 126-136, 185-191).                                               *)
ReadsValues ==
  asked.op = "readVector" /\ Normal(asked.arg) /\ ~reply.raised
    => reply = Col(Means[asked.arg])

(* The helpers that take a float apart are "IEEE float parsing helpers"    *)
(* (readVector.aplf:11): a FLOAT is read as its IEEE value, mask or not.   *)
FloatsKept ==
  asked.op = "readVector" /\ asked.arg.kind = "float" => reply = Col(Means[asked.arg])
===============================================================================
