----------------------------- MODULE ResultTable -----------------------------
(***************************************************************************)
(* What a query call promises its caller (query.aplf, executePrepared.aplf *)
(* and executePending's readers all end in getResults.aplf): one reply per *)
(* call, in the order of the calls, and the reply to a query that DuckDB   *)
(* answered is the whole table, every column in row order, or - only when  *)
(* the table holds a value of a type the reader does not know, an ENUM     *)
(* column mixes values and nulls, or values hold ENUMs - an APL error or   *)
(* the loss of such values.  No handle of the C API appears at this level. *)
(***************************************************************************)
EXTENDS Naturals, Sequences

CONSTANTS
  Queries,    \* what DuckDB may answer: [status, types, chunks] records
  Decodable,  \* the types readVector.aplf reads, with all their children
  Enums,      \* the ENUM types
  NoEnum,     \* the types that are not ENUMs and hold none
  MaxCalls,   \* bound on the number of calls
  NULL,       \* the APL null, and an invalid row of a vector
  NoQuery     \* no call in progress

VARIABLES asked, replies

(* A column of cells as the caller sees it: each value read at the type of *)
(* its column, and the APL null for each invalid row.  Faulty variant: the *)
(* ravel of readChunks.aplf:27 is left out, and a column of one row is a   *)
(* scalar.                                                                 *)
DecodeFaulty(t, cells) ==
  IF Len(cells) = 1 THEN cells[1]
  ELSE [i \in DOMAIN cells |-> IF cells[i] = NULL THEN NULL ELSE <<t, cells[i]>>]
Decode(t, cells) ==
  [i \in DOMAIN cells |-> IF cells[i] = NULL THEN NULL ELSE <<t, cells[i]>>]

Bare(kind) == [kind |-> kind, types |-> <<>>, data |-> <<>>]

AllNull(cells) == \A i \in DOMAIN cells : cells[i] = NULL

(* Only a value, not a null, makes the reader look at the column's type.   *)
Unreadable(q) ==
  \E k \in DOMAIN q.chunks, c \in DOMAIN q.types :
    q.types[c] \notin Decodable /\ ~AllNull(q.chunks[k][c])

(* The columns in which readEnumColumn.aplf may fail: nulls and values of  *)
(* an ENUM or, of a type that holds ENUMs, any value (what rows the ENUM   *)
(* vectors below a column have is left open).                              *)
Fragile(t, cells) ==
  /\ t \notin NoEnum
  /\ ~AllNull(cells)
  /\ t \in Enums => \E i \in DOMAIN cells : cells[i] = NULL

(* What it leaves of them: of an ENUM nothing, of a larger value all but   *)
(* its ENUM parts, which is written <<t, NULL>>.                           *)
Lost(cells) == [i \in DOMAIN cells |-> NULL]
Damaged(t, cells, harmed) ==
  [i \in DOMAIN cells |->
     IF cells[i] = NULL THEN NULL
     ELSE IF i \in harmed THEN <<t, NULL>> ELSE <<t, cells[i]>>]

(* What a column of one chunk may be read as.                              *)
Readings(t, cells) ==
  {Decode(t, cells)} \cup
  IF ~Fragile(t, cells) THEN {}
  ELSE IF t \in Enums THEN {Lost(cells)}
  ELSE {Damaged(t, cells, harmed) : harmed \in SUBSET DOMAIN cells}

(* All rows of the answer: a chunk-by-column matrix, which                 *)
(* getResults.aplf:20 joins down its first axis.                           *)
IsTable(q, r) ==
  /\ r = [kind |-> "table", types |-> q.types, data |-> r.data]
  /\ DOMAIN r.data = DOMAIN q.chunks
  /\ \A k \in DOMAIN q.chunks :
       /\ DOMAIN r.data[k] = DOMAIN q.types
       /\ \A c \in DOMAIN q.types :
            r.data[k][c] \in Readings(q.types[c], q.chunks[k][c])

MayAbort(q) ==
  \/ Unreadable(q)
  \/ \E k \in DOMAIN q.chunks, c \in DOMAIN q.types :
       Fragile(q.types[c], q.chunks[k][c])

Answers(q, r) ==
  \/ q.status = "fail" /\ r = Bare("error")
  \/ q.status = "raise" /\ r = Bare("aborted")
  \/ /\ q.status = "ok"
     /\ \/ q.chunks = <<>> /\ r = Bare("names")
        \/ q.chunks # <<>> /\ IsTable(q, r)
        \/ MayAbort(q) /\ r = Bare("aborted")

Init == asked = NoQuery /\ replies = <<>>

Ask(q) ==
  /\ asked = NoQuery
  /\ Len(replies) < MaxCalls
  /\ asked' = q
  /\ UNCHANGED replies

Answer ==
  /\ asked # NoQuery
  /\ asked' = NoQuery
  /\ LET r == replies'[Len(replies) + 1]
     IN  replies' = Append(replies, r) /\ Answers(asked, r)

Next == (\E q \in Queries : Ask(q)) \/ Answer

Spec == Init /\ [][Next]_<<asked, replies>>
==============================================================================
