----------------------------- MODULE BulkAppend -----------------------------
(***************************************************************************)
(* append.aplf: DESCRIBE the table, compare the types, create one data     *)
(* chunk and an appender, and send the columns in batches of at most       *)
(* STANDARD_VECTOR_SIZE rows through that one chunk.  The model keeps the  *)
(* chunk as DuckDB does: slots that hold what was last written to them and *)
(* a validity mask, both outlived by the batch until they are reset or     *)
(* overwritten.  DuckDB's answers vary: a call of the C API may fail.      *)
(***************************************************************************)
EXTENDS Naturals, Sequences

CONSTANTS
  Frames, TableTypes, Stamps, Fits, MaxCalls, NULL, FILL, NoFrame,
  Types,   \* the type codes
  Items,   \* what the columns of a frame may hold, NULL among it
  Copied,  \* types written by MEMCPY: append.aplf:40, (iota 15), 20 21 22
  Text,    \* types written as strings: 17
  Narrow,  \* the Copied types whose slots are twice as wide as what types_out
           \* writes (TIME: 'i32' into 8-byte slots, init.aplf:18)
  STANDARD_VECTOR_SIZE,
  Faults,  \* the C API calls that may fail: describe, create, append, flush
  ZERO, JUNK \* the number 0; a slot never written

ASSUME TypesAssumption ==
  /\ Copied \cup Text \subseteq Types /\ Copied \cap Text = {}
  /\ Stamps \cup Narrow \subseteq Copied
  /\ TableTypes \in Seq(Types) /\ TableTypes # <<>>

(* Every text fits a VARCHAR; the APL null is no fill element.             *)
ASSUME ValuesAssumption ==
  /\ FILL # NULL
  /\ \A t \in Text : (Items \ {NULL}) \cup {FILL} \subseteq Fits[t]

ASSUME FramesAssumption ==
  /\ NoFrame \notin Frames
  /\ \A f \in Frames :
       /\ f.target \in {"here", "elsewhere", "missing", "unnamed"}
       /\ f.types \in Seq(Types)
       /\ f.data \in Seq(Seq(Items)) /\ f.data # <<>>

ASSUME SizesAssumption ==
  /\ STANDARD_VECTOR_SIZE \in Nat \ {0}
  /\ MaxCalls \in Nat
  /\ Faults \subseteq {"describe", "create", "append", "flush"}

VARIABLES
  frame,      \* the arguments of the call, NoFrame between calls
  faults,     \* the C API calls that may fail during this call
  pc,
  data,       \* the columns not sent yet
  sz,         \* rows not sent yet
  data_chunk, \* the columns of the current batch
  i,          \* the next column of the batch
  slots,      \* slots[c][r]: the memory of the chunk's vectors
  invalid,    \* invalid[c]: the rows the validity mask of vector c excludes
  held,       \* handles of this call: "chunk", "appender"
  buffer,     \* rows the appender has taken and not flushed
  landed,     \* rows of this call flushed to the table
  table,      \* the rows of the table
  replies     \* per call: frame, out, handles left, rows landed

vars == <<frame, faults, pc, data, sz, data_chunk, i, slots, invalid, held,
          buffer, landed, table, replies>>
batch == <<data, sz, data_chunk, i>>
vectors == <<slots, invalid>>

AC == INSTANCE AppendContract
        WITH outs <- [k \in DOMAIN replies |-> replies[k].out]

Least(m, n) == IF m < n THEN m ELSE n

Init ==
  /\ frame = NoFrame /\ faults = {} /\ pc = "idle"
  /\ data = <<>> /\ sz = 0 /\ data_chunk = <<>> /\ i = 1
  /\ slots = <<>> /\ invalid = <<>>
  /\ held = {} /\ buffer = <<>> /\ landed = 0
  /\ table = <<>> /\ replies = <<>>

(* The call ends; what it still holds can no longer be reached, and rows   *)
(* in an appender that is never destroyed never reach the table.           *)
Return(out, left) ==
  /\ replies' = Append(replies, [frame |-> frame, out |-> out, left |-> left,
                                 landed |-> landed])
  /\ frame' = NoFrame /\ faults' = {} /\ pc' = "idle"
  /\ data' = <<>> /\ sz' = 0 /\ data_chunk' = <<>> /\ i' = 1
  /\ slots' = <<>> /\ invalid' = <<>>
  /\ held' = {} /\ buffer' = <<>> /\ landed' = 0
  /\ UNCHANGED table

Call(f, may) ==
  /\ pc = "idle" /\ Len(replies) < MaxCalls
  /\ frame' = f /\ faults' = may /\ pc' = "describe"
  /\ UNCHANGED <<batch, vectors, held, buffer, landed, table, replies>>

------------------------------------------------------------------------------
\* append.aplf:2-13, 69-77

(* The table is described by name alone, without its schema.               *)
Described == pc = "describe" /\ frame.target # "missing"

(* DuckDB's message starts with 'Catalog Error'.                           *)
NoTable ==
  /\ pc = "describe" /\ frame.target = "missing"
  /\ Return("catalog", held)

(* Any other message is indexed as if it were a table, and line 5 runs the *)
(* name of every column's type in type.apln, where the likes of INTEGER[]  *)
(* and STRUCT(a INTEGER) mean nothing: both raise.                         *)
DescribeFails ==
  /\ Described /\ ("describe" \in faults \/ frame.target = "unnamed")
  /\ Return("aborted", held)

Named == Described /\ frame.target # "unnamed"

TypesDiffer ==
  /\ Named /\ frame.types # TableTypes
  /\ Return("types", held)

ColumnsDiffer ==
  /\ Named /\ frame.types = TableTypes
  /\ Len(frame.types) # Len(frame.data)
  /\ Return("columns", held)

(* The chunk and the appender; a failed appender is an object too.         *)
Create ==
  /\ Named /\ frame.types = TableTypes /\ Len(frame.types) = Len(frame.data)
  /\ held' = {"chunk", "appender"}
  /\ slots' = [c \in DOMAIN frame.types |->
                 [r \in 1 .. STANDARD_VECTOR_SIZE |-> JUNK]]
  /\ invalid' = [c \in DOMAIN frame.types |-> {}]
  /\ \/ pc' = "convert" /\ frame.target = "here"
     \/ pc' = "chunk" /\ (frame.target = "elsewhere" \/ "create" \in faults)
  /\ UNCHANGED <<frame, faults, batch, buffer, landed, table, replies>>

------------------------------------------------------------------------------
\* append.aplf:15-63

(* Lines 15-28: the timestamp columns become numbers as wholes.            *)
Convertible ==
  \A c \in DOMAIN frame.data :
    frame.types[c] \in Stamps =>
      \A r \in DOMAIN frame.data[c] :
        AC!Writable(frame.types[c], frame.data[c][r])

Convert ==
  /\ pc = "convert"
  /\ IF Convertible
       THEN /\ data' = frame.data
            /\ sz' = Len(frame.data[1])
            /\ pc' = "load"
            /\ UNCHANGED <<frame, faults, data_chunk, i, vectors, held,
                           buffer, landed, table, replies>>
       ELSE Return("aborted", held)

(* Rows of the next batch.  Faulty variant: all of them.                   *)
BatchRowsFaulty == sz
BatchRows == Least(sz, STANDARD_VECTOR_SIZE)

(* Rows still to send after a batch of n.  Faulty variant: not reduced.    *)
RemainingFaulty(n) == sz
Remaining(n) == sz - n

(* Where the next batch starts in the columns.  Faulty variant: a row early.*)
DroppedFaulty(n) == n - 1
Dropped(n) == n

(* Lines 29-32: rows-take and rows-drop of every column.                   *)
LoadBatch ==
  /\ pc = "load" /\ sz > 0
  /\ LET rows == BatchRows
     IN  /\ data_chunk' = [c \in DOMAIN data |->
                             [r \in 1 .. rows |-> AC!Item(data[c], r)]]
         /\ data' = [c \in DOMAIN data |->
                       SubSeq(data[c], Dropped(rows) + 1, Len(data[c]))]
         /\ sz' = Remaining(rows)
  /\ i' = 1
  /\ pc' = "columns"
  /\ UNCHANGED <<frame, faults, vectors, held, buffer, landed, table, replies>>

Nulls(col) == {r \in DOMAIN col : col[r] = NULL}

(* What MEMCPY leaves in the slots of a vector.  A narrow value fills half *)
(* a slot, so that two neighbours share one.                               *)
CopiedSlots(t, col) ==
  LET v(r) == IF r \in Nulls(col) THEN <<t, ZERO>> ELSE <<t, col[r]>>
  IN  [r \in 1 .. STANDARD_VECTOR_SIZE |->
         IF t \notin Narrow
           THEN IF r \in DOMAIN col THEN v(r) ELSE slots[i][r]
           ELSE IF 2 * r <= Len(col) THEN <<v(2 * r - 1), v(2 * r)>>
           ELSE IF 2 * r - 1 = Len(col) THEN <<v(Len(col)), JUNK>>
           ELSE slots[i][r]]

(* Strings take a slot each, those of nulls are empty.                     *)
TextSlots(t, col) ==
  [r \in 1 .. STANDARD_VECTOR_SIZE |->
     IF r \notin DOMAIN col THEN slots[i][r]
     ELSE IF r \in Nulls(col) THEN <<t, FILL>> ELSE <<t, col[r]>>]

Copyable(t, col) ==
  t \in Copied => \A r \in DOMAIN col : col[r] # NULL => col[r] \in Fits[t]

(* Rows made invalid, 53-57.  Faulty variant: the rows are counted from 1. *)
InvalidRowsFaulty(col) == {r + 1 : r \in Nulls(col)} \cap DOMAIN col
InvalidRows(col) == Nulls(col)

(* Lines 34-58.  A type that is neither copied nor text keeps its slots.   *)
WriteColumn ==
  /\ pc = "columns" /\ i <= Len(data_chunk)
  /\ LET t == frame.types[i]  col == data_chunk[i]
     IN  /\ Copyable(t, col)
         /\ slots' = [slots EXCEPT ![i] =
                        IF t \in Copied THEN CopiedSlots(t, col)
                        ELSE IF t \in Text THEN TextSlots(t, col)
                        ELSE @]
         /\ invalid' = [invalid EXCEPT ![i] = @ \cup InvalidRows(col)]
  /\ i' = i + 1
  /\ UNCHANGED <<frame, faults, pc, data, sz, data_chunk, held, buffer, landed,
                 table, replies>>

(* A value outside the range of the C type stops the call where it is.     *)
WriteRaises ==
  /\ pc = "columns" /\ i <= Len(data_chunk)
  /\ ~Copyable(frame.types[i], data_chunk[i])
  /\ Return("aborted", held)

(* The rows DuckDB reads from the chunk.                                   *)
ChunkRows ==
  [r \in DOMAIN data_chunk[1] |->
     [c \in DOMAIN data_chunk |->
        IF r \in invalid[c] THEN NULL ELSE slots[c][r]]]

(* The masks after the batch.  Faulty variant: the chunk is not reset.     *)
ResetMasksFaulty == invalid
ResetMasks == [c \in DOMAIN invalid |-> {}]

(* Lines 60-62: the appender takes the rows, perhaps flushing, or fails;   *)
(* its status is not looked at.                                            *)
AppendChunk ==
  /\ pc = "columns" /\ i > Len(data_chunk)
  /\ \/ /\ buffer' = buffer \o ChunkRows
        /\ UNCHANGED <<table, landed>>
     \/ /\ table' = table \o buffer \o ChunkRows
        /\ landed' = landed + Len(buffer) + Len(ChunkRows)
        /\ buffer' = <<>>
     \/ /\ "append" \in faults
        /\ UNCHANGED <<buffer, table, landed>>
  /\ invalid' = ResetMasks
  /\ pc' = "load"
  /\ UNCHANGED <<frame, faults, batch, slots, held, replies>>

------------------------------------------------------------------------------
\* append.aplf:65-68

(* The handles left after appender_destroy.  Faulty variant: it is skipped *)
(* when nothing was sent.                                                  *)
AppenderGoneFaulty == IF data_chunk = <<>> THEN held ELSE held \ {"appender"}
AppenderGone == held \ {"appender"}

(* Destroying the appender flushes it; when that fails all of it is lost.  *)
DestroyAppender ==
  /\ pc = "load" /\ ~(sz > 0)
  /\ \/ table' = table \o buffer /\ landed' = landed + Len(buffer)
     \/ "flush" \in faults /\ UNCHANGED <<table, landed>>
  /\ buffer' = <<>>
  /\ held' = AppenderGone
  /\ pc' = "chunk"
  /\ UNCHANGED <<frame, faults, batch, vectors, replies>>

(* Lines 67-68, after the appender whether it was created or not.          *)
DestroyChunk ==
  /\ pc = "chunk"
  /\ Return("success", held \ {"chunk"})

Step ==
  \/ NoTable \/ DescribeFails \/ TypesDiffer \/ ColumnsDiffer \/ Create
  \/ Convert \/ LoadBatch \/ WriteColumn \/ WriteRaises \/ AppendChunk
  \/ DestroyAppender \/ DestroyChunk

Next == (\E f \in Frames, may \in SUBSET Faults : Call(f, may)) \/ Step

Spec == Init /\ [][Next]_vars

(* APL runs a call to its end.                                             *)
FairSpec == Spec /\ WF_vars(Step)

------------------------------------------------------------------------------
\* Properties

(* The values of the variables; a batch fits the chunk it is written to.   *)
TypeOK ==
  /\ frame \in Frames \cup {NoFrame} /\ faults \subseteq Faults
  /\ pc \in {"idle", "describe", "convert", "load", "columns", "chunk"}
  /\ sz \in Nat /\ i \in Nat \ {0} /\ landed \in Nat
  /\ \A c \in DOMAIN data_chunk : Len(data_chunk[c]) \in 1 .. STANDARD_VECTOR_SIZE
  /\ \A c \in DOMAIN slots : DOMAIN slots[c] = 1 .. STANDARD_VECTOR_SIZE
  /\ \A c \in DOMAIN invalid : invalid[c] \subseteq 1 .. STANDARD_VECTOR_SIZE
  /\ held \subseteq {"chunk", "appender"}
  /\ \A k \in DOMAIN replies :
       replies[k].out \in {"catalog", "types", "columns", "aborted", "success"}

(* The validity masks of the one chunk that serves every batch exclude the *)
(* nulls of the columns written for this batch and no row of an earlier    *)
(* one, whatever the lengths of the two.                                   *)
MaskOfBatch ==
  \A c \in DOMAIN invalid :
    invalid[c] = IF pc = "columns" /\ c < i THEN Nulls(data_chunk[c]) ELSE {}

(* Types whose values reach their slots.                                   *)
Faithful(f) == \A c \in DOMAIN f.types : f.types[c] \in (Copied \ Narrow) \cup Text

(* What the call has put in the table and in the appender.                 *)
Sent == SubSeq(table, Len(table) - landed + 1, Len(table)) \o buffer

(* Whatever fails, the rows of a call reach the table in the order of the  *)
(* frame, none twice and none made of items of different rows: a batch     *)
(* boundary never shifts one column against another.                       *)
InOrder ==
  frame # NoFrame /\ ~AC!Rejected(frame) /\ Faithful(frame) =>
    AC!Ordered(Sent, AC!Rows(frame))

(* The chunk and the appender are destroyed on every path without an APL   *)
(* error, but for an appender whose creation failed.                       *)
NothingLeft ==
  \A k \in DOMAIN replies :
    replies[k].left # {} =>
      \/ replies[k].out = "aborted"
      \/ /\ replies[k].left = {"appender"}
         /\ replies[k].frame.target = "elsewhere" \/ "create" \in Faults

(* Every call returns: the batch loop ends.                                *)
CallReturns == pc # "idle" ~> pc = "idle"

(* With types whose values fit their slots, append.aplf implements the     *)
(* contract, whether the C API fails or not: only whole rows, of those     *)
(* before the first value that no column holds, ever reach the table.      *)
Implements == AC!Spec

(* A call that says 'Success!' has put every row of its frame in the table *)
(* (testAppendTypes.aplf:73-78 takes the one for the other).  Violated when*)
(* the flush of the appender fails, whose status line 65 drops.            *)
SuccessMeansLanded ==
  \A k \in DOMAIN replies :
    replies[k].out = "success" =>
      replies[k].landed = AC!Count(replies[k].frame)

(* The rows that land are the rows of the frame.  Violated by TIME columns,*)
(* whose values (duckdb.h:328-332, 64-bit microseconds) types_out writes   *)
(* as 32-bit integers.                                                     *)
LandedAsGiven ==
  frame # NoFrame => Sent = SubSeq(AC!Rows(frame), 1, Len(Sent))
==============================================================================
