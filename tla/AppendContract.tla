--------------------------- MODULE AppendContract ---------------------------
(***************************************************************************)
(* What a bulk append promises its caller (append.aplf): the rows of the   *)
(* frame land in the table in their order, perhaps in instalments (the     *)
(* appender flushes when it likes), and the call reports success only when *)
(* every one of them is there.  A frame the table does not match is        *)
(* rejected and nothing lands; a value no column can hold stops the call,  *)
(* and neither its row nor a later one lands; a table with a type that has *)
(* no name of its own stops it before that.  Where a call of the C API   *)
(* may fail, rows may be missing, but those that land are still whole rows *)
(* in the order of the frame.                                              *)
(***************************************************************************)
EXTENDS Naturals, Sequences

CONSTANTS
  Frames,     \* what a caller may pass: [target, types, data] records
  TableTypes, \* the column types of the table
  Stamps,     \* the timestamp types, converted before anything is written
  Fits,       \* Fits[t]: the values a column of type t can hold
  Faults,     \* the C API calls that may fail at all
  MaxCalls,   \* bound on the number of calls
  NULL, FILL, \* the APL null; the fill element of an overtaken column
  NoFrame     \* no call in progress

VARIABLES frame, faults, landed, table, outs

(* The r-th item of a column; a column shorter than the first is filled.   *)
Item(col, r) == IF r <= Len(col) THEN col[r] ELSE FILL

Stored(t, v) == IF v = NULL THEN NULL ELSE <<t, v>>

(* The rows of a frame: as many as its first column has items.             *)
Count(f) == Len(f.data[1])

Rows(f) ==
  [r \in 1 .. Count(f) |->
     [c \in DOMAIN f.types |-> Stored(f.types[c], Item(f.data[c], r))]]

Writable(t, v) == IF v = NULL THEN t \notin Stamps ELSE v \in Fits[t]

WritableRow(f, r) ==
  \A c \in DOMAIN f.types : Writable(f.types[c], Item(f.data[c], r))

Rejected(f) ==
  \/ f.target \in {"missing", "unnamed"}
  \/ f.types # TableTypes
  \/ Len(f.types) # Len(f.data)

(* Nothing fails in this call but what the frame itself makes fail.        *)
Reliable == faults = {} /\ frame.target = "here"

(* s is made of rows of the frame, in their order.                         *)
Ordered(s, rows) ==
  \E at \in [DOMAIN s -> DOMAIN rows] :
    /\ \A k \in DOMAIN s : s[k] = rows[at[k]]
    /\ \A k, l \in DOMAIN s : k < l => at[k] < at[l]

Init ==
  /\ frame = NoFrame /\ faults = {} /\ landed = 0
  /\ table = <<>> /\ outs = <<>>

Begin(f, may) ==
  /\ frame = NoFrame /\ Len(outs) < MaxCalls
  /\ frame' = f /\ faults' = may
  /\ UNCHANGED <<landed, table, outs>>

(* More rows are in the table.                                             *)
Land ==
  /\ frame # NoFrame /\ ~Rejected(frame)
  /\ Len(table') > Len(table)
  /\ SubSeq(table', 1, Len(table)) = table
  /\ landed' = landed + Len(table') - Len(table)
  /\ LET writable == {r \in 1 .. Count(frame) :
                        \A s \in 1 .. r : WritableRow(frame, s)}
         sent == SubSeq(table', Len(table') - landed' + 1, Len(table'))
     IN  /\ Ordered(sent, [r \in writable |-> Rows(frame)[r]])
         /\ Reliable => sent = SubSeq(Rows(frame), 1, landed')
  /\ UNCHANGED <<frame, faults, outs>>

Finish(out) ==
  /\ outs' = Append(outs, out)
  /\ frame' = NoFrame /\ faults' = {} /\ landed' = 0
  /\ UNCHANGED table

Succeed ==
  /\ frame # NoFrame /\ ~Rejected(frame)
  /\ Reliable => landed = Count(frame)
  /\ Finish("success")

Reject ==
  /\ frame # NoFrame
  /\ Rejected(frame) /\ frame.target # "unnamed"
  /\ \E out \in {"catalog", "types", "columns"} : Finish(out)

Unwritable ==
  \/ \E r \in 1 .. Count(frame) : ~WritableRow(frame, r)
  \/ \E c \in DOMAIN frame.data : \E r \in DOMAIN frame.data[c] :
       frame.types[c] \in Stamps /\ ~Writable(frame.types[c], frame.data[c][r])

Abort ==
  /\ frame # NoFrame
  /\ \/ "describe" \in faults \/ frame.target = "unnamed"
     \/ ~Rejected(frame) /\ Unwritable
  /\ Finish("aborted")

Next ==
  \/ \E f \in Frames, may \in SUBSET Faults : Begin(f, may)
  \/ Land \/ Succeed \/ Reject \/ Abort

Spec == Init /\ [][Next]_<<frame, faults, landed, table, outs>>
==============================================================================
