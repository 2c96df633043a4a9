--------------------------- MODULE BulkAppend_proofs ---------------------------
(***************************************************************************)
(* Proofs about the bulk append, for any table, any frames, any vector     *)
(* size and any failures of the C API: the masks and the slots of the one  *)
(* chunk are those of the batch, and the rows that are sent are rows of    *)
(* the frame, in their order.                                              *)
(***************************************************************************)
EXTENDS BulkAppend, SequenceTheorems, TLAPS

------------------------------------------------------------------------------
\* The inductive invariant

Rows == 1 .. STANDARD_VECTOR_SIZE

(* What a slot holds: nothing yet, a value at a type, or two narrow ones.  *)
Item == Items \cup {FILL}
Word == {JUNK} \cup (Types \X (Item \cup {ZERO}))
Slot == Word \cup (Word \X Word) \cup {NULL}

SlotRow == Seq(Slot)

Outs == {"catalog", "types", "columns", "aborted", "success"}

Answer == [frame : Frames, out : Outs, left : SUBSET {"chunk", "appender"}, landed : Nat]

Values ==
  /\ frame \in Frames \cup {NoFrame} /\ faults \subseteq Faults
  /\ pc \in {"idle", "describe", "convert", "load", "columns", "chunk"}
  /\ sz \in Nat /\ i \in Nat \ {0} /\ landed \in Nat
  /\ data_chunk \in Seq(Seq(Item))
  /\ \A c \in DOMAIN data_chunk : Len(data_chunk[c]) \in Rows
  /\ slots \in Seq([Rows -> Slot]) /\ invalid \in Seq(SUBSET Rows)
  /\ held \subseteq {"chunk", "appender"}
  /\ table \in Seq(Seq(Slot)) /\ buffer \in Seq(Seq(Slot)) /\ landed <= Len(table)
  /\ replies \in Seq(Answer)

(* What the variables hold at each point of the call.                      *)
Phase ==
  /\ (pc = "idle") <=> (frame = NoFrame)
  /\ pc \in {"idle", "describe"} => held = {} /\ slots = <<>> /\ invalid = <<>>
  /\ pc \in {"idle", "describe", "convert"} => buffer = <<>> /\ landed = 0
  /\ pc \in {"convert", "load", "columns", "chunk"} =>
       /\ frame.types = TableTypes /\ Len(frame.types) = Len(frame.data)
       /\ DOMAIN slots = DOMAIN frame.data /\ DOMAIN invalid = DOMAIN frame.data
  /\ pc \in {"convert", "load", "columns"} => held = {"chunk", "appender"}
  /\ pc = "chunk" =>
       \/ held = {"chunk"}
       \/ held = {"chunk", "appender"}
            /\ (frame.target = "elsewhere" \/ "create" \in Faults)

(* The rows of the frame that are in no later batch, and in an earlier one.*)
Loading == IF pc = "columns" THEN Len(data_chunk[1]) ELSE 0
Taken == AC!Count(frame) - sz - Loading

(* What is left of each column are its last sz rows.                       *)
Rest ==
  pc \in {"load", "columns"} =>
    /\ data \in Seq(Seq(Items)) /\ DOMAIN data = DOMAIN frame.data
    /\ Taken \in Nat
    /\ \A c \in DOMAIN data : \A r \in 1 .. sz :
         AC!Item(data[c], r) = AC!Item(frame.data[c], Taken + Loading + r)

(* The batch are the rows after those taken.                               *)
Loaded ==
  pc = "columns" =>
    /\ DOMAIN data_chunk = DOMAIN frame.data
    /\ \A c \in DOMAIN data_chunk :
         /\ Len(data_chunk[c]) = Loading
         /\ \A r \in 1 .. Loading :
              data_chunk[c][r] = AC!Item(frame.data[c], Taken + r)

(* The columns written so far are in their slots, at their types.          *)
Slotted ==
  pc = "columns" /\ Faithful(frame) =>
    \A c \in DOMAIN data_chunk :
      c < i => \A r \in 1 .. Loading :
        data_chunk[c][r] # NULL => slots[c][r] = <<frame.types[c], data_chunk[c][r]>>

First(n) == [r \in 1 .. n |-> AC!Rows(frame)[r]]

(* What has been sent are rows of the frame among those taken.             *)
SentSoFar ==
  /\ pc \in {"load", "columns"} /\ Faithful(frame) => AC!Ordered(Sent, First(Taken))
  /\ pc = "chunk" /\ Faithful(frame) => AC!Ordered(Sent, AC!Rows(frame))

IInv ==
  Values /\ Phase /\ Rest /\ Loaded /\ MaskOfBatch /\ Slotted /\ SentSoFar /\ NothingLeft

------------------------------------------------------------------------------
\* Sequences of rows in the order of others

LEMMA OrderedNone ==
  ASSUME NEW rows
  PROVE  AC!Ordered(<<>>, rows)
<1> DEFINE at == [k \in {} |-> k]
<1>1. at \in [{} -> DOMAIN rows]
  OBVIOUS
<1>2. DOMAIN <<>> = {}
  OBVIOUS
<1> QED
  BY <1>1, <1>2 DEF AC!Ordered

(* Rows of p are rows of any q that p is the beginning of.                 *)
LEMMA OrderedMore ==
  ASSUME NEW s, NEW p, NEW q, AC!Ordered(s, p), DOMAIN p \subseteq DOMAIN q,
         \A r \in DOMAIN p : p[r] = q[r]
  PROVE  AC!Ordered(s, q)
<1>1. PICK at \in [DOMAIN s -> DOMAIN p] :
        /\ \A k \in DOMAIN s : s[k] = p[at[k]]
        /\ \A k, l \in DOMAIN s : k < l => at[k] < at[l]
  BY DEF AC!Ordered
<1>2. at \in [DOMAIN s -> DOMAIN q] /\ \A k \in DOMAIN s : s[k] = q[at[k]]
  BY <1>1
<1> QED
  BY <1>1, <1>2 DEF AC!Ordered

LEMMA OrderedStart ==
  ASSUME NEW R, NEW s \in Seq(R), NEW t \in Seq(R), NEW p, AC!Ordered(s \o t, p)
  PROVE  AC!Ordered(s, p)
<1> DEFINE u == s \o t
<1>1. /\ DOMAIN s = 1 .. Len(s) /\ DOMAIN u = 1 .. Len(s) + Len(t)
      /\ Len(s) \in Nat /\ Len(t) \in Nat
      /\ \A k \in 1 .. Len(s) : u[k] = s[k]
  OBVIOUS
<1> HIDE DEF u
<1>2. PICK at \in [DOMAIN u -> DOMAIN p] :
        /\ \A k \in DOMAIN u : u[k] = p[at[k]]
        /\ \A k, l \in DOMAIN u : k < l => at[k] < at[l]
  BY DEF AC!Ordered, u
<1> DEFINE at2 == [k \in DOMAIN s |-> at[k]]
<1>3. DOMAIN s \subseteq DOMAIN u
  BY <1>1
<1>4. at2 \in [DOMAIN s -> DOMAIN p]
  BY <1>2, <1>3
<1>5. \A k \in DOMAIN s : s[k] = p[at2[k]]
  BY <1>1, <1>2, <1>3
<1>6. \A k, l \in DOMAIN s : k < l => at2[k] < at2[l]
  BY <1>2, <1>3
<1> HIDE DEF at2
<1> QED
  BY <1>4, <1>5, <1>6 DEF AC!Ordered

(* Behind rows of p may come the rows that q has after those of p.         *)
LEMMA OrderedLonger ==
  ASSUME NEW R, NEW s \in Seq(R), NEW t \in Seq(R), NEW p, NEW q, NEW d \in Nat,
         AC!Ordered(s, p), DOMAIN p = 1 .. d, DOMAIN q = 1 .. d + Len(t),
         \A r \in 1 .. d : p[r] = q[r], \A r \in 1 .. Len(t) : t[r] = q[d + r]
  PROVE  AC!Ordered(s \o t, q)
<1> DEFINE u == s \o t
<1>1. /\ DOMAIN s = 1 .. Len(s) /\ DOMAIN u = 1 .. Len(s) + Len(t)
      /\ Len(s) \in Nat /\ Len(t) \in Nat
      /\ \A k \in 1 .. Len(s) + Len(t) :
           u[k] = IF k <= Len(s) THEN s[k] ELSE t[k - Len(s)]
  BY ConcatProperties
<1> HIDE DEF u
<1>2. PICK at \in [DOMAIN s -> DOMAIN p] :
        /\ \A k \in DOMAIN s : s[k] = p[at[k]]
        /\ \A k, l \in DOMAIN s : k < l => at[k] < at[l]
  BY DEF AC!Ordered
<1> DEFINE at2 == [k \in DOMAIN u |-> IF k <= Len(s) THEN at[k] ELSE d + k - Len(s)]
<1>3. \A k \in DOMAIN s : at[k] \in 1 .. d
  BY <1>2
<1>4. ASSUME NEW k \in DOMAIN u
      PROVE  at2[k] \in DOMAIN q /\ u[k] = q[at2[k]]
  <2>1. CASE k <= Len(s)
    <3>1. k \in DOMAIN s /\ at2[k] = at[k]
      BY <1>1, <2>1
    <3> HIDE DEF at2
    <3>2. at[k] \in 1 .. d /\ s[k] = p[at[k]]
      BY <1>2, <1>3, <3>1
    <3>3. u[k] = s[k]
      BY <1>1, <2>1
    <3> QED
      BY <1>1, <3>1, <3>2, <3>3
  <2>2. CASE ~(k <= Len(s))
    <3>1. k - Len(s) \in 1 .. Len(t) /\ at2[k] = d + (k - Len(s))
      BY <1>1, <2>2
    <3> HIDE DEF at2
    <3>2. u[k] = t[k - Len(s)]
      BY <1>1, <2>2
    <3> QED
      BY <1>1, <3>1, <3>2
  <2> QED
    BY <2>1, <2>2
<1>5. at2 \in [DOMAIN u -> DOMAIN q]
  BY <1>4
<1>6. ASSUME NEW k \in DOMAIN u, NEW l \in DOMAIN u, k < l
      PROVE  at2[k] < at2[l]
  <2>1. CASE l <= Len(s)
    <3>1. k \in DOMAIN s /\ l \in DOMAIN s /\ at2[k] = at[k] /\ at2[l] = at[l]
      BY <1>1, <1>6, <2>1
    <3> QED
      BY <1>2, <1>6, <3>1
  <2>2. CASE ~(l <= Len(s)) /\ k <= Len(s)
    <3>1. k \in DOMAIN s /\ at2[k] = at[k] /\ at2[l] = d + l - Len(s) /\ l \in Nat
      BY <1>1, <1>6, <2>2
    <3>2. at[k] \in 1 .. d
      BY <1>3, <3>1
    <3> HIDE DEF at2
    <3> QED
      BY <1>1, <2>2, <3>1, <3>2
  <2>3. CASE ~(l <= Len(s)) /\ ~(k <= Len(s))
    BY <1>1, <1>6, <2>3
  <2> QED
    BY <2>1, <2>2, <2>3
<1> HIDE DEF at2
<1> QED
  BY <1>4, <1>5, <1>6 DEF AC!Ordered, u

(* What is flushed follows what the call had in the table before.          *)
LEMMA Flushed ==
  ASSUME NEW R, NEW t \in Seq(R), NEW b \in Seq(R), NEW l \in Nat, l <= Len(t)
  PROVE  LET u == t \o b  m == l + Len(b)
         IN  /\ u \in Seq(R) /\ m <= Len(u) /\ m \in Nat
             /\ SubSeq(u, Len(u) - m + 1, Len(u)) =
                  SubSeq(t, Len(t) - l + 1, Len(t)) \o b
             /\ SubSeq(t, Len(t) - l + 1, Len(t)) \in Seq(R)
<1> DEFINE u == t \o b
           m == l + Len(b)
           v == SubSeq(u, Len(u) - m + 1, Len(u))
           w == SubSeq(t, Len(t) - l + 1, Len(t))
<1>1. /\ u \in Seq(R) /\ Len(u) = Len(t) + Len(b) /\ Len(t) \in Nat /\ Len(b) \in Nat
      /\ \A k \in 1 .. Len(t) + Len(b) : u[k] = IF k <= Len(t) THEN t[k] ELSE b[k - Len(t)]
  BY ConcatProperties
<1> HIDE DEF u
<1>2. /\ w \in Seq(R) /\ Len(w) = l /\ \A k \in 1 .. l : w[k] = t[Len(t) - l + k]
  <2>1. \A k \in Len(t) - l + 1 .. Len(t) : t[k] \in R
    OBVIOUS
  <2>2. /\ w \in Seq(R)
        /\ Len(w) = IF Len(t) - l + 1 <= Len(t) THEN Len(t) - (Len(t) - l + 1) + 1 ELSE 0
        /\ \A k \in 1 .. Len(t) - (Len(t) - l + 1) + 1 : w[k] = t[Len(t) - l + 1 + k - 1]
    BY <1>1, <2>1, SubSeqProperties
  <2> HIDE DEF w
  <2> QED
    BY <1>1, <2>2
<1> HIDE DEF w
<1>3. /\ v \in Seq(R) /\ Len(v) = m /\ \A k \in 1 .. m : v[k] = u[Len(t) - l + k]
  <2>1. \A k \in Len(u) - m + 1 .. Len(u) : u[k] \in R
    BY <1>1
  <2>2. /\ v \in Seq(R)
        /\ Len(v) = IF Len(u) - m + 1 <= Len(u) THEN Len(u) - (Len(u) - m + 1) + 1 ELSE 0
        /\ \A k \in 1 .. Len(u) - (Len(u) - m + 1) + 1 : v[k] = u[Len(u) - m + 1 + k - 1]
    BY <1>1, <2>1, SubSeqProperties
  <2>3. /\ Len(u) - (Len(u) - m + 1) + 1 = m /\ m \in Nat
        /\ Len(u) - m = Len(t) - l /\ Len(u) \in Nat
    BY <1>1
  <2> HIDE DEF v, m
  <2>4. /\ Len(v) = m /\ \A k \in 1 .. m : v[k] = u[Len(u) - m + 1 + k - 1]
    BY <2>2, <2>3
  <2>5. ASSUME NEW k \in 1 .. m PROVE v[k] = u[Len(t) - l + k]
    <3>1. Len(u) - m + 1 + k - 1 = Len(t) - l + k
      BY <2>3
    <3> QED
      BY <2>4, <3>1
  <2> QED
    BY <2>2, <2>4, <2>5
<1> HIDE DEF v
<1>4. /\ w \o b \in Seq(R) /\ Len(w \o b) = m
      /\ \A k \in 1 .. m : (w \o b)[k] = IF k <= l THEN w[k] ELSE b[k - l]
  BY <1>2, ConcatProperties
<1>5. ASSUME NEW k \in 1 .. m PROVE v[k] = (w \o b)[k]
  <2> DEFINE x == w \o b
  <2>1. v[k] = u[Len(t) - l + k] /\ x[k] = IF k <= l THEN w[k] ELSE b[k - l]
    BY <1>3, <1>4
  <2> HIDE DEF x
  <2>2. CASE k <= l
    <3>0. \A j \in 1 .. Len(t) : u[j] = t[j]
      <4>1. ASSUME NEW j \in 1 .. Len(t) PROVE u[j] = t[j]
        <5>1. j \in 1 .. Len(t) + Len(b) /\ j <= Len(t)
          BY <1>1
        <5> QED
          BY <1>1, <5>1
      <4> QED
        BY <4>1
    <3>1. Len(t) - l + k \in 1 .. Len(t)
      BY <1>1, <2>2
    <3>2. u[Len(t) - l + k] = t[Len(t) - l + k]
      BY <3>0, <3>1
    <3>3. k \in 1 .. l
      BY <2>2
    <3>4. w[k] = t[Len(t) - l + k]
      BY <1>2, <3>3
    <3> QED
      BY <2>1, <2>2, <3>2, <3>4 DEF x
  <2>3. CASE ~(k <= l)
    <3>1. /\ Len(t) - l + k \in 1 .. Len(t) + Len(b) /\ ~(Len(t) - l + k <= Len(t))
          /\ Len(t) - l + k - Len(t) = k - l
      BY <1>1, <2>3
    <3> QED
      BY <1>1, <2>1, <2>3, <3>1 DEF x
  <2> QED
    BY <2>2, <2>3
<1>6. v = w \o b
  BY <1>3, <1>4, <1>5, SeqEqual
<1>7. m \in Nat /\ m <= Len(u)
  BY <1>1
<1> QED
  BY <1>1, <1>2, <1>6, <1>7 DEF u, v, w

------------------------------------------------------------------------------
\* What holds at every point of a call

LEMMA FrameType ==
  ASSUME IInv, pc # "idle"
  PROVE  /\ frame \in Frames /\ frame.target \in {"here", "elsewhere", "missing", "unnamed"}
         /\ frame.types \in Seq(Types) /\ frame.data \in Seq(Seq(Items))
         /\ DOMAIN frame.data = 1 .. Len(frame.data) /\ Len(frame.data) \in Nat \ {0}
         /\ DOMAIN frame.types = 1 .. Len(frame.types)
         /\ AC!Count(frame) \in Nat
<1>1. frame \in Frames
  BY DEF IInv, Values, Phase
<1>2. /\ frame.target \in {"here", "elsewhere", "missing", "unnamed"}
      /\ frame.types \in Seq(Types) /\ frame.data \in Seq(Seq(Items)) /\ frame.data # <<>>
  BY <1>1, FramesAssumption
<1>3. Len(frame.data) \in Nat \ {0} /\ DOMAIN frame.data = 1 .. Len(frame.data)
  BY <1>2
<1>4. frame.data[1] \in Seq(Items)
  BY <1>2, <1>3
<1> QED
  BY <1>1, <1>2, <1>3, <1>4 DEF AC!Count

LEMMA ItemType ==
  ASSUME NEW col \in Seq(Items), NEW r \in Nat \ {0}
  PROVE  AC!Item(col, r) \in Item
  BY DEF AC!Item, Item

LEMMA RowsSize == STANDARD_VECTOR_SIZE \in Nat \ {0} /\ Rows \subseteq Nat \ {0}
  BY SizesAssumption DEF Rows

(* What is sent is what was flushed, and then what the appender has.       *)
InTable == SubSeq(table, Len(table) - landed + 1, Len(table))

LEMMA SentParts ==
  ASSUME IInv
  PROVE  Sent = InTable \o buffer /\ InTable \in Seq(Seq(Slot)) /\ buffer \in Seq(Seq(Slot))
<1>1. /\ table \in Seq(Seq(Slot)) /\ buffer \in Seq(Seq(Slot)) /\ landed \in Nat
      /\ landed <= Len(table)
  BY DEF IInv, Values
<1> QED
  BY <1>1, Flushed DEF Sent, InTable

LEMMA NothingSent == ASSUME IInv, buffer = <<>>, landed = 0 PROVE Sent = <<>>
<1>1. Len(table) \in Nat
  BY DEF IInv, Values
<1>2. InTable = <<>>
  BY <1>1, SubSeqEmpty DEF InTable
<1>3. <<>> \o <<>> = <<>>
  OBVIOUS
<1> QED
  BY <1>2, <1>3, SentParts

------------------------------------------------------------------------------
\* Steps

LEMMA InitCorrect == Init => IInv
<1> SUFFICES ASSUME Init PROVE IInv
  OBVIOUS
<1> USE DEF Init
<1>1. Values
  <2>1. \A S : <<>> \in Seq(S)
    BY EmptySeq, Zenon
  <2>2. /\ data_chunk \in Seq(Seq(Item)) /\ slots \in Seq([Rows -> Slot])
        /\ invalid \in Seq(SUBSET Rows) /\ table \in Seq(Seq(Slot))
        /\ buffer \in Seq(Seq(Slot)) /\ replies \in Seq(Answer)
    BY <2>1, Zenon
  <2>3. Len(table) = 0 /\ DOMAIN data_chunk = {}
    OBVIOUS
  <2> HIDE DEF Init
  <2>4. /\ frame = NoFrame /\ faults = {} /\ pc = "idle" /\ sz = 0 /\ i = 1 /\ landed = 0
        /\ held = {}
    BY DEF Init
  <2> QED
    BY <2>2, <2>3, <2>4 DEF Values
<1>2. Phase /\ Rest /\ Loaded /\ Slotted /\ SentSoFar
  BY DEF Phase, Rest, Loaded, Slotted, SentSoFar
<1>3. MaskOfBatch /\ NothingLeft
  BY DEF MaskOfBatch, NothingLeft
<1> QED
  BY <1>1, <1>2, <1>3 DEF IInv

(* A call that ends leaves what its path still holds, and no more rows.    *)
LEMMA ReturnCorrect ==
  ASSUME IInv, pc # "idle", NEW out \in Outs, NEW left \in SUBSET {"chunk", "appender"},
         Return(out, left),
         left # {} => \/ out = "aborted"
                      \/ /\ left = {"appender"}
                         /\ frame.target = "elsewhere" \/ "create" \in Faults
  PROVE  IInv'
<1> DEFINE answer == [frame |-> frame, out |-> out, left |-> left, landed |-> landed]
<1>1. answer \in Answer /\ answer.frame = frame /\ answer.out = out /\ answer.left = left
  BY FrameType DEF IInv, Values, Answer
<1>2. /\ replies' = Append(replies, answer) /\ replies \in Seq(Answer)
      /\ frame' = NoFrame /\ faults' = {} /\ pc' = "idle" /\ sz' = 0 /\ i' = 1
      /\ held' = {} /\ landed' = 0 /\ table' = table /\ table \in Seq(Seq(Slot))
      /\ data_chunk' = <<>> /\ slots' = <<>> /\ invalid' = <<>> /\ buffer' = <<>>
  BY DEF Return, IInv, Values
<1> HIDE DEF answer
<1>3. /\ replies' \in Seq(Answer) /\ DOMAIN replies' = 1 .. Len(replies) + 1
      /\ DOMAIN replies = 1 .. Len(replies)
      /\ \A k \in DOMAIN replies' :
           replies'[k] = answer \/ (k \in DOMAIN replies /\ replies'[k] = replies[k])
  <2> HIDE DEF Answer
  <2> QED
    BY <1>1, <1>2
<1>4. Values'
  <2>1. \A S : <<>> \in Seq(S)
    BY EmptySeq, Zenon
  <2>2. /\ data_chunk' \in Seq(Seq(Item)) /\ slots' \in Seq([Rows -> Slot])
        /\ invalid' \in Seq(SUBSET Rows) /\ buffer' \in Seq(Seq(Slot))
    BY <1>2, <2>1, Zenon
  <2>3. Len(table') \in Nat /\ DOMAIN data_chunk' = {} /\ landed' <= Len(table')
    BY <1>2
  <2> QED
    BY <1>2, <1>3, <2>2, <2>3 DEF Values
<1>5. Phase' /\ Rest' /\ Loaded' /\ Slotted' /\ SentSoFar'
  BY <1>2 DEF Phase, Rest, Loaded, Slotted, SentSoFar
<1>6. MaskOfBatch'
  BY <1>2 DEF MaskOfBatch
<1>7. NothingLeft'
  BY <1>1, <1>3 DEF IInv, NothingLeft
<1> QED
  BY <1>4, <1>5, <1>6, <1>7 DEF IInv

LEMMA CallCorrect ==
  ASSUME IInv, NEW f \in Frames, NEW may \in SUBSET Faults, Call(f, may)
  PROVE  IInv'
<1>1. /\ pc = "idle" /\ frame' = f /\ faults' = may /\ pc' = "describe" /\ f # NoFrame
      /\ UNCHANGED <<data, sz, data_chunk, i, slots, invalid, held, buffer, landed, table,
                     replies>>
  BY FramesAssumption DEF Call, batch, vectors
<1>2. Values'
  BY <1>1 DEF IInv, Values
<1>3. Phase' /\ Rest' /\ Loaded' /\ Slotted' /\ SentSoFar'
  BY <1>1 DEF IInv, Phase, Rest, Loaded, Slotted, SentSoFar
<1>4. MaskOfBatch' /\ NothingLeft'
  BY <1>1 DEF IInv, MaskOfBatch, NothingLeft
<1> QED
  BY <1>2, <1>3, <1>4 DEF IInv

LEMMA EarlyEnds ==
  ASSUME IInv, NoTable \/ DescribeFails \/ TypesDiffer \/ ColumnsDiffer
  PROVE  IInv'
<1>1. pc = "describe" /\ held = {}
  BY DEF NoTable, DescribeFails, TypesDiffer, ColumnsDiffer, Named, Described, IInv, Phase
<1>2. \E out \in Outs : Return(out, held)
  BY DEF NoTable, DescribeFails, TypesDiffer, ColumnsDiffer, Outs
<1> QED
  BY <1>1, <1>2, ReturnCorrect

LEMMA CreateCorrect == ASSUME IInv, Create PROVE IInv'
<1>1. /\ pc = "describe" /\ frame.types = TableTypes /\ Len(frame.types) = Len(frame.data)
      /\ held' = {"chunk", "appender"} /\ buffer = <<>> /\ landed = 0
      /\ slots' = [c \in DOMAIN frame.types |-> [r \in Rows |-> JUNK]]
      /\ invalid' = [c \in DOMAIN frame.types |-> {}]
      /\ \/ pc' = "convert"
         \/ pc' = "chunk" /\ (frame.target = "elsewhere" \/ "create" \in faults)
      /\ UNCHANGED <<frame, faults, data, sz, data_chunk, i, buffer, landed, table, replies>>
  BY DEF Create, Named, Described, IInv, Phase, Rows, batch
<1>2. /\ DOMAIN frame.types = 1 .. Len(frame.types) /\ DOMAIN frame.data = 1 .. Len(frame.data)
      /\ Len(frame.data) \in Nat /\ frame # NoFrame /\ faults \subseteq Faults
  BY <1>1, FrameType DEF IInv, Values, Phase
<1>3. slots' \in Seq([Rows -> Slot]) /\ invalid' \in Seq(SUBSET Rows)
  <2>1. [r \in Rows |-> JUNK] \in [Rows -> Slot]
    BY DEF Slot, Word
  <2>2. slots' \in [1 .. Len(frame.types) -> [Rows -> Slot]]
    BY <1>1, <1>2, <2>1
  <2>3. invalid' \in [1 .. Len(frame.types) -> SUBSET Rows]
    BY <1>1, <1>2
  <2> QED
    BY <1>1, <1>2, <2>2, <2>3
<1>4. Values'
  BY <1>1, <1>3, Zenon DEF IInv, Values
<1>5. DOMAIN slots' = DOMAIN frame.data /\ DOMAIN invalid' = DOMAIN frame.data
  BY <1>1, <1>2
<1>6. Phase' /\ Rest' /\ Loaded' /\ Slotted'
  BY <1>1, <1>2, <1>5 DEF Phase, Rest, Loaded, Slotted
<1>7. SentSoFar'
  <2>1. Sent' = <<>>
    BY <1>1, NothingSent DEF Sent
  <2> QED
    BY <1>1, <2>1, OrderedNone DEF SentSoFar
<1>8. MaskOfBatch' /\ NothingLeft'
  BY <1>1 DEF IInv, MaskOfBatch, NothingLeft
<1> QED
  BY <1>4, <1>6, <1>7, <1>8 DEF IInv

LEMMA ConvertCorrect == ASSUME IInv, Convert PROVE IInv'
<1>1. /\ pc = "convert" /\ held \subseteq {"chunk", "appender"} /\ buffer = <<>> /\ landed = 0
  BY DEF Convert, IInv, Values, Phase
<1>2. CASE Return("aborted", held)
  BY <1>1, <1>2, ReturnCorrect DEF Outs
<1>3. CASE /\ data' = frame.data /\ sz' = Len(frame.data[1]) /\ pc' = "load"
           /\ UNCHANGED <<frame, faults, data_chunk, i, vectors, held,
                          buffer, landed, table, replies>>
  <2>1. /\ frame.data \in Seq(Seq(Items)) /\ AC!Count(frame) \in Nat
        /\ UNCHANGED <<frame, slots, invalid>>
    BY <1>1, <1>3, FrameType DEF vectors
  <2>2. Values'
    BY <1>1, <1>3, <2>1 DEF IInv, Values, vectors, AC!Count
  <2>3. Phase' /\ Loaded' /\ Slotted'
    BY <1>1, <1>3 DEF IInv, Phase, Loaded, Slotted, vectors
  <2>4. Taken' = 0 /\ Loading' = 0
    BY <1>3, <2>1 DEF Taken, Loading, AC!Count
  <2>5. Rest'
    <3>1. \A c \in DOMAIN data' : \A r \in 1 .. sz' :
            AC!Item(data'[c], r) = AC!Item(frame'.data[c], Taken' + Loading' + r)
      BY <1>3, <2>1, <2>4
    <3>2. data' \in Seq(Seq(Items)) /\ DOMAIN data' = DOMAIN frame'.data
      BY <1>3, <2>1
    <3> QED
      BY <2>4, <3>1, <3>2 DEF Rest, AC!Item
  <2>6. SentSoFar'
    <3>1. Sent' = <<>>
      BY <1>1, <1>3, NothingSent DEF Sent
    <3> QED
      BY <1>3, <3>1, OrderedNone DEF SentSoFar
  <2>7. MaskOfBatch' /\ NothingLeft'
    BY <1>1, <1>3, <2>1 DEF IInv, MaskOfBatch, NothingLeft
  <2> QED
    BY <2>2, <2>3, <2>5, <2>6, <2>7 DEF IInv
<1> QED
  BY <1>2, <1>3 DEF Convert

(* A function on 1 .. n is a sequence.                                     *)
LEMMA FunctionOnto ==
  ASSUME NEW S, NEW n \in Nat, NEW f \in [1 .. n -> S]
  PROVE  f \in Seq(S) /\ DOMAIN f = 1 .. n /\ Len(f) = n
OBVIOUS

(* Dropping the first n items of a column moves the others n rows up.      *)
LEMMA ItemDropped ==
  ASSUME NEW col \in Seq(Items), NEW n \in Nat, NEW r \in Nat \ {0}
  PROVE  LET w == SubSeq(col, n + 1, Len(col))
         IN  w \in Seq(Items) /\ AC!Item(w, r) = AC!Item(col, n + r)
<1> DEFINE w == SubSeq(col, n + 1, Len(col))
<1>1. Len(col) \in Nat /\ \A k \in n + 1 .. Len(col) : col[k] \in Items
  OBVIOUS
<1>2. /\ w \in Seq(Items)
      /\ Len(w) = IF n + 1 <= Len(col) THEN Len(col) - (n + 1) + 1 ELSE 0
      /\ \A k \in 1 .. Len(col) - (n + 1) + 1 : w[k] = col[n + 1 + k - 1]
  BY <1>1, SubSeqProperties
<1> HIDE DEF w
<1>3. CASE r <= Len(w)
  <2>1. r \in 1 .. Len(col) - (n + 1) + 1 /\ n + r <= Len(col) /\ n + 1 + r - 1 = n + r
    BY <1>1, <1>2, <1>3
  <2>2. w[r] = col[n + r]
    BY <1>2, <2>1
  <2> QED
    BY <1>2, <1>3, <2>1, <2>2 DEF w, AC!Item
<1>4. CASE ~(r <= Len(w))
  <2>1. ~(n + r <= Len(col))
    BY <1>1, <1>2, <1>4
  <2> QED
    BY <1>2, <1>4, <2>1 DEF w, AC!Item
<1> QED
  BY <1>3, <1>4

LEMMA LoadBatchCorrect == ASSUME IInv, LoadBatch PROVE IInv'
<1> DEFINE rows == BatchRows
<1>1. /\ pc = "load" /\ sz > 0 /\ i' = 1 /\ pc' = "columns" /\ sz' = sz - rows
      /\ data_chunk' = [c \in DOMAIN data |-> [r \in 1 .. rows |-> AC!Item(data[c], r)]]
      /\ data' = [c \in DOMAIN data |-> SubSeq(data[c], rows + 1, Len(data[c]))]
      /\ UNCHANGED <<frame, faults, slots, invalid, held, buffer, landed, table, replies>>
  BY DEF LoadBatch, Remaining, Dropped, vectors
<1>2. rows \in Rows /\ sz - rows \in Nat /\ sz \in Nat /\ rows \in Nat \ {0}
  BY <1>1, SizesAssumption DEF BatchRows, Least, Rows, IInv, Values
<1> HIDE DEF rows
<1>3. /\ data \in Seq(Seq(Items)) /\ DOMAIN data = DOMAIN frame.data /\ Taken \in Nat
      /\ DOMAIN frame.data = 1 .. Len(frame.data) /\ Len(frame.data) \in Nat \ {0}
      /\ AC!Count(frame) \in Nat /\ Loading = 0 /\ Taken = AC!Count(frame) - sz
      /\ \A c \in DOMAIN data : \A r \in 1 .. sz :
           AC!Item(data[c], r) = AC!Item(frame.data[c], Taken + Loading + r)
  BY <1>1, <1>2, FrameType DEF IInv, Rest, Loading, Taken
<1>4. \A c \in DOMAIN data : data[c] \in Seq(Items)
  BY <1>3
<1>5. /\ data_chunk' \in Seq(Seq(Item)) /\ DOMAIN data_chunk' = DOMAIN frame.data
      /\ \A c \in DOMAIN data_chunk' :
           /\ Len(data_chunk'[c]) = rows
           /\ \A r \in 1 .. rows : data_chunk'[c][r] = AC!Item(data[c], r)
  <2>1. ASSUME NEW c \in DOMAIN data
        PROVE  /\ [r \in 1 .. rows |-> AC!Item(data[c], r)] \in Seq(Item)
               /\ Len([r \in 1 .. rows |-> AC!Item(data[c], r)]) = rows
    <3>1. \A r \in 1 .. rows : AC!Item(data[c], r) \in Item
      BY <1>2, <1>4, ItemType
    <3> QED
      BY <1>2, <3>1
  <2>2. data_chunk' \in [1 .. Len(frame.data) -> Seq(Item)]
    BY <1>1, <1>3, <2>1
  <2>3. data_chunk' \in Seq(Seq(Item))
    <3>1. Len(frame.data) \in Nat
      BY <1>3
    <3> HIDE DEF Item
    <3> QED
      BY <2>2, <3>1, FunctionOnto
  <2>4. ASSUME NEW c \in DOMAIN data_chunk'
        PROVE  /\ Len(data_chunk'[c]) = rows
               /\ \A r \in 1 .. rows : data_chunk'[c][r] = AC!Item(data[c], r)
    BY <1>1, <2>1
  <2> QED
    BY <1>1, <1>3, <2>3, <2>4
<1>6. Loading' = rows /\ Taken' = Taken
  <2>1. Loading' = rows
    <3>1. 1 \in DOMAIN frame.data
      BY <1>3
    <3> QED
      BY <1>1, <1>5, <3>1 DEF Loading
  <2>2. Taken' = AC!Count(frame) - (sz - rows) - rows
    BY <1>1, <2>1 DEF Taken, AC!Count
  <2> QED
    BY <1>2, <1>3, <2>1, <2>2
<1>7. Values'
  <2>1. \A c \in DOMAIN data_chunk' : Len(data_chunk'[c]) \in Rows
    BY <1>2, <1>5
  <2> QED
    BY <1>1, <1>2, <1>5, <2>1 DEF IInv, Values
<1>8. Phase'
  BY <1>1 DEF IInv, Phase
<1>9. Rest'
  <2>1. ASSUME NEW c \in DOMAIN data', NEW r \in 1 .. sz'
        PROVE  AC!Item(data'[c], r) = AC!Item(frame.data[c], Taken + rows + r)
    <3>1. c \in DOMAIN data /\ r \in 1 .. sz - rows
      BY <1>1, <2>1
    <3>2. Taken \in Nat /\ Loading = 0
      BY <1>3
    <3>3. r \in Nat \ {0} /\ rows + r \in 1 .. sz /\ rows \in Nat
          /\ Taken + Loading + (rows + r) = Taken + rows + r
      BY <1>2, <3>1, <3>2
    <3>4. AC!Item(data'[c], r) = AC!Item(data[c], rows + r)
      BY <1>1, <1>4, <3>1, <3>3, ItemDropped
    <3> QED
      BY <1>3, <3>1, <3>3, <3>4
  <2>2. data' \in Seq(Seq(Items)) /\ DOMAIN data' = DOMAIN frame.data
    <3>1. \A c \in DOMAIN data : SubSeq(data[c], rows + 1, Len(data[c])) \in Seq(Items)
      BY <1>2, <1>4, ItemDropped
    <3>2. data' \in [1 .. Len(frame.data) -> Seq(Items)]
      BY <1>1, <1>3, <3>1
    <3>3. Len(frame.data) \in Nat /\ DOMAIN frame.data = 1 .. Len(frame.data)
      BY <1>3
    <3> QED
      BY <3>2, <3>3, FunctionOnto
  <2>3. \A c \in DOMAIN data' : \A r \in 1 .. sz' :
          AC!Item(data'[c], r) = AC!Item(frame'.data[c], Taken' + Loading' + r)
    BY <1>1, <1>6, <2>1
  <2> QED
    BY <1>1, <1>3, <1>6, <2>2, <2>3 DEF Rest, AC!Item
<1>10. Loaded'
  <2>1. ASSUME NEW c \in DOMAIN data_chunk', NEW r \in 1 .. rows
        PROVE  data_chunk'[c][r] = AC!Item(frame.data[c], Taken + r)
    <3>1. c \in DOMAIN data /\ r \in 1 .. sz /\ Taken + Loading + r = Taken + r
      BY <1>2, <1>3, <1>5
    <3> QED
      BY <1>3, <1>5, <3>1
  <2>2. \A c \in DOMAIN data_chunk' : \A r \in 1 .. Loading' :
          data_chunk'[c][r] = AC!Item(frame'.data[c], Taken' + r)
    BY <1>1, <1>6, <2>1
  <2> QED
    BY <1>1, <1>5, <1>6, <2>2 DEF Loaded, AC!Item
<1>11. MaskOfBatch' /\ Slotted'
  <2>1. DOMAIN invalid \subseteq Nat \ {0} /\ DOMAIN data_chunk' \subseteq Nat \ {0}
    BY <1>1, <1>3, <1>5 DEF IInv, Phase
  <2> QED
    BY <1>1, <2>1 DEF IInv, MaskOfBatch, Slotted
<1>12. SentSoFar'
  <2>1. Sent' = Sent /\ First(Taken)' = First(Taken)
    BY <1>1, <1>6 DEF Sent, First, AC!Rows, AC!Count, AC!Stored, AC!Item
  <2>2. Faithful(frame') = Faithful(frame)
    BY <1>1
  <2> QED
    BY <1>1, <2>1, <2>2 DEF IInv, SentSoFar, AC!Ordered, Faithful
<1>13. NothingLeft'
  BY <1>1 DEF IInv, NothingLeft
<1> QED
  BY <1>7, <1>8, <1>9, <1>10, <1>11, <1>12, <1>13 DEF IInv

(* What a column leaves in a vector are words in all of its slots; a type  *)
(* whose values fit leaves each value in the slot of its row.              *)
LEMMA CopiedType ==
  ASSUME NEW t \in Types, NEW col \in Seq(Item), Len(col) \in Rows, slots[i] \in [Rows -> Slot]
  PROVE  /\ CopiedSlots(t, col) \in [Rows -> Slot]
         /\ t \notin Narrow =>
              \A r \in DOMAIN col : col[r] # NULL => CopiedSlots(t, col)[r] = <<t, col[r]>>
<1> DEFINE v(r) == IF r \in Nulls(col) THEN <<t, ZERO>> ELSE <<t, col[r]>>
           w(r) == IF t \notin Narrow
                     THEN IF r \in DOMAIN col THEN v(r) ELSE slots[i][r]
                     ELSE IF 2 * r <= Len(col) THEN <<v(2 * r - 1), v(2 * r)>>
                     ELSE IF 2 * r - 1 = Len(col) THEN <<v(Len(col)), JUNK>>
                     ELSE slots[i][r]
<1>1. CopiedSlots(t, col) = [r \in Rows |-> w(r)]
  BY DEF CopiedSlots, Rows
<1>2. /\ DOMAIN col = 1 .. Len(col) /\ Len(col) \in Nat \ {0}
      /\ 1 .. Len(col) \subseteq Rows /\ \A r \in 1 .. Len(col) : col[r] \in Item
  BY RowsSize DEF Rows
<1>3. \A r \in 1 .. Len(col) : v(r) \in Types \X (Item \cup {ZERO})
  BY <1>2
<1>4. \A r \in 1 .. Len(col) : col[r] # NULL => v(r) = <<t, col[r]>>
  BY <1>2 DEF Nulls
<1> HIDE DEF v
<1>5. ASSUME NEW r \in Rows PROVE w(r) \in Slot
  <2>1. r \in Nat \ {0} /\ slots[i][r] \in Slot
    BY RowsSize
  <2>2. CASE t \notin Narrow
    BY <1>2, <1>3, <2>1, <2>2 DEF Slot, Word
  <2>3. CASE t \in Narrow /\ 2 * r <= Len(col)
    <3>1. 2 * r - 1 \in 1 .. Len(col) /\ 2 * r \in 1 .. Len(col)
      BY <1>2, <2>1, <2>3
    <3>2. v(2 * r - 1) \in Word /\ v(2 * r) \in Word
      BY <1>3, <3>1 DEF Word
    <3> QED
      BY <2>3, <3>2 DEF Slot
  <2>4. CASE t \in Narrow /\ ~(2 * r <= Len(col)) /\ 2 * r - 1 = Len(col)
    <3>1. v(Len(col)) \in Word /\ JUNK \in Word
      BY <1>2, <1>3 DEF Word
    <3>2. w(r) = <<v(Len(col)), JUNK>>
      BY <2>4
    <3> QED
      BY <3>1, <3>2 DEF Slot
  <2>5. CASE t \in Narrow /\ ~(2 * r <= Len(col)) /\ 2 * r - 1 # Len(col)
    BY <2>1, <2>5
  <2> QED
    BY <2>2, <2>3, <2>4, <2>5
<1>6. ASSUME t \notin Narrow, NEW r \in DOMAIN col, col[r] # NULL
      PROVE  r \in Rows /\ w(r) = <<t, col[r]>>
  BY <1>2, <1>4, <1>6
<1> HIDE DEF w
<1> QED
  BY <1>1, <1>5, <1>6

LEMMA TextType ==
  ASSUME NEW t \in Types, NEW col \in Seq(Item), Len(col) \in Rows, slots[i] \in [Rows -> Slot]
  PROVE  /\ TextSlots(t, col) \in [Rows -> Slot]
         /\ \A r \in DOMAIN col : col[r] # NULL => TextSlots(t, col)[r] = <<t, col[r]>>
<1> DEFINE w(r) == IF r \notin DOMAIN col THEN slots[i][r]
                   ELSE IF r \in Nulls(col) THEN <<t, FILL>> ELSE <<t, col[r]>>
<1>1. TextSlots(t, col) = [r \in Rows |-> w(r)]
  BY DEF TextSlots, Rows
<1>2. /\ DOMAIN col = 1 .. Len(col) /\ Len(col) \in Nat \ {0}
      /\ 1 .. Len(col) \subseteq Rows /\ \A r \in 1 .. Len(col) : col[r] \in Item
  BY RowsSize DEF Rows
<1>3. ASSUME NEW r \in Rows PROVE w(r) \in Slot
  <2>1. FILL \in Item /\ slots[i][r] \in Slot
    BY DEF Item
  <2> QED
    BY <1>2, <2>1 DEF Slot, Word
<1>4. ASSUME NEW r \in DOMAIN col, col[r] # NULL
      PROVE  r \in Rows /\ w(r) = <<t, col[r]>>
  BY <1>2, <1>4 DEF Nulls
<1> HIDE DEF w
<1> QED
  BY <1>1, <1>3, <1>4

LEMMA WriteColumnCorrect == ASSUME IInv, WriteColumn PROVE IInv'
<1> DEFINE t == frame.types[i]
           col == data_chunk[i]
           vector == IF t \in Copied THEN CopiedSlots(t, col)
                     ELSE IF t \in Text THEN TextSlots(t, col) ELSE slots[i]
<1>1. /\ pc = "columns" /\ i <= Len(data_chunk) /\ i' = i + 1
      /\ slots' = [slots EXCEPT ![i] = vector]
      /\ invalid' = [invalid EXCEPT ![i] = @ \cup Nulls(col)]
      /\ UNCHANGED <<frame, faults, pc, data, sz, data_chunk, held, buffer, landed, table,
                     replies>>
  BY DEF WriteColumn, InvalidRows
<1>2. /\ i \in Nat \ {0} /\ i \in DOMAIN data_chunk /\ DOMAIN data_chunk = DOMAIN frame.data
      /\ col \in Seq(Item) /\ Len(col) = Loading /\ Len(col) \in Rows
      /\ slots \in Seq([Rows -> Slot]) /\ invalid \in Seq(SUBSET Rows)
      /\ DOMAIN slots = DOMAIN frame.data /\ DOMAIN invalid = DOMAIN frame.data
  BY <1>1 DEF IInv, Values, Phase, Loaded
<1>3. /\ slots[i] \in [Rows -> Slot] /\ invalid[i] \subseteq Rows /\ t \in Types
      /\ DOMAIN frame.types = DOMAIN frame.data
  BY <1>1, <1>2, FrameType DEF IInv, Phase
<1>4. DOMAIN col = 1 .. Loading /\ 1 .. Loading \subseteq Rows /\ Loading \in Nat
  BY <1>2, RowsSize DEF Rows
<1> HIDE DEF t, col
<1>5. vector \in [Rows -> Slot]
  BY <1>2, <1>3, CopiedType, TextType
<1>6. Faithful(frame) => \A r \in 1 .. Loading : col[r] # NULL => vector[r] = <<t, col[r]>>
  <2>1. SUFFICES ASSUME Faithful(frame), NEW r \in 1 .. Loading, col[r] # NULL
                 PROVE  vector[r] = <<t, col[r]>>
    OBVIOUS
  <2>2. t \in (Copied \ Narrow) \cup Text
    BY <1>2, <1>3, <2>1 DEF Faithful, t
  <2>3. CASE t \in Copied \ Narrow
    BY <1>2, <1>3, <1>4, <2>1, <2>3, CopiedType
  <2>4. CASE t \in Text
    BY <1>2, <1>3, <1>4, <2>1, <2>4, TextType, TypesAssumption
  <2> QED
    BY <2>2, <2>3, <2>4
<1> HIDE DEF vector
<1>7. /\ slots' \in Seq([Rows -> Slot]) /\ DOMAIN slots' = DOMAIN slots /\ slots'[i] = vector
      /\ \A c \in DOMAIN slots : c # i => slots'[c] = slots[c]
  <2> HIDE DEF Slot, Rows
  <2> QED
    BY <1>1, <1>2, <1>5
<1>8. /\ DOMAIN invalid' = DOMAIN invalid /\ invalid'[i] = invalid[i] \cup Nulls(col)
      /\ \A c \in DOMAIN invalid : c # i => invalid'[c] = invalid[c]
  BY <1>1, <1>2
<1>9. invalid' \in Seq(SUBSET Rows)
  <2>1. Nulls(col) \subseteq Rows
    BY <1>4 DEF Nulls
  <2> QED
    BY <1>1, <1>2, <1>3, <2>1
<1>10. Values'
  <2>1. i' \in Nat \ {0}
    BY <1>1, <1>2
  <2> QED
    BY <1>1, <1>7, <1>9, <2>1, Zenon DEF IInv, Values
<1>11. Phase'
  BY <1>1, <1>7, <1>8 DEF IInv, Phase
<1>12. Loading' = Loading /\ Taken' = Taken
  BY <1>1 DEF Loading, Taken, AC!Count
<1>13. Rest' /\ Loaded'
  BY <1>1, <1>12 DEF IInv, Rest, Loaded, AC!Item
<1>rows. MaskOfBatch'
  <2>1. SUFFICES ASSUME NEW c \in DOMAIN invalid
                 PROVE  invalid'[c] = IF c < i + 1 THEN Nulls(data_chunk[c]) ELSE {}
    BY <1>1, <1>8 DEF MaskOfBatch, Nulls
  <2>2. invalid[c] = IF c < i THEN Nulls(data_chunk[c]) ELSE {}
    BY <1>1 DEF IInv, MaskOfBatch
  <2>3. c \in Nat
    BY <1>2
  <2>4. CASE c = i
    <3>1. invalid[i] = {} /\ i < i + 1
      BY <1>2, <2>2, <2>4
    <3>2. invalid'[i] = Nulls(col)
      BY <1>8, <3>1
    <3> QED
      BY <2>4, <3>1, <3>2 DEF col
  <2>5. CASE c # i
    BY <1>2, <1>8, <2>2, <2>3, <2>5
  <2> QED
    BY <2>4, <2>5
<1>15. Slotted'
  <2>1. SUFFICES ASSUME Faithful(frame), NEW c \in DOMAIN data_chunk, c < i + 1,
                        NEW r \in 1 .. Loading, data_chunk[c][r] # NULL
                 PROVE  slots'[c][r] = <<frame.types[c], data_chunk[c][r]>>
    BY <1>1, <1>12 DEF Slotted, Faithful
  <2>2. CASE c = i
    BY <1>6, <1>7, <2>1, <2>2 DEF t, col
  <2>3. CASE c # i
    <3>1. c < i /\ c \in DOMAIN slots
      BY <1>2, <2>1, <2>3
    <3> QED
      BY <1>1, <1>7, <2>1, <2>3, <3>1 DEF IInv, Slotted
  <2> QED
    BY <2>2, <2>3
<1>16. SentSoFar'
  <2>1. Sent' = Sent /\ First(Taken)' = First(Taken)
    BY <1>1, <1>12 DEF Sent, First, AC!Rows, AC!Count, AC!Stored, AC!Item
  <2> QED
    BY <1>1, <2>1 DEF IInv, SentSoFar, AC!Ordered, Faithful
<1>17. NothingLeft'
  BY <1>1 DEF IInv, NothingLeft
<1> QED
  BY <1>10, <1>11, <1>13, <1>rows, <1>15, <1>16, <1>17 DEF IInv

LEMMA WriteRaisesCorrect == ASSUME IInv, WriteRaises PROVE IInv'
<1>1. pc # "idle" /\ held \in SUBSET {"chunk", "appender"} /\ Return("aborted", held)
  BY DEF WriteRaises, IInv, Values
<1> QED
  BY <1>1, ReturnCorrect DEF Outs

(* The rows of a written batch are those of the frame after the taken ones.*)
LEMMA ChunkType ==
  ASSUME IInv, pc = "columns", i > Len(data_chunk)
  PROVE  /\ ChunkRows \in Seq(Seq(Slot)) /\ Len(ChunkRows) = Loading
         /\ Loading \in Nat /\ Taken \in Nat /\ sz \in Nat
         /\ AC!Count(frame) = Taken + Loading + sz
         /\ Faithful(frame) =>
              \A r \in 1 .. Loading : ChunkRows[r] = AC!Rows(frame)[Taken + r]
<1> DEFINE cell(r, c) == IF r \in invalid[c] THEN NULL ELSE slots[c][r]
<1>1. /\ DOMAIN data_chunk = DOMAIN frame.data /\ DOMAIN frame.types = DOMAIN frame.data
      /\ DOMAIN frame.data = 1 .. Len(frame.data) /\ Len(frame.data) \in Nat \ {0}
      /\ data_chunk \in Seq(Seq(Item)) /\ AC!Count(frame) \in Nat
  BY FrameType DEF IInv, Values, Phase, Loaded
<1>2. \A c \in DOMAIN data_chunk :
        /\ c < i /\ data_chunk[c] \in Seq(Item) /\ Len(data_chunk[c]) = Loading
        /\ Loading \in Rows
  BY <1>1 DEF IInv, Values, Loaded
<1>3. /\ 1 \in DOMAIN data_chunk /\ Loading \in Rows /\ Loading \in Nat /\ Taken \in Nat
      /\ sz \in Nat /\ AC!Count(frame) = Taken + Loading + sz
  <2>1. 1 \in DOMAIN data_chunk /\ Taken \in Nat /\ sz \in Nat
    BY <1>1 DEF IInv, Values, Rest
  <2>2. Loading \in Rows /\ Loading \in Nat
    BY <1>2, <2>1, RowsSize
  <2>3. Taken = AC!Count(frame) - sz - Loading
    BY DEF Taken
  <2> QED
    BY <1>1, <2>1, <2>2, <2>3
<1>4. /\ 1 .. Loading \subseteq Rows /\ DOMAIN data_chunk[1] = 1 .. Loading
  BY <1>2, <1>3, RowsSize DEF Rows
<1>5. ChunkRows = [r \in 1 .. Loading |-> [c \in 1 .. Len(frame.data) |-> cell(r, c)]]
  BY <1>1, <1>4 DEF ChunkRows
<1>6. ASSUME NEW r \in 1 .. Loading, NEW c \in 1 .. Len(frame.data)
      PROVE  /\ cell(r, c) \in Slot
             /\ Faithful(frame) =>
                  cell(r, c) = AC!Stored(frame.types[c], AC!Item(frame.data[c], Taken + r))
  <2>1. /\ c \in DOMAIN data_chunk /\ c \in DOMAIN slots /\ c \in DOMAIN invalid
        /\ slots[c] \in [Rows -> Slot] /\ r \in Rows
    <3>1. /\ c \in DOMAIN data_chunk /\ c \in DOMAIN slots /\ c \in DOMAIN invalid
          /\ slots \in Seq([Rows -> Slot]) /\ r \in Rows
      BY <1>1, <1>4 DEF IInv, Values, Phase
    <3> HIDE DEF Slot, Rows
    <3> QED
      BY <3>1
  <2>2. invalid[c] = Nulls(data_chunk[c]) /\ DOMAIN data_chunk[c] = 1 .. Loading
    BY <1>2, <2>1 DEF IInv, MaskOfBatch
  <2>3. r \in invalid[c] <=> data_chunk[c][r] = NULL
    BY <2>2 DEF Nulls
  <2>4. data_chunk[c][r] = AC!Item(frame.data[c], Taken + r)
    BY <2>1 DEF IInv, Loaded
  <2>5. Faithful(frame) /\ data_chunk[c][r] # NULL =>
          slots[c][r] = <<frame.types[c], data_chunk[c][r]>>
    BY <1>2, <2>1 DEF IInv, Slotted
  <2>6. slots[c][r] \in Slot /\ NULL \in Slot
    BY <2>1 DEF Slot
  <2> QED
    BY <2>3, <2>4, <2>5, <2>6 DEF AC!Stored
<1> HIDE DEF cell
<1>7. ChunkRows \in Seq(Seq(Slot)) /\ Len(ChunkRows) = Loading
  <2>1. \A r \in 1 .. Loading : [c \in 1 .. Len(frame.data) |-> cell(r, c)] \in Seq(Slot)
    <3> HIDE DEF Slot
    <3> QED
      BY <1>1, <1>6, FunctionOnto
  <2>2. ChunkRows \in [1 .. Loading -> Seq(Slot)]
    BY <1>5, <2>1
  <2> HIDE DEF Slot
  <2> QED
    BY <1>3, <2>2, FunctionOnto
<1>8. ASSUME Faithful(frame), NEW r \in 1 .. Loading
      PROVE  ChunkRows[r] = AC!Rows(frame)[Taken + r]
  <2>1. Taken + r \in 1 .. AC!Count(frame)
    BY <1>3
  <2>2. AC!Rows(frame)[Taken + r] =
          [c \in DOMAIN frame.types |->
             AC!Stored(frame.types[c], AC!Item(frame.data[c], Taken + r))]
    BY <2>1 DEF AC!Rows
  <2>3. ChunkRows[r] = [c \in 1 .. Len(frame.data) |-> cell(r, c)]
    BY <1>5
  <2> QED
    BY <1>1, <1>6, <1>8, <2>2, <2>3
<1> QED
  BY <1>3, <1>7, <1>8

LEMMA FirstRows ==
  ASSUME NEW n \in Nat
  PROVE  DOMAIN First(n) = 1 .. n /\ \A r \in 1 .. n : First(n)[r] = AC!Rows(frame)[r]
BY DEF First

(* A batch that the appender takes follows what was sent before, whether   *)
(* the appender flushes or not.                                            *)
LEMMA Appended ==
  ASSUME IInv, AppendChunk
  PROVE  /\ table' \in Seq(SlotRow) /\ buffer' \in Seq(SlotRow)
         /\ landed' \in Nat /\ landed' <= Len(table')
         /\ \/ Sent' = Sent \o ChunkRows
            \/ "append" \in faults /\ UNCHANGED <<buffer, table, landed>> /\ Sent' = Sent
<1>1. /\ pc = "columns" /\ i > Len(data_chunk)
      /\ \/ buffer' = buffer \o ChunkRows /\ UNCHANGED <<table, landed>>
         \/ /\ table' = table \o buffer \o ChunkRows /\ buffer' = <<>>
            /\ landed' = landed + Len(buffer) + Len(ChunkRows)
         \/ "append" \in faults /\ UNCHANGED <<buffer, table, landed>>
  BY DEF AppendChunk
<1>2. /\ ChunkRows \in Seq(Seq(Slot)) /\ Len(ChunkRows) = Loading
      /\ Loading \in Nat /\ Taken \in Nat /\ sz \in Nat
      /\ AC!Count(frame) = Taken + Loading + sz
      /\ Faithful(frame) =>
           \A r \in 1 .. Loading : ChunkRows[r] = AC!Rows(frame)[Taken + r]
  BY <1>1, ChunkType
<1>3. /\ table \in Seq(Seq(Slot)) /\ buffer \in Seq(Seq(Slot)) /\ landed \in Nat
      /\ landed <= Len(table) /\ invalid \in Seq(SUBSET Rows)
      /\ InTable \in Seq(Seq(Slot)) /\ Sent = InTable \o buffer /\ Sent \in Seq(Seq(Slot))
  <2>1. /\ table \in Seq(Seq(Slot)) /\ buffer \in Seq(Seq(Slot)) /\ landed \in Nat
        /\ landed <= Len(table) /\ invalid \in Seq(SUBSET Rows)
    BY DEF IInv, Values
  <2>2. InTable \in Seq(Seq(Slot)) /\ Sent = InTable \o buffer
    BY SentParts
  <2> HIDE DEF Slot
  <2> QED
    BY <2>1, <2>2, ConcatProperties
<1>rows. /\ table \in Seq(SlotRow) /\ buffer \in Seq(SlotRow) /\ InTable \in Seq(SlotRow) /\ Sent \in Seq(SlotRow)
      /\ ChunkRows \in Seq(SlotRow)
  BY <1>2, <1>3 DEF SlotRow
<1> HIDE DEF Slot
<1>case1. CASE buffer' = buffer \o ChunkRows /\ UNCHANGED <<table, landed>>
  <2>1. Sent' = InTable \o (buffer \o ChunkRows)
    BY <1>case1 DEF Sent, InTable
  <2>2. InTable \o (buffer \o ChunkRows) = (InTable \o buffer) \o ChunkRows
    <3>1. InTable \in Seq(SlotRow) /\ buffer \in Seq(SlotRow) /\ ChunkRows \in Seq(SlotRow)
      BY <1>rows
    <3> QED
      BY <3>1, ConcatAssociative
  <2>3. buffer \o ChunkRows \in Seq(SlotRow)
    BY <1>rows, ConcatProperties
  <2> QED
    BY <1>3, <1>rows, <1>case1, <2>1, <2>2, <2>3
<1>case2. CASE /\ table' = table \o buffer \o ChunkRows /\ buffer' = <<>>
           /\ landed' = landed + Len(buffer) + Len(ChunkRows)
  <2> DEFINE u == table \o buffer
             m == landed + Len(buffer)
  <2>1. /\ u \in Seq(SlotRow) /\ m <= Len(u) /\ m \in Nat
        /\ SubSeq(u, Len(u) - m + 1, Len(u)) = Sent
    <3>1. /\ table \in Seq(SlotRow) /\ buffer \in Seq(SlotRow)
          /\ landed \in Nat /\ landed <= Len(table) /\ Sent = InTable \o buffer
      BY <1>3, <1>rows
    <3> QED
      BY <3>1, Flushed DEF InTable
  <2>2. table' = u \o ChunkRows /\ landed' = m + Len(ChunkRows)
    BY <1>case2
  <2> HIDE DEF u, m
  <2>3. /\ table' \in Seq(SlotRow) /\ landed' <= Len(table') /\ landed' \in Nat
        /\ SubSeq(table', Len(table') - landed' + 1, Len(table')) = Sent \o ChunkRows
    <3>1. /\ u \in Seq(SlotRow) /\ ChunkRows \in Seq(SlotRow) /\ m \in Nat /\ m <= Len(u)
      BY <1>rows, <2>1
    <3> QED
      BY <2>1, <2>2, <3>1, Flushed
  <2>4. Sent \o ChunkRows \in Seq(SlotRow)
    BY <1>rows, ConcatProperties
  <2>5. Sent' = (Sent \o ChunkRows) \o <<>>
    BY <1>case2, <2>3 DEF Sent
  <2>6. Sent' = Sent \o ChunkRows
    BY <2>4, <2>5, ConcatEmptySeq
  <2>7. buffer' \in Seq(SlotRow)
    BY <1>case2, EmptySeq
  <2> QED
    BY <2>3, <2>6, <2>7
<1>case3. CASE "append" \in faults /\ UNCHANGED <<buffer, table, landed>>
  BY <1>3, <1>rows, <1>case3 DEF Sent
<1> QED
  BY <1>1, <1>case1, <1>case2, <1>case3

LEMMA AppendChunkCorrect == ASSUME IInv, AppendChunk PROVE IInv'
<1>1. /\ pc = "columns" /\ i > Len(data_chunk) /\ pc' = "load"
      /\ invalid' = [c \in DOMAIN invalid |-> {}]
      /\ UNCHANGED <<frame, faults, data, sz, data_chunk, i, slots, held, replies>>
      /\ \/ buffer' = buffer \o ChunkRows /\ UNCHANGED <<table, landed>>
         \/ /\ table' = table \o buffer \o ChunkRows /\ buffer' = <<>>
            /\ landed' = landed + Len(buffer) + Len(ChunkRows)
         \/ UNCHANGED <<buffer, table, landed>>
  BY DEF AppendChunk, batch, ResetMasks
<1>2. /\ ChunkRows \in Seq(Seq(Slot)) /\ Len(ChunkRows) = Loading
      /\ Loading \in Nat /\ Taken \in Nat /\ sz \in Nat
      /\ AC!Count(frame) = Taken + Loading + sz
      /\ Faithful(frame) =>
           \A r \in 1 .. Loading : ChunkRows[r] = AC!Rows(frame)[Taken + r]
  BY <1>1, ChunkType
<1>3. /\ table \in Seq(Seq(Slot)) /\ buffer \in Seq(Seq(Slot)) /\ landed \in Nat
      /\ landed <= Len(table) /\ invalid \in Seq(SUBSET Rows)
      /\ InTable \in Seq(Seq(Slot)) /\ Sent = InTable \o buffer /\ Sent \in Seq(Seq(Slot))
  <2>1. /\ table \in Seq(Seq(Slot)) /\ buffer \in Seq(Seq(Slot)) /\ landed \in Nat
        /\ landed <= Len(table) /\ invalid \in Seq(SUBSET Rows)
    BY DEF IInv, Values
  <2>2. InTable \in Seq(Seq(Slot)) /\ Sent = InTable \o buffer
    BY SentParts
  <2> HIDE DEF Slot
  <2> QED
    BY <2>1, <2>2, ConcatProperties
<1>rows. /\ table \in Seq(SlotRow) /\ buffer \in Seq(SlotRow) /\ InTable \in Seq(SlotRow) /\ Sent \in Seq(SlotRow)
      /\ ChunkRows \in Seq(SlotRow)
  BY <1>2, <1>3 DEF SlotRow
<1>4. Loading' = 0 /\ Taken' = Taken + Loading
  <2>1. Loading' = 0 /\ Taken' = AC!Count(frame) - sz - 0
    BY <1>1 DEF Loading, Taken, AC!Count
  <2> QED
    BY <1>2, <2>1
<1>5. /\ table' \in Seq(Seq(Slot)) /\ buffer' \in Seq(Seq(Slot)) /\ landed' \in Nat
      /\ landed' <= Len(table') /\ (Sent' = Sent \/ Sent' = Sent \o ChunkRows)
  BY Appended DEF SlotRow
<1>6. invalid' \in Seq(SUBSET Rows) /\ DOMAIN invalid' = DOMAIN invalid
  <2>1. DOMAIN invalid = 1 .. Len(invalid) /\ Len(invalid) \in Nat
    BY <1>3
  <2>2. invalid' \in [1 .. Len(invalid) -> SUBSET Rows]
    BY <1>1, <2>1
  <2> QED
    BY <1>1, <2>1, <2>2
<1>7. Values'
  BY <1>1, <1>5, <1>6, Zenon DEF IInv, Values
<1>8. Phase'
  BY <1>1, <1>6 DEF IInv, Phase
<1>9. Rest'
  <2>1. Taken' + Loading' = Taken + Loading /\ Taken' \in Nat
    BY <1>2, <1>4
  <2> QED
    BY <1>1, <2>1 DEF IInv, Rest, AC!Item
<1>10. Loaded' /\ Slotted' /\ NothingLeft'
  BY <1>1 DEF IInv, Loaded, Slotted, NothingLeft
<1>11. MaskOfBatch'
  BY <1>1 DEF MaskOfBatch
<1>12. SentSoFar'
  <2>1. First(Taken)' = First(Taken + Loading) /\ Faithful(frame') = Faithful(frame)
    BY <1>1, <1>4 DEF First, AC!Rows, AC!Count, AC!Stored, AC!Item
  <2>2. SUFFICES ASSUME Faithful(frame) PROVE AC!Ordered(Sent', First(Taken + Loading))
    BY <1>1, <2>1 DEF SentSoFar, AC!Ordered, Faithful
  <2> DEFINE p == First(Taken)
             q == First(Taken + Loading)
  <2>3. AC!Ordered(Sent, p)
    BY <1>1, <2>2 DEF IInv, SentSoFar
  <2>4. /\ DOMAIN p = 1 .. Taken /\ DOMAIN q = 1 .. Taken + Loading
        /\ \A r \in 1 .. Taken : p[r] = AC!Rows(frame)[r]
        /\ \A r \in 1 .. Taken + Loading : q[r] = AC!Rows(frame)[r]
    BY <1>2, FirstRows
  <2> HIDE DEF p, q
  <2>5. /\ \A r \in 1 .. Taken : p[r] = q[r] /\ r \in DOMAIN q
        /\ \A r \in 1 .. Loading : q[Taken + r] = AC!Rows(frame)[Taken + r]
    <3>1. Taken \in Nat /\ Loading \in Nat
      BY <1>2
    <3> QED
      BY <2>4, <3>1
  <2>6. CASE Sent' = Sent
    BY <2>3, <2>4, <2>5, <2>6, OrderedMore DEF q
  <2>7. CASE Sent' = Sent \o ChunkRows
    <3>1. \A r \in 1 .. Len(ChunkRows) : ChunkRows[r] = q[Taken + r]
      BY <1>2, <2>2, <2>5
    <3>2. DOMAIN q = 1 .. Taken + Len(ChunkRows)
      BY <1>2, <2>4
    <3>3. AC!Ordered(Sent \o ChunkRows, q)
      <4>1. Taken \in Nat /\ Sent \in Seq(SlotRow) /\ ChunkRows \in Seq(SlotRow)
        BY <1>2, <1>rows
      <4>2. DOMAIN p = 1 .. Taken /\ \A r \in 1 .. Taken : p[r] = q[r]
        BY <2>4, <2>5
      <4> QED
        BY <2>3, <3>1, <3>2, <4>1, <4>2, OrderedLonger
    <3> QED
      BY <2>7, <3>3 DEF q
  <2> QED
    BY <1>5, <2>6, <2>7
<1> QED
  BY <1>7, <1>8, <1>9, <1>10, <1>11, <1>12 DEF IInv

LEMMA AllRows ==
  ASSUME NEW s, NEW n \in Nat, n <= AC!Count(frame), AC!Count(frame) \in Nat,
         AC!Ordered(s, First(n))
  PROVE  AC!Ordered(s, AC!Rows(frame))
<1>1. DOMAIN First(n) = 1 .. n /\ \A r \in 1 .. n : First(n)[r] = AC!Rows(frame)[r]
  BY FirstRows
<1>2. DOMAIN AC!Rows(frame) = 1 .. AC!Count(frame)
  BY DEF AC!Rows
<1> QED
  BY <1>1, <1>2, OrderedMore

(* Destroying the appender flushes what it has; when that fails, what is   *)
(* left of the rows sent are those in the table.                           *)
LEMMA FlushedAtLast ==
  ASSUME IInv, DestroyAppender
  PROVE  /\ table' \in Seq(SlotRow) /\ landed' \in Nat /\ landed' <= Len(table')
         /\ InTable \in Seq(SlotRow) /\ Sent = InTable \o buffer /\ Sent \in Seq(SlotRow)
         /\ \/ /\ table' = table \o buffer /\ landed' = landed + Len(buffer)
               /\ Sent' = Sent
            \/ "flush" \in faults /\ UNCHANGED <<table, landed>> /\ Sent' = InTable
<1>1. /\ pc = "load" /\ buffer' = <<>>
      /\ \/ table' = table \o buffer /\ landed' = landed + Len(buffer)
         \/ "flush" \in faults /\ UNCHANGED <<table, landed>>
  BY DEF DestroyAppender
<1>2. /\ table \in Seq(SlotRow) /\ buffer \in Seq(SlotRow) /\ landed \in Nat
      /\ landed <= Len(table)
  BY DEF IInv, Values, SlotRow
<1>3. InTable \in Seq(SlotRow) /\ Sent = InTable \o buffer /\ Sent \in Seq(SlotRow)
  <2>1. InTable \in Seq(SlotRow) /\ Sent = InTable \o buffer
    BY SentParts DEF SlotRow
  <2> QED
    BY <1>2, <2>1, ConcatProperties
<1>case1. CASE table' = table \o buffer /\ landed' = landed + Len(buffer)
  <2>1. /\ table' \in Seq(SlotRow) /\ landed' <= Len(table') /\ landed' \in Nat
        /\ SubSeq(table', Len(table') - landed' + 1, Len(table')) = Sent
    <3>1. /\ table \in Seq(SlotRow) /\ buffer \in Seq(SlotRow) /\ landed \in Nat
          /\ landed <= Len(table) /\ Sent = InTable \o buffer
      BY <1>2, <1>3
    <3> QED
      BY <1>case1, <3>1, Flushed DEF InTable
  <2>2. Sent' = Sent \o <<>>
    BY <1>1, <2>1 DEF Sent
  <2>3. Sent' = Sent
    BY <1>3, <2>2, ConcatEmptySeq
  <2> QED
    BY <1>3, <1>case1, <2>1, <2>3
<1>case2. CASE "flush" \in faults /\ UNCHANGED <<table, landed>>
  <2>1. Sent' = InTable \o <<>>
    BY <1>1, <1>case2 DEF Sent, InTable
  <2>2. Sent' = InTable
    BY <1>3, <2>1, ConcatEmptySeq
  <2> QED
    BY <1>2, <1>3, <1>case2, <2>2
<1> QED
  BY <1>1, <1>case1, <1>case2

LEMMA DestroyAppenderCorrect == ASSUME IInv, DestroyAppender PROVE IInv'
<1>1. /\ pc = "load" /\ ~(sz > 0) /\ buffer' = <<>> /\ pc' = "chunk"
      /\ held' = held \ {"appender"}
      /\ UNCHANGED <<frame, faults, data, sz, data_chunk, i, slots, invalid, replies>>
      /\ \/ table' = table \o buffer /\ landed' = landed + Len(buffer)
         \/ UNCHANGED <<table, landed>>
  BY DEF DestroyAppender, AppenderGone, batch, vectors
<1>2. /\ table \in Seq(SlotRow) /\ buffer \in Seq(SlotRow) /\ landed \in Nat
      /\ landed <= Len(table) /\ sz \in Nat /\ held = {"chunk", "appender"}
  BY <1>1 DEF IInv, Values, Phase, SlotRow
<1>3. InTable \in Seq(SlotRow) /\ Sent = InTable \o buffer /\ Sent \in Seq(SlotRow)
  <2>1. InTable \in Seq(SlotRow) /\ Sent = InTable \o buffer
    BY SentParts DEF SlotRow
  <2> QED
    BY <1>2, <2>1, ConcatProperties
<1>4. buffer' \in Seq(SlotRow)
  BY <1>1, EmptySeq
<1>5. /\ table' \in Seq(SlotRow) /\ landed' \in Nat /\ landed' <= Len(table')
      /\ Sent' = Sent \/ Sent' = InTable
  BY FlushedAtLast
<1>6. Values'
  <2>1. held' \subseteq {"chunk", "appender"}
    BY <1>1, <1>2
  <2>2. table' \in Seq(Seq(Slot)) /\ buffer' \in Seq(Seq(Slot))
    BY <1>4, <1>5 DEF SlotRow
  <2> QED
    BY <1>1, <1>5, <2>1, <2>2, Zenon DEF IInv, Values
<1>7. Phase'
  <2>1. held' = {"chunk"}
    BY <1>1, <1>2
  <2> QED
    BY <1>1, <2>1 DEF IInv, Phase
<1>8. Rest' /\ Loaded' /\ Slotted' /\ NothingLeft'
  BY <1>1 DEF IInv, Rest, Loaded, Slotted, NothingLeft
<1>9. MaskOfBatch'
  BY <1>1 DEF IInv, MaskOfBatch
<1>10. SentSoFar'
  <2>1. SUFFICES ASSUME Faithful(frame) PROVE AC!Ordered(Sent', AC!Rows(frame))
    BY <1>1 DEF SentSoFar, Faithful, AC!Ordered, AC!Rows, AC!Count, AC!Stored, AC!Item
  <2>2. /\ Taken \in Nat /\ Taken <= AC!Count(frame) /\ AC!Count(frame) \in Nat
    <3>1. AC!Count(frame) \in Nat
      BY <1>1, FrameType
    <3> QED
      BY <1>1, <1>2, <3>1 DEF Taken, Loading
  <2>3. AC!Ordered(Sent, First(Taken))
    BY <1>1, <2>1 DEF IInv, SentSoFar
  <2>4. AC!Ordered(Sent, AC!Rows(frame))
    BY <2>2, <2>3, AllRows
  <2>5. AC!Ordered(InTable, AC!Rows(frame))
    BY <1>2, <1>3, <2>4, OrderedStart
  <2> QED
    BY <1>5, <2>4, <2>5
<1> QED
  BY <1>6, <1>7, <1>8, <1>9, <1>10 DEF IInv

LEMMA DestroyChunkCorrect == ASSUME IInv, DestroyChunk PROVE IInv'
<1>1. /\ pc = "chunk" /\ Return("success", held \ {"chunk"})
      /\ held \subseteq {"chunk", "appender"}
      /\ \/ held = {"chunk"}
         \/ held = {"chunk", "appender"}
              /\ (frame.target = "elsewhere" \/ "create" \in Faults)
  BY DEF DestroyChunk, IInv, Values, Phase
<1>2. /\ held \ {"chunk"} \in SUBSET {"chunk", "appender"} /\ "success" \in Outs
      /\ held \ {"chunk"} # {} => /\ held \ {"chunk"} = {"appender"}
                                  /\ frame.target = "elsewhere" \/ "create" \in Faults
  BY <1>1 DEF Outs
<1> QED
  BY <1>1, <1>2, ReturnCorrect

LEMMA StutterCorrect == ASSUME IInv, UNCHANGED vars PROVE IInv'
<1>1. UNCHANGED <<frame, faults, pc, data, sz, data_chunk, i, slots, invalid, held, buffer,
                  landed, table, replies>>
  BY DEF vars
<1>2. Values' /\ Phase' /\ NothingLeft'
  BY <1>1, Zenon DEF IInv, Values, Phase, NothingLeft
<1>3. Rest' /\ Loaded' /\ MaskOfBatch' /\ Slotted'
  BY <1>1 DEF IInv, Rest, Loaded, MaskOfBatch, Slotted, Taken, Loading, Faithful, Nulls,
              AC!Item, AC!Count
<1>4. SentSoFar'
  <2>1. Sent' = Sent /\ First(Taken)' = First(Taken) /\ AC!Rows(frame)' = AC!Rows(frame)
    BY <1>1 DEF Sent, First, Taken, Loading, AC!Rows, AC!Count, AC!Stored, AC!Item
  <2> QED
    BY <1>1, <2>1 DEF IInv, SentSoFar, AC!Ordered, Faithful
<1> QED
  BY <1>2, <1>3, <1>4 DEF IInv

------------------------------------------------------------------------------
\* Theorems

(* The inductive invariant, of which the properties below are parts.       *)
THEOREM Invariance == Spec => []IInv
<1>1. Init => IInv
  BY InitCorrect
<1>2. IInv /\ [Next]_vars => IInv'
  <2>1. SUFFICES ASSUME IInv, [Next]_vars PROVE IInv'
    OBVIOUS
  <2>2. CASE \E f \in Frames, may \in SUBSET Faults : Call(f, may)
    BY <2>1, <2>2, CallCorrect
  <2>3. CASE NoTable \/ DescribeFails \/ TypesDiffer \/ ColumnsDiffer
    BY <2>1, <2>3, EarlyEnds
  <2>4. CASE Create
    BY <2>1, <2>4, CreateCorrect
  <2>5. CASE Convert
    BY <2>1, <2>5, ConvertCorrect
  <2>6. CASE LoadBatch
    BY <2>1, <2>6, LoadBatchCorrect
  <2>7. CASE WriteColumn
    BY <2>1, <2>7, WriteColumnCorrect
  <2>8. CASE WriteRaises
    BY <2>1, <2>8, WriteRaisesCorrect
  <2>9. CASE AppendChunk
    BY <2>1, <2>9, AppendChunkCorrect
  <2>10. CASE DestroyAppender
    BY <2>1, <2>10, DestroyAppenderCorrect
  <2>11. CASE DestroyChunk
    BY <2>1, <2>11, DestroyChunkCorrect
  <2>12. CASE UNCHANGED vars
    BY <2>1, <2>12, StutterCorrect
  <2> QED
    BY <2>1, <2>2, <2>3, <2>4, <2>5, <2>6, <2>7, <2>8, <2>9, <2>10, <2>11, <2>12
       DEF Next, Step
<1> QED
  BY <1>1, <1>2, PTL DEF Spec

(* The mask that DuckDB reads with a batch excludes the nulls of the       *)
(* columns of that batch and nothing of an earlier one, however many       *)
(* batches went through the chunk (append.aplf:53-62).                     *)
THEOREM MaskOfBatchCorrect == Spec => []MaskOfBatch
<1>1. IInv => MaskOfBatch
  BY DEF IInv
<1> QED
  BY <1>1, Invariance, PTL

(* Whatever fails and whenever the appender flushes, what a call sends are *)
(* rows of its frame, in their order and none twice (append.aplf:29-65).   *)
THEOREM InOrderCorrect == Spec => []InOrder
<1>1. IInv => InOrder
  <2>1. SUFFICES ASSUME IInv, frame # NoFrame, Faithful(frame)
                 PROVE  AC!Ordered(Sent, AC!Rows(frame))
    BY DEF InOrder
  <2>2. pc \in {"describe", "convert", "load", "columns", "chunk"}
    BY <2>1 DEF IInv, Values, Phase
  <2>3. CASE pc \in {"describe", "convert"}
    <3>1. Sent = <<>>
      BY <2>1, <2>3, NothingSent DEF IInv, Phase
    <3> QED
      BY <3>1, OrderedNone
  <2>4. CASE pc \in {"load", "columns"}
    <3>1. Taken \in Nat /\ sz \in Nat /\ AC!Count(frame) \in Nat
      BY <2>1, <2>4, FrameType DEF IInv, Values, Rest
    <3>2. Loading \in Nat
      <4>1. CASE pc = "load"
        BY <4>1 DEF Loading
      <4>2. CASE pc = "columns"
        <5>1. 1 \in DOMAIN data_chunk
          BY <2>1, <4>2, FrameType DEF IInv, Loaded
        <5> QED
          BY <2>1, <4>2, <5>1 DEF IInv, Values, Loading
      <4> QED
        BY <2>4, <4>1, <4>2
    <3>3. Taken <= AC!Count(frame)
      BY <3>1, <3>2 DEF Taken
    <3>4. AC!Ordered(Sent, First(Taken))
      BY <2>1, <2>4 DEF IInv, SentSoFar
    <3> QED
      BY <3>1, <3>3, <3>4, AllRows
  <2>5. CASE pc = "chunk"
    BY <2>1, <2>5 DEF IInv, SentSoFar
  <2> QED
    BY <2>2, <2>3, <2>4, <2>5
<1> QED
  BY <1>1, Invariance, PTL

(* A call that ends without an APL error has destroyed its chunk, and its  *)
(* appender too unless creating it failed (append.aplf:65-68).             *)
THEOREM NothingLeftCorrect == Spec => []NothingLeft
<1>1. IInv => NothingLeft
  BY DEF IInv
<1> QED
  BY <1>1, Invariance, PTL

(* The variables keep their types; no column of a batch is longer than the *)
(* vector it is written to (append.aplf:30).                               *)
THEOREM TypeCorrect == Spec => []TypeOK
<1>1. IInv => TypeOK
  <2>1. SUFFICES ASSUME IInv PROVE TypeOK
    OBVIOUS
  <2>2. \A c \in DOMAIN slots : DOMAIN slots[c] = 1 .. STANDARD_VECTOR_SIZE
    <3>1. slots \in Seq([Rows -> Slot])
      BY <2>1 DEF IInv, Values
    <3> HIDE DEF Slot
    <3> QED
      BY <3>1 DEF Rows
  <2>3. \A c \in DOMAIN invalid : invalid[c] \subseteq 1 .. STANDARD_VECTOR_SIZE
    BY <2>1 DEF IInv, Values, Rows
  <2>4. \A k \in DOMAIN replies : replies[k].out \in Outs
    <3>1. replies \in Seq(Answer) /\ \A a \in Answer : a.out \in Outs
      BY <2>1 DEF IInv, Values, Answer
    <3> HIDE DEF Answer
    <3> QED
      BY <3>1
  <2> QED
    BY <2>1, <2>2, <2>3, <2>4 DEF IInv, Values, TypeOK, Rows, Outs
<1> QED
  BY <1>1, Invariance, PTL

------------------------------------------------------------------------------
\* The contract

(* Every column of the table has a type whose values append.aplf can put   *)
(* in their slots.  With a TIME, an INTERVAL or a UUID column the append    *)
(* does not implement the contract.                                        *)
Fitting == \A c \in DOMAIN TableTypes : TableTypes[c] \in (Copied \ Narrow) \cup Text

TableFound ==
  pc \in {"convert", "load", "columns", "chunk"} => frame.target \notin {"missing", "unnamed"}

(* No value that a column cannot hold is in a row taken before, ...        *)
WritableSoFar ==
  pc \in {"load", "columns"} =>
    Convertible /\ \A r \in 1 .. Taken : AC!WritableRow(frame, r)

(* ... nor in a column of the batch that is written.                       *)
WrittenSoFar ==
  pc = "columns" =>
    \A c \in DOMAIN data_chunk :
      c < i => \A r \in 1 .. Loading : AC!Writable(frame.types[c], data_chunk[c][r])

(* Where nothing fails, all that was taken was sent.                       *)
WholeSoFar ==
  /\ pc \in {"load", "columns"} /\ AC!Reliable => Sent = First(Taken)
  /\ pc = "chunk" /\ AC!Reliable => landed = AC!Count(frame)

KInv == TableFound /\ WritableSoFar /\ WrittenSoFar /\ WholeSoFar

outs == [k \in DOMAIN replies |-> replies[k].out]

promised == <<frame, faults, landed, table, outs>>

------------------------------------------------------------------------------
\* Rows that can be written

LEMMA FaithfulFrame == ASSUME Fitting, frame.types = TableTypes PROVE Faithful(frame)
  BY DEF Fitting, Faithful

LEMMA NotRejected ==
  ASSUME IInv, TableFound, pc \in {"convert", "load", "columns", "chunk"}
  PROVE  ~AC!Rejected(frame) /\ frame # NoFrame /\ frame.types = TableTypes
  BY DEF IInv, Phase, TableFound, AC!Rejected

(* The sizes while the columns are written.                                *)
LEMMA BatchSizes ==
  ASSUME IInv, pc = "columns"
  PROVE  /\ Loading \in Nat \ {0} /\ Taken \in Nat /\ sz \in Nat
         /\ AC!Count(frame) = Taken + Loading + sz
         /\ DOMAIN data_chunk = DOMAIN frame.types /\ DOMAIN data_chunk \subseteq Nat \ {0}
         /\ DOMAIN data_chunk = 1 .. Len(data_chunk)
         /\ \A c \in DOMAIN data_chunk : DOMAIN data_chunk[c] = 1 .. Loading
<1>1. /\ DOMAIN data_chunk = DOMAIN frame.data /\ DOMAIN frame.types = DOMAIN frame.data
      /\ DOMAIN frame.data = 1 .. Len(frame.data) /\ Len(frame.data) \in Nat \ {0}
      /\ data_chunk \in Seq(Seq(Item)) /\ AC!Count(frame) \in Nat
  BY FrameType DEF IInv, Values, Phase, Loaded
<1>2. \A c \in DOMAIN data_chunk :
        data_chunk[c] \in Seq(Item) /\ Len(data_chunk[c]) = Loading /\ Loading \in Rows
  BY <1>1 DEF IInv, Values, Loaded
<1>3. Loading \in Nat \ {0}
  BY <1>1, <1>2, RowsSize
<1>4. Taken \in Nat /\ sz \in Nat /\ Taken = AC!Count(frame) - sz - Loading
  BY DEF IInv, Values, Rest, Taken
<1>5. AC!Count(frame) = Taken + Loading + sz
  BY <1>1, <1>3, <1>4
<1>6. DOMAIN data_chunk = 1 .. Len(data_chunk) /\ DOMAIN data_chunk \subseteq Nat \ {0}
  BY <1>1
<1>7. \A c \in DOMAIN data_chunk : DOMAIN data_chunk[c] = 1 .. Loading
  BY <1>2
<1> QED
  BY <1>1, <1>3, <1>4, <1>5, <1>6, <1>7

(* Once its columns are written, the rows of a batch are writable too.     *)
LEMMA BatchWritable ==
  ASSUME IInv, KInv, pc = "columns", i > Len(data_chunk)
  PROVE  \A r \in 1 .. Taken + Loading : AC!WritableRow(frame, r)
<1>1. /\ Loading \in Nat /\ Taken \in Nat /\ DOMAIN data_chunk = DOMAIN frame.types
      /\ DOMAIN data_chunk = 1 .. Len(data_chunk) /\ Len(data_chunk) \in Nat /\ i \in Nat
  BY BatchSizes DEF IInv, Values
<1>2. SUFFICES ASSUME NEW r \in 1 .. Taken + Loading PROVE AC!WritableRow(frame, r)
  OBVIOUS
<1>3. CASE r <= Taken
  BY <1>1, <1>3 DEF KInv, WritableSoFar
<1>4. CASE ~(r <= Taken)
  <2>1. SUFFICES ASSUME NEW c \in DOMAIN frame.types
                 PROVE  AC!Writable(frame.types[c], AC!Item(frame.data[c], r))
    BY DEF AC!WritableRow
  <2>2. r - Taken \in 1 .. Loading /\ Taken + (r - Taken) = r
    BY <1>1, <1>4
  <2>3. c \in DOMAIN data_chunk /\ c < i
    BY <1>1
  <2>4. data_chunk[c][r - Taken] = AC!Item(frame.data[c], Taken + (r - Taken))
    BY <2>2, <2>3 DEF IInv, Loaded
  <2>5. AC!Writable(frame.types[c], data_chunk[c][r - Taken])
    BY <2>2, <2>3 DEF KInv, WrittenSoFar
  <2> QED
    BY <2>2, <2>4, <2>5
<1> QED
  BY <1>3, <1>4

LEMMA RowsOfFrame ==
  ASSUME IInv, pc \in {"load", "columns", "chunk"}, NEW n \in Nat, n <= AC!Count(frame)
  PROVE  /\ First(n) \in Seq(SlotRow) /\ Len(First(n)) = n
         /\ First(n) = SubSeq(AC!Rows(frame), 1, n)
<1>1. /\ AC!Count(frame) \in Nat /\ frame.types \in Seq(Types)
      /\ frame.data \in Seq(Seq(Items)) /\ DOMAIN frame.types = 1 .. Len(frame.types)
      /\ Len(frame.types) = Len(frame.data)
      /\ Len(frame.types) \in Nat /\ DOMAIN frame.data = 1 .. Len(frame.data)
  BY FrameType DEF IInv, Phase
<1> DEFINE rows == AC!Rows(frame)
<1>2. ASSUME NEW r \in 1 .. AC!Count(frame) PROVE rows[r] \in SlotRow
  <2> DEFINE cell(c) == AC!Stored(frame.types[c], AC!Item(frame.data[c], r))
  <2>1. rows[r] = [c \in 1 .. Len(frame.types) |-> cell(c)]
    BY <1>1 DEF AC!Rows
  <2>2. ASSUME NEW c \in 1 .. Len(frame.types) PROVE cell(c) \in Slot
    <3>1. frame.types[c] \in Types /\ frame.data[c] \in Seq(Items) /\ r \in Nat \ {0}
      BY <1>1
    <3>2. AC!Item(frame.data[c], r) \in Item
      BY <3>1, ItemType
    <3> QED
      BY <3>1, <3>2 DEF AC!Stored, Slot, Word
  <2> HIDE DEF cell, Slot
  <2>3. [c \in 1 .. Len(frame.types) |-> cell(c)] \in Seq(Slot)
    BY <1>1, <2>2, FunctionOnto
  <2> QED
    BY <2>1, <2>3 DEF SlotRow
<1>3. \A r \in 1 .. n : r \in 1 .. AC!Count(frame)
  BY <1>1
<1> HIDE DEF rows
<1>4. First(n) \in Seq(SlotRow) /\ Len(First(n)) = n /\ \A r \in 1 .. n : First(n)[r] = rows[r]
  <2>1. First(n) = [r \in 1 .. n |-> rows[r]]
    BY DEF First, rows
  <2>2. First(n) \in [1 .. n -> SlotRow]
    BY <1>2, <1>3, <2>1
  <2> QED
    BY <2>1, <2>2, FunctionOnto
<1> DEFINE w == SubSeq(rows, 1, n)
<1>5. w \in Seq(SlotRow) /\ Len(w) = n /\ \A r \in 1 .. n : w[r] = rows[r]
  <2>1. \A r \in 1 .. n : rows[r] \in SlotRow
    BY <1>2, <1>3
  <2>2. /\ w \in Seq(SlotRow) /\ Len(w) = IF 1 <= n THEN n - 1 + 1 ELSE 0
        /\ \A r \in 1 .. n - 1 + 1 : w[r] = rows[1 + r - 1]
    BY <2>1, SubSeqProperties
  <2> HIDE DEF w
  <2>3. Len(w) = n
    BY <2>2
  <2>4. \A r \in 1 .. n : 1 + r - 1 = r /\ r \in 1 .. n - 1 + 1
    OBVIOUS
  <2> QED
    BY <2>2, <2>3, <2>4
<1> HIDE DEF w
<1>6. First(n) = w
  <2>1. First(n) \in Seq(SlotRow) /\ w \in Seq(SlotRow) /\ Len(First(n)) = Len(w)
        /\ \A r \in 1 .. Len(First(n)) : First(n)[r] = w[r]
    BY <1>4, <1>5
  <2> QED
    BY <2>1, SeqEqual
<1> QED
  BY <1>4, <1>6 DEF w, rows

------------------------------------------------------------------------------
\* Each step is one of the contract, or none

LEMMA AtEnds == ASSUME pc \in {"idle", "describe"} PROVE KInv
  BY DEF KInv, TableFound, WritableSoFar, WrittenSoFar, WholeSoFar

(* The end of a call is an end in the contract, with the same outcome.     *)
LEMMA ReturnMaps ==
  ASSUME IInv, NEW out, NEW left, Return(out, left)
  PROVE  KInv' /\ AC!Finish(out)
<1> DEFINE answer == [frame |-> frame, out |-> out, left |-> left, landed |-> landed]
<1>1. /\ replies' = Append(replies, answer) /\ replies \in Seq(Answer) /\ answer.out = out
      /\ frame' = NoFrame /\ faults' = {} /\ landed' = 0 /\ table' = table /\ pc' = "idle"
  BY DEF Return, IInv, Values
<1>2. KInv'
  BY <1>1 DEF KInv, TableFound, WritableSoFar, WrittenSoFar, WholeSoFar
<1> HIDE DEF answer
<1>3. /\ Len(replies) \in Nat /\ DOMAIN replies = 1 .. Len(replies)
      /\ DOMAIN replies' = 1 .. Len(replies) + 1
      /\ \A k \in 1 .. Len(replies) + 1 :
           replies'[k] = IF k <= Len(replies) THEN replies[k] ELSE answer
  <2> HIDE DEF Answer
  <2> QED
    BY <1>1
<1>4. outs' = Append(outs, out)
  <2> DEFINE n == Len(replies)
             all == {replies[k].out : k \in 1 .. n} \cup {out}
             f == [k \in 1 .. n + 1 |-> IF k <= n THEN replies[k].out ELSE out]
  <2>1. outs = [k \in 1 .. n |-> replies[k].out] /\ n \in Nat
    BY <1>3 DEF outs
  <2>2. outs' = f
    BY <1>1, <1>3 DEF outs
  <2>3. outs \in [1 .. n -> all] /\ out \in all
    BY <2>1
  <2>4. \A k \in 1 .. n : outs[k] = replies[k].out
    BY <2>1
  <2> HIDE DEF n, all, f
  <2>5. outs \in Seq(all) /\ Len(outs) = n
    BY <2>1, <2>3, FunctionOnto
  <2>6. Append(outs, out) \in Seq(all) /\ Len(Append(outs, out)) = n + 1
        /\ Append(outs, out)[n + 1] = out
        /\ \A k \in 1 .. n : Append(outs, out)[k] = outs[k]
    BY <2>3, <2>5, AppendProperties
  <2>7. f \in [1 .. n + 1 -> all] /\ \A k \in 1 .. n + 1 :
          f[k] = IF k <= n THEN outs[k] ELSE out
    BY <2>1, <2>3, <2>4 DEF f
  <2>8. f \in Seq(all) /\ Len(f) = n + 1
    BY <2>1, <2>7, FunctionOnto
  <2>9. \A k \in 1 .. n + 1 : f[k] = Append(outs, out)[k]
    BY <2>1, <2>6, <2>7
  <2> QED
    BY <2>2, <2>6, <2>8, <2>9, SeqEqual
<1> QED
  BY <1>1, <1>2, <1>4 DEF AC!Finish, outs

LEMMA CallMaps ==
  ASSUME IInv, NEW f \in Frames, NEW may \in SUBSET Faults, Call(f, may)
  PROVE  KInv' /\ AC!Next
<1>1. /\ pc = "idle" /\ pc' = "describe" /\ frame' = f /\ faults' = may
      /\ UNCHANGED <<landed, table, replies>> /\ Len(replies) < MaxCalls /\ frame = NoFrame
  BY DEF Call, IInv, Phase
<1>2. KInv'
  BY <1>1 DEF KInv, TableFound, WritableSoFar, WrittenSoFar, WholeSoFar
<1>3. Len(outs) = Len(replies) /\ outs' = outs
  <2>1. replies \in Seq(Answer)
    BY DEF IInv, Values
  <2> HIDE DEF Answer
  <2>2. Len(replies) \in Nat /\ DOMAIN replies = 1 .. Len(replies)
    BY <2>1
  <2> DEFINE all == {replies[k].out : k \in 1 .. Len(replies)}
  <2>3. outs \in [1 .. Len(replies) -> all]
    BY <2>2 DEF outs
  <2> HIDE DEF all
  <2> QED
    BY <1>1, <2>2, <2>3, FunctionOnto DEF outs
<1>4. AC!Begin(f, may)
  BY <1>1, <1>3 DEF AC!Begin, outs
<1> QED
  BY <1>2, <1>4 DEF AC!Next

LEMMA EarlyEndsMap ==
  ASSUME IInv, NoTable \/ DescribeFails \/ TypesDiffer \/ ColumnsDiffer
  PROVE  KInv' /\ AC!Next
<1>1. frame # NoFrame
  BY DEF NoTable, DescribeFails, TypesDiffer, ColumnsDiffer, Named, Described, IInv, Phase
<1>2. CASE NoTable
  <2>1. KInv' /\ AC!Finish("catalog") /\ AC!Rejected(frame) /\ frame.target # "unnamed"
    BY <1>2, ReturnMaps DEF NoTable, AC!Rejected
  <2> QED
    BY <1>1, <2>1 DEF AC!Next, AC!Reject
<1>3. CASE DescribeFails
  <2>1. /\ KInv' /\ AC!Finish("aborted")
        /\ ("describe" \in faults \/ frame.target = "unnamed")
    BY <1>3, ReturnMaps DEF DescribeFails
  <2> QED
    BY <1>1, <2>1 DEF AC!Next, AC!Abort
<1>4. CASE TypesDiffer
  <2>1. KInv' /\ AC!Finish("types") /\ AC!Rejected(frame) /\ frame.target # "unnamed"
    BY <1>4, ReturnMaps DEF TypesDiffer, Named, AC!Rejected
  <2> QED
    BY <1>1, <2>1 DEF AC!Next, AC!Reject
<1>5. CASE ColumnsDiffer
  <2>1. KInv' /\ AC!Finish("columns") /\ AC!Rejected(frame) /\ frame.target # "unnamed"
    BY <1>5, ReturnMaps DEF ColumnsDiffer, Named, AC!Rejected
  <2> QED
    BY <1>1, <2>1 DEF AC!Next, AC!Reject
<1> QED
  BY <1>2, <1>3, <1>4, <1>5

LEMMA CreateMaps == ASSUME IInv, Create PROVE KInv' /\ UNCHANGED promised
<1>1. /\ frame.target \notin {"missing", "unnamed"}
      /\ \/ pc' = "convert"
         \/ pc' = "chunk" /\ (frame.target = "elsewhere" \/ "create" \in faults)
      /\ UNCHANGED <<frame, faults, landed, table, replies>>
  BY DEF Create, Named, Described
<1>2. UNCHANGED promised
  BY <1>1 DEF promised, outs
<1>3. pc' = "chunk" => ~AC!Reliable'
  BY <1>1 DEF AC!Reliable
<1> QED
  BY <1>1, <1>2, <1>3 DEF KInv, TableFound, WritableSoFar, WrittenSoFar, WholeSoFar

(* What stops a call while it converts or writes no column can hold.       *)
LEMMA AbortMaps ==
  ASSUME IInv, KInv, pc \in {"convert", "columns"}, Return("aborted", held), AC!Unwritable
  PROVE  KInv' /\ AC!Next
<1>1. KInv' /\ AC!Finish("aborted") /\ ~AC!Rejected(frame) /\ frame # NoFrame
  BY ReturnMaps, NotRejected DEF KInv
<1> QED
  BY <1>1 DEF AC!Next, AC!Abort

LEMMA ConvertMaps ==
  ASSUME IInv, KInv, Convert
  PROVE  KInv' /\ (AC!Next \/ UNCHANGED promised)
<1>1. pc = "convert" /\ buffer = <<>> /\ landed = 0
  BY DEF Convert, IInv, Phase
<1>2. CASE ~Convertible
  <2>1. AC!Unwritable
    BY <1>2 DEF Convertible, AC!Unwritable
  <2> QED
    BY <1>1, <1>2, <2>1, AbortMaps DEF Convert
<1>3. CASE Convertible
  <2>1. /\ sz' = Len(frame.data[1]) /\ pc' = "load"
        /\ UNCHANGED <<frame, faults, buffer, landed, table, replies>>
    BY <1>3 DEF Convert
  <2>2. AC!Count(frame) \in Nat
    BY <1>1, FrameType
  <2>3. Taken' = 0
    BY <2>1, <2>2 DEF Taken, Loading, AC!Count
  <2>4. TableFound' /\ WrittenSoFar'
    BY <1>1, <2>1 DEF KInv, TableFound, WrittenSoFar
  <2>5. WritableSoFar'
    BY <1>3, <2>1, <2>3 DEF WritableSoFar, Convertible
  <2>6. Sent' = <<>>
    BY <1>1, <2>1, NothingSent DEF Sent
  <2>7. First(0)' = <<>>
    <3>1. First(0)' = [r \in 1 .. 0 |-> AC!Rows(frame)'[r]]
      BY DEF First
    <3>2. First(0)' \in [1 .. 0 -> {}]
      <4>1. 1 .. 0 = {}
        OBVIOUS
      <4> QED
        BY <3>1, <4>1
    <3>3. First(0)' \in Seq({}) /\ Len(First(0)') = 0
      BY <3>2, FunctionOnto
    <3> QED
      BY <3>3, EmptySeq
  <2>8. WholeSoFar'
    BY <2>1, <2>3, <2>6, <2>7 DEF WholeSoFar, First
  <2> QED
    BY <2>1, <2>4, <2>5, <2>8 DEF KInv, promised, outs
<1> QED
  BY <1>2, <1>3

(* Taking the next batch moves its rows from those left to those loading.  *)
LEMMA LoadBatchMaps == ASSUME IInv, KInv, LoadBatch PROVE KInv' /\ UNCHANGED promised
<1> DEFINE rows == BatchRows
<1>1. /\ pc = "load" /\ sz > 0 /\ i' = 1 /\ pc' = "columns" /\ sz' = sz - rows
      /\ data_chunk' = [c \in DOMAIN data |-> [r \in 1 .. rows |-> AC!Item(data[c], r)]]
      /\ UNCHANGED <<frame, faults, buffer, landed, table, replies>>
  BY DEF LoadBatch, Remaining
<1>2. /\ rows \in Nat /\ sz \in Nat
  BY <1>1, SizesAssumption DEF BatchRows, Least, IInv, Values
<1> HIDE DEF rows
<1>3. /\ 1 \in DOMAIN data /\ DOMAIN data \subseteq Nat \ {0}
      /\ AC!Count(frame) \in Nat /\ Loading = 0
  BY <1>1, FrameType DEF IInv, Rest, Loading
<1>4. Loading' = rows
  <2> DEFINE col == [r \in 1 .. rows |-> AC!Item(data[1], r)]
             all == {AC!Item(data[1], r) : r \in 1 .. rows}
  <2>1. col \in [1 .. rows -> all]
    OBVIOUS
  <2>2. data_chunk'[1] = col
    BY <1>1, <1>3
  <2> HIDE DEF col, all
  <2> QED
    BY <1>1, <1>2, <2>1, <2>2, FunctionOnto DEF Loading
<1>5. Taken' = Taken
  <2>1. Taken' = AC!Count(frame) - (sz - rows) - rows /\ Taken = AC!Count(frame) - sz - 0
    BY <1>1, <1>3, <1>4 DEF Taken, AC!Count
  <2> QED
    BY <1>2, <1>3, <2>1
<1>6. TableFound' /\ WritableSoFar'
  BY <1>1, <1>5 DEF KInv, TableFound, WritableSoFar, Convertible
<1>7. WrittenSoFar'
  <2>1. DOMAIN data_chunk' \subseteq Nat \ {0}
    BY <1>1, <1>3
  <2> QED
    BY <1>1, <2>1 DEF WrittenSoFar
<1>8. WholeSoFar'
  <2>1. Sent' = Sent /\ First(Taken)' = First(Taken) /\ AC!Reliable' = AC!Reliable
    BY <1>1, <1>5 DEF Sent, First, AC!Rows, AC!Count, AC!Stored, AC!Item, AC!Reliable
  <2> QED
    BY <1>1, <2>1 DEF KInv, WholeSoFar
<1> QED
  BY <1>1, <1>6, <1>7, <1>8 DEF KInv, promised, outs

LEMMA WriteColumnMaps == ASSUME Fitting, IInv, KInv, WriteColumn
                         PROVE  KInv' /\ UNCHANGED promised
<1> DEFINE t == frame.types[i]
           col == data_chunk[i]
<1>1. /\ pc = "columns" /\ i <= Len(data_chunk) /\ i' = i + 1 /\ Copyable(t, col)
      /\ UNCHANGED <<frame, faults, pc, data, sz, data_chunk, held, buffer, landed, table,
                     replies>>
  BY DEF WriteColumn
<1>2. /\ i \in DOMAIN data_chunk /\ i \in Nat \ {0} /\ DOMAIN data_chunk \subseteq Nat \ {0}
      /\ DOMAIN data_chunk = DOMAIN frame.types /\ DOMAIN col = 1 .. Loading
      /\ Taken \in Nat /\ Loading \in Nat
  <2>1. i \in Nat \ {0}
    BY DEF IInv, Values
  <2>2. /\ DOMAIN data_chunk \subseteq Nat \ {0} /\ DOMAIN data_chunk = DOMAIN frame.types
        /\ \A c \in DOMAIN data_chunk : DOMAIN data_chunk[c] = 1 .. Loading
        /\ DOMAIN data_chunk = 1 .. Len(data_chunk) /\ Taken \in Nat /\ Loading \in Nat
    BY <1>1, BatchSizes
  <2> QED
    BY <1>1, <2>1, <2>2
<1>3. Loading' = Loading /\ Taken' = Taken
  BY <1>1 DEF Loading, Taken, AC!Count
<1>4. ASSUME NEW r \in 1 .. Loading PROVE AC!Writable(t, col[r])
  <2>1. t \in (Copied \ Narrow) \cup Text
    BY <1>1, <1>2, FaithfulFrame DEF Faithful, IInv, Phase
  <2>2. col[r] \in Item
    BY <1>1, <1>2 DEF IInv, Values
  <2>3. CASE t \in Text
    BY <2>2, <2>3, ValuesAssumption, TypesAssumption DEF AC!Writable, Item
  <2>4. CASE t \in Copied /\ col[r] # NULL
    BY <1>1, <1>2, <2>4 DEF Copyable, AC!Writable
  <2>5. CASE t \in Copied /\ col[r] = NULL
    <3>1. SUFFICES ASSUME t \in Stamps PROVE FALSE
      BY <2>5 DEF AC!Writable
    <3>2. Convertible /\ i \in DOMAIN frame.data
      BY <1>1, <1>2 DEF KInv, WritableSoFar, IInv, Loaded
    <3>3. \A n \in DOMAIN frame.data[i] : AC!Writable(t, frame.data[i][n])
      BY <3>1, <3>2 DEF Convertible
    <3>4. AC!Item(frame.data[i], Taken + r) = NULL
      BY <1>1, <1>2, <2>5 DEF IInv, Loaded
    <3>5. frame.data[i] \in Seq(Items) /\ Taken + r \in Nat \ {0}
      BY <1>1, <1>2, <3>2, FrameType
    <3>6. DOMAIN frame.data[i] = 1 .. Len(frame.data[i]) /\ Len(frame.data[i]) \in Nat
      BY <3>5
    <3>7. /\ Taken + r <= Len(frame.data[i])
          /\ AC!Item(frame.data[i], Taken + r) = frame.data[i][Taken + r]
      BY <3>4, ValuesAssumption DEF AC!Item
    <3>8. Taken + r \in DOMAIN frame.data[i]
      BY <3>5, <3>6, <3>7
    <3> QED
      BY <3>1, <3>3, <3>4, <3>7, <3>8 DEF AC!Writable
  <2> QED
    BY <2>1, <2>3, <2>4, <2>5
<1>5. TableFound' /\ WritableSoFar'
  BY <1>1, <1>3 DEF KInv, TableFound, WritableSoFar, Convertible
<1>6. WrittenSoFar'
  <2>1. SUFFICES ASSUME NEW c \in DOMAIN data_chunk, c < i + 1, NEW r \in 1 .. Loading
                 PROVE  AC!Writable(frame.types[c], data_chunk[c][r])
    BY <1>1, <1>3 DEF WrittenSoFar
  <2>2. c = i \/ c < i
    BY <1>2, <2>1
  <2>3. CASE c = i
    BY <1>4, <2>1, <2>3
  <2>4. CASE c < i
    BY <1>1, <2>1, <2>4 DEF KInv, WrittenSoFar
  <2> QED
    BY <2>2, <2>3, <2>4
<1>7. WholeSoFar'
  <2>1. Sent' = Sent /\ First(Taken)' = First(Taken) /\ AC!Reliable' = AC!Reliable
    BY <1>1, <1>3 DEF Sent, First, AC!Rows, AC!Count, AC!Stored, AC!Item, AC!Reliable
  <2> QED
    BY <1>1, <2>1 DEF KInv, WholeSoFar
<1> QED
  BY <1>1, <1>5, <1>6, <1>7 DEF KInv, promised, outs

LEMMA WriteRaisesMaps == ASSUME IInv, KInv, WriteRaises PROVE KInv' /\ AC!Next
<1>1. /\ pc = "columns" /\ i <= Len(data_chunk) /\ ~Copyable(frame.types[i], data_chunk[i])
      /\ Return("aborted", held)
  BY DEF WriteRaises
<1>2. /\ i \in DOMAIN data_chunk /\ DOMAIN data_chunk = DOMAIN frame.types
      /\ DOMAIN data_chunk[i] = 1 .. Loading /\ Taken \in Nat /\ Loading \in Nat /\ sz \in Nat
      /\ AC!Count(frame) = Taken + Loading + sz
  <2>1. i \in Nat \ {0}
    BY DEF IInv, Values
  <2>2. DOMAIN data_chunk = 1 .. Len(data_chunk)
    BY <1>1, BatchSizes
  <2>3. i \in DOMAIN data_chunk
    BY <1>1, <2>1, <2>2
  <2> QED
    BY <1>1, <2>3, BatchSizes
<1>3. PICK r \in DOMAIN data_chunk[i] :
        data_chunk[i][r] # NULL /\ data_chunk[i][r] \notin Fits[frame.types[i]]
  BY <1>1 DEF Copyable
<1>4. data_chunk[i][r] = AC!Item(frame.data[i], Taken + r)
  BY <1>1, <1>2, <1>3 DEF IInv, Loaded
<1>5. Taken + r \in 1 .. AC!Count(frame)
  BY <1>2, <1>3
<1>6. ~AC!WritableRow(frame, Taken + r)
  BY <1>2, <1>3, <1>4 DEF AC!WritableRow, AC!Writable
<1>7. AC!Unwritable
  BY <1>5, <1>6 DEF AC!Unwritable
<1> QED
  BY <1>1, <1>7, AbortMaps

(* Rows that are flushed land as the contract has it.                      *)
LEMMA LandMaps ==
  ASSUME IInv, IInv', KInv, pc \in {"load", "columns"},
         NEW more \in Seq(SlotRow), more # <<>>,
         table' = table \o more, landed' = landed + Len(more), buffer' = <<>>,
         UNCHANGED <<frame, faults, replies>>,
         NEW n \in Nat, n <= AC!Count(frame),
         \A r \in 1 .. n : AC!WritableRow(frame, r),
         AC!Ordered(Sent', First(n)), AC!Reliable => Sent' = First(n)
  PROVE  AC!Land
<1>1. ~AC!Rejected(frame) /\ frame # NoFrame
  BY NotRejected DEF KInv
<1>2. /\ table \in Seq(SlotRow) /\ landed \in Nat /\ landed <= Len(table) /\ Len(table) \in Nat
      /\ Len(more) \in Nat \ {0}
  <2>1. table \in Seq(SlotRow) /\ landed \in Nat /\ landed <= Len(table)
    BY DEF IInv, Values, SlotRow
  <2> QED
    BY <2>1
<1>3. /\ table' \in Seq(SlotRow) /\ Len(table') = Len(table) + Len(more)
      /\ \A k \in 1 .. Len(table) : table'[k] = table[k]
  <2>1. /\ table \o more \in Seq(SlotRow) /\ Len(table \o more) = Len(table) + Len(more)
        /\ \A k \in 1 .. Len(table) + Len(more) :
             (table \o more)[k] = IF k <= Len(table) THEN table[k] ELSE more[k - Len(table)]
    BY <1>2, ConcatProperties
  <2>2. \A k \in 1 .. Len(table) : k \in 1 .. Len(table) + Len(more) /\ k <= Len(table)
    BY <1>2
  <2> QED
    BY <2>1, <2>2
<1>4. SubSeq(table', 1, Len(table)) = table
  <2> DEFINE w == SubSeq(table', 1, Len(table))
  <2>1. \A k \in 1 .. Len(table) : table'[k] \in SlotRow
    BY <1>2, <1>3
  <2>2. /\ w \in Seq(SlotRow) /\ Len(w) = IF 1 <= Len(table) THEN Len(table) - 1 + 1 ELSE 0
        /\ \A k \in 1 .. Len(table) - 1 + 1 : w[k] = table'[1 + k - 1]
    BY <1>2, <2>1, SubSeqProperties
  <2> HIDE DEF w
  <2>3. Len(w) = Len(table)
    BY <1>2, <2>2
  <2>4. ASSUME NEW k \in 1 .. Len(w) PROVE w[k] = table[k]
    <3>1. k \in 1 .. Len(table) - 1 + 1 /\ 1 + k - 1 = k /\ k \in 1 .. Len(table)
      BY <1>2, <2>3
    <3> QED
      BY <1>3, <2>2, <3>1
  <2>5. w = table
    BY <1>2, <2>2, <2>3, <2>4, SeqEqual
  <2> QED
    BY <2>5 DEF w
<1>5. Len(table') > Len(table) /\ landed' = landed + Len(table') - Len(table)
  BY <1>2, <1>3
<1> DEFINE sent == SubSeq(table', Len(table') - landed' + 1, Len(table'))
           writable == {r \in 1 .. AC!Count(frame) :
                          \A s \in 1 .. r : AC!WritableRow(frame, s)}
           rows == [r \in writable |-> AC!Rows(frame)[r]]
<1>6. sent = Sent' /\ Len(sent) = landed'
  <2>1. landed' \in Nat /\ landed' <= Len(table') /\ Len(table') \in Nat
    BY <1>2, <1>3
  <2>2. \A k \in Len(table') - landed' + 1 .. Len(table') : table'[k] \in SlotRow
    BY <1>3, <2>1
  <2>3. /\ sent \in Seq(SlotRow)
        /\ Len(sent) = IF Len(table') - landed' + 1 <= Len(table')
                         THEN Len(table') - (Len(table') - landed' + 1) + 1 ELSE 0
    BY <2>1, <2>2, SubSeqProperties
  <2>4. Sent' = sent \o <<>>
    BY DEF Sent
  <2> HIDE DEF sent
  <2>5. Sent' = sent
    BY <2>3, <2>4, ConcatEmptySeq
  <2> QED
    BY <2>1, <2>3, <2>5
<1>7. AC!Ordered(sent, rows)
  <2>1. DOMAIN First(n) = 1 .. n /\ \A r \in 1 .. n : First(n)[r] = AC!Rows(frame)[r]
    BY FirstRows
  <2>2. AC!Count(frame) \in Nat
    BY FrameType
  <2>3. 1 .. n \subseteq writable
    BY <2>2
  <2>4. DOMAIN First(n) \subseteq DOMAIN rows /\ \A r \in DOMAIN First(n) : First(n)[r] = rows[r]
    BY <2>1, <2>3
  <2> HIDE DEF rows, sent
  <2> QED
    BY <1>6, <2>4, OrderedMore
<1>8. AC!Reliable => sent = SubSeq(AC!Rows(frame), 1, landed')
  BY <1>6, RowsOfFrame
<1>9. UNCHANGED <<frame, faults, outs>>
  BY DEF outs
<1> QED
  BY <1>1, <1>4, <1>5, <1>7, <1>8, <1>9 DEF AC!Land, outs

LEMMA AppendChunkMaps ==
  ASSUME Fitting, IInv, IInv', KInv, AppendChunk
  PROVE  KInv' /\ (AC!Next \/ UNCHANGED promised)
<1> DEFINE n == Taken + Loading
<1>1. /\ pc = "columns" /\ i > Len(data_chunk) /\ pc' = "load"
      /\ UNCHANGED <<frame, faults, data, sz, data_chunk, i, replies>>
  BY DEF AppendChunk, batch
<1>2. /\ Loading \in Nat \ {0} /\ Taken \in Nat /\ sz \in Nat
      /\ AC!Count(frame) = Taken + Loading + sz /\ AC!Count(frame) \in Nat
  BY <1>1, BatchSizes, FrameType
<1>3. Faithful(frame) /\ ~AC!Rejected(frame) /\ frame # NoFrame
  BY <1>1, NotRejected, FaithfulFrame DEF KInv
<1>4. /\ ChunkRows \in Seq(SlotRow) /\ Len(ChunkRows) = Loading
      /\ \A r \in 1 .. Loading : ChunkRows[r] = AC!Rows(frame)[Taken + r]
  BY <1>1, <1>3, ChunkType DEF SlotRow
<1>5. Taken' = n /\ n \in Nat /\ n <= AC!Count(frame)
  <2>1. Loading' = 0 /\ Taken' = AC!Count(frame) - sz - 0
    BY <1>1 DEF Loading, Taken, AC!Count
  <2> QED
    BY <1>2, <2>1
<1>6. /\ table \in Seq(SlotRow) /\ buffer \in Seq(SlotRow) /\ Sent \in Seq(SlotRow)
  <2>1. /\ table \in Seq(SlotRow) /\ buffer \in Seq(SlotRow) /\ InTable \in Seq(SlotRow)
        /\ Sent = InTable \o buffer
    BY SentParts DEF IInv, Values, SlotRow
  <2> QED
    BY <2>1, ConcatProperties
<1>7. /\ First(Taken) \in Seq(SlotRow) /\ Len(First(Taken)) = Taken
      /\ First(n) \in Seq(SlotRow) /\ Len(First(n)) = n
      /\ \A r \in 1 .. Taken : First(Taken)[r] = AC!Rows(frame)[r]
      /\ \A r \in 1 .. n : First(n)[r] = AC!Rows(frame)[r]
  <2>1. Taken <= AC!Count(frame)
    BY <1>2
  <2> HIDE DEF n
  <2> QED
    BY <1>1, <1>2, <1>5, <2>1, RowsOfFrame, FirstRows
<1>8. First(n) = First(Taken) \o ChunkRows
  <2> DEFINE u == First(Taken) \o ChunkRows
  <2>1. /\ u \in Seq(SlotRow) /\ Len(u) = Taken + Loading
        /\ \A k \in 1 .. Taken + Loading :
             u[k] = IF k <= Taken THEN First(Taken)[k] ELSE ChunkRows[k - Taken]
    BY <1>4, <1>7, ConcatProperties
  <2> HIDE DEF u
  <2>2. ASSUME NEW k \in 1 .. n PROVE u[k] = First(n)[k]
    <3>1. CASE k <= Taken
      BY <1>2, <1>7, <2>1, <3>1
    <3>2. CASE ~(k <= Taken)
      <4>1. k - Taken \in 1 .. Loading /\ Taken + (k - Taken) = k
        BY <1>2, <3>2
      <4>2. u[k] = ChunkRows[k - Taken] /\ First(n)[k] = AC!Rows(frame)[k]
        BY <1>7, <2>1, <3>2
      <4> QED
        BY <1>4, <4>1, <4>2
    <3> QED
      BY <3>1, <3>2
  <2>3. u = First(n)
    <3> HIDE DEF n
    <3>1. Len(u) = n
      BY <2>1 DEF n
    <3> QED
      BY <1>7, <2>1, <2>2, <3>1, SeqEqual
  <2> QED
    BY <2>3 DEF u
<1>9. AC!Reliable => Sent' = First(n)
  <2>1. SUFFICES ASSUME AC!Reliable PROVE Sent' = First(n)
    OBVIOUS
  <2>2. Sent' = Sent \o ChunkRows
    BY <2>1, Appended DEF AC!Reliable
  <2>3. Sent = First(Taken)
    BY <1>1, <2>1 DEF KInv, WholeSoFar
  <2> QED
    BY <1>8, <2>2, <2>3
<1>10. \A r \in 1 .. n : AC!WritableRow(frame, r)
  BY <1>1, BatchWritable
<1>11. First(Taken)' = First(n)
  BY <1>1, <1>5 DEF First, AC!Rows, AC!Count, AC!Stored, AC!Item
<1>12. AC!Ordered(Sent', First(n))
  <2>1. AC!Ordered(Sent, First(Taken))' /\ Faithful(frame)'
    BY <1>1, <1>3 DEF IInv, SentSoFar, Faithful
  <2> QED
    BY <1>11, <2>1 DEF AC!Ordered
<1> HIDE DEF n
<1>13. KInv'
  <2>1. TableFound' /\ WrittenSoFar'
    BY <1>1 DEF KInv, TableFound, WrittenSoFar
  <2>2. WritableSoFar'
    <3>1. Convertible' /\ \A r \in 1 .. n : AC!WritableRow(frame, r)'
      BY <1>1, <1>10 DEF KInv, WritableSoFar, Convertible
    <3> QED
      BY <1>5, <3>1 DEF WritableSoFar
  <2>3. WholeSoFar'
    BY <1>1, <1>9, <1>11 DEF WholeSoFar, AC!Reliable
  <2> QED
    BY <2>1, <2>2, <2>3 DEF KInv
<1>14. CASE UNCHANGED <<table, landed>>
  BY <1>1, <1>13, <1>14 DEF promised, outs
<1>15. CASE /\ table' = table \o buffer \o ChunkRows /\ buffer' = <<>>
            /\ landed' = landed + Len(buffer) + Len(ChunkRows)
  <2> DEFINE more == buffer \o ChunkRows
  <2>1. more \in Seq(SlotRow) /\ Len(more) = Len(buffer) + Len(ChunkRows)
    BY <1>4, <1>6, ConcatProperties
  <2>2. table' = table \o more
    <3>1. (table \o buffer) \o ChunkRows = table \o (buffer \o ChunkRows)
      <4>1. table \in Seq(SlotRow) /\ buffer \in Seq(SlotRow) /\ ChunkRows \in Seq(SlotRow)
        BY <1>4, <1>6
      <4> QED
        BY <4>1, ConcatAssociative
    <3> QED
      BY <1>15, <3>1
  <2> HIDE DEF more
  <2>3. Len(buffer) \in Nat /\ landed \in Nat
    BY <1>6 DEF IInv, Values
  <2>4. landed' = landed + Len(more) /\ more # <<>>
    BY <1>2, <1>4, <1>15, <2>1, <2>3
  <2>5. /\ pc \in {"load", "columns"} /\ UNCHANGED <<frame, faults, replies>>
        /\ buffer' = <<>>
    BY <1>1, <1>15
  <2>6. AC!Land
    BY <1>5, <1>9, <1>10, <1>12, <2>1, <2>2, <2>4, <2>5, LandMaps
  <2> QED
    BY <1>13, <2>6 DEF AC!Next
<1> QED
  BY <1>13, <1>14, <1>15 DEF AppendChunk

LEMMA DestroyAppenderMaps ==
  ASSUME Fitting, IInv, IInv', KInv, DestroyAppender
  PROVE  KInv' /\ (AC!Next \/ UNCHANGED promised)
<1>1. /\ pc = "load" /\ ~(sz > 0) /\ buffer' = <<>> /\ pc' = "chunk"
      /\ UNCHANGED <<frame, faults, data, sz, data_chunk, i, replies>>
  BY DEF DestroyAppender, batch
<1>2. Taken \in Nat /\ Taken = AC!Count(frame) /\ AC!Count(frame) \in Nat
  <2>1. sz = 0 /\ AC!Count(frame) \in Nat
    BY <1>1, FrameType DEF IInv, Values
  <2> QED
    BY <1>1, <2>1 DEF Taken, Loading
<1>3. Faithful(frame) /\ ~AC!Rejected(frame) /\ frame # NoFrame
  BY <1>1, NotRejected, FaithfulFrame DEF KInv
<1>4. /\ table \in Seq(SlotRow) /\ buffer \in Seq(SlotRow) /\ landed \in Nat
      /\ InTable \in Seq(SlotRow) /\ Sent = InTable \o buffer
      /\ Len(InTable) = landed
  <2>1. /\ table \in Seq(SlotRow) /\ buffer \in Seq(SlotRow) /\ landed \in Nat
        /\ landed <= Len(table) /\ Len(table) \in Nat
    BY DEF IInv, Values, SlotRow
  <2>2. InTable \in Seq(SlotRow) /\ Sent = InTable \o buffer
    BY SentParts DEF SlotRow
  <2>3. \A k \in Len(table) - landed + 1 .. Len(table) : table[k] \in SlotRow
    BY <2>1
  <2>4. Len(InTable) = IF Len(table) - landed + 1 <= Len(table)
                         THEN Len(table) - (Len(table) - landed + 1) + 1 ELSE 0
    BY <2>1, <2>3, SubSeqProperties DEF InTable
  <2>5. Len(InTable) = landed
    BY <2>1, <2>4
  <2> QED
    BY <2>1, <2>2, <2>5
<1>5. First(Taken) \in Seq(SlotRow) /\ Len(First(Taken)) = Taken
  BY <1>1, <1>2, RowsOfFrame
<1>6. AC!Reliable => Sent' = First(Taken) /\ landed' = AC!Count(frame)
  <2>1. SUFFICES ASSUME AC!Reliable
                 PROVE  Sent' = First(Taken) /\ landed' = AC!Count(frame)
    OBVIOUS
  <2>2. landed' = landed + Len(buffer) /\ Sent' = Sent
    BY <2>1, FlushedAtLast DEF AC!Reliable
  <2>3. Sent = First(Taken)
    BY <1>1, <2>1 DEF KInv, WholeSoFar
  <2>4. Len(Sent) = landed + Len(buffer)
    BY <1>4, ConcatProperties
  <2> QED
    BY <1>2, <1>5, <2>2, <2>3, <2>4
<1>7. KInv'
  <2>1. AC!Reliable' = AC!Reliable /\ AC!Count(frame)' = AC!Count(frame)
    BY <1>1 DEF AC!Reliable, AC!Count
  <2> QED
    BY <1>1, <1>6, <2>1 DEF KInv, TableFound, WritableSoFar, WrittenSoFar, WholeSoFar
<1>8. CASE UNCHANGED <<table, landed>>
  BY <1>1, <1>7, <1>8 DEF promised, outs
<1>9. CASE table' = table \o buffer /\ landed' = landed + Len(buffer) /\ buffer = <<>>
  <2>1. table' = table /\ landed' = landed
    BY <1>4, <1>9, ConcatEmptySeq
  <2> QED
    BY <1>1, <1>7, <2>1 DEF promised, outs
<1>10. CASE table' = table \o buffer /\ landed' = landed + Len(buffer) /\ buffer # <<>>
  <2>1. Sent' = Sent
    <3>1. Sent' = Sent \/ (Sent' = InTable /\ UNCHANGED table)
      BY FlushedAtLast
    <3>2. table' # table
      BY <1>4, <1>10, ConcatEqualIffEmpty
    <3> QED
      BY <3>1, <3>2
  <2>2. AC!Ordered(Sent', First(Taken))
    BY <1>1, <1>3, <2>1 DEF IInv, SentSoFar
  <2>3. \A r \in 1 .. Taken : AC!WritableRow(frame, r)
    BY <1>1 DEF KInv, WritableSoFar
  <2>4. Taken <= AC!Count(frame) /\ pc \in {"load", "columns"}
    BY <1>1, <1>2
  <2>5. AC!Land
    <3> DEFINE n == Taken
               more == buffer
    <3>1. /\ n \in Nat /\ n <= AC!Count(frame) /\ \A r \in 1 .. n : AC!WritableRow(frame, r)
          /\ AC!Ordered(Sent', First(n))
          /\ AC!Reliable => Sent' = First(n)
      BY <1>2, <1>6, <2>2, <2>3, <2>4
    <3>2. /\ more \in Seq(SlotRow) /\ more # <<>> /\ table' = table \o more
          /\ landed' = landed + Len(more) /\ buffer' = <<>>
          /\ UNCHANGED <<frame, faults, replies>>
      BY <1>1, <1>4, <1>10
    <3> HIDE DEF n, more
    <3> QED
      BY <2>4, <3>1, <3>2, LandMaps
  <2> QED
    BY <1>7, <2>5 DEF AC!Next
<1> QED
  BY <1>8, <1>9, <1>10 DEF DestroyAppender

LEMMA DestroyChunkMaps == ASSUME IInv, KInv, DestroyChunk PROVE KInv' /\ AC!Next
<1>1. /\ pc = "chunk" /\ Return("success", held \ {"chunk"})
  BY DEF DestroyChunk
<1>2. ~AC!Rejected(frame) /\ frame # NoFrame
  BY <1>1, NotRejected DEF KInv
<1>3. KInv' /\ AC!Finish("success")
  BY <1>1, ReturnMaps
<1>4. AC!Reliable => landed = AC!Count(frame)
  BY <1>1 DEF KInv, WholeSoFar
<1> QED
  BY <1>2, <1>3, <1>4 DEF AC!Next, AC!Succeed

LEMMA StutterMaps == ASSUME IInv, KInv, UNCHANGED vars PROVE KInv' /\ UNCHANGED promised
<1>1. UNCHANGED <<frame, faults, pc, data, sz, data_chunk, i, slots, invalid, held, buffer,
                  landed, table, replies>>
  BY DEF vars
<1>2. Loading' = Loading /\ Taken' = Taken /\ Sent' = Sent /\ First(Taken)' = First(Taken)
  BY <1>1 DEF Loading, Taken, Sent, First, AC!Rows, AC!Count, AC!Stored, AC!Item
<1>3. TableFound' /\ WritableSoFar' /\ WrittenSoFar'
  BY <1>1, <1>2 DEF KInv, TableFound, WritableSoFar, WrittenSoFar, Convertible
<1>4. WholeSoFar'
  BY <1>1, <1>2 DEF KInv, WholeSoFar, AC!Reliable, AC!Count
<1> QED
  BY <1>1, <1>3, <1>4 DEF KInv, promised, outs

(* Into a table whose column types fit, an append keeps the contract,      *)
(* whichever calls of the C API fail and whenever the appender flushes:    *)
(* whole rows in their order, none from the first that no column can hold, *)
(* and all of them where nothing fails (append.aplf:2-77).                 *)
THEOREM AppendImplements == ASSUME Fitting PROVE Spec => Implements
<1>1. Init => KInv /\ AC!Init
  <2>1. SUFFICES ASSUME Init PROVE KInv /\ AC!Init
    OBVIOUS
  <2>2. KInv
    BY <2>1, AtEnds DEF Init
  <2>3. outs = <<>>
    <3>1. replies = <<>> /\ DOMAIN replies = {}
      BY <2>1 DEF Init
    <3>2. outs \in [{} -> {}]
      BY <3>1 DEF outs
    <3>3. 1 .. 0 = {}
      OBVIOUS
    <3>4. outs \in Seq({}) /\ Len(outs) = 0
      BY <3>2, <3>3, FunctionOnto
    <3> QED
      BY <3>4, EmptySeq
  <2> QED
    BY <2>1, <2>2, <2>3 DEF Init, AC!Init, outs
<1>2. ASSUME IInv, IInv', KInv, [Next]_vars
      PROVE  KInv' /\ [AC!Next]_promised
  <2>2. CASE \E f \in Frames, may \in SUBSET Faults : Call(f, may)
    BY <1>2, <2>2, CallMaps
  <2>3. CASE NoTable \/ DescribeFails \/ TypesDiffer \/ ColumnsDiffer
    BY <1>2, <2>3, EarlyEndsMap
  <2>4. CASE Create
    BY <1>2, <2>4, CreateMaps
  <2>5. CASE Convert
    BY <1>2, <2>5, ConvertMaps
  <2>6. CASE LoadBatch
    BY <1>2, <2>6, LoadBatchMaps
  <2>7. CASE WriteColumn
    BY <1>2, <2>7, WriteColumnMaps
  <2>8. CASE WriteRaises
    BY <1>2, <2>8, WriteRaisesMaps
  <2>9. CASE AppendChunk
    BY <1>2, <2>9, AppendChunkMaps
  <2>10. CASE DestroyAppender
    BY <1>2, <2>10, DestroyAppenderMaps
  <2>11. CASE DestroyChunk
    BY <1>2, <2>11, DestroyChunkMaps
  <2>12. CASE UNCHANGED vars
    BY <1>2, <2>12, StutterMaps
  <2> QED
    BY <1>2, <2>2, <2>3, <2>4, <2>5, <2>6, <2>7, <2>8, <2>9, <2>10, <2>11, <2>12
       DEF Next, Step
<1>3. ASSUME IInv, IInv', KInv, [Next]_vars
      PROVE  /\ KInv'
             /\ [AC!Next]_<<frame, faults, landed, table,
                            [k \in DOMAIN replies |-> replies[k].out]>>
  BY <1>2, <1>3 DEF promised, outs
<1> QED
  BY <1>1, <1>3, Invariance, PTL DEF Spec, AC!Spec, Implements
==============================================================================
