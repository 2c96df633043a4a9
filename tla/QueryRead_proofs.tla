--------------------------- MODULE QueryRead_proofs ---------------------------
(***************************************************************************)
(* Proofs about the read path, for every set of types, every nesting and   *)
(* every answer of DuckDB.                                                 *)
(***************************************************************************)
EXTENDS QueryRead, SequenceTheorems, TLAPS

(* The part of the inductive invariant that gives every value its type.    *)
TI == TypeOK /\ Shape /\ OneTypePerColumn

------------------------------------------------------------------------------
\* What the values of an answer are

(* The vector being read is a column of the answer.                        *)
LEMMA CellIsColumn ==
  ASSUME TI, pc = "columns", column <= Len(q.types)
  PROVE  /\ q \in Queries
         /\ q.types[column] \in Types
         /\ Cell(column) \in Column
         /\ Cell(column) # <<>>
<1>1. q \in Queries
  BY DEF TI, TypeOK, Shape
<1>2. /\ q.types \in Seq(Types)
      /\ q.chunks \in Seq([DOMAIN q.types -> Column \ {<<>>}])
  BY <1>1, QueriesAssumption
<1>3. column \in DOMAIN q.types /\ chunk + 1 \in DOMAIN q.chunks
  BY <1>2 DEF TI, TypeOK, Shape, column
<1> QED
  BY <1>1, <1>2, <1>3 DEF Cell

(* Reading a column gives values of its type and nulls.                    *)
LEMMA DecodeType ==
  ASSUME NEW t \in Types, NEW cells \in Column
  PROVE  RT!Decode(t, cells) \in ColumnRead
<1> DEFINE D == RT!Decode(t, cells)
<1>1. PICK n \in Nat : cells \in [1 .. n -> Cells \cup {NULL}]
  BY DEF Column
<1>2. D \in [1 .. n -> {NULL} \cup (Types \X (Cells \cup {NULL}))]
  BY <1>1 DEF RT!Decode
<1> QED
  BY <1>2 DEF ColumnRead

LEMMA DamagedType ==
  ASSUME NEW t \in Types, NEW cells \in Column, NEW harmed
  PROVE  RT!Damaged(t, cells, harmed) \in ColumnRead
<1>1. PICK n \in Nat : cells \in [1 .. n -> Cells \cup {NULL}]
  BY DEF Column
<1>2. RT!Damaged(t, cells, harmed)
        \in [1 .. n -> {NULL} \cup (Types \X (Cells \cup {NULL}))]
  BY <1>1 DEF RT!Damaged
<1> QED
  BY <1>2 DEF ColumnRead

LEMMA NullsType ==
  ASSUME NEW cells \in Column
  PROVE  [i \in DOMAIN cells |-> NULL] \in ColumnRead
<1>1. PICK n \in Nat : cells \in [1 .. n -> Cells \cup {NULL}]
  BY DEF Column
<1>2. [i \in DOMAIN cells |-> NULL] \in [1 .. n -> {NULL} \cup (Types \X (Cells \cup {NULL}))]
  BY <1>1
<1> QED
  BY <1>2 DEF ColumnRead

------------------------------------------------------------------------------
\* Types and shape

(* Obtaining a handle extends the log by one entry and keeps the others.   *)
LEMMA ObtainType ==
  ASSUME TypeOK, NEW kind \in {"result", "chunk", "ltype", "child"},
         NEW t \in Types \cup {NULL}, Obtain(kind, t)
  PROVE  /\ log' \in Seq(Handle)
         /\ Len(log') = Fresh
         /\ DOMAIN log' = DOMAIN log \cup {Fresh}
         /\ \A h \in DOMAIN log : log'[h] = log[h]
         /\ log'[Fresh].kind = kind
         /\ log'[Fresh].call = call
         /\ log'[Fresh].type = t
         /\ live' = live \cup {Fresh}
         /\ live' \subseteq DOMAIN log'
         /\ Fresh # 0
<1>1. call \in Nat \ {0}
  BY DEF TypeOK, call
<1>2. [kind |-> kind, call |-> call, type |-> t] \in Handle
  BY <1>1 DEF Handle
<1>3. log \in Seq(Handle) /\ live \subseteq DOMAIN log
  BY DEF TypeOK
<1> QED
  BY <1>2, <1>3 DEF Obtain, Fresh

LEMMA InitType == Init => TI
  BY DEF Init, TI, TypeOK, Shape, OneTypePerColumn, column

(* A call that returns leaves the variables of the reader as at first.     *)
LEMMA ReturnType ==
  ASSUME TI, NEW r \in Reply, Return(r),
         log' = log, live' \subseteq live
  PROVE  TI'
<1>1. replies' \in Seq(Reply)
  BY DEF TI, TypeOK, Return
<1> QED
  BY <1>1 DEF TI, TypeOK, Shape, OneTypePerColumn, Return, column

LEMMA BareReply ==
  ASSUME NEW kind \in {"error", "aborted", "names"}
  PROVE  RT!Bare(kind) \in Reply
  BY DEF RT!Bare, Reply

(* Popping the stack.                                                      *)
LEMMA PopProperties ==
  ASSUME NEW S, NEW s \in Seq(S), s # <<>>
  PROVE  /\ SubSeq(s, 1, Len(s) - 1) \in Seq(S)
         /\ Len(SubSeq(s, 1, Len(s) - 1)) = Len(s) - 1
         /\ (SubSeq(s, 1, Len(s) - 1) = <<>>) <=> (Len(s) = 1)
         /\ \A i \in 1 .. Len(s) - 1 : SubSeq(s, 1, Len(s) - 1)[i] = s[i]
<1> DEFINE n == Len(s) - 1
           t == SubSeq(s, 1, n)
<1>0. n \in Nat /\ Len(s) = n + 1
  BY EmptySeq
<1> HIDE DEF n
<1>1. \A i \in 1 .. n : s[i] \in S
  BY <1>0
<1>2. /\ t \in Seq(S)
      /\ Len(t) = IF 1 <= n THEN n - 1 + 1 ELSE 0
      /\ \A i \in 1 .. n - 1 + 1 : t[i] = s[1 + i - 1]
  BY <1>0, <1>1, SubSeqProperties
<1>3. Len(t) = n /\ \A i \in 1 .. n : t[i] = s[i]
  BY <1>0, <1>2
<1>4. (t = <<>>) <=> (n = 0)
  BY <1>0, <1>2, <1>3, EmptySeq
<1>5. (n = 0) <=> (Len(s) = 1)
  BY <1>0
<1> QED
  BY <1>2, <1>3, <1>4, <1>5 DEF n

(* Leaving readVector keeps types and shape, whatever column it read.      *)
LEMMA LeaveVectorType ==
  ASSUME TI, pc = "columns", stack # <<>>,
         NEW col \in ColumnRead, LeaveVector(col)
  PROVE  TI'
<1> DEFINE F == [h : DOMAIN log, type : Types, next : Nat \ {0}]
<1>1. stack \in Seq(F) /\ Len(stack) \in Nat \ {0}
  BY DEF TI, TypeOK
<1>2. stack' \in Seq(F) /\ Len(stack') = Len(stack) - 1
  BY <1>1, PopProperties DEF LeaveVector
<1>3. stack' = <<>> <=> Len(stack) = 1
  BY <1>1, PopProperties DEF LeaveVector
<1>4. log' = log /\ live' \subseteq live
  BY DEF LeaveVector, Destroy
<1>5. chunk_data' \in Seq(ColumnRead)
  BY DEF TI, TypeOK, LeaveVector
<1>6. Len(chunk_data') = IF Len(stack) = 1 THEN Len(chunk_data) + 1
                                          ELSE Len(chunk_data)
  BY DEF TI, TypeOK, LeaveVector
<1>7. TypeOK'
  BY <1>2, <1>4, <1>5 DEF TI, TypeOK, LeaveVector
<1>8. Len(chunk_data) \in Nat /\ column = Len(chunk_data) + 1
      /\ column' = Len(chunk_data') + 1
  BY DEF TI, TypeOK, column
<1>9. Shape'
  BY <1>3, <1>6, <1>8 DEF TI, Shape, LeaveVector
<1>10. OneTypePerColumn'
  BY <1>4 DEF TI, OneTypePerColumn, LeaveVector
<1> QED
  BY <1>7, <1>9, <1>10 DEF TI

(* The active call of readVector is one of the stack.                      *)
LEMMA TopType ==
  ASSUME TypeOK, stack # <<>>
  PROVE  /\ stack \in Seq([h : DOMAIN log, type : Types, next : Nat \ {0}])
         /\ Len(stack) \in Nat \ {0}
         /\ Top = stack[Len(stack)]
         /\ Top \in [h : DOMAIN log, type : Types, next : Nat \ {0}]
<1> DEFINE F == [h : DOMAIN log, type : Types, next : Nat \ {0}]
<1>1. stack \in Seq(F)
  BY DEF TypeOK
<1> HIDE DEF F
<1>2. Len(stack) \in Nat \ {0} /\ stack[Len(stack)] \in F
  BY <1>1, EmptySeq
<1> QED
  BY <1>1, <1>2 DEF F, Top

LEMMA SeqOfMore ==
  ASSUME NEW S, NEW T, S \subseteq T, NEW s \in Seq(S)
  PROVE  s \in Seq(T)
  OBVIOUS

LEMMA SingletonSeq ==
  ASSUME NEW S, NEW e \in S
  PROVE  <<e>> \in Seq(S) /\ <<e>> # <<>> /\ Len(<<e>>) = 1 /\ <<e>>[1] = e
  OBVIOUS

(* The handles the variables hold stay in the log when it grows.           *)
LEMMA GrownType ==
  ASSUME TypeOK, DOMAIN log \subseteq DOMAIN log'
  PROVE  /\ column_ltypes \in Seq(DOMAIN log')
         /\ stack \in Seq([h : DOMAIN log', type : Types, next : Nat \ {0}])
         /\ result \in {0} \cup DOMAIN log'
         /\ data_chunk \in {0} \cup DOMAIN log'
<1> DEFINE F(D) == [h : D, type : Types, next : Nat \ {0}]
<1>1. F(DOMAIN log) \subseteq F(DOMAIN log')
  OBVIOUS
<1>2. stack \in Seq(F(DOMAIN log)) /\ column_ltypes \in Seq(DOMAIN log)
  BY DEF TypeOK
<1> HIDE DEF F
<1>3. stack \in Seq(F(DOMAIN log')) /\ column_ltypes \in Seq(DOMAIN log')
  BY <1>1, <1>2, SeqOfMore
<1> QED
  BY <1>3 DEF TypeOK, F

LEMMA QueryType ==
  ASSUME TI, NEW a \in Queries, Query(a)
  PROVE  TI'
<1>1. a # NoQuery /\ a.status \in {"ok", "fail", "raise"}
  BY QueriesAssumption
<1>2. column_types' = <<>> /\ column_ltypes' = <<>>
  BY DEF TI, Shape, Query, reader
<1>3. OneTypePerColumn'
  <2>1. a.types \in Seq(Types)
    BY QueriesAssumption
  <2>2. q' = a
    BY DEF Query
  <2> QED
    BY <1>2, <2>1, <2>2 DEF OneTypePerColumn
<1>4. CASE a.status = "raise"
  <2>1. TypeOK' /\ Shape'
    BY <1>1, <1>4 DEF Query, TI, TypeOK, Shape, handles, reader, column
  <2> QED
    BY <1>3, <2>1 DEF TI
<1>5. CASE a.status # "raise"
  <2>1. Obtain("result", NULL) /\ result' = Fresh
    BY <1>5 DEF Query
  <2>2. /\ log' \in Seq(Handle) /\ live' \subseteq DOMAIN log'
        /\ DOMAIN log' = DOMAIN log \cup {Fresh}
        /\ Fresh # 0
    BY <2>1, ObtainType DEF TI
  <2>3. TypeOK'
    BY <2>1, <2>2, GrownType DEF Query, TI, TypeOK, reader
  <2>4. Shape'
    BY <1>1, <1>5, <2>1, <2>2 DEF Query, TI, Shape, reader, column
  <2> QED
    BY <1>3, <2>3, <2>4 DEF TI
<1> QED
  BY <1>4, <1>5

LEMMA FirstChunkType ==
  ASSUME TI, FirstChunk
  PROVE  TI'
<1>1. q \in Queries
  BY DEF FirstChunk, TI, TypeOK, Shape
<1>2. q.types \in Seq(Types)
      /\ q.chunks \in Seq([DOMAIN q.types -> Column \ {<<>>}])
  BY <1>1, QueriesAssumption
<1>3. column_types' = <<>> /\ column_ltypes' = <<>> /\ q' = q
  BY DEF TI, Shape, FirstChunk
<1>4. OneTypePerColumn'
  BY <1>2, <1>3 DEF OneTypePerColumn
<1>5. CASE q.chunks = <<>>
  <2>1. TypeOK' /\ Shape'
    BY <1>5 DEF FirstChunk, TI, TypeOK, Shape, handles, column
  <2> QED
    BY <1>4, <2>1 DEF TI
<1>6. CASE q.chunks # <<>>
  <2>1. Obtain("chunk", NULL) /\ data_chunk' = Fresh
    BY <1>6 DEF FirstChunk
  <2>2. /\ log' \in Seq(Handle) /\ live' \subseteq DOMAIN log'
        /\ DOMAIN log' = DOMAIN log \cup {Fresh}
        /\ Fresh # 0
    BY <2>1, ObtainType DEF TI
  <2>3. TypeOK'
    BY <1>6, <2>1, <2>2, GrownType DEF FirstChunk, TI, TypeOK
  <2>4. Len(q.chunks) > 0 /\ Len(q.types) \in Nat
    BY <1>2, <1>6, EmptySeq
  <2>5. chunk' = 0 /\ column' = 1 /\ stack' = <<>>
    BY DEF TI, Shape, FirstChunk, column
  <2>6. Shape'
    BY <1>3, <1>6, <2>1, <2>2, <2>4, <2>5 DEF FirstChunk, TI, Shape
  <2> QED
    BY <1>4, <2>3, <2>6 DEF TI
<1> QED
  BY <1>5, <1>6

LEMMA ReadColumnType ==
  ASSUME TI, ReadColumn
  PROVE  TI'
<1>1. q.types[column] \in Types /\ q # NoQuery
  BY CellIsColumn DEF ReadColumn, TI, Shape
<1>2. Len(chunk_data) \in Nat /\ column = Len(chunk_data) + 1
      /\ column' = column
  BY DEF TI, TypeOK, column, ReadColumn
<1>3. q' = q
  BY DEF ReadColumn
<1>4. CASE chunk = 0
  <2>1. Obtain("ltype", q.types[column])
    BY <1>4 DEF ReadColumn, TypeUnknown
  <2>2. /\ log' \in Seq(Handle) /\ live' \subseteq DOMAIN log'
        /\ DOMAIN log' = DOMAIN log \cup {Fresh}
        /\ \A h \in DOMAIN log : log'[h] = log[h]
        /\ log'[Fresh].type = q.types[column]
        /\ Fresh # 0
    BY <1>1, <2>1, ObtainType DEF TI
  <2>3. Frame(Fresh, q.types[column])
          \in [h : DOMAIN log', type : Types, next : Nat \ {0}]
    BY <1>1, <2>2 DEF Frame
  <2>4. stack' \in Seq([h : DOMAIN log', type : Types, next : Nat \ {0}])
        /\ stack' # <<>>
    BY <1>4, <2>3, SingletonSeq DEF ReadColumn, TypeUnknown
  <2>5. column_ltypes \in Seq(DOMAIN log) /\ column_ltypes \in Seq(DOMAIN log')
        /\ column_types \in Seq(Types) /\ Fresh \in DOMAIN log'
    BY <2>2, GrownType DEF TI, TypeOK
  <2>6. column_ltypes' = Append(column_ltypes, Fresh)
        /\ column_types' = Append(column_types, q.types[column])
    BY <1>4 DEF ReadColumn, TypeUnknown
  <2>7. /\ column_ltypes' \in Seq(DOMAIN log')
        /\ Len(column_ltypes') = Len(column_ltypes) + 1
        /\ \A c \in 1 .. Len(column_ltypes) :
             column_ltypes'[c] = column_ltypes[c]
        /\ column_ltypes'[Len(column_ltypes) + 1] = Fresh
    BY <2>5, <2>6, AppendProperties
  <2>8. /\ column_types' \in Seq(Types)
        /\ Len(column_types') = Len(column_types) + 1
        /\ \A c \in 1 .. Len(column_types) : column_types'[c] = column_types[c]
        /\ column_types'[Len(column_types) + 1] = q.types[column]
    BY <1>1, <2>5, <2>6, AppendProperties
  <2>9. TypeOK'
    BY <2>2, <2>4, <2>7, <2>8, GrownType DEF ReadColumn, TI, TypeOK
  <2>10. Shape'
    BY <1>2, <1>4, <2>4, <2>7, <2>8 DEF ReadColumn, TI, Shape, TypeOK
  <2>11. Len(column_types) = column - 1 /\ Len(column_ltypes) = column - 1
         /\ column <= Len(q.types)
    BY <1>2, <1>4 DEF ReadColumn, TI, Shape, TypeOK
  <2>12. \A c \in DOMAIN column_types' : column_types'[c] = q.types[c]
    BY <1>1, <1>2, <2>5, <2>8, <2>11 DEF TI, OneTypePerColumn
  <2>13. \A c \in DOMAIN column_ltypes' :
           log'[column_ltypes'[c]].type = q.types[c]
    <3>1. \A c \in 1 .. column - 1 :
             column_ltypes[c] \in DOMAIN log
             /\ log[column_ltypes[c]].type = q.types[c]
      BY <1>1, <1>2, <2>5, <2>11 DEF TI, OneTypePerColumn
    <3>2. \A c \in 1 .. column - 1 : log'[column_ltypes'[c]].type = q.types[c]
      BY <1>2, <2>2, <2>7, <2>11, <3>1
    <3>3. log'[column_ltypes'[column]].type = q.types[column]
      BY <1>2, <2>2, <2>7, <2>11
    <3> QED
      BY <1>2, <2>7, <2>11, <3>2, <3>3
  <2>14. OneTypePerColumn'
    BY <1>2, <1>3, <2>8, <2>11, <2>12, <2>13 DEF OneTypePerColumn
  <2> QED
    BY <2>9, <2>10, <2>14 DEF TI
<1>5. CASE chunk # 0
  <2>1. Len(column_ltypes) = Len(q.types) /\ chunk > 0
    BY <1>5 DEF ReadColumn, TI, Shape, TypeOK
  <2>2. column \in DOMAIN column_ltypes
    BY <1>2, <2>1 DEF ReadColumn, TI, TypeOK
  <2>3. column_ltypes[column] \in DOMAIN log
        /\ log[column_ltypes[column]].type = q.types[column]
    BY <1>1, <2>2 DEF TI, TypeOK, OneTypePerColumn
  <2>4. stack' = <<Frame(column_ltypes[column], q.types[column])>>
    BY <2>1, <2>3 DEF ReadColumn, TypeUnknown, CachedLtype
  <2>5. Frame(column_ltypes[column], q.types[column])
          \in [h : DOMAIN log, type : Types, next : Nat \ {0}]
    BY <1>1, <2>3 DEF Frame
  <2>6. stack' \in Seq([h : DOMAIN log, type : Types, next : Nat \ {0}])
        /\ stack' # <<>>
    BY <2>4, <2>5, SingletonSeq
  <2>7. UNCHANGED <<q, pc, log, live, result, data_chunk, chunk, column_ltypes,
                    column_types, chunk_data, data, replies>>
    BY <2>1 DEF ReadColumn, TypeUnknown, handles
  <2>8. TypeOK'
    BY <2>6, <2>7 DEF TI, TypeOK
  <2>9. Shape'
    BY <1>2, <2>1, <2>6, <2>7 DEF ReadColumn, TI, Shape
  <2>10. OneTypePerColumn'
    BY <2>7 DEF TI, OneTypePerColumn
  <2> QED
    BY <2>8, <2>9, <2>10 DEF TI
<1> QED
  BY <1>4, <1>5

LEMMA EnterChildType ==
  ASSUME TI, EnterChild
  PROVE  TI'
<1> DEFINE F(D) == [h : D, type : Types, next : Nat \ {0}]
           kid == Kids[Top.type][Top.next]
           parent == [stack EXCEPT ![Len(stack)].next = @ + 1]
<1>1. stack \in Seq(F(DOMAIN log)) /\ Len(stack) \in Nat \ {0}
      /\ Top \in F(DOMAIN log)
  BY TopType DEF EnterChild, TI
<1>2. kid \in Types
  BY <1>1, TypesAssumption DEF EnterChild
<1>3. Obtain("child", kid) /\ stack' = Append(parent, Frame(Fresh, kid))
  BY DEF EnterChild
<1>4. /\ log' \in Seq(Handle) /\ live' \subseteq DOMAIN log'
      /\ DOMAIN log' = DOMAIN log \cup {Fresh}
      /\ \A h \in DOMAIN log : log'[h] = log[h]
  BY <1>2, <1>3, ObtainType DEF TI
<1>5. parent \in Seq(F(DOMAIN log'))
  <2>1. stack \in Seq(F(DOMAIN log'))
    BY <1>4, GrownType DEF TI
  <2>2. Top = stack[Len(stack)]
    BY DEF Top
  <2> QED
    BY <1>1, <2>1, <2>2
<1>6. Frame(Fresh, kid) \in F(DOMAIN log')
  BY <1>2, <1>4 DEF Frame
<1>7. stack' \in Seq(F(DOMAIN log')) /\ stack' # <<>>
  BY <1>3, <1>5, <1>6, AppendProperties
<1>8. UNCHANGED <<q, pc, result, data_chunk, chunk, column_ltypes,
                  column_types, chunk_data, data, replies>>
  BY DEF EnterChild
<1>9. TypeOK'
  BY <1>4, <1>7, <1>8, GrownType DEF TI, TypeOK
<1>10. Shape'
  BY <1>7, <1>8 DEF EnterChild, TI, Shape, column
<1>11. column_ltypes \in Seq(DOMAIN log)
  BY DEF TI, TypeOK
<1>12. OneTypePerColumn'
  BY <1>4, <1>8, <1>11 DEF TI, OneTypePerColumn
<1> QED
  BY <1>9, <1>10, <1>12 DEF TI

LEMMA NextChunkType ==
  ASSUME TI, NextChunk
  PROVE  TI'
<1>1. q \in Queries
  BY DEF NextChunk, ChunkRead, StoreAndFetch, TI, TypeOK, Shape
<1>2. /\ q.chunks \in Seq([DOMAIN q.types -> Column \ {<<>>}])
      /\ q.types \in Seq(Types) /\ q.types # <<>>
  BY <1>1, QueriesAssumption
<1>3. Len(q.chunks) \in Nat /\ Len(q.types) \in Nat \ {0} /\ chunk \in Nat
      /\ chunk < Len(q.chunks)
  BY <1>2, EmptySeq DEF NextChunk, ChunkRead, StoreAndFetch, TI, TypeOK, Shape
<1>4. data' \in Seq(Seq(ColumnRead)) /\ chunk' = chunk + 1
      /\ chunk_data' = <<>> /\ column' = 1
  BY AppendProperties DEF NextChunk, ChunkRead, StoreAndFetch, TI, TypeOK, column
<1>5. UNCHANGED <<q, result, column_ltypes, column_types, stack, replies>>
      /\ stack = <<>>
  BY DEF NextChunk, ChunkRead, StoreAndFetch
<1>6. column_ltypes \in Seq(DOMAIN log)
  BY DEF TI, TypeOK
<1>7. Len(column_ltypes) = Len(q.types) /\ Len(column_types) = Len(q.types)
  <2>1. column = Len(q.types) + 1
    BY <1>3 DEF NextChunk, ChunkRead, StoreAndFetch, TI, TypeOK, Shape, column
  <2> QED
    BY <1>3, <2>1 DEF NextChunk, ChunkRead, StoreAndFetch, TI, Shape
<1>8. CASE chunk + 1 < Len(q.chunks)
  <2>1. log' = Append(log, [kind |-> "chunk", call |-> call, type |-> NULL])
        /\ live' = (live \ {data_chunk}) \cup {Fresh}
        /\ data_chunk' = Fresh /\ pc' = "columns"
    BY <1>8 DEF NextChunk, ChunkRead, StoreAndFetch
  <2>2. [kind |-> "chunk", call |-> call, type |-> NULL] \in Handle
    BY DEF TI, TypeOK, Handle, call
  <2>3. log \in Seq(Handle) /\ live \subseteq DOMAIN log
    BY DEF TI, TypeOK
  <2>4. /\ log' \in Seq(Handle) /\ DOMAIN log' = DOMAIN log \cup {Fresh}
        /\ live' \subseteq DOMAIN log' /\ Fresh # 0
        /\ \A h \in DOMAIN log : log'[h] = log[h]
    BY <2>1, <2>2, <2>3 DEF Fresh
  <2>5. TypeOK'
    BY <1>4, <1>5, <2>1, <2>4, GrownType DEF TI, TypeOK
  <2>6. Shape'
    BY <1>3, <1>4, <1>5, <1>7, <1>8, <2>1, <2>4 DEF NextChunk, ChunkRead, StoreAndFetch, TI, Shape
  <2>7. OneTypePerColumn'
    BY <1>5, <1>6, <2>4 DEF TI, OneTypePerColumn
  <2> QED
    BY <2>5, <2>6, <2>7 DEF TI
<1>9. CASE ~(chunk + 1 < Len(q.chunks))
  <2>1. log' = log /\ live' \subseteq live /\ data_chunk' = 0 /\ pc' = "types"
    BY <1>9 DEF NextChunk, ChunkRead, StoreAndFetch, Destroy
  <2>2. TypeOK'
    BY <1>4, <1>5, <2>1 DEF TI, TypeOK
  <2>3. Shape'
    BY <1>3, <1>4, <1>5, <2>1 DEF NextChunk, ChunkRead, StoreAndFetch, TI, Shape
  <2>4. OneTypePerColumn'
    BY <1>5, <2>1 DEF TI, OneTypePerColumn
  <2> QED
    BY <2>2, <2>3, <2>4 DEF TI
<1> QED
  BY <1>8, <1>9

LEMMA DestroyTypesType ==
  ASSUME TI, DestroyTypes
  PROVE  TI'
<1>1. TypeOK'
  BY EmptySeq DEF DestroyTypes, Destroy, TI, TypeOK
<1>2. Shape'
  BY DEF DestroyTypes, TI, Shape, column
<1>3. OneTypePerColumn'
  BY DEF DestroyTypes, Destroy, TI, OneTypePerColumn
<1> QED
  BY <1>1, <1>2, <1>3 DEF TI

(* What DestroyResult returns.                                             *)
LEMMA FinalReply ==
  ASSUME TI
  PROVE  (IF data = <<>> THEN RT!Bare("names")
          ELSE [kind |-> "table", types |-> column_types, data |-> data])
           \in Reply
  BY BareReply DEF TI, TypeOK, Reply

(* Every step keeps the types and the shape.                               *)
LEMMA StepType ==
  ASSUME TI, [Next]_vars
  PROVE  TI'
<1>1. CASE \E a \in Queries : Query(a)
  BY <1>1, QueryType
<1>2. CASE NoResult
  BY <1>2, BareReply, ReturnType DEF NoResult, handles
<1>3. CASE QueryFailed
  BY <1>3, BareReply, ReturnType DEF QueryFailed, handles
<1>4. CASE FirstChunk
  BY <1>4, FirstChunkType
<1>5. CASE ReadColumn
  BY <1>5, ReadColumnType
<1>6. ASSUME pc = "columns", stack # <<>>
      PROVE  /\ Cell(column) \in Column
             /\ Top.type \in Types
  <2>1. Top.type \in Types
    BY <1>6, TopType DEF TI
  <2>2. column <= Len(q.types)
    BY <1>6 DEF TI, Shape
  <2> QED
    BY <1>6, <2>1, <2>2, CellIsColumn
<1>7. CASE SkipNulls
  BY <1>6, <1>7, DecodeType, LeaveVectorType DEF SkipNulls
<1>8. CASE EnterChild
  BY <1>8, EnterChildType
<1>9. CASE ReadVector
  BY <1>6, <1>9, DecodeType, DamagedType, LeaveVectorType DEF ReadVector
<1>10. CASE ReadEnumNulled
  BY <1>6, <1>10, NullsType, LeaveVectorType DEF ReadEnumNulled, RT!Lost
<1>11. CASE Trap
  BY <1>11, BareReply, ReturnType DEF Trap, handles
<1>12. CASE NextChunk
  BY <1>12, NextChunkType
<1>13. CASE DestroyTypes
  BY <1>13, DestroyTypesType
<1>14. CASE DestroyResult
  BY <1>14, FinalReply, ReturnType DEF DestroyResult, Destroy
<1>15. CASE UNCHANGED vars
  BY <1>15 DEF vars, handles, reader, TI, TypeOK, Shape, OneTypePerColumn, column
<1> QED
  BY <1>1, <1>2, <1>3, <1>4, <1>5, <1>7, <1>8, <1>9, <1>10, <1>11, <1>12,
     <1>13, <1>14, <1>15 DEF Next, Step

(* Every variable of the read path keeps its type, the loops keep their    *)
(* bounds, and every column keeps the one type it was given.               *)
THEOREM TypeCorrect == Spec => [](TypeOK /\ OneTypePerColumn)
<1>1. TI /\ [Next]_vars => TI'
  BY StepType
<1>2. TI => TypeOK /\ OneTypePerColumn
  BY DEF TI
<1> QED
  BY <1>1, <1>2, InitType, PTL DEF Spec

------------------------------------------------------------------------------
\* Handles

Owned == {h \in live : log[h].call = call}

LI == HandleKinds /\ Ledger /\ SuccessFreesAll

(* The handles held are in the log, are of the current call and are alive. *)
LEMMA HeldInLog ==
  ASSUME TI, LI
  PROVE  Held = Owned /\ Held \subseteq DOMAIN log /\ Held \subseteq live
  BY DEF LI, Ledger, Owned, TI, TypeOK

LEMMA InitLedger == Init => LI
  BY DEF Init, LI, HandleKinds, Ledger, SuccessFreesAll, Held, call

(* Obtaining a handle and holding it.                                      *)
LEMMA ObtainLedger ==
  ASSUME TI, LI, NEW kind \in {"result", "chunk", "ltype", "child"},
         NEW t \in Types \cup {NULL}, Obtain(kind, t),
         replies' = replies, Held' = Held \cup {Fresh}
  PROVE  /\ Ledger' /\ SuccessFreesAll'
         /\ \A h \in DOMAIN log' : log'[h].call <= call'
<1>1. /\ DOMAIN log' = DOMAIN log \cup {Fresh}
      /\ \A h \in DOMAIN log : log'[h] = log[h]
      /\ log'[Fresh].call = call
      /\ live' = live \cup {Fresh}
  BY ObtainType DEF TI
<1>2. call' = call /\ call \in Nat
  BY DEF call, TI, TypeOK
<1>3. live \subseteq DOMAIN log /\ Fresh \notin DOMAIN log
  BY DEF TI, TypeOK, Fresh
<1>4. \A h \in live : log'[h] = log[h]
  BY <1>1, <1>3
<1>5. Ledger'
  BY <1>1, <1>2, <1>4 DEF LI, Ledger
<1>6. SuccessFreesAll'
  BY <1>1, <1>2, <1>4 DEF LI, SuccessFreesAll
<1>7. \A h \in DOMAIN log' : log'[h].call <= call'
  BY <1>1, <1>2 DEF LI, HandleKinds
<1> QED
  BY <1>5, <1>6, <1>7

(* Destroying handles and holding them no more.                            *)
LEMMA DestroyLedger ==
  ASSUME TI, LI, NEW hs, Destroy(hs), replies' = replies,
         hs \subseteq Held, Held' = Held \ hs
  PROVE  /\ Ledger' /\ SuccessFreesAll'
         /\ \A h \in DOMAIN log' : log'[h].call <= call'
<1>1. log' = log /\ live' = live \ hs /\ call' = call
  BY DEF Destroy, call
<1> QED
  BY <1>1 DEF LI, Ledger, SuccessFreesAll, HandleKinds

(* Returning: what the call still owns is left behind for good.            *)
LEMMA ReturnLedger ==
  ASSUME TI, LI, NEW r \in Reply, Return(r), log' = log, live' \subseteq live,
         \A h \in live' : log[h].call = call => r.kind \in {"error", "aborted"}
  PROVE  LI'
<1>1. /\ replies \in Seq(Reply) /\ replies' = Append(replies, r)
      /\ log \in Seq(Handle) /\ live \subseteq DOMAIN log
  BY DEF TI, TypeOK, Return
<1>2. /\ call = Len(replies) + 1 /\ call' = call + 1 /\ call \in Nat
      /\ replies'[call] = r
      /\ \A c \in 1 .. call - 1 : replies'[c] = replies[c]
  BY <1>1, AppendProperties DEF call
<1>3. \A h \in DOMAIN log : log[h].call \in Nat \ {0} /\ log[h].call <= call
  <2>1. \A h \in DOMAIN log : log[h] \in Handle
    BY <1>1
  <2> QED
    BY <2>1 DEF LI, HandleKinds, Handle
<1>4. Held' = {}
  BY DEF Return, Held
<1>5. {h \in live' : log'[h].call = call'} = {}
  BY <1>1, <1>2, <1>3
<1>6. SuccessFreesAll'
  <2> SUFFICES ASSUME NEW h \in live', log[h].call < call'
               PROVE  replies'[log[h].call].kind \in {"error", "aborted"}
    BY DEF SuccessFreesAll
  <2>1. CASE log[h].call = call
    BY <1>2, <2>1
  <2>2. CASE log[h].call # call
    <3>1. log[h].call \in 1 .. call - 1 /\ h \in live
      BY <1>1, <1>2, <1>3, <2>2
    <3> QED
      BY <1>2, <3>1 DEF LI, SuccessFreesAll
  <2> QED
    BY <2>1, <2>2
<1>7. HandleKinds'
  BY <1>1, <1>2, <1>3 DEF Return, HandleKinds
<1> QED
  BY <1>4, <1>5, <1>6, <1>7 DEF LI, Ledger

LEMMA QueryLedger ==
  ASSUME TI, LI, NEW a \in Queries, Query(a)
  PROVE  LI'
<1>1. /\ stack = <<>> /\ column_ltypes = <<>> /\ data_chunk = 0 /\ result = 0
      /\ UNCHANGED <<stack, column_ltypes, data_chunk, replies>>
  BY DEF Query, reader, TI, Shape
<1>2. Held = {}
  BY <1>1 DEF Held
<1>3. CASE a.status = "raise"
  <2>1. Held' = {} /\ UNCHANGED <<log, live, call, result>>
    BY <1>1, <1>3 DEF Query, handles, Held, call
  <2> QED
    BY <1>1, <1>2, <2>1 DEF LI, HandleKinds, Ledger, SuccessFreesAll
<1>4. CASE a.status # "raise"
  <2>1. Obtain("result", NULL) /\ result' = Fresh
    BY <1>4 DEF Query
  <2>2. log'[Fresh].kind = "result" /\ Fresh # 0
    BY <2>1, ObtainType DEF TI
  <2>3. Held' = {Fresh}
    BY <1>1, <2>1, <2>2 DEF Held
  <2>4. Ledger' /\ SuccessFreesAll' /\ \A h \in DOMAIN log' : log'[h].call <= call'
    BY <1>1, <1>2, <2>1, <2>3, ObtainLedger
  <2> QED
    BY <1>1, <2>1, <2>2, <2>4 DEF LI, HandleKinds
<1> QED
  BY <1>3, <1>4

LEMMA FirstChunkLedger ==
  ASSUME TI, LI, FirstChunk
  PROVE  LI'
<1>1. /\ stack = <<>> /\ column_ltypes = <<>> /\ data_chunk = 0
      /\ UNCHANGED <<stack, column_ltypes, result, replies>>
  BY DEF FirstChunk, TI, Shape
<1>2. CASE q.chunks = <<>>
  BY <1>1, <1>2 DEF FirstChunk, handles, LI, HandleKinds, Ledger,
                    SuccessFreesAll, Held, call
<1>3. CASE q.chunks # <<>>
  <2>1. Obtain("chunk", NULL) /\ data_chunk' = Fresh
    BY <1>3 DEF FirstChunk
  <2>2. /\ log'[Fresh].kind = "chunk" /\ Fresh # 0
        /\ \A h \in DOMAIN log : log'[h] = log[h]
    BY <2>1, ObtainType DEF TI
  <2>3. Held' = Held \cup {Fresh}
    BY <1>1, <2>1, <2>2 DEF Held
  <2>4. Ledger' /\ SuccessFreesAll' /\ \A h \in DOMAIN log' : log'[h].call <= call'
    BY <1>1, <2>1, <2>3, ObtainLedger
  <2>5. result # 0 => result \in DOMAIN log
    BY DEF TI, TypeOK
  <2> QED
    BY <1>1, <2>1, <2>2, <2>4, <2>5 DEF LI, HandleKinds
<1> QED
  BY <1>2, <1>3

LEMMA ReadColumnLedger ==
  ASSUME TI, LI, ReadColumn
  PROVE  LI'
<1>1. stack = <<>> /\ Len(stack') = 1
      /\ UNCHANGED <<result, data_chunk, replies>>
  BY DEF ReadColumn
<1>2. column_ltypes \in Seq(DOMAIN log) /\ result \in {0} \cup DOMAIN log
      /\ data_chunk \in {0} \cup DOMAIN log
  BY DEF TI, TypeOK
<1>3. CASE chunk = 0
  <2>1. Obtain("ltype", q.types[column])
        /\ column_ltypes' = Append(column_ltypes, Fresh)
    BY <1>3 DEF ReadColumn, TypeUnknown
  <2>2. q.types[column] \in Types
    BY CellIsColumn DEF ReadColumn
  <2>3. /\ log'[Fresh].kind = "ltype" /\ Fresh # 0
        /\ DOMAIN log' = DOMAIN log \cup {Fresh}
        /\ \A h \in DOMAIN log : log'[h] = log[h]
    BY <2>1, <2>2, ObtainType DEF TI
  <2>4. column_ltypes \in Seq(DOMAIN log') /\ Fresh \in DOMAIN log'
    BY <2>3, GrownType DEF TI
  <2>5. /\ DOMAIN column_ltypes' = 1 .. Len(column_ltypes) + 1
        /\ DOMAIN column_ltypes = 1 .. Len(column_ltypes)
        /\ Len(column_ltypes) \in Nat
        /\ \A c \in DOMAIN column_ltypes : column_ltypes'[c] = column_ltypes[c]
        /\ column_ltypes'[Len(column_ltypes) + 1] = Fresh
    BY <2>1, <2>4, AppendProperties
  <2>6. {column_ltypes'[c] : c \in DOMAIN column_ltypes'}
          = {column_ltypes[c] : c \in DOMAIN column_ltypes} \cup {Fresh}
    BY <2>5
  <2>7. Held' = Held \cup {Fresh}
    BY <1>1, <2>6 DEF Held
  <2>8. Ledger' /\ SuccessFreesAll' /\ \A h \in DOMAIN log' : log'[h].call <= call'
    BY <1>1, <2>1, <2>2, <2>7, ObtainLedger
  <2>9. \A c \in DOMAIN column_ltypes' : log'[column_ltypes'[c]].kind = "ltype"
    BY <1>2, <2>3, <2>5 DEF LI, HandleKinds
  <2> QED
    BY <1>1, <1>2, <2>3, <2>8, <2>9 DEF LI, HandleKinds
<1>4. CASE chunk # 0
  <2>1. UNCHANGED <<column_ltypes, log, live>>
    BY <1>4 DEF ReadColumn, TypeUnknown, handles
  <2>2. Held' = Held /\ call' = call
    BY <1>1, <2>1 DEF Held, call
  <2> QED
    BY <1>1, <2>1, <2>2 DEF LI, HandleKinds, Ledger, SuccessFreesAll
<1> QED
  BY <1>3, <1>4

(* The handles of the active calls of readVector, the column's excepted.   *)
ChildHandles == {stack[d].h : d \in 2 .. Len(stack)}

LEMMA EnterChildLedger ==
  ASSUME TI, LI, EnterChild
  PROVE  LI'
<1> DEFINE F == [h : DOMAIN log, type : Types, next : Nat \ {0}]
           kid == Kids[Top.type][Top.next]
           parent == [stack EXCEPT ![Len(stack)].next = @ + 1]
           n == Len(stack)
<1>1. stack \in Seq(F) /\ n \in Nat \ {0} /\ Top = stack[n] /\ Top \in F
  BY TopType DEF EnterChild, TI
<1>2. kid \in Types
  BY <1>1, TypesAssumption DEF EnterChild
<1>3. Obtain("child", kid) /\ stack' = Append(parent, Frame(Fresh, kid))
      /\ UNCHANGED <<result, data_chunk, column_ltypes, replies>>
  BY DEF EnterChild
<1>4. /\ log'[Fresh].kind = "child" /\ Fresh # 0
      /\ DOMAIN log' = DOMAIN log \cup {Fresh}
      /\ \A h \in DOMAIN log : log'[h] = log[h]
  BY <1>2, <1>3, ObtainType DEF TI
<1>5. /\ Len(parent) = n /\ DOMAIN parent = 1 .. n
      /\ \A d \in 1 .. n : parent[d].h = stack[d].h
  BY <1>1
<1>6. /\ Len(stack') = n + 1
      /\ \A d \in 1 .. n : stack'[d].h = stack[d].h
      /\ stack'[n + 1].h = Fresh
  <2> DEFINE G == [h : DOMAIN log', type : Types, next : Nat \ {0}]
             top == Frame(Fresh, kid)
  <2>1. top.h = Fresh /\ top \in G
    BY <1>2, <1>4 DEF Frame
  <2>2. parent \in Seq(G)
    BY <1>1, <1>4, GrownType DEF TI
  <2>3. stack' = Append(parent, top)
    BY <1>3
  <2> HIDE DEF parent, top, G
  <2>4. /\ Len(stack') = Len(parent) + 1
        /\ \A d \in 1 .. Len(parent) : stack'[d] = parent[d]
        /\ stack'[Len(parent) + 1] = top
    BY <2>1, <2>2, <2>3, AppendProperties
  <2> QED
    BY <1>5, <2>1, <2>4
<1>7. \A d \in 1 .. n : stack[d].h \in DOMAIN log
  <2> HIDE DEF F
  <2>1. \A d \in 1 .. n : stack[d] \in F
    BY <1>1
  <2> QED
    BY <2>1 DEF F
<1>7a. Len(stack) = n /\ n \in Nat \ {0}
  BY <1>1
<1> HIDE DEF n, F, kid, parent
<1>8. ChildHandles' = ChildHandles \cup {Fresh}
  BY <1>6, <1>7a DEF ChildHandles
<1>9. Held' = Held \cup {Fresh}
  BY <1>3, <1>8 DEF Held, ChildHandles
<1>10. Ledger' /\ SuccessFreesAll' /\ \A h \in DOMAIN log' : log'[h].call <= call'
  BY <1>2, <1>3, <1>9, ObtainLedger
<1>11. \A d \in 2 .. Len(stack') : log'[stack'[d].h].kind = "child"
  <2> SUFFICES ASSUME NEW d \in 2 .. Len(stack')
               PROVE  log'[stack'[d].h].kind = "child"
    OBVIOUS
  <2>1. CASE d \in 2 .. n
    <3>1. stack'[d].h = stack[d].h /\ stack[d].h \in DOMAIN log
      BY <1>6, <1>7, <1>7a, <2>1
    <3>2. log[stack[d].h].kind = "child"
      BY <1>7a, <2>1 DEF LI, HandleKinds
    <3> QED
      BY <1>4, <3>1, <3>2
  <2>2. CASE d = n + 1
    BY <1>4, <1>6, <2>2
  <2> QED
    BY <1>6, <1>7a, <2>1, <2>2
<1>12. \A d, e \in 2 .. Len(stack') : d # e => stack'[d].h # stack'[e].h
  <2>1. Fresh \notin DOMAIN log
    BY DEF TI, TypeOK, Fresh
  <2> QED
    BY <1>6, <1>7, <1>7a, <2>1 DEF LI, HandleKinds
<1>13. column_ltypes \in Seq(DOMAIN log) /\ result \in {0} \cup DOMAIN log
       /\ data_chunk \in {0} \cup DOMAIN log
  BY DEF TI, TypeOK
<1> QED
  BY <1>3, <1>4, <1>10, <1>11, <1>12, <1>13 DEF LI, HandleKinds

LEMMA LeaveVectorLedger ==
  ASSUME TI, LI, stack # <<>>, NEW col, LeaveVector(col)
  PROVE  LI'
<1> DEFINE n == Len(stack)
<1>1. /\ n \in Nat \ {0} /\ Top = stack[n]
      /\ Len(stack') = n - 1
      /\ \A d \in 1 .. n - 1 : stack'[d] = stack[d]
  BY TopType, PopProperties DEF LeaveVector, TI
<1>2. UNCHANGED <<log, result, data_chunk, column_ltypes, replies>>
  BY DEF LeaveVector, Destroy
<1>3. Destroy(ReturnedType)
  BY DEF LeaveVector
<1>4. ReturnedType = IF n > 1 THEN {stack[n].h} ELSE {}
  BY <1>1 DEF ReturnedType
<1>5. \A d \in 2 .. n - 1 : stack[d].h # stack[n].h
  BY <1>1 DEF LI, HandleKinds
<1>6. n > 1 => log[stack[n].h].kind = "child"
  BY <1>1 DEF LI, HandleKinds
<1>7. ChildHandles' = ChildHandles \ ReturnedType /\ ReturnedType \subseteq ChildHandles
  BY <1>1, <1>4, <1>5 DEF ChildHandles
<1>8. \A h \in ReturnedType : /\ h \notin {result, data_chunk} \ {0}
                             /\ h \notin {column_ltypes[c] : c \in DOMAIN column_ltypes}
  BY <1>1, <1>4, <1>6 DEF LI, HandleKinds
<1>9. Held' = Held \ ReturnedType /\ ReturnedType \subseteq Held
  BY <1>2, <1>7, <1>8 DEF Held, ChildHandles
<1>10. Ledger' /\ SuccessFreesAll' /\ \A h \in DOMAIN log' : log'[h].call <= call'
  BY <1>2, <1>3, <1>9, DestroyLedger
<1> QED
  BY <1>1, <1>2, <1>10 DEF LI, HandleKinds

LEMMA NextChunkLedger ==
  ASSUME TI, LI, NextChunk
  PROVE  LI'
<1>1. stack = <<>> /\ stack' = <<>> /\ data_chunk # 0
      /\ UNCHANGED <<result, column_ltypes, replies>>
  BY DEF NextChunk, ChunkRead, StoreAndFetch, TI, Shape
<1>2. /\ log \in Seq(Handle) /\ live \subseteq DOMAIN log
      /\ column_ltypes \in Seq(DOMAIN log) /\ result \in {0} \cup DOMAIN log
      /\ data_chunk \in DOMAIN log
  BY <1>1 DEF TI, TypeOK
<1>3. Held = ({result} \ {0}) \cup {data_chunk}
               \cup {column_ltypes[c] : c \in DOMAIN column_ltypes}
  BY <1>1 DEF Held
<1>4. /\ data_chunk \notin {result} \ {0}
      /\ data_chunk \notin {column_ltypes[c] : c \in DOMAIN column_ltypes}
  BY <1>1 DEF LI, HandleKinds
<1>5. call' = call /\ call \in Nat \ {0}
  BY <1>1 DEF call, TI, TypeOK
<1>6. CASE chunk + 1 < Len(q.chunks)
  <2> DEFINE new == [kind |-> "chunk", call |-> call, type |-> NULL]
  <2>1. log' = Append(log, new) /\ data_chunk' = Fresh
        /\ live' = (live \ {data_chunk}) \cup {Fresh}
    BY <1>6 DEF NextChunk, ChunkRead, StoreAndFetch
  <2>2. new \in Handle
    BY <1>5 DEF Handle
  <2>3. /\ DOMAIN log' = DOMAIN log \cup {Fresh} /\ Fresh \notin DOMAIN log
        /\ \A h \in DOMAIN log : log'[h] = log[h]
        /\ log'[Fresh] = new /\ Fresh # 0
    BY <1>2, <2>1, <2>2, AppendProperties DEF Fresh
  <2>3a. log'[Fresh].call = call /\ log'[Fresh].kind = "chunk"
    BY <2>3
  <2> HIDE DEF new
  <2>4. Held' = (Held \ {data_chunk}) \cup {Fresh}
    BY <1>1, <1>3, <1>4, <2>1, <2>3 DEF Held
  <2>5. \A h \in live : log'[h] = log[h]
    BY <1>2, <2>3
  <2>6. Ledger'
    <3>1. Held = {h \in live : log[h].call = call} /\ Fresh \notin live
      BY <1>2, <2>3 DEF LI, Ledger
    <3>2. {h \in live' : log'[h].call = call'}
            = ({h \in live : log[h].call = call} \ {data_chunk}) \cup {Fresh}
      BY <1>5, <2>1, <2>3a, <2>5, <3>1
    <3> QED
      BY <2>4, <3>1, <3>2 DEF Ledger
  <2>7. SuccessFreesAll'
    <3> SUFFICES ASSUME NEW h \in live', log'[h].call < call'
                 PROVE  replies'[log'[h].call].kind \in {"error", "aborted"}
      BY DEF SuccessFreesAll
    <3>1. h \in live
      <4>1. log'[Fresh].call = call' /\ call' \in Nat
        BY <1>5, <2>3a
      <4>2. h # Fresh
        BY <4>1
      <4> QED
        BY <2>1, <4>2
    <3> QED
      BY <1>1, <1>5, <2>5, <3>1 DEF LI, SuccessFreesAll
  <2>8. HandleKinds'
    BY <1>1, <1>2, <1>5, <2>1, <2>3, <2>3a DEF LI, HandleKinds
  <2> QED
    BY <2>6, <2>7, <2>8 DEF LI
<1>7. CASE ~(chunk + 1 < Len(q.chunks))
  <2>1. Destroy({data_chunk}) /\ data_chunk' = 0 /\ log' = log
    BY <1>7 DEF NextChunk, ChunkRead, StoreAndFetch, Destroy
  <2>2. Held' = Held \ {data_chunk} /\ {data_chunk} \subseteq Held
    BY <1>1, <1>3, <1>4, <2>1 DEF Held
  <2>3. Ledger' /\ SuccessFreesAll' /\ \A h \in DOMAIN log' : log'[h].call <= call'
    BY <1>1, <2>1, <2>2, DestroyLedger
  <2> QED
    BY <1>1, <2>1, <2>3 DEF LI, HandleKinds
<1> QED
  BY <1>6, <1>7

LEMMA DestroyTypesLedger ==
  ASSUME TI, LI, DestroyTypes
  PROVE  LI'
<1> DEFINE hs == {column_ltypes[c] : c \in DOMAIN column_ltypes}
<1>1. /\ Destroy(hs) /\ column_ltypes' = <<>> /\ log' = log
      /\ UNCHANGED <<result, data_chunk, stack, replies>> /\ stack = <<>>
  BY DEF DestroyTypes, Destroy, TI, Shape
<1>2. hs \cap ({result, data_chunk} \ {0}) = {}
  BY DEF LI, HandleKinds
<1>3. Held = ({result, data_chunk} \ {0}) \cup hs
      /\ Held' = {result, data_chunk} \ {0}
  BY <1>1 DEF Held
<1>4. Ledger' /\ SuccessFreesAll' /\ \A h \in DOMAIN log' : log'[h].call <= call'
  BY <1>1, <1>2, <1>3, DestroyLedger
<1> QED
  BY <1>1, <1>4 DEF LI, HandleKinds

LEMMA DestroyResultLedger ==
  ASSUME TI, LI, DestroyResult
  PROVE  LI'
<1>1. Held = {result} \ {0}
  BY DEF DestroyResult, TI, Shape, Held
<1>2. log' = log /\ live' = live \ {result}
  BY DEF DestroyResult, Destroy, FinishedResult
<1>3. \A h \in live' : log[h].call # call
  BY <1>1, <1>2 DEF LI, Ledger
<1> QED
  BY <1>2, <1>3, FinalReply, ReturnLedger DEF DestroyResult

(* Every step keeps the handles.                                           *)
LEMMA StepLedger ==
  ASSUME TI, LI, [Next]_vars
  PROVE  LI'
<1>1. CASE \E a \in Queries : Query(a)
  BY <1>1, QueryLedger
<1>2. ASSUME NEW kind \in {"error", "aborted"}, Return(RT!Bare(kind)),
             UNCHANGED handles
      PROVE  LI'
  <2>1. RT!Bare(kind) \in Reply /\ RT!Bare(kind).kind = kind
    BY BareReply DEF RT!Bare
  <2> QED
    BY <1>2, <2>1, ReturnLedger DEF handles
<1>3. CASE NoResult \/ QueryFailed \/ Trap
  BY <1>2, <1>3 DEF NoResult, QueryFailed, Trap
<1>4. CASE FirstChunk
  BY <1>4, FirstChunkLedger
<1>5. CASE ReadColumn
  BY <1>5, ReadColumnLedger
<1>6. CASE SkipNulls \/ ReadVector \/ ReadEnumNulled
  BY <1>6, LeaveVectorLedger DEF SkipNulls, ReadVector, ReadEnumNulled
<1>7. CASE EnterChild
  BY <1>7, EnterChildLedger
<1>8. CASE NextChunk
  BY <1>8, NextChunkLedger
<1>9. CASE DestroyTypes
  BY <1>9, DestroyTypesLedger
<1>10. CASE DestroyResult
  BY <1>10, DestroyResultLedger
<1>11. CASE UNCHANGED vars
  <2>1. UNCHANGED <<Held, call, log, live, replies, result, data_chunk,
                    column_ltypes, stack>>
    BY <1>11 DEF vars, handles, reader, Held, call
  <2> QED
    BY <2>1 DEF LI, HandleKinds, Ledger, SuccessFreesAll
<1> QED
  BY <1>1, <1>3, <1>4, <1>5, <1>6, <1>7, <1>8, <1>9, <1>10, <1>11 DEF Next, Step

(* The inductive invariant: it holds at first and every step keeps it.     *)
THEOREM Invariance == Spec => []IInv
<1>1. Init => TI /\ LI
  BY InitType, InitLedger
<1>2. TI /\ LI /\ [Next]_vars => (TI /\ LI)'
  BY StepType, StepLedger
<1>3. TI /\ LI => IInv
  BY DEF TI, LI, IInv
<1> QED
  BY <1>1, <1>2, <1>3, PTL DEF Spec

(* At every point of a call, the handles of the call that are alive are    *)
(* those its variables hold (readChunks.aplf and readVector.aplf): none is *)
(* dropped, none is destroyed and still held.                              *)
THEOREM LedgerCorrect == Spec => []Ledger
<1>1. IInv => Ledger
  BY DEF IInv
<1> QED
  BY <1>1, Invariance, PTL

(* A call that returned DuckDB's answer has destroyed all it obtained.     *)
THEOREM SuccessFrees == Spec => []SuccessFreesAll
<1>1. IInv => SuccessFreesAll
  BY DEF IInv
<1> QED
  BY <1>1, Invariance, PTL

------------------------------------------------------------------------------
\* What readVector may destroy

(* The type kept for a column with the first chunk, its id and its handle, *)
(* is the column's own for all later chunks (readChunks.aplf:19-24).       *)
THEOREM OneTypeCorrect == Spec => []OneTypePerColumn
<1>1. TypeOK /\ OneTypePerColumn => OneTypePerColumn
  OBVIOUS
<1> QED
  BY <1>1, TypeCorrect, PTL

(* While vectors are being read nothing is destroyed but the type of the   *)
(* child that was just read: "caller owns lifecycle" (readVector.aplf:4).  *)
THEOREM CallerOwnsTypeCorrect == Spec => CallerOwnsType
<1>1. ASSUME IInv, [Next]_vars, stack # <<>>
      PROVE  \A h \in live \ live' : log[h].kind = "child" /\ h = Top.h
  <2>1. pc = "columns" /\ Len(stack) \in Nat \ {0} /\ Top = stack[Len(stack)]
    BY <1>1, TopType DEF IInv, Shape
  <2>2. CASE UNCHANGED live
    BY <2>2
  <2>3. ASSUME NEW col, LeaveVector(col)
        PROVE  \A h \in live \ live' : log[h].kind = "child" /\ h = Top.h
    <3>1. \A h \in live \ live' : Len(stack) > 1 /\ h = Top.h
      BY <2>3 DEF LeaveVector, Destroy, ReturnedType
    <3> QED
      BY <1>1, <2>1, <3>1 DEF IInv, HandleKinds
  <2>4. CASE SkipNulls \/ ReadVector \/ ReadEnumNulled
    BY <2>3, <2>4 DEF SkipNulls, ReadVector, ReadEnumNulled
  <2>5. CASE EnterChild
    <3>1. live \subseteq live'
      BY <2>5 DEF EnterChild, Obtain
    <3> QED
      BY <3>1
  <2>6. CASE Trap \/ UNCHANGED vars
    BY <2>2, <2>6 DEF Trap, handles, vars
  <2>7. ~(\/ \E a \in Queries : Query(a)
          \/ NoResult \/ QueryFailed \/ FirstChunk \/ ReadColumn \/ NextChunk
          \/ DestroyTypes \/ DestroyResult)
    BY <1>1, <2>1 DEF Query, NoResult, QueryFailed, FirstChunk, ReadColumn,
                      NextChunk, ChunkRead, StoreAndFetch, DestroyTypes, DestroyResult
  <2> QED
    BY <1>1, <2>4, <2>5, <2>6, <2>7 DEF Next, Step
<1>2. IInv /\ [Next]_vars
        => [stack # <<>> => \A h \in live \ live' :
                              log[h].kind = "child" /\ h = Top.h]_vars
  BY <1>1
<1> QED
  BY <1>2, Invariance, PTL DEF Spec, CallerOwnsType

------------------------------------------------------------------------------
\* The read path implements ResultTable

LEMMA QueryShape ==
  ASSUME TI, pc # "idle"
  PROVE  /\ q \in Queries /\ q # NoQuery
         /\ q.types \in Seq(Types) /\ q.types # <<>>
         /\ q.chunks \in Seq([DOMAIN q.types -> Column \ {<<>>}])
         /\ q.status \in {"ok", "fail", "raise"}
<1>1. q \in Queries
  BY DEF TI, TypeOK, Shape
<1> QED
  BY <1>1, QueriesAssumption

LEMMA InitReadSoFar == Init => ReadSoFar
  BY DEF Init, ReadSoFar

(* Between calls and before the first chunk there is nothing to say.       *)
LEMMA ReadNothing ==
  ASSUME pc \notin {"columns", "types"}, data = <<>>, chunk_data = <<>>,
         stack = <<>>, pc = "destroy" => Len(q.chunks) = 0
  PROVE  ReadSoFar
  BY DEF ReadSoFar

LEMMA ReadColumnSoFar ==
  ASSUME TI, ReadSoFar, ReadColumn
  PROVE  ReadSoFar'
<1>1. /\ UNCHANGED <<q, pc, chunk, chunk_data, data>>
      /\ pc = "columns" /\ column' = column /\ column <= Len(q.types)
      /\ Len(chunk_data) \in Nat /\ column = Len(chunk_data) + 1
      /\ \A c : Cell(c)' = Cell(c)
      /\ \A x, k, c : ReadAs(x, k, c)' = ReadAs(x, k, c)
  BY DEF ReadColumn, column, Cell, ReadAs, TI, TypeOK
<1>2. \E h : stack' = <<Frame(h, q.types[column])>>
  <2>1. CASE chunk = 0
    BY <2>1 DEF ReadColumn, TypeUnknown
  <2>2. CASE chunk # 0
    <3>1. Len(column_ltypes) = Len(q.types) /\ column_ltypes \in Seq(DOMAIN log)
      BY <2>2 DEF ReadColumn, TI, Shape, TypeOK
    <3>2. column \in DOMAIN column_ltypes
      BY <1>1, <3>1
    <3>3. log[column_ltypes[column]].type = q.types[column]
      BY <1>1, <3>2 DEF TI, Shape, OneTypePerColumn
    <3> QED
      BY <2>2, <3>3 DEF ReadColumn, TypeUnknown, CachedLtype
  <2> QED
    BY <2>1, <2>2
<1>3. /\ stack'[1].type = q.types[column] /\ Len(stack') = 1
      /\ DOMAIN stack' = {1}
  BY <1>2 DEF Frame
<1> QED
  BY <1>1, <1>3 DEF ReadSoFar

LEMMA LeaveVectorSoFar ==
  ASSUME TI, ReadSoFar, pc = "columns", stack # <<>>,
         NEW col \in ColumnRead, LeaveVector(col),
         Len(stack) = 1 => ReadAs(col, chunk + 1, column)
  PROVE  ReadSoFar'
<1> DEFINE n == Len(stack)
<1>1. /\ UNCHANGED <<q, pc, chunk, column_types, data>>
      /\ \A c : Cell(c)' = Cell(c)
      /\ \A x, k, c : ReadAs(x, k, c)' = ReadAs(x, k, c)
  BY DEF LeaveVector, Cell, ReadAs
<1>2. /\ n \in Nat \ {0} /\ Len(stack') = n - 1
      /\ DOMAIN stack' = 1 .. n - 1 /\ DOMAIN stack = 1 .. n
      /\ \A d \in 1 .. n - 1 : stack'[d] = stack[d]
  <2>1. stack \in Seq([h : DOMAIN log, type : Types, next : Nat \ {0}])
    BY TopType DEF TI
  <2> QED
    BY <2>1, TopType, PopProperties DEF LeaveVector, TI
<1>3. chunk_data \in Seq(ColumnRead) /\ column = Len(chunk_data) + 1
      /\ column' = Len(chunk_data') + 1
  BY DEF TI, TypeOK, column
<1>4. CASE n = 1
  <2>1. chunk_data' = Append(chunk_data, col)
    BY <1>4 DEF LeaveVector
  <2>2. /\ DOMAIN chunk_data' = 1 .. Len(chunk_data) + 1
        /\ \A c \in DOMAIN chunk_data : chunk_data'[c] = chunk_data[c]
        /\ chunk_data'[Len(chunk_data) + 1] = col
    BY <1>3, <2>1, AppendProperties
  <2>3. \A c \in DOMAIN chunk_data' : ReadAs(chunk_data'[c], chunk + 1, c)
    BY <1>3, <1>4, <2>2 DEF ReadSoFar
  <2>4. stack' = <<>>
    BY <1>4, PopProperties, TopType DEF LeaveVector, TI
  <2> QED
    BY <1>1, <2>3, <2>4 DEF ReadSoFar
<1>5. CASE n # 1
  <2>1. UNCHANGED <<chunk_data, column>>
    BY <1>5 DEF LeaveVector, column
  <2> QED
    BY <1>1, <1>2, <1>5, <2>1 DEF ReadSoFar
<1> QED
  BY <1>4, <1>5

LEMMA OneOrMore ==
  ASSUME NEW k \in Nat \ {0}
  PROVE  k = 1 \/ k > 1
  OBVIOUS

LEMMA EnterChildSoFar ==
  ASSUME TI, ReadSoFar, EnterChild
  PROVE  ReadSoFar'
<1> DEFINE kid == Kids[Top.type][Top.next]
           parent == [stack EXCEPT ![Len(stack)].next = @ + 1]
           n == Len(stack)
           F == [h : Nat, type : Types, next : Nat \ {0}]
<1>1. /\ UNCHANGED <<q, pc, chunk, chunk_data, column_types, data>>
      /\ column' = column /\ \A c : Cell(c)' = Cell(c)
      /\ \A x, k, c : ReadAs(x, k, c)' = ReadAs(x, k, c)
  BY DEF EnterChild, column, Cell, ReadAs
<1>2. /\ stack \in Seq([h : DOMAIN log, type : Types, next : Nat \ {0}])
      /\ n \in Nat \ {0} /\ Top = stack[n]
      /\ Top \in [h : DOMAIN log, type : Types, next : Nat \ {0}]
  BY TopType DEF EnterChild, TI
<1>3. Top.next \in DOMAIN Kids[Top.type] /\ kid \in Types
  BY <1>2, TypesAssumption DEF EnterChild
<1>4. stack \in Seq(F)
  <2>1. log \in Seq(Handle)
    BY DEF TI, TypeOK
  <2>2. [h : DOMAIN log, type : Types, next : Nat \ {0}] \subseteq F
    BY <2>1
  <2>3. stack \in Seq([h : DOMAIN log, type : Types, next : Nat \ {0}])
    BY <1>2
  <2> HIDE DEF F
  <2> QED
    BY <2>2, <2>3, SeqOfMore
<1>5. /\ parent \in Seq(F) /\ Len(parent) = n
      /\ \A d \in 1 .. n : parent[d].type = stack[d].type
  <2>1. stack[n] \in F /\ [stack[n] EXCEPT !.next = @ + 1] \in F
    BY <1>2, <1>4
  <2> QED
    BY <1>2, <1>4, <2>1
<1>6. Frame(Fresh, kid) \in F /\ Frame(Fresh, kid).type = kid
  BY <1>3 DEF Frame, Fresh, TI, TypeOK
<1>7. stack' = Append(parent, Frame(Fresh, kid))
  BY DEF EnterChild
<1> HIDE DEF parent, F
<1>8. /\ Len(stack') = n + 1 /\ DOMAIN stack' = 1 .. n + 1
      /\ \A d \in 1 .. n : stack'[d].type = stack[d].type
      /\ stack'[n + 1].type = kid
  <2>1. /\ Append(parent, Frame(Fresh, kid)) \in Seq(F)
        /\ Len(Append(parent, Frame(Fresh, kid))) = n + 1
        /\ \A d \in 1 .. n : Append(parent, Frame(Fresh, kid))[d] = parent[d]
        /\ Append(parent, Frame(Fresh, kid))[n + 1] = Frame(Fresh, kid)
    BY <1>5, <1>6, AppendProperties
  <2> QED
    BY <1>5, <1>6, <1>7, <2>1
<1>9. ~RT!AllNull(Cell(column))
  <2>1. CASE Len(stack) = 1
    BY <2>1 DEF EnterChild, Valid
  <2>2. CASE Len(stack) > 1
    BY <2>2 DEF ReadSoFar
  <2>3. Len(stack) = 1 \/ Len(stack) > 1
    <3>1. Len(stack) \in Nat \ {0}
      BY <1>2
    <3> QED
      BY <3>1, OneOrMore
  <2> QED
    BY <2>1, <2>2, <2>3
<1>10. q.types[column] \in Decodable => kid \in Decodable
  BY <1>2, <1>3, TypesAssumption DEF ReadSoFar
<1>11. \A d \in DOMAIN stack' :
         q.types[column] \in Decodable => stack'[d].type \in Decodable
  BY <1>2, <1>8, <1>10 DEF ReadSoFar
<1>12. stack'[1].type = q.types[column]
  BY <1>2, <1>8 DEF ReadSoFar
<1>13. q.types[column] \in NoEnum => kid \in NoEnum
  BY <1>2, <1>3, TypesAssumption DEF ReadSoFar
<1>14. \A d \in DOMAIN stack' :
         q.types[column] \in NoEnum => stack'[d].type \in NoEnum
  BY <1>2, <1>8, <1>13 DEF ReadSoFar
<1>15. q.types[column] \notin Enums
  <2>1. CASE n = 1
    <3>1. Top.type = q.types[column]
      BY <1>2, <2>1 DEF ReadSoFar, EnterChild
    <3> QED
      BY <1>2, <1>3, <3>1, TypesAssumption
  <2>2. CASE n > 1
    BY <2>2 DEF ReadSoFar
  <2> QED
    BY <1>2, <2>1, <2>2, OneOrMore
<1> QED
  BY <1>1, <1>9, <1>11, <1>12, <1>14, <1>15 DEF ReadSoFar

LEMMA NextChunkSoFar ==
  ASSUME TI, ReadSoFar, NextChunk
  PROVE  ReadSoFar'
<1>1. /\ q \in Queries /\ q.types \in Seq(Types)
      /\ q.chunks \in Seq([DOMAIN q.types -> Column \ {<<>>}])
      /\ pc = "columns" /\ stack = <<>> /\ chunk < Len(q.chunks) /\ chunk \in Nat
      /\ Len(data) = chunk
  BY QueryShape DEF NextChunk, ChunkRead, StoreAndFetch, TI, TypeOK, Shape, ReadSoFar
<1>2. /\ Len(chunk_data) = Len(q.types) /\ Len(column_types) = Len(q.types)
      /\ chunk_data \in Seq(ColumnRead) /\ column_types \in Seq(Types)
  <2>1. Len(q.types) \in Nat /\ Len(chunk_data) \in Nat
    BY <1>1 DEF TI, TypeOK
  <2>2. column = Len(chunk_data) + 1 /\ column = Len(q.types) + 1
    BY <1>1, <2>1 DEF NextChunk, ChunkRead, StoreAndFetch, TI, Shape, column
  <2> QED
    BY <1>1, <2>1, <2>2 DEF NextChunk, ChunkRead, StoreAndFetch, TI, TypeOK, Shape
<1>3. /\ DOMAIN chunk_data = DOMAIN q.types
      /\ \A c \in DOMAIN chunk_data : ReadAs(chunk_data[c], chunk + 1, c)
  <2>1. DOMAIN chunk_data = 1 .. Len(chunk_data) /\ DOMAIN q.types = 1 .. Len(q.types)
    BY <1>1, <1>2
  <2> QED
    BY <1>2, <2>1 DEF ReadSoFar
<1>4. /\ DOMAIN data' = 1 .. chunk + 1 /\ Len(data') = chunk + 1
      /\ \A k \in 1 .. chunk : data'[k] = data[k]
      /\ data'[chunk + 1] = chunk_data
  <2>1. data \in Seq(Seq(ColumnRead)) /\ chunk_data \in Seq(ColumnRead)
        /\ data' = Append(data, chunk_data)
    BY DEF NextChunk, ChunkRead, StoreAndFetch, TI, TypeOK
  <2> QED
    BY <1>1, <2>1, AppendProperties
<1>5. \A k \in DOMAIN data' :
         /\ DOMAIN data'[k] = DOMAIN q.types
         /\ \A c \in DOMAIN data'[k] : ReadAs(data'[k][c], k, c)
  BY <1>1, <1>3, <1>4 DEF ReadSoFar
<1>6. /\ q' = q /\ chunk' = chunk + 1 /\ chunk_data' = <<>> /\ stack' = <<>>
      /\ column_types' = column_types
      /\ \A x, k, c : ReadAs(x, k, c)' = ReadAs(x, k, c)
  BY DEF NextChunk, ChunkRead, StoreAndFetch, ReadAs
<1>7. column_types = q.types
  BY <1>1, <1>2 DEF TI, Shape, OneTypePerColumn
<1>8. \/ pc' = "columns"
      \/ pc' = "types" /\ Len(q.chunks) = chunk + 1
  BY <1>1 DEF NextChunk, ChunkRead, StoreAndFetch
<1> QED
  BY <1>4, <1>5, <1>6, <1>7, <1>8 DEF ReadSoFar

(* A vector at the outermost level is read at the type of its column.      *)
LEMMA TopOfColumn ==
  ASSUME TI, ReadSoFar, stack # <<>>, Len(stack) = 1
  PROVE  Top.type = q.types[column]
  BY DEF ReadSoFar, Top

(* The column being read is one of the answer's.                           *)
LEMMA CellInAnswer ==
  ASSUME TI, pc = "columns", stack # <<>>
  PROVE  column \in DOMAIN q.types /\ chunk + 1 \in DOMAIN q.chunks
<1>1. /\ q.types \in Seq(Types)
      /\ q.chunks \in Seq([DOMAIN q.types -> Column \ {<<>>}])
  BY QueryShape
<1>2. Len(chunk_data) \in Nat /\ chunk \in Nat
  BY DEF TI, TypeOK
<1>3. column = Len(chunk_data) + 1 /\ column <= Len(q.types)
      /\ chunk < Len(q.chunks)
  BY DEF TI, Shape, column
<1>4. Len(q.types) \in Nat /\ Len(q.chunks) \in Nat
      /\ DOMAIN q.types = 1 .. Len(q.types)
      /\ DOMAIN q.chunks = 1 .. Len(q.chunks)
  BY <1>1
<1> QED
  BY <1>2, <1>3, <1>4

(* The vector being read has a valid row, of whatever depth it is.         *)
LEMMA ValidCell ==
  ASSUME TI, ReadSoFar, stack # <<>>, Valid
  PROVE  ~RT!AllNull(Cell(column))
<1>1. Len(stack) = 1 \/ Len(stack) > 1
  BY TopType, OneOrMore DEF TI
<1> QED
  BY <1>1 DEF Valid, ReadSoFar

(* An ENUM column with an index of a null row past its dictionary mixes    *)
(* values and nulls.                                                       *)
LEMMA EnumMixes ==
  ASSUME TI, ReadSoFar, pc = "columns", Len(stack) = 1, stack # <<>>, Valid,
         Top.type \in Enums,
         \E bad \in SUBSET {i \in DOMAIN Cell(column) : Cell(column)[i] = NULL} :
           bad # {}
  PROVE  /\ q.types[column] \in Enums
         /\ RT!Fragile(q.types[column], Cell(column))
<1>1. q.types[column] \in Enums /\ q.types[column] \notin NoEnum
  BY TopOfColumn, TypesAssumption
<1>2. \E i \in DOMAIN Cell(column) : Cell(column)[i] = NULL
  OBVIOUS
<1>3. ~RT!AllNull(Cell(column))
  BY ValidCell
<1> QED
  BY <1>1, <1>2, <1>3 DEF RT!Fragile

(* A column that holds ENUMs may lose them.                                *)
LEMMA NestedMayFail ==
  ASSUME TI, ReadSoFar, stack # <<>>, Valid,
         q.types[column] \notin NoEnum \cup Enums
  PROVE  RT!Fragile(q.types[column], Cell(column))
  BY ValidCell DEF RT!Fragile

(* Every step keeps what has been read.                                    *)
LEMMA StepReadSoFar ==
  ASSUME TI, ReadSoFar, [Next]_vars
  PROVE  ReadSoFar'
<1>1. ASSUME NEW r, Return(r)
      PROVE  ReadSoFar'
  BY <1>1 DEF Return, ReadSoFar
<1>2. CASE NoResult \/ QueryFailed \/ Trap \/ DestroyResult
  BY <1>1, <1>2 DEF NoResult, QueryFailed, Trap, DestroyResult
<1>3. CASE \E a \in Queries : Query(a)
  BY <1>3 DEF Query, reader, TI, Shape, ReadSoFar
<1>4. CASE FirstChunk
  BY <1>4 DEF FirstChunk, TI, Shape, ReadSoFar
<1>5. CASE ReadColumn
  BY <1>5, ReadColumnSoFar
<1>6. CASE SkipNulls \/ ReadVector \/ ReadEnumNulled
  <2> DEFINE decoded == RT!Decode(Top.type, Cell(column))
             lost == RT!Lost(Cell(column))
  <2>1. pc = "columns" /\ stack # <<>>
    BY <1>6 DEF SkipNulls, ReadVector, ReadEnumNulled
  <2>2. Cell(column) \in Column
    BY <2>1, CellIsColumn DEF TI, Shape
  <2>3. ASSUME LeaveVector(decoded)
        PROVE  ReadSoFar'
    <3>1. decoded \in ColumnRead
      BY <2>1, <2>2, DecodeType, TopType DEF TI
    <3>2. Len(stack) = 1 => ReadAs(decoded, chunk + 1, column)
      BY <2>1, TopOfColumn DEF ReadAs, RT!Readings, Cell
    <3> QED
      BY <2>1, <2>3, <3>1, <3>2, LeaveVectorSoFar
  <2>4. CASE ReadEnumNulled
    <3>1. LeaveVector(lost) /\ lost \in ColumnRead
      BY <2>2, <2>4 DEF ReadEnumNulled, RT!Lost, Column, ColumnRead
    <3>2. /\ q.types[column] \in Enums
          /\ RT!Fragile(q.types[column], Cell(column))
      BY <2>1, <2>4, EnumMixes DEF ReadEnumNulled
    <3>3. ReadAs(lost, chunk + 1, column)
      BY <3>2 DEF ReadAs, RT!Readings, Cell
    <3> QED
      BY <2>1, <3>1, <3>3, LeaveVectorSoFar
  <2>5. CASE ReadVector /\ ~LeaveVector(decoded)
    <3>1. PICK harmed \in SUBSET DOMAIN Cell(column) :
            LeaveVector(RT!Damaged(Top.type, Cell(column), harmed))
      BY <2>5 DEF ReadVector
    <3> DEFINE damaged == RT!Damaged(Top.type, Cell(column), harmed)
    <3>2. damaged \in ColumnRead
      BY <2>1, <2>2, DamagedType, TopType DEF TI
    <3>3. Top.type = q.types[column] /\ Top.type \notin NoEnum \cup Enums
      BY <2>1, <2>5, TopOfColumn DEF ReadVector
    <3>4. RT!Fragile(q.types[column], Cell(column))
      BY <2>1, <2>5, <3>3, NestedMayFail DEF ReadVector
    <3>5. ReadAs(damaged, chunk + 1, column)
      BY <3>3, <3>4 DEF ReadAs, RT!Readings, Cell
    <3> QED
      BY <2>1, <3>1, <3>2, <3>5, LeaveVectorSoFar
  <2> QED
    BY <1>6, <2>3, <2>4, <2>5 DEF SkipNulls, ReadVector
<1>7. CASE EnterChild
  BY <1>7, EnterChildSoFar
<1>9. CASE NextChunk
  BY <1>9, NextChunkSoFar
<1>10. CASE DestroyTypes
  <2>1. \A x, k, c : ReadAs(x, k, c)' = ReadAs(x, k, c)
    BY <1>10 DEF DestroyTypes, ReadAs
  <2> QED
    BY <1>10, <2>1 DEF DestroyTypes, TI, Shape, ReadSoFar
<1>11. CASE UNCHANGED vars
  <2>1. /\ UNCHANGED <<q, pc, chunk, column_types, chunk_data, data, stack,
                       column>>
        /\ \A y : Cell(y)' = Cell(y)
        /\ \A x, k, c : ReadAs(x, k, c)' = ReadAs(x, k, c)
    BY <1>11 DEF vars, reader, Cell, column, ReadAs
  <2> QED
    BY <2>1 DEF ReadSoFar
<1> QED
  BY <1>2, <1>3, <1>4, <1>5, <1>6, <1>7, <1>9, <1>10, <1>11
     DEF Next, Step

(* The three replies a call may give, and when.                            *)
LEMMA AbortAllowed ==
  ASSUME TI, ReadSoFar, Trap
  PROVE  RT!Answers(q, RT!Bare("aborted"))
<1>1. q.status = "ok" /\ pc = "columns" /\ stack # <<>> /\ Valid
  BY DEF Trap, TI, Shape
<1>2. CASE Top.type \in Unsupported
  <2>1. Len(stack) \in DOMAIN stack /\ Top = stack[Len(stack)]
    BY <1>1, TopType DEF TI
  <2>2. q.types[column] \notin Decodable
    BY <1>2, <2>1, TypesAssumption DEF ReadSoFar
  <2>3. ~RT!AllNull(q.chunks[chunk + 1][column])
    BY <1>1, ValidCell DEF Cell
  <2>4. RT!Unreadable(q)
    BY <1>1, <2>2, <2>3, CellInAnswer DEF RT!Unreadable
  <2> QED
    BY <1>1, <2>4 DEF RT!Answers, RT!MayAbort
<1>3. CASE Top.type \notin Unsupported
  <2>1. RT!Fragile(q.types[column], Cell(column))
    <3>1. CASE Len(stack) = 1
      <4>0. ~(Len(stack) > 1)
        BY <3>1
      <4>1. /\ Top.type \in Enums
            /\ \E bad \in SUBSET {i \in DOMAIN Cell(column) :
                                   Cell(column)[i] = NULL} : bad # {}
        BY <1>3, <4>0, Zenon DEF Trap
      <4> QED
        BY <1>1, <3>1, <4>1, EnumMixes
    <3>2. CASE Len(stack) > 1
      <4>1. Len(stack) \in DOMAIN stack /\ Top = stack[Len(stack)]
        BY <1>1, TopType DEF TI
      <4>2. Top.type \in Enums
        BY <1>3 DEF Trap
      <4>3. q.types[column] \notin NoEnum
        BY <4>1, <4>2, TypesAssumption DEF ReadSoFar
      <4>4. q.types[column] \notin Enums
        BY <3>2 DEF ReadSoFar
      <4> QED
        BY <1>1, <4>3, <4>4, NestedMayFail
    <3> QED
      BY <1>1, <3>1, <3>2, TopType, OneOrMore DEF TI
  <2>2. Cell(column) = q.chunks[chunk + 1][column]
    BY DEF Cell
  <2>3. RT!MayAbort(q)
    BY <1>1, <2>1, <2>2, CellInAnswer DEF RT!MayAbort
  <2> QED
    BY <1>1, <2>3 DEF RT!Answers
<1> QED
  BY <1>2, <1>3

LEMMA FinalAllowed ==
  ASSUME TI, ReadSoFar, pc = "destroy"
  PROVE  RT!Answers(q, IF data = <<>> THEN RT!Bare("names")
                       ELSE [kind |-> "table", types |-> column_types,
                             data |-> data])
<1>1. /\ q.status = "ok" /\ Len(data) = Len(q.chunks)
      /\ data \in Seq(Seq(ColumnRead))
  BY DEF TI, TypeOK, Shape, ReadSoFar
<1>2. q.chunks \in Seq([DOMAIN q.types -> Column \ {<<>>}])
  BY QueryShape
<1>3. CASE data = <<>>
  <2>1. q.chunks = <<>>
    BY <1>1, <1>2, <1>3, EmptySeq
  <2> QED
    BY <1>1, <1>3, <2>1 DEF RT!Answers
<1>4. CASE data # <<>>
  <2> DEFINE table == [kind |-> "table", types |-> column_types, data |-> data]
  <2>1. q.chunks # <<>>
    BY <1>1, <1>2, <1>4, EmptySeq
  <2>2. DOMAIN data = DOMAIN q.chunks
    BY <1>1, <1>2
  <2>3. column_types = q.types
    BY <1>4 DEF ReadSoFar
  <2>4. \A k \in DOMAIN q.chunks :
          /\ DOMAIN data[k] = DOMAIN q.types
          /\ \A c \in DOMAIN q.types :
               data[k][c] \in RT!Readings(q.types[c], q.chunks[k][c])
    BY <2>2 DEF ReadSoFar, ReadAs
  <2>5. RT!IsTable(q, table)
    BY <2>2, <2>3, <2>4 DEF RT!IsTable
  <2> QED
    BY <1>1, <1>4, <2>1, <2>5 DEF RT!Answers
<1> QED
  BY <1>3, <1>4

(* What the call has read is the decoding of as much of the answer, but    *)
(* for ENUMs (readChunks.aplf:12-33).                                      *)
THEOREM ReadSoFarCorrect == Spec => []ReadSoFar
<1>1. Init => TI /\ ReadSoFar
  BY InitType, InitReadSoFar
<1>2. TI /\ ReadSoFar /\ [Next]_vars => (TI /\ ReadSoFar)'
  BY StepType, StepReadSoFar
<1> QED
  BY <1>1, <1>2, PTL DEF Spec

(* The read path gives each caller exactly what ResultTable allows: the    *)
(* rows in the order of the chunks, each column at its own type, an APL    *)
(* error or a loss only where a value has no reader, an ENUM column mixes  *)
(* values and nulls or values hold ENUMs, and a reply to every call.       *)
THEOREM ReadImplements == Spec => Implements
<1>1. Init => RT!Init
  BY DEF Init, RT!Init
<1>2. ASSUME TI, ReadSoFar, [Next]_vars
      PROVE  [RT!Next]_<<q, replies>>
  <2>1. CASE \E a \in Queries : Query(a)
    BY <1>2, <2>1 DEF Query, TI, Shape, RT!Next, RT!Ask
  <2>2. ASSUME NEW r, RT!Answers(q, r), Return(r), pc # "idle"
        PROVE  RT!Next
    <3>1. replies \in Seq(Reply) /\ replies' = Append(replies, r)
      BY <1>2, <2>2 DEF Return, TI, TypeOK
    <3>2. replies'[Len(replies) + 1] = r
      BY <3>1
    <3> QED
      BY <1>2, <2>2, <3>1, <3>2 DEF Return, TI, Shape, RT!Next, RT!Answer
  <2>3. CASE NoResult
    <3>1. RT!Answers(q, RT!Bare("aborted"))
      BY <2>3 DEF NoResult, RT!Answers
    <3> QED
      BY <2>2, <2>3, <3>1 DEF NoResult
  <2>4. CASE QueryFailed
    <3>1. RT!Answers(q, RT!Bare("error"))
      BY <2>4 DEF QueryFailed, RT!Answers
    <3> QED
      BY <2>2, <2>4, <3>1 DEF QueryFailed
  <2>5. CASE Trap
    BY <1>2, <2>2, <2>5, AbortAllowed DEF Trap
  <2>6. CASE DestroyResult
    BY <1>2, <2>2, <2>6, FinalAllowed DEF DestroyResult
  <2>7. CASE FirstChunk \/ ReadColumn \/ EnterChild \/ NextChunk \/ DestroyTypes
    BY <2>7 DEF FirstChunk, ReadColumn, EnterChild, NextChunk, ChunkRead, StoreAndFetch, DestroyTypes
  <2>8. CASE SkipNulls \/ ReadVector \/ ReadEnumNulled
    BY <2>8 DEF SkipNulls, ReadVector, ReadEnumNulled, LeaveVector
  <2>9. CASE UNCHANGED vars
    BY <2>9 DEF vars
  <2> QED
    BY <1>2, <2>1, <2>3, <2>4, <2>5, <2>6, <2>7, <2>8, <2>9 DEF Next, Step
<1>3. Init => TI /\ ReadSoFar
  BY InitType, InitReadSoFar
<1>4. TI /\ ReadSoFar /\ [Next]_vars => (TI /\ ReadSoFar)'
  BY StepType, StepReadSoFar
<1> QED
  BY <1>1, <1>2, <1>3, <1>4, PTL DEF Spec, Implements, RT!Spec
===============================================================================
