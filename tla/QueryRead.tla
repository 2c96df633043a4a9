------------------------------ MODULE QueryRead ------------------------------
(***************************************************************************)
(* The read path: query.aplf -> getResults.aplf -> readChunks.aplf ->      *)
(* readVector.aplf, one action per call of the C API (or per few calls     *)
(* with no branch between them).  A call runs to completion on the one APL *)
(* thread; what varies is the answer of DuckDB, the nesting of the column  *)
(* types and the contents of each chunk, because a type the reader does    *)
(* not know stops it (the undefined "three jots" line of readVector.aplf)  *)
(* wherever it stands.                                                     *)
(*                                                                         *)
(* Every handle the C API hands out is numbered: log[h] is what handle h   *)
(* is and which call obtained it, live the handles not destroyed yet.      *)
(***************************************************************************)
EXTENDS Naturals, Sequences, FiniteSets

CONSTANTS
  Queries,      \* what DuckDB may answer: [status, types, chunks] records
  Types,        \* the logical types that may occur
  Kids,         \* Kids[t]: the child types of t (LIST, MAP, ARRAY: 1; STRUCT: n)
  Unsupported,  \* the types of the :Else branch of readVector.aplf
  Enums,        \* the ENUM types
  Decodable,    \* a set of types closed under Kids without unsupported ones
  NoEnum,       \* a set of types closed under Kids without ENUMs
  Cells,        \* the values of valid rows
  MaxCalls,     \* bound on the number of calls
  NULL, NoQuery

ASSUME NullAssumption ==
  NULL \notin Cells /\ NULL \notin (Types \X (Cells \cup {NULL}))

ASSUME TypesAssumption ==
  /\ Kids \in [Types -> Seq(Types)]
  /\ Unsupported \subseteq Types
  /\ Enums \subseteq Types
  /\ Decodable \subseteq Types \ Unsupported
  /\ \A t \in Decodable : \A i \in DOMAIN Kids[t] : Kids[t][i] \in Decodable
  /\ NoEnum \subseteq Types \ Enums
  /\ \A t \in NoEnum : \A i \in DOMAIN Kids[t] : Kids[t][i] \in NoEnum
  /\ \A t \in Types : t \in Unsupported \cup Enums => Kids[t] = <<>>

Column == Seq(Cells \cup {NULL})

(* A materialised result never holds an empty chunk, and every chunk has   *)
(* one vector per column of the result.                                    *)
ASSUME QueriesAssumption ==
  /\ NoQuery \notin Queries
  /\ \A a \in Queries :
       /\ a.status \in {"ok", "fail", "raise"}
       /\ a.types \in Seq(Types)
       /\ a.types # <<>>
       /\ a.chunks \in Seq([DOMAIN a.types -> Column \ {<<>>}])

ASSUME BoundAssumption == MaxCalls \in Nat

VARIABLES
  q,          \* the answer being read, NoQuery between calls
  pc,         \* where the call is
  log,        \* log[h]: kind, call and type of the h-th handle ever obtained
  live,       \* the handles not destroyed
  result,     \* the duckdb_result of the call, 0 when there is none
  data_chunk, \* _data_chunk of readChunks.aplf, 0 at the end of the stream
  chunk,      \* chunk of readChunks.aplf: chunks read completely
  column_ltypes, \* the column type handles obtained with the first chunk
  column_types,  \* the type ids read from them
  chunk_data, \* the columns of the current chunk read so far
  data,       \* the chunks read completely
  stack,      \* the active calls of readVector.aplf, the column's own first
  replies     \* what each finished call gave its caller

handles == <<log, live>>
reader  == <<data_chunk, chunk, column_ltypes, column_types, chunk_data, data,
             stack>>
vars    == <<q, pc, handles, result, reader, replies>>

RT == INSTANCE ResultTable WITH asked <- q

------------------------------------------------------------------------------
\* Handles

call == Len(replies) + 1

(* Obtain a handle: the next number.                                       *)
Fresh == Len(log) + 1

Obtain(kind, t) ==
  /\ log' = Append(log, [kind |-> kind, call |-> call, type |-> t])
  /\ live' = live \cup {Fresh}

(* Destroy the handles in hs.                                              *)
Destroy(hs) == live' = live \ hs /\ UNCHANGED log

column == Len(chunk_data) + 1

Top == stack[Len(stack)]

Cell(c) == q.chunks[chunk + 1][c]

Frame(h, t) == [h |-> h, type |-> t, next |-> 1]

(* What the call holds: the result, the current chunk, the column types    *)
(* and the child types of the active calls of readVector.aplf.             *)
Held == ({result, data_chunk} \ {0})
          \cup {column_ltypes[c] : c \in DOMAIN column_ltypes}
          \cup {stack[d].h : d \in 2 .. Len(stack)}

Init ==
  /\ q = NoQuery
  /\ pc = "idle"
  /\ log = <<>> /\ live = {}
  /\ result = 0
  /\ data_chunk = 0 /\ chunk = 0
  /\ column_ltypes = <<>> /\ column_types = <<>>
  /\ chunk_data = <<>> /\ data = <<>> /\ stack = <<>>
  /\ replies = <<>>

(* The call returns r to its caller.                                       *)
Return(r) ==
  /\ replies' = Append(replies, r)
  /\ q' = NoQuery
  /\ pc' = "idle"
  /\ result' = 0
  /\ data_chunk' = 0 /\ chunk' = 0
  /\ column_ltypes' = <<>> /\ column_types' = <<>>
  /\ chunk_data' = <<>> /\ data' = <<>> /\ stack' = <<>>

------------------------------------------------------------------------------
\* query.aplf and getResults.aplf

(* duckdb_query fills the result whether the query succeeds or not; when   *)
(* the call itself raises, the trap of query.aplf:7 leaves no result.      *)
Query(a) ==
  /\ pc = "idle"
  /\ Len(replies) < MaxCalls
  /\ q' = a
  /\ pc' = "status"
  /\ IF a.status = "raise"
       THEN result' = 0 /\ UNCHANGED handles
       ELSE result' = Fresh /\ Obtain("result", NULL)
  /\ UNCHANGED <<reader, replies>>

(* getResults.aplf:2 finds (st result) without a value.                    *)
NoResult ==
  /\ pc = "status" /\ q.status = "raise"
  /\ Return(RT!Bare("aborted"))
  /\ UNCHANGED handles

(* getResults.aplf:2-5: the text of the error, and back to the caller.     *)
QueryFailed ==
  /\ pc = "status" /\ q.status = "fail"
  /\ Return(RT!Bare("error"))
  /\ UNCHANGED handles

(* getResults.aplf:7-12 reads the column names and enters readChunks.aplf, *)
(* which fetches the first chunk; a null chunk means there are no rows.    *)
FirstChunk ==
  /\ pc = "status" /\ q.status = "ok"
  /\ IF q.chunks = <<>>
       THEN pc' = "destroy" /\ data_chunk' = 0 /\ UNCHANGED handles
       ELSE pc' = "columns" /\ data_chunk' = Fresh /\ Obtain("chunk", NULL)
  /\ UNCHANGED <<q, result, chunk, column_ltypes, column_types, chunk_data,
                 data, stack, replies>>

------------------------------------------------------------------------------
\* readChunks.aplf and readVector.aplf

(* The columns whose type the loop has yet to obtain: all of them while    *)
(* the first chunk is read, none later (readChunks.aplf:19-24).            *)
(* Faulty variant: the type is obtained again with every chunk.            *)
TypeUnknownFaulty == TRUE
TypeUnknown == chunk = 0

(* The type kept for the column (readChunks.aplf:24).                      *)
(* Faulty variant: the type of the first column serves them all.           *)
CachedLtypeFaulty(c) == column_ltypes[1]
CachedLtype(c) == column_ltypes[c]

ReadColumn ==
  /\ pc = "columns" /\ stack = <<>>
  /\ column <= Len(q.types)
  /\ IF TypeUnknown
       THEN /\ column_ltypes' = Append(column_ltypes, Fresh)
            /\ column_types' = Append(column_types, q.types[column])
            /\ Obtain("ltype", q.types[column])
            /\ stack' = <<Frame(Fresh, q.types[column])>>
       ELSE /\ stack' = <<Frame(CachedLtype(column),
                                log[CachedLtype(column)].type)>>
            /\ UNCHANGED <<column_ltypes, column_types, handles>>
  /\ UNCHANGED <<q, pc, result, data_chunk, chunk, chunk_data, data, replies>>

(* The type readVector's caller destroys when it returns: that of a child  *)
(* (readVector.aplf:136, 146, 165, 178), not that of a column.             *)
(* Faulty variants: the child's type is forgotten; the column's goes too.  *)
ReturnedTypeForgotten == {}
ReturnedTypeEager == {Top.h}
ReturnedType == IF Len(stack) > 1 THEN {Top.h} ELSE {}

(* Leave the active readVector; at the outermost level store the column.   *)
LeaveVector(col) ==
  /\ Destroy(ReturnedType)
  /\ chunk_data' = IF Len(stack) = 1 THEN Append(chunk_data, col) ELSE chunk_data
  /\ stack' = SubSeq(stack, 1, Len(stack) - 1)
  /\ UNCHANGED <<q, pc, result, data_chunk, chunk, column_ltypes,
                 column_types, data, replies>>

(* A vector without a valid row is not decoded (readVector.aplf:18), and   *)
(* becomes all nulls at 185-190; the rows of a child are not modelled, so  *)
(* a child may always be such a vector.                                    *)
SkipNulls ==
  /\ pc = "columns" /\ stack # <<>>
  /\ Top.next = 1
  /\ Len(stack) = 1 => RT!AllNull(Cell(column))
  /\ LeaveVector(RT!Decode(Top.type, Cell(column)))

(* A vector with a valid row (of a child: maybe).                          *)
Valid == Len(stack) = 1 => ~RT!AllNull(Cell(column))

(* The type of the next child, and readVector called again on its vector.  *)
EnterChild ==
  /\ pc = "columns" /\ stack # <<>> /\ Valid
  /\ Top.next <= Len(Kids[Top.type])
  /\ LET kid == Kids[Top.type][Top.next]
     IN  /\ Obtain("child", kid)
         /\ stack' = Append([stack EXCEPT ![Len(stack)].next = @ + 1],
                            Frame(Fresh, kid))
  /\ UNCHANGED <<q, pc, result, data_chunk, chunk, column_ltypes,
                 column_types, chunk_data, data, replies>>

(* The vector's own rows are decoded.  ENUMs below it may have lost their  *)
(* values, as a column may (see next), in any of its rows.                 *)
ReadVector ==
  /\ pc = "columns" /\ stack # <<>> /\ Valid
  /\ Top.type \notin Unsupported
  /\ Top.next = Len(Kids[Top.type]) + 1
  /\ \/ LeaveVector(RT!Decode(Top.type, Cell(column)))
     \/ /\ Len(stack) = 1
        /\ Top.type \notin NoEnum \cup Enums
        /\ \E harmed \in SUBSET DOMAIN Cell(column) :
             LeaveVector(RT!Damaged(Top.type, Cell(column), harmed))

(* The invalid rows of an ENUM vector hold any index.  With indices of the *)
(* rows in bad past the dictionary, readEnumColumn.aplf:35 assigns the     *)
(* compressed values to col before it replicates them, so that one value   *)
(* is left for all rows, which 187-189 overwrite with nulls.               *)
ReadEnumNulled ==
  /\ pc = "columns" /\ Len(stack) = 1 /\ Valid
  /\ Top.type \in Enums
  /\ \E bad \in SUBSET {i \in DOMAIN Cell(column) : Cell(column)[i] = NULL} :
       bad # {} /\ Cardinality(DOMAIN Cell(column) \ bad) = 1
  /\ LeaveVector(RT!Lost(Cell(column)))

(* With two or more rows in range line 35 is a LENGTH ERROR, as it may be  *)
(* in an ENUM below a column; a type of the :Else branch, or of no branch, *)
(* raises too.  Everything held is dropped.                                *)
Trap ==
  /\ pc = "columns" /\ stack # <<>> /\ Valid
  /\ \/ Top.type \in Unsupported
     \/ Top.type \in Enums /\ Len(stack) > 1
     \/ /\ Top.type \in Enums /\ Len(stack) = 1
        /\ \E bad \in SUBSET {i \in DOMAIN Cell(column) :
                                Cell(column)[i] = NULL} :
             bad # {} /\ Cardinality(DOMAIN Cell(column) \ bad) > 1
  /\ Return(RT!Bare("aborted"))
  /\ UNCHANGED handles

(* readChunks.aplf:29-32: store the chunk, destroy it, fetch the next.     *)
StoreAndFetch ==
  /\ data' = Append(data, chunk_data)
  /\ chunk_data' = <<>>
  /\ chunk' = chunk + 1
  /\ IF chunk + 1 < Len(q.chunks)
       THEN /\ log' = Append(log, [kind |-> "chunk", call |-> call, type |-> NULL])
            /\ live' = (live \ {data_chunk}) \cup {Fresh}
            /\ data_chunk' = Fresh
            /\ UNCHANGED pc
       ELSE /\ Destroy({data_chunk})
            /\ data_chunk' = 0
            /\ pc' = "types"
  /\ UNCHANGED <<q, result, column_ltypes, column_types, stack, replies>>

(* Faulty variant: a later chunk of nulls is skipped by a :Continue before *)
(* line 29, and so past the fetch of line 32.                              *)
ChunkRead == pc = "columns" /\ stack = <<>> /\ column > Len(q.types)
NextChunkFaulty ==
  /\ ChunkRead
  /\ IF chunk > 0 /\ \A c \in DOMAIN chunk_data : RT!AllNull(chunk_data[c])
       THEN /\ chunk_data' = <<>>
            /\ UNCHANGED <<q, pc, handles, result, data_chunk, chunk, data,
                           column_ltypes, column_types, stack, replies>>
       ELSE StoreAndFetch
NextChunk == ChunkRead /\ StoreAndFetch

(* readChunks.aplf:35.                                                     *)
DestroyTypes ==
  /\ pc = "types"
  /\ Destroy({column_ltypes[c] : c \in DOMAIN column_ltypes})
  /\ column_ltypes' = <<>>
  /\ pc' = "destroy"
  /\ UNCHANGED <<q, result, data_chunk, chunk, column_types, chunk_data,
                 data, stack, replies>>

(* Faulty variant: the test for no rows (15-18) leaves before the destroy. *)
FinishedResultFaulty == IF data = <<>> THEN {} ELSE {result}
FinishedResult == {result}

(* getResults.aplf:13-20: destroy the result; no rows give the names only. *)
DestroyResult ==
  /\ pc = "destroy"
  /\ Destroy(FinishedResult)
  /\ Return(IF data = <<>> THEN RT!Bare("names")
            ELSE [kind |-> "table", types |-> column_types, data |-> data])

Step ==
  \/ NoResult \/ QueryFailed \/ FirstChunk
  \/ ReadColumn \/ SkipNulls \/ EnterChild \/ ReadVector \/ ReadEnumNulled
  \/ Trap \/ NextChunk \/ DestroyTypes \/ DestroyResult

Next == (\E a \in Queries : Query(a)) \/ Step

Spec == Init /\ [][Next]_vars

(* APL runs a call to its end: the program's own steps are not postponed.  *)
FairSpec == Spec /\ WF_vars(Step)

------------------------------------------------------------------------------
\* Properties

Handle == [kind : {"result", "chunk", "ltype", "child"},
           call : Nat \ {0}, type : Types \cup {NULL}]

ColumnRead == Seq({NULL} \cup (Types \X (Cells \cup {NULL})))

Reply == [kind : {"error", "aborted", "names", "table"},
          types : Seq(Types), data : Seq(Seq(ColumnRead))]

(* The values of the variables and of what the calls returned.             *)
TypeOK ==
  /\ q \in Queries \cup {NoQuery}
  /\ pc \in {"idle", "status", "columns", "types", "destroy"}
  /\ log \in Seq(Handle)
  /\ live \subseteq DOMAIN log
  /\ result \in {0} \cup DOMAIN log
  /\ data_chunk \in {0} \cup DOMAIN log
  /\ chunk \in Nat
  /\ column_ltypes \in Seq(DOMAIN log)
  /\ column_types \in Seq(Types)
  /\ chunk_data \in Seq(ColumnRead)
  /\ data \in Seq(Seq(ColumnRead))
  /\ stack \in Seq([h : DOMAIN log, type : Types, next : Nat \ {0}])
  /\ replies \in Seq(Reply)

(* What the variables hold at each point of the call: which are still at   *)
(* their initial values, and how far the loops over chunks and columns are.*)
Shape ==
  /\ (pc = "idle") <=> (q = NoQuery)
  /\ q # NoQuery => ((result # 0) <=> (q.status # "raise"))
  /\ q = NoQuery => result = 0
  /\ pc \in {"columns", "types", "destroy"} => q.status = "ok"
  /\ (pc = "columns") <=> (data_chunk # 0)
  /\ pc = "columns" => chunk < Len(q.chunks) /\ column <= Len(q.types) + 1
  /\ pc # "columns" => stack = <<>> /\ chunk_data = <<>>
  /\ pc \in {"idle", "status"} =>
       chunk = 0 /\ column_types = <<>> /\ data = <<>>
  /\ pc \in {"idle", "status", "destroy"} => column_ltypes = <<>>
  /\ stack # <<>> => column <= Len(q.types)
  /\ pc = "columns" =>
       /\ Len(column_ltypes) = IF chunk > 0 THEN Len(q.types)
                               ELSE IF stack = <<>> THEN column - 1 ELSE column
       /\ Len(column_types) = Len(column_ltypes)

(* The handles of the current call that are alive are exactly those its    *)
(* variables hold: at no point, however deep the nesting and whatever the  *)
(* chunk, is one dropped without a destroy or destroyed while it is still  *)
(* going to be used or destroyed again.                                    *)
Ledger == Held = {h \in live : log[h].call = call}

(* A call that returned what DuckDB answered left nothing allocated; only  *)
(* a query that failed, or a read that stopped on an APL error, did.       *)
SuccessFreesAll ==
  \A h \in live :
    log[h].call < call => replies[log[h].call].kind \in {"error", "aborted"}

(* What is held where, each handle in one place: no destroy of one can     *)
(* reach another.                                                          *)
HandleKinds ==
  /\ result # 0 => log[result].kind = "result"
  /\ data_chunk # 0 => log[data_chunk].kind = "chunk"
  /\ \A c \in DOMAIN column_ltypes : log[column_ltypes[c]].kind = "ltype"
  /\ \A d \in 2 .. Len(stack) : log[stack[d].h].kind = "child"
  /\ \A d, e \in 2 .. Len(stack) : d # e => stack[d].h # stack[e].h
  /\ \A h \in DOMAIN log : log[h].call <= call

(* One type per column whatever the number of chunks: the type id kept for *)
(* a column is its own, and the handle that serves the later chunks is a   *)
(* handle of that type.                                                    *)
OneTypePerColumn ==
  q # NoQuery =>
    /\ Len(column_types) <= Len(q.types)
    /\ \A c \in DOMAIN column_types : column_types[c] = q.types[c]
    /\ \A c \in DOMAIN column_ltypes : log[column_ltypes[c]].type = q.types[c]

(* The invariant the proofs carry through every step.                      *)
IInv ==
  /\ TypeOK /\ Shape /\ OneTypePerColumn
  /\ HandleKinds /\ Ledger /\ SuccessFreesAll

(* readVector.aplf:4, "caller owns lifecycle": while vectors are read, the *)
(* only handles destroyed are the types of children, the innermost first;  *)
(* the column types live on to serve the later chunks.                     *)
CallerOwnsType ==
  [][stack # <<>> =>
       \A h \in live \ live' : log[h].kind = "child" /\ h = Top.h]_vars

(* Every call returns: the loops over chunks, columns and children end.    *)
CallReturns == pc # "idle" ~> pc = "idle"

(* The detailed read path implements the operation-level specification.    *)
Implements == RT!Spec

(* A column as read: one of the readings of the column of the chunk.       *)
ReadAs(col, k, c) == col \in RT!Readings(q.types[c], q.chunks[k][c])

(* What has been read so far is what DuckDB answered, in its order and at  *)
(* the types of its columns, and from a type the reader can follow to its  *)
(* leaves, or that holds no ENUM, it never comes to one that is otherwise. *)
ReadSoFar ==
  /\ pc = "columns" => Len(data) = chunk
  /\ pc \in {"types", "destroy"} => Len(data) = Len(q.chunks)
  /\ \A k \in DOMAIN data :
       /\ DOMAIN data[k] = DOMAIN q.types
       /\ \A c \in DOMAIN data[k] : ReadAs(data[k][c], k, c)
  /\ \A c \in DOMAIN chunk_data : ReadAs(chunk_data[c], chunk + 1, c)
  /\ pc \in {"types", "destroy"} /\ data # <<>> => column_types = q.types
  /\ stack # <<>> => stack[1].type = q.types[column]
  /\ \A d \in DOMAIN stack :
       q.types[column] \in Decodable => stack[d].type \in Decodable
  /\ \A d \in DOMAIN stack :
       q.types[column] \in NoEnum => stack[d].type \in NoEnum
  /\ Len(stack) > 1 =>
       q.types[column] \notin Enums /\ ~RT!AllNull(Cell(column))

(* Every valid row of a column that was read keeps its value.  Violated by *)
(* ENUM columns with nulls, against the intent stated at                   *)
(* readEnumColumn.aplf:31.                                                 *)
ValuesKept ==
  \A c \in DOMAIN chunk_data : \A i \in DOMAIN Cell(c) :
    Cell(c)[i] # NULL => chunk_data[c][i] # NULL
==============================================================================
