---------------------------- MODULE ArrowExport ----------------------------
(***************************************************************************)
(* lib/duckdb_arrow_export.c under exportArrow.aplf and                    *)
(* exportArrowBytes.aplf: a query is run and its result written, message   *)
(* by message, as an Arrow IPC stream to a file or to a buffer.  Any call  *)
(* of DuckDB, nanoarrow, the C library or the allocator may fail; what     *)
(* matters is which of the things acquired so far each error path gives    *)
(* back, and what the reader of the file or of the bytes then sees.  Below *)
(* the export are nanoarrow's output streams, which own the file on the    *)
(* way and close it, and stdio, which holds written bytes back until then. *)
(***************************************************************************)
EXTENDS Naturals, Sequences

CONSTANTS
  Results,   \* what a query may answer: a sequence of chunk row counts
  Faults,    \* the calls that may fail
  MaxCalls   \* bound on the number of calls

ASSUME ResultsAssumption == Results \subseteq Seq(Nat \ {0})

ASSUME FaultsAssumption ==
  /\ MaxCalls \in Nat
  /\ Faults \subseteq {"fopen", "query", "empty", "malloc", "schema", "stream",
                       "writer", "encode", "write", "close", "view", "convert"}

VARIABLES
  pc,
  mode,     \* "file" or "buffer"
  chunks,   \* the chunks of the result of the call
  k,        \* chunks fetched
  rows,     \* rows of the chunks fetched (rows in write_chunks)
  rows_written, \* what the caller is told of them
  st,       \* the state to be returned
  held,     \* what the call has acquired and not given back
  allocator,\* sink.buffer has an allocator (ArrowBufferInit)
  file_ptr, \* the file_ptr of the stream is not NULL
  bad,      \* things the call gave back that were not held
  disk,     \* the messages in the file, "torn" a part of one
  bytes,    \* the messages in the buffer
  unclosed, \* history: an fclose of this call has failed
  replies   \* per call: mode, chunks, st, rows, msgs, unclosed, left

vars == <<pc, mode, chunks, k, rows, rows_written, st, held, allocator, file_ptr,
          bad, disk, bytes, unclosed, replies>>
request == <<mode, chunks>>
own == <<allocator, file_ptr>>
cursor == <<k, rows, rows_written>>
sinks == <<disk, bytes, unclosed>>

Fault(f) == f \in Faults

Init ==
  /\ pc = "idle" /\ mode = "file" /\ chunks = <<>> /\ k = 0 /\ rows = 0
  /\ rows_written = 0
  /\ st = "ok" /\ held = {} /\ bad = {}
  /\ allocator = FALSE /\ file_ptr = FALSE
  /\ disk = <<>> /\ bytes = <<>> /\ unclosed = FALSE /\ replies = <<>>

Acquire(things) == held' = held \cup things /\ UNCHANGED bad

(* Give back things and have more.                                         *)
Release(things, more) ==
  held' = (held \ things) \cup more /\ bad' = bad \cup (things \ held)

(* set_error copies the message to the heap, when there is room.           *)
Messages == {{"error"}} \cup (IF Fault("malloc") THEN {{}} ELSE {})

(* The error path that gives back things, has more, and goes on at next.   *)
Fail(things, more, next) ==
  /\ \E e \in Messages : Release(things, more \cup e)
  /\ st' = "error"
  /\ pc' = next

------------------------------------------------------------------------------
\* Entry, 289-328; the internal function and its context, 98-153, 219-241

Call(m, r) ==
  /\ pc = "idle" /\ Len(replies) < MaxCalls
  /\ mode' = m /\ chunks' = r
  /\ pc' = IF m = "file" THEN "fopen" ELSE "query"
  /\ k' = 0 /\ rows' = 0 /\ rows_written' = 0 /\ st' = "ok" /\ held' = {}
  /\ allocator' = FALSE /\ file_ptr' = FALSE
  /\ bytes' = <<>> /\ bad' = {} /\ unclosed' = FALSE
  /\ UNCHANGED <<disk, replies>>

(* fopen with mode "wb" empties the file before the query is run.          *)
OpenFile ==
  /\ pc = "fopen"
  /\ \/ disk' = <<>> /\ Acquire({"file"}) /\ pc' = "query" /\ UNCHANGED st
     \/ Fault("fopen") /\ Fail({}, {}, "return") /\ UNCHANGED disk
  /\ UNCHANGED <<request, cursor, own, bytes, unclosed, replies>>

(* What a failed query still has to destroy: its result (114).             *)
FailedQueryReleases == {"result"}

RunQuery ==
  /\ pc = "query"
  /\ Acquire({"result"})
  /\ \/ pc' = "columns"
     \/ Fault("query") /\ pc' = "failed"
  /\ UNCHANGED <<request, cursor, st, own, sinks, replies>>

QueryFails ==
  /\ pc = "failed"
  /\ Fail(FailedQueryReleases, {}, "return")
  /\ UNCHANGED <<request, cursor, own, sinks, replies>>

(* What export_context_cleanup gives back: all that is set in the context. *)
Context == held \cap {"schema", "types", "names", "opts", "result"}

Columns ==
  /\ pc = "columns"
  /\ \/ pc' = "metadata" /\ Acquire({"opts"}) /\ UNCHANGED st
     \/ Fault("empty") /\ Fail(Context, {}, "return")
  /\ UNCHANGED <<request, cursor, own, sinks, replies>>

Metadata ==
  /\ pc = "metadata"
  /\ Acquire({"types", "names"})
  /\ pc' = "schema"
  /\ UNCHANGED <<request, cursor, st, own, sinks, replies>>

(* Without types or without names; with types, the cleanup destroys the    *)
(* column_count types that are not there yet (80-82).                      *)
OutOfMemory ==
  /\ pc = "metadata" /\ Fault("malloc")
  /\ \E got \in SUBSET {"types", "names"} :
       /\ got # {"types", "names"}
       /\ bad' = IF "types" \in got THEN bad \cup {"types"} ELSE bad
  /\ \E e \in Messages : held' = (held \ {"opts", "result"}) \cup e
  /\ st' = "error" /\ pc' = "return"
  /\ UNCHANGED <<request, cursor, own, sinks, replies>>

ToSchema ==
  /\ pc = "schema"
  /\ \/ Acquire({"schema"}) /\ pc' = "stream" /\ UNCHANGED st
     \/ Fault("schema") /\ Fail(Context, {}, "return")
  /\ UNCHANGED <<request, cursor, own, sinks, replies>>

------------------------------------------------------------------------------
\* nanoarrow's output streams, lib/nanoarrow/src/nanoarrow_ipc.c:29169-29316

(* fclose that fails has given the file back all the same, and what stdio  *)
(* still held is lost: a whole message and more, or a part of one.         *)
Cut(msgs) ==
  {SubSeq(msgs, 1, n) : n \in 0 .. Len(msgs) - 1}
    \cup {Append(SubSeq(msgs, 1, n), <<"torn">>) : n \in 0 .. Len(msgs) - 1}

(* What the release of the stream closes.  Faulty variant: the file, by    *)
(* whoever it was opened.                                                  *)
ClosesFaulty == IF mode = "file" THEN {"file"} ELSE {}
Closes == IF file_ptr THEN {"file"} ELSE {}

CloseFile ==
  /\ \/ UNCHANGED <<disk, unclosed>>
     \/ /\ Fault("close") /\ Closes \cap held # {}
        /\ disk' \in Cut(disk) /\ unclosed' = TRUE
  /\ UNCHANGED bytes

(* A message is encoded and reaches the sink whole.                        *)
Put(m) ==
  /\ IF mode = "file" THEN disk' = Append(disk, m) /\ UNCHANGED bytes
                      ELSE bytes' = Append(bytes, m) /\ UNCHANGED disk
  /\ UNCHANGED unclosed

(* The message cannot be encoded, and nothing is sent.                     *)
EncodeFails(things, next) ==
  /\ Fault("encode")
  /\ Fail(things, {}, next)
  /\ UNCHANGED <<sinks, file_ptr>>

(* A short fwrite closes the file at once; only when that succeeds is the  *)
(* pointer cleared, and the release will not close it again.               *)
FileFails(things, next) ==
  /\ mode = "file" /\ Fault("write")
  /\ Fail(things \cup {"file"}, {}, next)
  /\ \/ /\ disk' \in {disk, Append(disk, <<"torn">>)}
        /\ file_ptr' = FALSE /\ UNCHANGED unclosed
     \/ /\ Fault("close") /\ disk' \in Cut(Append(disk, <<"torn">>))
        /\ UNCHANGED file_ptr /\ unclosed' = TRUE
  /\ UNCHANGED bytes

(* realloc leaves the old block to a caller that has lost its address; the *)
(* buffer is empty then (nanoarrow.h:2574-2578).                           *)
BufferFails(things, next) ==
  /\ mode = "buffer" /\ Fault("write")
  /\ Fail(things \cup (held \cap {"buffer"}),
          IF "buffer" \in held THEN {"block"} ELSE {}, next)
  /\ bytes' = <<>>
  /\ UNCHANGED <<disk, unclosed, file_ptr>>

WriteFails(things, next) ==
  FileFails(things, next) \/ BufferFails(things, next)

Grown == IF mode = "buffer" THEN {"buffer"} ELSE {}

------------------------------------------------------------------------------
\* The sink, 249-287, and the chunks, 155-217

(* The stream takes over the file, and will close it.                      *)
InitStream ==
  /\ pc = "stream"
  /\ allocator' = (mode = "buffer")
  /\ \/ /\ Acquire({"stream"})
        /\ file_ptr' = (mode = "file")
        /\ pc' = "writer"
        /\ UNCHANGED st
     \/ Fault("stream") /\ Fail({}, {}, "cleanup") /\ UNCHANGED file_ptr
  /\ UNCHANGED <<request, cursor, sinks, replies>>

(* The writer takes over the stream.  When its encoder cannot be made, the *)
(* memory of the writer itself is dropped (nanoarrow_ipc.c:29325-29327).   *)
InitWriter ==
  /\ pc = "writer"
  /\ \/ /\ held' = (held \ {"stream"}) \cup {"writer"}
        /\ pc' = "head"
        /\ UNCHANGED <<bad, st, sinks>>
     \/ /\ Fault("writer")
        /\ \E more \in SUBSET {"private"} :
             Fail({"stream"} \cup Closes, more, "cleanup")
        /\ CloseFile
  /\ UNCHANGED <<request, cursor, own, replies>>

WriteSchema ==
  /\ pc = "head"
  /\ \/ /\ Put(<<"schema">>) /\ Acquire(Grown)
        /\ pc' = "view" /\ UNCHANGED <<st, file_ptr>>
     \/ EncodeFails({}, "writer_reset")
     \/ WriteFails({}, "writer_reset")
  /\ UNCHANGED <<request, cursor, allocator, replies>>

(* The array view for all chunks, made from the schema (158-163).          *)
InitView ==
  /\ pc = "view"
  /\ \/ Acquire({"view"}) /\ pc' = "fetch" /\ UNCHANGED st
     \/ Fault("view") /\ Fail({}, {}, "writer_reset")
  /\ UNCHANGED <<request, cursor, own, sinks, replies>>

(* Rows are counted when the chunk is fetched (174).                       *)
Counted == rows + chunks[k + 1]

FetchChunk ==
  /\ pc = "fetch" /\ k < Len(chunks)
  /\ Acquire({"chunk"})
  /\ k' = k + 1
  /\ rows' = Counted
  /\ pc' = "convert"
  /\ UNCHANGED <<request, rows_written, st, own, sinks, replies>>

(* What becomes of a chunk that cannot be converted.  Faulty variants: the *)
(* loop is not left; the error is not recorded.                            *)
ConvertFailsOn == Fail({"chunk"}, {}, "fetch")
ConvertFailsUnseen == Release({"chunk"}, {}) /\ pc' = "finish" /\ UNCHANGED st
ConvertFails == Fail({"chunk"}, {}, "finish")

Convert ==
  /\ pc = "convert"
  /\ \/ Acquire({"array"}) /\ pc' = "write" /\ UNCHANGED st
     \/ Fault("convert") /\ ConvertFails
  /\ UNCHANGED <<request, cursor, own, sinks, replies>>

(* Faulty variant: the array is left to the next chunk.                    *)
WrittenFaulty == {"chunk"}
Written == {"array", "chunk"}

WriteChunk ==
  /\ pc = "write"
  /\ \/ /\ Put(<<"batch", k>>) /\ Release(Written, {})
        /\ pc' = "fetch" /\ UNCHANGED <<st, file_ptr>>
     \/ EncodeFails(Written, "finish")
     \/ WriteFails(Written, "finish")
  /\ UNCHANGED <<request, cursor, allocator, replies>>

EndOfChunks ==
  /\ pc = "fetch" /\ k = Len(chunks)
  /\ pc' = "finish"
  /\ UNCHANGED <<request, cursor, st, held, own, bad, sinks, replies>>

(* The end-of-stream message is written only while nothing has failed.     *)
(* Faulty variant: whatever has happened.                                  *)
EndsStreamFaulty == TRUE
EndsStream == st = "ok"

(* The rows reported: those counted, if everything was written (213-215).  *)
(* Faulty variant: in any case.                                            *)
RowsWrittenFaulty == rows
RowsWritten == IF EndsStream THEN rows ELSE 0

FinishChunks ==
  /\ pc = "finish"
  /\ \/ /\ IF EndsStream THEN Put(<<"eos">>) ELSE UNCHANGED sinks
        /\ Release({"view"}, {})
        /\ rows_written' = RowsWritten
        /\ pc' = "writer_reset" /\ UNCHANGED <<st, file_ptr>>
     \/ EndsStream /\ WriteFails({"view"}, "writer_reset") /\ UNCHANGED rows_written
  /\ UNCHANGED <<request, k, rows, allocator, replies>>

(* ArrowIpcWriterReset, 280 and 285, releases the stream and closes the    *)
(* file; nobody looks at the result of fclose.                             *)
ResetWriter ==
  /\ pc = "writer_reset"
  /\ Release({"writer"} \cup Closes, {})
  /\ CloseFile
  /\ pc' = "cleanup"
  /\ UNCHANGED <<request, cursor, st, own, replies>>

Cleanup ==
  /\ pc = "cleanup"
  /\ Release(Context, {})
  /\ pc' = "return"
  /\ UNCHANGED <<request, cursor, st, own, sinks, replies>>

------------------------------------------------------------------------------
\* Return to the entry function and to APL

(* The buffer is copied out on success (337-347) and reset in every case;  *)
(* a buffer that never got its allocator is reset by a call through a null *)
(* pointer (327).                                                          *)
CopyOut ==
  /\ pc = "return" /\ mode = "buffer"
  /\ IF ~allocator
       THEN /\ pc' = "crashed"
            /\ UNCHANGED <<st, held, bad>>
       ELSE \/ /\ st = "ok"
               /\ held' = (held \ {"buffer"}) \cup {"copy"}
               /\ pc' = "reply" /\ UNCHANGED <<st, bad>>
            \/ /\ st = "ok" /\ Fault("malloc")
               /\ Fail({"buffer"}, {}, "reply")
            \/ /\ st = "error"
               /\ held' = held \ {"buffer"}
               /\ pc' = "reply" /\ UNCHANGED <<st, bad>>
  /\ UNCHANGED <<request, cursor, own, sinks, replies>>

(* exportArrow.aplf:9-18, exportArrowBytes.aplf:7-21: the message and the  *)
(* bytes are read and freed; an error is signalled.                        *)
Reply ==
  /\ pc = IF mode = "buffer" THEN "reply" ELSE "return"
  /\ replies' = Append(replies,
       [mode |-> mode, chunks |-> chunks, st |-> st, rows |-> rows_written,
        msgs |-> IF mode = "file" THEN disk ELSE bytes,
        unclosed |-> unclosed, left |-> held \ {"error", "copy"}])
  /\ held' = {}
  /\ pc' = "idle"
  /\ UNCHANGED <<request, cursor, st, own, bad, sinks>>

Step ==
  \/ OpenFile \/ RunQuery \/ QueryFails \/ Columns \/ Metadata \/ OutOfMemory
  \/ ToSchema \/ InitStream \/ InitWriter \/ WriteSchema \/ InitView \/ FetchChunk
  \/ Convert \/ WriteChunk \/ EndOfChunks \/ FinishChunks \/ ResetWriter \/ Cleanup
  \/ CopyOut \/ Reply

Next == (\E m \in {"file", "buffer"}, r \in Results : Call(m, r)) \/ Step

Spec == Init /\ [][Next]_vars

------------------------------------------------------------------------------
\* Properties

Things == {"file", "result", "opts", "types", "names", "schema", "stream",
           "writer", "view", "chunk", "array", "buffer", "copy", "error",
           "private", "block"}

(* The messages of a whole stream.                                         *)
Stream(r) ==
  << <<"schema">> >> \o [n \in DOMAIN r |-> <<"batch", n>>] \o << <<"eos">> >>

(* The rows of the first n chunks.                                         *)
Total(r, n) ==
  LET sum[m \in 0 .. n] == IF m = 0 THEN 0 ELSE sum[m - 1] + r[m]
  IN  sum[n]

(* The values of the variables; the loop over the chunks goes on only      *)
(* while nothing has failed.                                               *)
TypeOK ==
  /\ pc \in {"idle", "fopen", "query", "failed", "columns", "metadata",
             "schema", "stream", "writer", "head", "view", "fetch", "convert", "write",
             "finish", "writer_reset", "cleanup", "return", "reply", "crashed"}
  /\ mode \in {"file", "buffer"} /\ st \in {"ok", "error"}
  /\ chunks \in Seq(Nat) /\ k \in 0 .. Len(chunks) /\ rows \in Nat
  /\ held \subseteq Things /\ bad \subseteq Things
  /\ allocator \in BOOLEAN /\ file_ptr \in BOOLEAN /\ unclosed \in BOOLEAN
  /\ pc \in {"fetch", "convert", "write"} => st = "ok"

(* exportArrow.aplf:2, "write query results": a success means that the     *)
(* whole stream was handed over, in the buffer or in the file.  The one    *)
(* exception is a file whose fclose failed in that very call, a result     *)
(* nobody looks at: there, and nowhere else, success may be told of a      *)
(* stream that is cut.                                                     *)
SuccessIsWhole ==
  \A n \in DOMAIN replies :
    LET r == replies[n]
    IN  r.st = "ok" =>
          \/ r.msgs = Stream(r.chunks)
          \/ /\ r.unclosed /\ r.mode = "file"
             /\ r.msgs \in Cut(Stream(r.chunks))

(* The rows a call reports are those of all its chunks when it succeeds.   *)
(* A file export that failed anywhere, in its last write too, reports none.*)
RowsReported ==
  \A n \in DOMAIN replies :
    LET r == replies[n]
    IN  /\ r.st = "ok" => r.rows = Total(r.chunks, Len(r.chunks))
        /\ r.st = "error" /\ r.mode = "file" => r.rows = 0

(* A reader of the file or of the bytes can tell a stream that was cut     *)
(* short, by a failing export or by a file that did not close: the         *)
(* end-of-stream message follows every chunk in order or is not there.     *)
EosMeansWhole ==
  \A s \in {disk, bytes} :
    (\E n \in DOMAIN s : s[n] = <<"eos">>) =>
      \E r \in Results : s = Stream(r)

(* A call gives nothing back that it does not hold, with two exceptions:   *)
(* when malloc finds room for the types and not for the names, the cleanup *)
(* destroys logical types that were never set; and a file that neither     *)
(* takes a write nor closes leaves its pointer in the stream, whose        *)
(* release closes it a second time.                                        *)
NothingGivenBackTwice ==
  /\ bad \subseteq {"types", "file"}
  /\ "types" \in bad => st = "error" /\ bad = {"types"}
  /\ "file" \in bad => st = "error" /\ file_ptr

(* A successful call has given everything back, and a failed one all but   *)
(* one thing: the file, when it failed before the stream took it over (the *)
(* stream is to close it, 262, and there is none yet); the writer's memory *)
(* when its encoder could not be made; the old block of a buffer that      *)
(* could not grow.                                                         *)
LittleIsLeft ==
  \A n \in DOMAIN replies :
    LET r == replies[n]
    IN  /\ r.st = "ok" => r.left = {}
        /\ r.left = {} \/ r.left = {"private"}
           \/ r.left = IF r.mode = "file" THEN {"file"} ELSE {"block"}

(* duckdb_arrow_export.h:13: the error is received by the caller.  Violated*)
(* by the buffer variant when the query fails.                             *)
ErrorReceived == pc # "crashed"
==============================================================================
