# TLA+ verification of duckdb-dyalog

The repository binds DuckDB's C API to Dyalog APL: about 240 small functions in
`src/db/` over foreign-function declarations (`api.apln`), and an Arrow export
in C (`src/lib/duckdb_arrow_export.c`). This project models the parts of it that
have logic of their own, model-checks them with TLC, and proves with TLAPS every
safety property it checks of the read path, the decoding of vectors, the appends,
the exports, the statements, the sessions and the conversions of times and dates.
That calls return, and the charts, are model-checked only.

## 1. The system

| Component | Source | State | Operations | Model |
|---|---|---|---|---|
| query and result reading | `query`, `getResults`, `readChunks`, `readVector`, `readEnumColumn` | result, current chunk, column types kept over the chunks, child types of the recursion, columns read | query, read, destroy | `QueryRead`, `ResultTable`; the decoding of a vector in `VectorRead` |
| bulk append | `append` | chunk with slots and validity masks, appender with its buffer, rows left | describe, compare, convert, batch, write, append, destroy | `BulkAppend`, `AppendContract` |
| Arrow IPC export | `duckdb_arrow_export.c`, `exportArrow`, `exportArrowBytes` | export context, file or buffer, stream, writer, view, error text | export to file, export to bytes | `ArrowExport` |
| prepared statements | `prepareQuery`, `bindParams`, `bind*`, `clearBindings`, `executePrepared`, `queryParams`, `preparePending`, `destroyPrepared` | statements and their bindings | the functions named | `Prepared` |
| pending execution | `preparePending`, `pendingPrepared`, `executePending`, `pendingExecuteTask`, `destroyPending` | pending results | the functions named | `Prepared` |
| extracted statements | `extractStatements`, `prepareExtractedStatement`, ... | a list of statements | extract, prepare one, destroy | partly: preparing one is an operation of `Prepared` |
| session | `init`, `config`, `createConfig`, `setConfig`, `destroyConfig`, `getConfigFlag`, `open`, `openExt`, `connect`, `interrupt`, `disconnect`, `close` | databases, connections, configurations, error texts | the functions named | `Session` |
| date and time conversions | `toTime`, `fromTime`, `toDate`, `fromDate` | none | pure functions | `DateTime` |
| charts | `plotShow`, `plotShowWebSocket`, `plotHtml`, `plotHtmlBody`, `plotSpecJson` | the shared `plotCtx`, the window, its page | show, GUI callbacks | `Charts` |
| row appender, values, types, metadata, Arrow conversion wrappers | `appender*`, `create*`, `get*`, `result*`, ... | none of their own | one C call each | not modelled: no logic besides a guard for 0 |
| memory helpers | `read.apln`, `write.apln`, `readVectorSimple` | none | MEMCPY at a width | abstracted: a value read or written *at a type* |
| display and selection | `toTable`, `toShortTable`, `toJson`, `index` | none | layout | not modelled |
| unused readers | `readChildElements`, `readListColumn`, ... | none | referenced only by each other | not modelled |
| vendored code | `duckdb.h`, `duckdb.hpp`, `nanoarrow/` | | | assumed as documented, but for nanoarrow's output streams, whose error paths are in `ArrowExport` |

How they interact. APL is single-threaded and every call runs to its end; the
only asynchronous events are the GUI callbacks of the charts. What makes the
code hard is therefore not threads. It is (a) *ownership*: nearly every C call
hands out a handle that the function, its caller or a recursion two levels up
must destroy exactly once, on every path; (b) *partial failure*: statuses that
are dropped, an APL error (the undefined line `∘∘∘`, a DOMAIN ERROR) in the
middle of a loop that nothing unwinds, and early returns; (c) *reuse*: one chunk
for all batches of an append, one set of column types for all chunks of a
result, one set of bindings for all executions of a statement; (d) *values*
that pass through representations of other widths, and null rows whose slots
hold anything. `queryParams` and `executePrepared` end in `getResults`, as
`query` does; the charts end in the Arrow export.

What makes each component correct:
- read: the reply is the whole table, columns at their own types, rows in order;
  nothing stays allocated after it; column types outlive the chunks they serve;
  no slot of a null row is looked at.
- append: rows land in order and unmixed; masks and slots belong to the batch;
  'Success!' means that everything is in the table.
- export: success means a whole stream; a stream cut short has no end marker;
  each error path gives back exactly what was acquired.
- statements: an execution, at once or pending, uses the values its caller asked
  for; the composed calls free the statement they own and never one a caller
  holds.
- session: a configuration is whole or none, a database opens as asked, every
  object is given back once and none is used afterwards.
- conversions: every time of day and every date survives both ways, in order.
- charts: a page that asks for its data is answered.

## 2. The modules

`ResultTable` and `AppendContract` are abstract specifications: what the caller
of a query or of an append is promised, without a handle in sight. `QueryRead`
and `BulkAppend` are the code, one action per C call (or per few calls with no
branch between them), and each is shown to implement its abstract specification
(`Implements`, by `INSTANCE ... WITH`). `ArrowExport`, `Prepared`, `Session`,
`DateTime` and `Charts` stand alone; `VectorRead` extends `DateTime`, whose
calendar a DATE column needs. The `*_proofs` modules hold the theorems
(`VectorRead_proofs` those of `DateTime` too), and `Induction` and `DeepRecursion`
what they share. The `MC*` modules give small values to the constants.

**QueryRead.** `Query` is `duckdb_query`; `NoResult`, `QueryFailed`, `FirstChunk` are
the ways out of the first lines of `getResults` and `readChunks`; `ReadColumn`
starts a column, `EnterChild`, `SkipNulls`, `ReadVector` and `ReadEnumNulled` are
the recursion of `readVector` with an explicit stack; `Trap` is an APL error;
`NextChunk`, `DestroyTypes`, `DestroyResult` the ends of the loops. `log` and
`live` number the handles: they are not in the code, they are DuckDB's side of
it. DuckDB varies: the answer (status, column types, chunks, nulls), whether the
rows of a child are all null, and which index the slot of a null ENUM row holds.
`ResultTable` promises the whole table, or an APL error over a value of an
unreadable type. Its one concession is finding 1 (`Fragile`): an ENUM column that
mixes values and nulls may come back all null for a chunk (`Lost`), or stop the call;
and a value of a type that holds ENUMs further down (outside `NoEnum`) may lose its
ENUM parts (`Damaged`), or stop the call, since which rows the vectors below a column
have is left open.

**VectorRead.** `ReadVector` is `readVector` as a recursive function of the memory
it is given: `RowMask` the mask (bytes turned around bit by bit and cut to the rows),
`Decoded` the column (texts in their slot or elsewhere, floats taken apart, dates,
lists, maps, arrays and structs made from the reads `ChildReads` names, with the
number of rows the code passes on), `Read` the NULLs put in last, and an error of the
interpreter passed up. `Means` is what the rows mean by `duckdb.h`, one row at a time,
and the property is that the two agree. `WellFormed` is what DuckDB hands over: masks
that cover the rows, elements of valid rows inside the child, as many rows in a
struct's children as in the struct; the slot of a NULL row may hold anything. Two
things the code does are stated as they are. A FLOAT of a vector with a mask arrives
as a vector of one number, because the sign it is multiplied with is one (`Held`,
`readVector.aplf:15,29`); without a mask it is a number. And a DATE vector is
converted row by row before the NULLs are put in and outside the trap around them, so
a slot that holds no date of the calendar stops the read even where its row is NULL
(`DatesOf`, line 47). The infinities and NaN have no value; vectors have
rows, since what the interpreter makes of an empty nested list is not to be read from
the source. A read depends on nothing before it, so it is made as the first call only.

**BulkAppend.** The variables carry the names of `append.aplf`. The chunk is
kept as memory: `slots` with what was last written to them, `invalid` with the
mask. The C API may fail at describe, create, append and flush; which of these may
fail in a call is drawn when it starts (`faults`), and the appender flushes when it
likes. A frame for a table in another schema (`target = "elsewhere"`) passes
DESCRIBE and fails at the appender; a table with a column whose type means nothing in
`type.apln`, such as INTEGER[] or STRUCT(a INTEGER) (`"unnamed"`), raises at line 5
(DECIMAL(18,3) does not: it is evaluated to a vector that no type of a frame equals,
and the call ends as with any other types that differ). `AppendContract` promises, in a call in which
nothing fails (`Reliable`), the rows of the frame from the first on; in any other,
that what lands (`Land`) is whole rows before the first unwritable one, in order
(`Ordered`).

**ArrowExport.** `held` is what the call has acquired and not given back; a
transfer of ownership (file to stream to writer) replaces one member by another;
`bad` collects what was given back without being held. Each error path is an
alternative of the action that can fail, and `Fail` is `set_error`, the release
and the return. `disk` and `bytes` are the messages a reader would find. Below the
export are nanoarrow's streams: `file_ptr` says whether the stream will close the
file, a short write closes it at once, and a close that fails loses what stdio
still held (`Cut`), down to a part of a message. `unclosed` is history: that an
`fclose` of this call failed, which the code does not look at; the reply records it.

**Prepared.** A statement is its bindings. Callers act on the statements they
hold (`mine`) in any order; a call runs through `pc` to its end. A pending result
has the bindings its statement had when it was made and lives on without it;
`executePending` may be called on it at any time. `TypeOf` is the table of
`bindParams.aplf:15-53`; lines 20-29 are unreachable (depth 0 with rank 1) and have
no counterpart. `Nearest` is the conversion to a double. `Promised` is the mapping of
values to types in `docs/dev/PHASE1_COMPLETE.md:133-140`, apart from the code's.

**Session.** `objs` is DuckDB's side: every object ever made, alive or not, with
the pairs set for it. `held` is the application's: a variable for each handle it
was given, 0 included, with the pairs it asked for. `call` is `config` between
two pairs, or `openExt` with an error text in hand; all other functions are one
C call and one step. The application is the one of `testPhase1.aplf:18-35`: any
order of calls on what it holds, nothing used after it was given back, and no
database opened with a configuration that is 0. Without the last restriction
`openExt` takes the 0 of a failed `config` for a request for defaults; without the
other, `query` passes its guard (`query.aplf:3-5`) with a connection that is gone,
because `disconnect` clears a copy of the handle. `Unset` is an output pointer C
did not write to, which `Answer` must not let through. An item that is not a pair
ends `config` in an APL error, and its configuration goes to `strays`.

**DateTime.** The functions are operators; the state is the last call and its
reply. The two guards are chains of dyadic functions without parentheses, which
APL evaluates from the right with `∨` as the greatest common divisor: `TimeRefused`
and `DateRefused` follow that, not the reading the chains suggest. So `toTime`
lets 60 minutes, 60 seconds and negative microseconds through, which `fromTime`
does not give back, and 0 is both a refusal and midnight (or 1970-01-01). `DT` is
the interpreter's calendar, written out.

**Charts.** `PlotShow` is guarded by the names it looks for (`Available`, lines 8-13);
with them it fills `plotCtx`, checks the specification and puts a new window in the
place of the last (`Show`). `Names` says which of them are defined: the function of
`api`, and not `HTMLRenderer`, a class of GUI object that no code defines as a name.
`want` is the chart last asked for with a specification in pairs. The page connects
and asks; `Callback` is the whole of `plotShowWebSocket`, for whatever event is next.
`Pick` counts from the index origin of the namespace, `OccursIn` and `Enclosed` are
what the interpreter computes of line 18. The browser, the delivery of events and the
library that draws are taken as they should be, and the export succeeds or fails.

## 3. The runs

| Run | Shows | Bounds |
|---|---|---|
| `QueryRead_core` | `ResultTable` is implemented, handle ledger, one type per column, what is read so far, nothing left by a success, column types never destroyed early, every call returns | 2 calls; up to 3 chunks of 1-2 columns; LIST, STRUCT holding a LIST, ENUM and a LIST of it, an unknown type alone and inside a STRUCT |
| `QueryRead_enum` | finding 1 | |
| `BulkAppend_core` | `AppendContract` is implemented; batch masks, order of rows, handles, return; any set of describe, append and flush failing in a call | 2 calls; vectors of 2 rows, frames of 0, 2, 3, 4, 5 rows; ragged, refused, unconvertible frames, a table in another schema and one with a type without a name |
| `BulkAppend_flush`, `BulkAppend_time` | findings 2 and 3 | |
| `ArrowExport_core` | whole stream and all rows reported on success, no end marker on a cut stream, nothing given back twice, little left | 2 exports, file or buffer; results of 0, 1, 3 chunks; any call failing, malloc, encoding and fclose too |
| `ArrowExport_crash` | finding 4 | |
| `Prepared_core` | executions, at once or pending, use what was asked for as the documentation maps it (large integers excepted), statements freed, none destroyed behind a caller | 5 calls; statements of 2 parameters, and ones that do not prepare; vectors that fit, short, long, refused, raising |
| `VectorRead_core` | every vector is read as what it means, nested ones too; both round trips of times and dates, dates counted from 1970-01-01, times in order | 3 rows at 2 to the mask byte, every mask; texts at, below and above the slot; lists of every split; dates in and outside the calendar under NULL rows; ten microseconds to the second, arguments at and around every boundary; years 1966 to 2004 |
| `VectorRead_float` | finding 5 | |
| `Charts_ready` | finding 6 | 2 charts, 1 connection and a failed one |
| `Session_core` | configurations all or nothing, databases as asked, each object and error text given back once, nothing used after it is gone | 3 objects, 3 variables at a time; pairs taken, refused first or last, malformed; any call failing |

Why the bounds are enough. Two calls show what one call leaves to the next.
Three chunks distinguish the first (types are obtained), a middle and the last;
two columns distinguish a column from its neighbour. Vectors of two rows with
five rows make a full, a full and a short batch, four rows an exact multiple.
Five calls on statements allow prepare, bind, a pending result, a second bind that
fails, and its execution. Three rows at two to the byte give the mask a second byte
and a bit of it that is cut. Three objects allow a refused configuration, a second
one and the database opened with it; a refused pair first and last tells the first
turn of the loop from a later one. Ten microseconds keep the ticks of a day in
TLC's integers; the proofs do without that bound. The years hold common and leap
years before and after 1970 and the leap century 2000. Values differ from row to row
so that a shifted or repeated row shows.

Deadlock checking is off where the number of calls is bounded, since after the
last one nothing is left to do; it is on in `Session_core` and the two runs of
`VectorRead`.

**Fairness.** `QueryRead_core` and `BulkAppend_core` check that calls return
(`CallReturns`), with weak fairness of the program's own steps: APL runs a call
to its end, and no step of it waits for another actor. The steps of callers
carry no fairness. `Charts_ready` has weak fairness of the page's two steps and of
the callback, which the browser and the interpreter's event loop run without
anyone's help, and none of showing and disconnecting.

## 4. What the runs found

Each is a run that expects a violation, and an entry of `findings`.

1. An ENUM column with a null whose slot is out of range loses its valid values or stops the call (`readEnumColumn.aplf:35`).
2. A flush that fails in `appender_destroy` loses all rows and the call answers 'Success!' (`append.aplf:65-68`).
3. TIME columns are written with four bytes a row into eight-byte slots (`init.aplf:18`).
4. A buffer export whose query fails resets a buffer that was never initialised and calls a null pointer (`duckdb_arrow_export.c:327`).
5. A FLOAT in a column with a NULL is decoded without looking at an exponent of 0: 0.0 is read as 5.9E-39 (`readVector.aplf:28-29`).
6. No chart is ever shown: `plotShow` signals unless the workspace defines a name `HTMLRenderer`, and nothing does (`plotShow.aplf:8`).

Behind the sixth wait four more, which the run does not reach. Each was tried by hand:
with `"HTMLRenderer"` in `Names` and the other three put right, any one of them alone
violates `ChartShown`.

- `plotShowWebSocket.aplf:6-14` takes the event apart with positions from 1, and `init.aplf:2` sets the index origin to 0 (`Pick`);
- line 18 there searches the word *ready* in an enclosed message, which is a scalar (`Enclosed`);
- `plotSpecJson.aplf:7` splits a flat specification of more than one pair into its first and its second half, not into names and values (`SpecValue`);
- `plotShow.aplf:14-19` assigns `plotCtx` before the specification is checked: a call that signals there takes the query from the window already shown (`Show`).

With all five put right (`Origin = 1`, `Enclosed` the identity, queries with one pair
each and none that is not of pairs) the property holds in this instance.

Other weaknesses are part of the models, and the properties are stated around
them, with no run of their own:

- the result of a failed query is never destroyed, against `duckdb.h:1213` (`getResults.aplf:2-5`; `QueryFailed`);
- the child of an ARRAY is obtained with the function for lists (`readVector.aplf:175`; taken as the array's in `Arrays`);
- a failed `appender_create` answers 'Success!' and leaves the appender, against `duckdb.h:4620` (`append.aplf:12-13, 68`; the exception of `NothingLeft`);
- `toTime` accepts what `fromTime` does not give back (`toTime.aplf:12`; `TimeRefused`);
- `open` and `openExt` run `init` without its argument when the library is not loaded, which raises (`open.aplf:5-7`; `TooEarly`);
- a file export that fails before the stream exists never closes its file (`duckdb_arrow_export.c:296-307`), a buffer that cannot grow loses its old block (`nanoarrow.h:2571-2578`), a writer without an encoder its memory (`nanoarrow_ipc.c:29325-29327`): the exceptions of `LittleIsLeft`;
- the result of the last `fclose` is not looked at, so that a success may leave a file that is cut short, against `exportArrow.aplf:2,6` (`nanoarrow_ipc.c`, `ResetWriter`; `SuccessIsWhole` excepts the calls whose own `fclose` failed, `unclosed`, and no other);
- with types allocated and names not, the cleanup destroys unset logical types (`duckdb_arrow_export.c:127-133`), and a file that neither takes a write nor closes is closed twice: the exceptions of `NothingGivenBackTwice`;
- a statement that fails to prepare is never destroyed, against `duckdb.h:1889-1890` (`prepareQuery.aplf:14-16`; the exception of `StatementsFreed`);
- integers beyond 32 bits are bound as the nearest DOUBLE, not as INT64 as `docs/dev/PHASE1_COMPLETE.md:138` says (`bindParams.aplf:33-40`; `TypeOf`), so that such a number may reach DuckDB changed: the one exception of `RunsAsAsked`, which holds all other values to lines 133-140 there;
- a DATE vector whose slots hold a number of no date raises, in the slot of a NULL row too (`readVector.aplf:47`; the exception of `AnswerShaped`, `Readable`), and FLOATs of a vector with a NULL come as vectors of one number (`readVector.aplf:15,29`; `Held`);
- a table with a column of a type that is not a name in `type.apln`, such as INTEGER[], cannot be appended to: the call raises (`append.aplf:5`; `DescribeFails`);
- a string that begins with a wide character is refused, and a character scalar raises, against `PHASE1_COMPLETE.md:140` (`bindParams.aplf:17, 44`; `BindFails`, `BindRaises`);
- `extractStatementsError` reads its text without a test for a null pointer (`extractStatementsError.aplf:4`; not modelled).

## 5. What is proved

Every theorem is about the whole specification, for all values of the constants that
satisfy the named assumptions of the module: any answers, frames, results, vectors of
parameters, sizes and numbers of calls, and any failures. TLC evaluates the
assumptions in the runs.

**`QueryRead_proofs`**, from `QueryRead`'s assumptions: `Kids` leads from types to
types, decodable types have decodable children, unsupported and ENUM types are
leaves, `NoEnum` is closed under `Kids`, and an answer has at least one column, no
empty chunk and a vector per column in each chunk. Theorems: `TypeCorrect` and
`OneTypeCorrect`, `Invariance`, `LedgerCorrect`, `SuccessFrees`,
`CallerOwnsTypeCorrect`, `ReadSoFarCorrect`, and the refinement `ReadImplements`:
`Spec => Implements`.

The argument. `Ledger` is not inductive by itself: a destroyed handle could be
another variable's. `IInv` adds `Shape` (what the variables hold at each point of
the call), `HandleKinds` (each handle is of the kind of its place, the stack
holds no handle twice), so that the destroy of one place cannot empty another,
and `OneTypePerColumn`. The proof goes in two passes, types and shape first
(`StepType`), then handles (`StepLedger`), one lemma per action; the actions that
leave a vector share `LeaveVectorType` and `LeaveVectorLedger`. The refinement uses
`ReadSoFar` (`StepReadSoFar`): what has been read is the decoding of the answer's
prefix in one of the ways `Readings` allows (`ReadAs`), and a decodable column never
leads to an undecodable child, nor one without ENUMs to an ENUM, so that `Trap`
happens only over an unreadable value or where the column is `Fragile`; then each
action is a stutter, `Ask` or `Answer` of `ResultTable`.

**`BulkAppend_proofs`**: `InOrderCorrect`, `MaskOfBatchCorrect`,
`NothingLeftCorrect`, `TypeCorrect`, and the refinement `AppendImplements`:
`Spec => Implements` where `Fitting` holds, that is, each column of the table has a type
that is written at its full width or as text. From the assumptions about types, frames
and sizes, and `ValuesAssumption`: a text column takes any text. `InOrder` speaks of the rows sent and not of how they are made, so `IInv`
follows a row on its way: `Rest`, what is left of a column is its end, from the same
row on in all columns; `Loaded`, the batch are the rows after those taken; `Slotted`
with `MaskOfBatch`, the written slots and the mask say what the batch said, whatever
the slots held before; and `SentSoFar`, what was sent are rows among those taken.
`ChunkType` puts them together: the rows DuckDB reads from the chunk are the next rows
of the frame. The lemmas on `Ordered` say that rows in order stay so when later
rows follow (`OrderedLonger`), when an append or a flush loses some (`OrderedMore`,
`OrderedStart`), and `Flushed` that a flush moves rows and changes none.
For the refinement `KInv` adds to `IInv` which values these are: no row that was taken
holds a value its column cannot (`WritableSoFar`), what is written of a column is what
the contract stores (`WrittenSoFar`), and in a call in which nothing has failed the rows
sent are the first ones, none missing (`WholeSoFar`). TLC checked `KInv` on the
instance of `BulkAppend_core` before it was proved. With it each action is a stutter or
an action of the contract, one lemma each (`ConvertMaps`, ...).

**`ArrowExport_proofs`**: `SuccessIsWholeCorrect`, `RowsReportedCorrect`,
`EosMeansWholeCorrect`, `NothingGivenBackTwiceCorrect`, `LittleIsLeftCorrect`,
`TypeCorrect`. That nothing is
given back twice depends on what is held at every point: `HeldUnfailed` says it
exactly while nothing has failed, `HeldEnding` on the common way out, where after a
failure at most one thing of the sink can be missing from it or be left
(`FailedWith`). `Owner` says who closes the file. `StreamSoFar` says that the sink holds
the schema and a prefix of the batches, so that the end marker can only complete it.
For the rows reported, `RowsSoFar` says that the counter is the sum over the chunks
taken so far (`Alike`: two sums of the same chunks are equal).

**`Prepared_proofs`**: `RunsAsAskedCorrect`, `StatementsFreedCorrect`, `TypeCorrect`.
That an execution runs with what the code makes of the values asked for (`RunsBound`) is
inductive; `BoundAsPromised` compares that, kind by kind, with what the documentation
promises.
An execution looks at the bindings only; `Kept` says that a vector bound in full
stays bound until another operation asks for something else, on statements and on
pending results, and `Progress` that `bindParams` has bound what lies before `i`.
`Doing` tells the statement of a composed call from a caller's, without which `Freed`
could not say which one an operation still has to release.

**`Session_proofs`**: the five invariants of `Session_core`, from
`PairsAssumption` and `NumbersAssumption`: `OpenedAsAskedCorrect`,
`HeldIsAliveCorrect`, `NothingUndefinedCorrect`, `NothingForgottenCorrect`,
`TypeCorrect`. They are inductive together with `Owns`, which says what a running
function has in hand: a configuration with exactly the pairs before `todo`, or an
error text, and no variable of the application shares it. Without it a refused pair
could destroy what the application holds. The lemmas are the kinds of change the
operations make (an object obtained, a 0 obtained, an object given back, a call
started or ended); `Inductive` sorts the actions among them.

**`VectorRead_proofs`**, about `ReadSpec`, the conversions and reads together:
- `TimesAreKept`, `TicksAreKept` and `TimesAreInOrder`, for any number of microseconds
  to the second. `ToFrom` and `FromTo` are the two directions as lemmas on the
  operators, by division with rest at each unit (`DivUnique`, `Rest`).
- `DatesAreCounted`, from `YearsAssumption`: any years that follow one another and
  include 1970. `DatesInOrder` says that `DT` grows with the date, `EveryNumber`, by
  induction over the days after a date, that it leaves no number out; so it maps the
  dates between two one to one onto the numbers between theirs (`DaysBetween`).
- `ValuesAreRead` and `AnswersAreShaped`, from `VectorsAssumption` (`WellFormed`) and
  `ArgumentsAssumption`: any widths of masks and texts, any number of rows, any
  nesting. `MaskBits` is the mask: a bit of the flattened, turned and cut bytes is the
  bit of the row's place in its byte (`Flattened`, by induction over the bytes).
  `Right` says of a vector that its read raises only over a DATE slot that holds no date
  (`Readable`), has a value per row and is what the rows mean; each kind of column has
  it from its children (`ListDecoded`, `ArrayDecoded`, `StructDecoded`, ...), and so all
  vectors have it (`AllRight`).
  The exception of `ReadsValues`, a float with an exponent of 0, is finding 5.

The invariants follow because every reply is the operator's value (`Answered`).

**`Induction` and `DeepRecursion`.** The library states induction and recursion with
an operator as a parameter of the theorem, which the provers cannot instantiate. In
`Induction` the parameter is a set or a function: `SetInduction` is about the set of
numbers for which something holds, `Recursion` says that a rule on a set of values has
a function that follows it, `Alike` that two functions built alike are equal. The sums
of `RowsReported` and the days of `DateCounted` rest on it. In `DeepRecursion` it is a
parameter of the module: an instance names the things, their parts, their depth
and how a value is made from those of the parts, and has that the recursive function
exists (`RecursionExists`) and that what passes from parts to wholes holds of all
things (`DeepInduction`). `VectorRead_proofs` has three instances, for
`ReadVector`, `Means` and `Normal`.

Only model-checked: `CallReturns` of `QueryRead` and `BulkAppend`, and the charts:
liveness under fairness is beyond the prover. The refinement of `AppendContract` is
proved for tables that satisfy `Fitting`. The hypothesis is needed: over a TIME column the append
does not implement the contract (finding 3), over an INTERVAL or a UUID it writes
nothing at all. `BulkAppend_core` checks it on tables that fit.

## 6. Not modelled

- Vendored code: DuckDB's headers and nanoarrow are most of the repository's C (over
  110 000 lines, against some 400 of its own), so a share of the C lines says little
  about this project: the program is written in APL. The two pieces of nanoarrow
  that decide what an export leaves behind (output streams, writer) are in
  `ArrowExport`; its encoder of messages is one call that fails or does not.
- The scalar decoders of integers, decimals, hugeints, times, timestamps and
  intervals: a MEMCPY at a width followed by interpreter arithmetic on values that
  TLC's integers do not hold. They are plain slots in `VectorRead`; that the
  conversion of a timestamp may raise over the slot of a NULL row, as a date's does,
  is not in the model.
- Lists without elements in the whole vector, and structs and arrays of no rows: what
  the interpreter makes of an empty nested array depends on prototypes that the
  source does not show.
- Display and selection (`toTable`, `toShortTable`, `toJson`, `index`): layout, no
  state.
- One-call wrappers (row appender, values, types, metadata, lists of extracted
  statements): a guard for 0 and a C call.
- The interpreter's own failures (WS FULL, interrupts) and unloaded libraries.
- What DuckDB does inside a call; it is assumed to do what `duckdb.h` says.
- The `connection == NULL` and `sql == NULL` guards of the export, and an empty
  buffer after a success: the stream always holds the schema message.

## 7. Plan

Done, in order of importance: `QueryRead`, `BulkAppend`, `ArrowExport`, `Prepared`
with the pending results, `Session`, `DateTime` and `VectorRead`, all with proofs
of every safety property and both refinements; `Charts`.

Left:
1. `AppendContract` for tables with columns that are not written: a weaker contract
   that says what such an append does land.
2. The steps of a call as a measure that only decreases, the part of `CallReturns` that
   is not fairness.
3. `Display`: the rows `toShortTable` leaves out and the selection of `index`.
