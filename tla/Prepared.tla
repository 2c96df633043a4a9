------------------------------ MODULE Prepared ------------------------------
(***************************************************************************)
(* Prepared statements: prepareQuery.aplf, bindParams.aplf and the bind*   *)
(* wrappers, clearBindings.aplf, executePrepared.aplf, destroyPrepared.aplf*)
(* and the two operations built from them, queryParams.aplf and            *)
(* preparePending.aplf, with the calls on the pending results it makes.    *)
(* A caller makes these calls in any order on the statements and pending   *)
(* results it holds; a statement keeps its bindings from one execution to  *)
(* the next, and bindParams overwrites them one at a time until a value    *)
(* stops it; a pending result has those the statement had when it was made.*)
(*                                                                         *)
(* Statements are numbered as they are obtained.  The reading of results   *)
(* is QueryRead's; here it has one of its outcomes.                        *)
(***************************************************************************)
EXTENDS Naturals, Sequences

CONSTANTS
  Statements,  \* what SQL text may be: [prepares, count] records
  Params,      \* the parameter vectors callers pass to bindParams, queryParams
  Nearest,     \* Nearest[v]: the double nearest to the number v
  Typed,       \* what callers bind with a bind* wrapper: <<type, value>>
  MaxCalls,    \* bound on the number of calls
  Unbound, NoParams

(* The branches of bindParams.aplf:15-53.  "bool": 0 and 1; "int": the     *)
(* other integers of 32 bits; "large": longer ones, which APL keeps as     *)
(* floating-point or decimal numbers; "text": a vector whose first         *)
(* character takes a byte; "wide": one whose first character takes more;   *)
(* "char": a character scalar; "vector": any other array.                  *)
Kinds == {"null", "bool", "int", "large", "float", "text", "wide", "char", "vector"}

(* The type each is bound with, where it is bound at all.                  *)
TypeOf == [null |-> "NULL", bool |-> "BOOLEAN", int |-> "INTEGER",
           large |-> "DOUBLE", float |-> "DOUBLE", text |-> "VARCHAR"]

BoundAs == {TypeOf[kind] : kind \in DOMAIN TypeOf}

ASSUME StatementsAssumption ==
  \A s \in Statements : s.prepares \in BOOLEAN /\ s.count \in Nat

ASSUME ParamsAssumption ==
  /\ NoParams \notin Params
  /\ \A p \in Params : p \in Seq([kind : Kinds, v : DOMAIN Nearest])

ASSUME BoundAssumption ==
  /\ MaxCalls \in Nat
  /\ \A v \in DOMAIN Nearest : Nearest[v] \in DOMAIN Nearest
  /\ Unbound \notin Typed \cup (BoundAs \X DOMAIN Nearest)

VARIABLES
  stmts,    \* stmts[h]: whether statement h was prepared, and its bindings
  live,     \* the statements not destroyed
  mine,     \* the statements callers hold
  given,    \* given[h]: the vector last bound, all of it, to statement h
  pendings, \* the pending results: bindings, values asked for, good, live
  call,     \* the operation in progress, its statement and its parameters
  pc,
  i,        \* the parameter bindParams is at
  ok,       \* what bindParams will return
  out,      \* what the operation will return
  run,      \* the last execution: values asked for, bindings used, outcome
  lost,     \* statements left by a failed prepare or by an APL error
  calls     \* the number of calls that have returned

vars == <<stmts, live, mine, given, pendings, call, pc, i, ok, out, run, lost, calls>>
held == <<stmts, live, mine, given, pendings>>
past == <<run, lost, calls>>
loop == <<i, ok>>

NoCall == [op |-> "none", stmt |-> 0, params |-> <<>>]

NoRun == [asked |-> NoParams, bound |-> <<>>, out |-> "none"]

Init ==
  /\ stmts = <<>> /\ live = {} /\ mine = {} /\ given = <<>> /\ pendings = <<>>
  /\ call = NoCall
  /\ pc = "idle" /\ i = 1 /\ ok = TRUE /\ out = "none"
  /\ run = NoRun /\ lost = {} /\ calls = 0

Idle == pc = "idle" /\ calls < MaxCalls

Bindings == stmts[call.stmt].bound

(* DuckDB refuses to run a statement it could not prepare, or one with a   *)
(* parameter that has no value.                                            *)
Complete ==
  stmts[call.stmt].prepared /\ \A k \in DOMAIN Bindings : Bindings[k] # Unbound

Enter(op, h, params, start) ==
  /\ call' = [op |-> op, stmt |-> h, params |-> params]
  /\ pc' = start

(* The operation is over and returns o.                                    *)
End(o) == pc' = "return" /\ out' = o

Return ==
  /\ pc = "return"
  /\ lost' = IF out \in {"noprepare", "aborted"} THEN lost \cup {call.stmt}
                                                ELSE lost
  /\ calls' = calls + 1
  /\ call' = NoCall /\ pc' = "idle" /\ i' = 1 /\ ok' = TRUE /\ out' = "none"
  /\ UNCHANGED <<held, run>>

------------------------------------------------------------------------------
\* prepareQuery.aplf, and its two users

(* prepareExtractedStatement.aplf hands over what it got and the status.   *)
AfterPrepare(op, prepares) ==
  IF op = "prepareExtractedStatement" THEN "prepareQuery"
  ELSE IF prepares THEN op ELSE "refused"

Prepare(op, s, params) ==
  /\ Idle
  /\ op # "queryParams" => params = <<>>
  /\ stmts' = Append(stmts, [prepared |-> s.prepares,
                             bound |-> [k \in 1 .. s.count |-> Unbound]])
  /\ live' = live \cup {Len(stmts) + 1}
  /\ given' = Append(given, NoParams)
  /\ Enter(op, Len(stmts) + 1, params, AfterPrepare(op, s.prepares))
  /\ UNCHANGED <<mine, pendings, loop, out, past>>

(* A statement that failed to prepare is an object too, which 0 replaces.  *)
PrepareFails ==
  /\ pc = "refused"
  /\ End("noprepare")
  /\ UNCHANGED <<held, call, loop, past>>

GiveStatement ==
  /\ pc = "prepareQuery"
  /\ mine' = mine \cup {call.stmt}
  /\ End("statement")
  /\ UNCHANGED <<stmts, live, given, pendings, call, loop, past>>

------------------------------------------------------------------------------
\* bindParams.aplf, the bind* wrappers and clearBindings.aplf

BindParams(h, params) ==
  /\ Idle
  /\ Enter("bindParams", h, params, "queryParams")
  /\ given' = [given EXCEPT ![h] = NoParams]
  /\ UNCHANGED <<stmts, live, mine, pendings, loop, out, past>>

(* What parameter i gets.                                                  *)
Value == call.params[i]

(* A value as DuckDB gets it.                                              *)
Bound(val) ==
  <<TypeOf[val.kind],
    IF TypeOf[val.kind] = "DOUBLE" THEN Nearest[val.v] ELSE val.v>>

Binding == pc = "queryParams" /\ i <= Len(call.params)

Bindable(val) == val.kind \in DOMAIN TypeOf

BindNext ==
  /\ Binding /\ Bindable(Value) /\ i \in DOMAIN Bindings
  /\ stmts' = [stmts EXCEPT ![call.stmt].bound[i] = Bound(Value)]
  /\ i' = i + 1
  /\ UNCHANGED <<live, mine, given, pendings, call, pc, ok, out, past>>

(* ok after a failed bind.  Faulty variant: it is left at 1.               *)
NotOkFaulty == TRUE
NotOk == FALSE

(* An array of another kind (47-52), or DuckDB has no such parameter (55). *)
BindFails ==
  /\ Binding /\ Value.kind # "char"
  /\ ~(Bindable(Value) /\ i \in DOMAIN Bindings)
  /\ ok' = NotOk
  /\ pc' = "bound"
  /\ UNCHANGED <<held, call, i, out, past>>

(* A character scalar reaches bind_int64 (44): an APL error.               *)
BindRaises ==
  /\ Binding /\ Value.kind = "char"
  /\ End("aborted")
  /\ UNCHANGED <<held, call, loop, past>>

BindEnds ==
  /\ pc = "queryParams" /\ i > Len(call.params)
  /\ pc' = "bound"
  /\ UNCHANGED <<held, call, loop, out, past>>

BindReturns ==
  /\ pc = "bound" /\ call.op = "bindParams"
  /\ given' = [given EXCEPT ![call.stmt] =
                 IF ok /\ Len(call.params) = Len(Bindings) THEN call.params
                                                           ELSE NoParams]
  /\ End(IF ok THEN "bound" ELSE "notbound")
  /\ UNCHANGED <<stmts, live, mine, pendings, call, loop, past>>

(* A single parameter bound by its wrapper; its status goes to the caller. *)
BindOne(h, k, b) ==
  /\ Idle
  /\ Enter("bind", h, <<>>, "return")
  /\ IF k \in DOMAIN stmts[h].bound
       THEN /\ stmts' = [stmts EXCEPT ![h].bound[k] = b]
            /\ given' = [given EXCEPT ![h] = NoParams]
            /\ out' = "bound"
       ELSE out' = "notbound" /\ UNCHANGED <<stmts, given>>
  /\ UNCHANGED <<live, mine, pendings, loop, past>>

ClearBindings(h) ==
  /\ Idle
  /\ Enter("clearBindings", h, <<>>, "return")
  /\ stmts' = [stmts EXCEPT ![h].bound = [k \in DOMAIN @ |-> Unbound]]
  /\ given' = [given EXCEPT ![h] = NoParams]
  /\ out' = "cleared"
  /\ UNCHANGED <<live, mine, pendings, loop, past>>

------------------------------------------------------------------------------
\* executePrepared.aplf, queryParams.aplf:13-19, destroyPrepared.aplf

(* Where queryParams goes when bindParams returned 0 (13-15).  Faulty      *)
(* variant: straight back to its caller.                                   *)
AfterBindFailureFaulty == "return"
AfterBindFailure == "release"

QueryBound ==
  /\ pc = "bound" /\ call.op = "queryParams"
  /\ IF ok THEN pc' = "execute" /\ UNCHANGED out
           ELSE pc' = AfterBindFailure /\ out' = "notbound"
  /\ UNCHANGED <<held, call, loop, past>>

ExecutePrepared(h) ==
  /\ Idle
  /\ Enter("executePrepared", h, <<>>, "execute")
  /\ UNCHANGED <<held, loop, out, past>>

(* Faulty variant: executePrepared destroys the statement as well.         *)
AfterRunFaulty(o) == IF o = "aborted" THEN "return" ELSE "release"
AfterRun(o) ==
  IF call.op = "queryParams" /\ o # "aborted" THEN "release" ELSE "return"

(* The outcome of a complete statement is its own and getResults.aplf's.   *)
Execute ==
  /\ pc = "execute"
  /\ \E o \in IF Complete THEN {"table", "error", "aborted"} ELSE {"error"} :
       /\ run' = [asked |-> IF call.op = "queryParams" THEN call.params
                                                       ELSE given[call.stmt],
                  bound |-> Bindings, out |-> o]
       /\ out' = o
       /\ pc' = AfterRun(o)
  /\ UNCHANGED <<held, call, loop, lost, calls>>

Release ==
  /\ pc = "release"
  /\ live' = live \ {call.stmt}
  /\ pc' = "return"
  /\ UNCHANGED <<stmts, mine, given, pendings, call, loop, out, past>>

------------------------------------------------------------------------------
\* preparePending.aplf:14-15 and the calls on pending results

PreparePending(h) ==
  /\ Idle
  /\ Enter("pendingPrepared", h, <<>>, "preparePending")
  /\ UNCHANGED <<held, loop, out, past>>

(* The pending result, good or not, goes to the caller; preparePending     *)
(* destroys the statement behind it.                                       *)
PendingPrepared ==
  /\ pc = "preparePending"
  /\ \E good \in {FALSE, Complete} :
       /\ pendings' = Append(pendings, [bound |-> Bindings, asked |-> given[call.stmt],
                                        good |-> good, live |-> TRUE])
       /\ out' = IF good THEN "pending" ELSE "nopending"
  /\ pc' = IF call.op = "preparePending" THEN "release" ELSE "return"
  /\ UNCHANGED <<stmts, live, mine, given, call, loop, past>>

(* A task of a pending result may fail, and the pending result with it;    *)
(* otherwise it changes nothing a caller sees.                             *)
PendingExecuteTask(q) ==
  /\ Idle
  /\ Enter("pendingExecuteTask", 0, <<>>, "return")
  /\ \E good \in {FALSE, pendings[q].good} :
       /\ pendings' = [pendings EXCEPT ![q].good = good]
       /\ out' = IF good THEN "ready" ELSE "error"
  /\ UNCHANGED <<stmts, live, mine, given, loop, past>>

ExecutePending(q) ==
  /\ Idle
  /\ Enter("executePending", 0, <<>>, "return")
  /\ \E o \in IF pendings[q].good THEN {"table", "error"} ELSE {"error"} :
       /\ run' = [asked |-> pendings[q].asked, bound |-> pendings[q].bound, out |-> o]
       /\ out' = o
  /\ UNCHANGED <<held, loop, lost, calls>>

DestroyPending(q) ==
  /\ Idle
  /\ Enter("destroyPending", 0, <<>>, "return")
  /\ pendings' = [pendings EXCEPT ![q].live = FALSE]
  /\ out' = "destroyed"
  /\ UNCHANGED <<stmts, live, mine, given, loop, past>>

------------------------------------------------------------------------------
DestroyPrepared(h) ==
  /\ Idle
  /\ Enter("destroyPrepared", h, <<>>, "return")
  /\ live' = live \ {h} /\ mine' = mine \ {h}
  /\ out' = "destroyed"
  /\ UNCHANGED <<stmts, given, pendings, loop, past>>

(* Every operation answers 0, or an error, to the statement 0, which is    *)
(* what the operations that prepare one make of the connection 0.          *)
Operations ==
  {"prepareQuery", "queryParams", "preparePending", "bindParams", "bind",
   "clearBindings", "executePrepared"}

NoStatement(op) ==
  /\ Idle
  /\ Enter(op, 0, <<>>, "return")
  /\ out' = "nostatement"
  /\ UNCHANGED <<held, loop, past>>

Step ==
  \/ Return \/ PrepareFails \/ GiveStatement \/ PendingPrepared
  \/ BindNext \/ BindFails \/ BindRaises \/ BindEnds \/ BindReturns
  \/ QueryBound \/ Execute \/ Release

Next ==
  \/ \E op \in {"prepareQuery", "queryParams", "preparePending",
                 "prepareExtractedStatement"},
        s \in Statements, p \in Params \cup {<<>>} : Prepare(op, s, p)
  \/ \E h \in mine :
       \/ \E p \in Params : BindParams(h, p)
       \/ \E k \in 1 .. Len(stmts[h].bound) + 1, b \in Typed : BindOne(h, k, b)
       \/ ClearBindings(h) \/ ExecutePrepared(h) \/ PreparePending(h)
       \/ DestroyPrepared(h)
  \/ \E q \in DOMAIN pendings :
       /\ pendings[q].live
       /\ PendingExecuteTask(q) \/ ExecutePending(q) \/ DestroyPending(q)
  \/ \E op \in Operations : NoStatement(op)
  \/ Step

Spec == Init /\ [][Next]_vars

------------------------------------------------------------------------------
\* Properties

Bindables == Typed \cup (BoundAs \X DOMAIN Nearest) \cup {Unbound}

(* The values of the variables; a caller never holds a statement that      *)
(* someone else has destroyed.                                             *)
TypeOK ==
  /\ mine \subseteq live /\ live \subseteq DOMAIN stmts
  /\ DOMAIN given = DOMAIN stmts
  /\ \A h \in DOMAIN stmts : \A k \in DOMAIN stmts[h].bound :
       stmts[h].bound[k] \in Bindables
  /\ pc = "queryParams" => i \in 1 .. Len(call.params) + 1
  /\ ok \in BOOLEAN
  /\ pc \in {"idle", "return", "refused", "prepareQuery", "queryParams",
             "preparePending", "bound", "execute", "release"}

(* How the documentation maps a value (docs/dev/PHASE1_COMPLETE.md:133-140)*)
(* to a type.  A value of any type but DOUBLE reaches DuckDB as it is.     *)
Promise == [null |-> "NULL", bool |-> "BOOLEAN", int |-> "INTEGER",
            large |-> "BIGINT", float |-> "DOUBLE", text |-> "VARCHAR"]

Promised(val) ==
  <<Promise[val.kind], IF val.kind = "float" THEN Nearest[val.v] ELSE val.v>>

(* The one exception: a large integer, which the documentation promises to *)
(* bind whole, as an INT64, arrives as the nearest double.                 *)
AsPromised(val, b) ==
  /\ val.kind \in DOMAIN Promise
  /\ b = IF val.kind = "large" THEN <<"DOUBLE", Nearest[val.v]>> ELSE Promised(val)

(* An execution that DuckDB accepts uses the values asked for, each as the *)
(* documentation promises to bind it, large integers excepted: those asked *)
(* for by queryParams in the same call, or by the last bindParams that     *)
(* returned 1 for all the statement's parameters, however many executions, *)
(* failed bindings and operations on other statements lie between.         *)
RunsAsAsked ==
  run.out # "error" /\ run.asked # NoParams =>
    /\ DOMAIN run.bound = DOMAIN run.asked
    /\ \A k \in DOMAIN run.asked : AsPromised(run.asked[k], run.bound[k])

(* Between calls, a statement that is not destroyed and that no caller     *)
(* holds was left by a prepare that failed or by an APL error.             *)
StatementsFreed == pc = "idle" => live \ mine \subseteq lost
==============================================================================
