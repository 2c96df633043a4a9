--------------------------- MODULE Prepared_proofs ---------------------------
(***************************************************************************)
(* Proofs about prepared statements: for any parameter vectors, any number *)
(* of statements, pending results and calls, an execution uses the values  *)
(* its caller asked for, and no statement is lost or destroyed behind its  *)
(* owner.                                                                  *)
(***************************************************************************)
EXTENDS Prepared, SequenceTheorems, TLAPS

------------------------------------------------------------------------------
\* The inductive invariant

Vectors == Params \cup {<<>>}

Stmt == [prepared : BOOLEAN, bound : Seq(Bindables)]

Pending == [bound : Seq(Bindables), asked : Params \cup {NoParams},
            good : BOOLEAN, live : BOOLEAN]

(* The bindings are those of a vector, all of them.                        *)
Matches(bound, params) ==
  /\ DOMAIN bound = DOMAIN params
  /\ \A k \in DOMAIN params : Bindable(params[k]) /\ bound[k] = Bound(params[k])

(* What has been obtained, and who holds it.                               *)
Objects ==
  /\ stmts \in Seq(Stmt)
  /\ given \in Seq(Params \cup {NoParams}) /\ Len(given) = Len(stmts)
  /\ pendings \in Seq(Pending)
  /\ mine \subseteq live /\ live \subseteq DOMAIN stmts

(* The points of an operation that has a statement to work on, and the     *)
(* operations whose statement is a caller's and not their own.             *)
Working == {"refused", "prepareQuery", "queryParams", "preparePending", "bound",
            "execute", "release"}

OfCaller == {"bindParams", "executePrepared", "pendingPrepared"}

Doing ==
  /\ pc \in {"idle", "return"} \cup Working
  /\ ok \in BOOLEAN /\ i \in Nat
  /\ pc \in Working =>
       /\ call.stmt \in live /\ call.params \in Vectors
       /\ call.stmt \in mine <=> call.op \in OfCaller
  /\ pc \in {"refused", "prepareQuery", "release"} => call.op \notin OfCaller
  /\ pc \in {"queryParams", "bound"} => call.op \in {"bindParams", "queryParams"}
  /\ pc = "bound" /\ call.op = "bindParams" => call.params \in Params
  /\ pc = "queryParams" /\ call.op = "bindParams" => call.params \in Params
  /\ pc = "execute" => call.op \in {"executePrepared", "queryParams"}
  /\ pc = "preparePending" => call.op \in {"pendingPrepared", "preparePending"}

(* The first n parameters are bound; on the statement of queryParams, that *)
(* nobody else has seen, nothing else is.                                  *)
Upto(n) ==
  /\ \A k \in 1 .. n :
       /\ k \in DOMAIN Bindings /\ Bindable(call.params[k])
       /\ Bindings[k] = Bound(call.params[k])
  /\ call.op = "queryParams" =>
       \A k \in DOMAIN Bindings : k > n => Bindings[k] = Unbound

Progress ==
  /\ pc = "queryParams" =>
       /\ ok /\ i \in 1 .. Len(call.params) + 1
       /\ given[call.stmt] = NoParams
       /\ Upto(i - 1)
  /\ pc = "bound" /\ ok => Upto(Len(call.params))
  /\ pc = "execute" /\ call.op = "queryParams" => Upto(Len(call.params))
  /\ pc = "idle" => ok /\ i = 1

(* What was bound stays bound until something else is asked for.           *)
Kept ==
  /\ \A h \in DOMAIN given :
       given[h] # NoParams => Matches(stmts[h].bound, given[h])
  /\ \A p \in DOMAIN pendings :
       pendings[p].asked # NoParams => Matches(pendings[p].bound, pendings[p].asked)

(* The statement an operation still has to hand over, release or lose.     *)
InHand ==
  IF pc \in Working \/ (pc = "return" /\ out \in {"noprepare", "aborted"})
    THEN {call.stmt} ELSE {}

Freed == live \ mine \subseteq lost \cup InHand

Shape == Objects /\ Doing

(* The last execution used what bindParams.aplf made of the values.        *)
RunsBound ==
  run.out # "error" /\ run.asked # NoParams =>
    /\ DOMAIN run.bound = DOMAIN run.asked
    /\ \A k \in DOMAIN run.asked :
         Bindable(run.asked[k]) /\ run.bound[k] = Bound(run.asked[k])

IInv == Shape /\ Progress /\ Kept /\ Freed /\ RunsBound

------------------------------------------------------------------------------
\* Values, bindings and statements

Given == [kind : Kinds, v : DOMAIN Nearest]

LEMMA VectorType ==
  ASSUME NEW p \in Vectors
  PROVE  /\ p \in Seq(Given)
         /\ Len(p) \in Nat /\ DOMAIN p = 1 .. Len(p)
         /\ \A k \in DOMAIN p : p[k] \in Given
<1>1. CASE p = <<>>
  BY <1>1
<1>2. CASE p \in Params
  <2>1. p \in Seq(Given)
    BY <1>2, ParamsAssumption, Zenon DEF Given
  <2> QED
    BY <2>1, ElementOfSeq
<1> QED
  BY <1>1, <1>2 DEF Vectors

LEMMA BoundType ==
  ASSUME NEW val \in Given, Bindable(val)
  PROVE  Bound(val) \in Bindables
<1>1. val.v \in DOMAIN Nearest /\ Nearest[val.v] \in DOMAIN Nearest
  BY BoundAssumption DEF Given
<1>2. TypeOf[val.kind] \in BoundAs
  BY DEF Bindable, BoundAs
<1> QED
  BY <1>1, <1>2 DEF Bound, Bindables

LEMMA StmtType ==
  ASSUME Objects, NEW h \in DOMAIN stmts
  PROVE  /\ stmts[h] \in Stmt
         /\ stmts[h].bound \in Seq(Bindables)
         /\ DOMAIN stmts[h].bound = 1 .. Len(stmts[h].bound)
         /\ Len(stmts[h].bound) \in Nat
         /\ \A k \in DOMAIN stmts[h].bound : stmts[h].bound[k] \in Bindables
<1>1. stmts[h] \in Stmt
  BY DEF Objects
<1>2. stmts[h].bound \in Seq(Bindables)
  BY <1>1 DEF Stmt
<1> QED
  BY <1>1, <1>2

(* One element of a sequence replaced.                                     *)
LEMMA Replaced ==
  ASSUME NEW S, NEW s \in Seq(S), NEW k \in DOMAIN s, NEW e \in S,
         NEW t, t = [s EXCEPT ![k] = e]
  PROVE  /\ t \in Seq(S) /\ Len(t) = Len(s) /\ DOMAIN t = DOMAIN s
         /\ \A j \in DOMAIN s : t[j] = IF j = k THEN e ELSE s[j]
  OBVIOUS

LEMMA InitCorrect == Init => IInv
<1> SUFFICES ASSUME Init PROVE IInv
  OBVIOUS
<1> USE DEF Init
<1>1. Shape
  BY DEF Shape, Objects, Doing, Working
<1>2. Progress /\ Kept /\ Freed
  BY DEF Progress, Kept, Freed, InHand, Working
<1>3. RunsBound
  BY DEF RunsBound, NoRun
<1> QED
  BY <1>1, <1>2, <1>3 DEF IInv

(* Steps that change no statement, binding or pending result.              *)
LEMMA SameObjects ==
  ASSUME IInv, UNCHANGED held
  PROVE  Objects' /\ Kept'
  BY DEF IInv, Shape, Objects, Kept, held, Matches, Bound, Bindable

LEMMA ReturnCorrect == ASSUME IInv, Return PROVE IInv'
<1> USE DEF Return
<1>1. Objects' /\ Kept'
  BY SameObjects
<1>2. Doing'
  BY DEF Doing, Working
<1>3. Progress'
  BY DEF Progress
<1>4. Freed'
  BY DEF Freed, InHand, IInv, Working, held
<1>5. RunsBound'
  BY DEF RunsBound, IInv, Bound, Bindable
<1> QED
  BY <1>1, <1>2, <1>3, <1>4, <1>5 DEF IInv, Shape

LEMMA PrepareFailsCorrect == ASSUME IInv, PrepareFails PROVE IInv'
<1> USE DEF PrepareFails, End, loop, past
<1>1. Objects' /\ Kept'
  BY SameObjects DEF held
<1>2. Doing'
  BY DEF Doing, Working, OfCaller, IInv, Shape, Objects, held
<1>3. Progress'
  BY DEF Progress, IInv, Upto, held
<1>4. Freed'
  BY DEF Freed, InHand, IInv, Shape, Doing, Working, OfCaller, held
<1>5. RunsBound'
  BY DEF RunsBound, IInv, Bound, Bindable, past
<1> QED
  BY <1>1, <1>2, <1>3, <1>4, <1>5 DEF IInv, Shape

LEMMA BindFailsCorrect == ASSUME IInv, BindFails PROVE IInv'
<1> USE DEF BindFails, Binding, NotOk, past
<1>1. Objects' /\ Kept'
  BY SameObjects DEF held
<1>2. Doing'
  BY DEF Doing, Working, OfCaller, IInv, Shape, Objects, held
<1>3. Progress'
  BY DEF Progress, IInv, Upto, held, Value, Bindings
<1>4. Freed'
  BY DEF Freed, InHand, IInv, Shape, Doing, Working, OfCaller, held
<1>5. RunsBound'
  BY DEF RunsBound, IInv, Bound, Bindable, past
<1> QED
  BY <1>1, <1>2, <1>3, <1>4, <1>5 DEF IInv, Shape

LEMMA BindRaisesCorrect == ASSUME IInv, BindRaises PROVE IInv'
<1> USE DEF BindRaises, Binding, End, loop, past
<1>1. Objects' /\ Kept'
  BY SameObjects DEF held
<1>2. Doing'
  BY DEF Doing, Working, OfCaller, IInv, Shape, Objects, held
<1>3. Progress'
  BY DEF Progress, IInv, Upto, held
<1>4. Freed'
  BY DEF Freed, InHand, IInv, Shape, Doing, Working, OfCaller, held
<1>5. RunsBound'
  BY DEF RunsBound, IInv, Bound, Bindable, past
<1> QED
  BY <1>1, <1>2, <1>3, <1>4, <1>5 DEF IInv, Shape

LEMMA BindEndsCorrect == ASSUME IInv, BindEnds PROVE IInv'
<1> USE DEF BindEnds, loop, past
<1>1. Objects' /\ Kept'
  BY SameObjects DEF held
<1>2. Doing'
  BY DEF Doing, Working, OfCaller, IInv, Shape, Objects, held
<1>3. Progress'
  BY DEF Progress, IInv, Upto, held, Bindings
<1>4. Freed'
  BY DEF Freed, InHand, IInv, Shape, Doing, Working, OfCaller, held
<1>5. RunsBound'
  BY DEF RunsBound, IInv, Bound, Bindable, past
<1> QED
  BY <1>1, <1>2, <1>3, <1>4, <1>5 DEF IInv, Shape

LEMMA QueryBoundCorrect == ASSUME IInv, QueryBound PROVE IInv'
<1> USE DEF QueryBound, AfterBindFailure, loop, past
<1>1. Objects' /\ Kept'
  BY SameObjects DEF held
<1>2. Doing'
  BY DEF Doing, Working, OfCaller, IInv, Shape, Objects, held
<1>3. Progress'
  BY DEF Progress, IInv, Upto, held, Bindings
<1>4. Freed'
  BY DEF Freed, InHand, IInv, Shape, Doing, Working, OfCaller, held
<1>5. RunsBound'
  BY DEF RunsBound, IInv, Bound, Bindable, past
<1> QED
  BY <1>1, <1>2, <1>3, <1>4, <1>5 DEF IInv, Shape

LEMMA ExecutePreparedCorrect == ASSUME IInv, NEW h \in mine, ExecutePrepared(h) PROVE IInv'
<1> USE DEF ExecutePrepared, Idle, Enter, loop, past
<1>1. Objects' /\ Kept'
  BY SameObjects DEF held
<1>2. Doing'
  BY DEF Doing, Working, OfCaller, IInv, Shape, Objects, held, Vectors
<1>3. Progress'
  BY DEF Progress, IInv, Upto, held
<1>4. Freed'
  BY DEF Freed, InHand, IInv, Shape, Doing, Working, OfCaller, held
<1>5. RunsBound'
  BY DEF RunsBound, IInv, Bound, Bindable, past
<1> QED
  BY <1>1, <1>2, <1>3, <1>4, <1>5 DEF IInv, Shape

LEMMA PreparePendingCorrect == ASSUME IInv, NEW h \in mine, PreparePending(h) PROVE IInv'
<1> USE DEF PreparePending, Idle, Enter, loop, past
<1>1. Objects' /\ Kept'
  BY SameObjects DEF held
<1>2. Doing'
  BY DEF Doing, Working, OfCaller, IInv, Shape, Objects, held, Vectors
<1>3. Progress'
  BY DEF Progress, IInv, Upto, held
<1>4. Freed'
  BY DEF Freed, InHand, IInv, Shape, Doing, Working, OfCaller, held
<1>5. RunsBound'
  BY DEF RunsBound, IInv, Bound, Bindable, past
<1> QED
  BY <1>1, <1>2, <1>3, <1>4, <1>5 DEF IInv, Shape

LEMMA NoStatementCorrect == ASSUME IInv, NEW op \in Operations, NoStatement(op) PROVE IInv'
<1> USE DEF NoStatement, Idle, Enter, loop, past
<1>1. Objects' /\ Kept'
  BY SameObjects DEF held
<1>2. Doing'
  BY DEF Doing, Working, OfCaller, IInv, Shape, Objects, held, Vectors
<1>3. Progress'
  BY DEF Progress, IInv, Upto, held
<1>4. Freed'
  BY DEF Freed, InHand, IInv, Shape, Doing, Working, OfCaller, held
<1>5. RunsBound'
  BY DEF RunsBound, IInv, Bound, Bindable, past
<1> QED
  BY <1>1, <1>2, <1>3, <1>4, <1>5 DEF IInv, Shape

LEMMA GiveStatementCorrect == ASSUME IInv, GiveStatement PROVE IInv'
<1> USE DEF GiveStatement, End, loop, past
<1>1. Objects' /\ Kept'
  BY DEF IInv, Shape, Objects, Doing, Working, Kept, Matches, Bound, Bindable
<1>2. Doing' /\ Progress'
  BY DEF Doing, Progress, Working, IInv, Shape
<1>3. Freed' /\ RunsBound'
  BY DEF Freed, InHand, IInv, Working, RunsBound, Bound, Bindable
<1> QED
  BY <1>1, <1>2, <1>3 DEF IInv, Shape

LEMMA ReleaseCorrect == ASSUME IInv, Release PROVE IInv'
<1> USE DEF Release, loop, past
<1>1. call.stmt \notin mine
  BY DEF IInv, Shape, Doing, Working, OfCaller
<1>2. Objects' /\ Kept'
  BY <1>1 DEF IInv, Shape, Objects, Kept, Matches, Bound, Bindable
<1>3. Doing' /\ Progress'
  BY DEF Doing, Progress, Working, IInv, Shape
<1>4. Freed' /\ RunsBound'
  BY DEF Freed, InHand, IInv, Working, RunsBound, Bound, Bindable
<1> QED
  BY <1>2, <1>3, <1>4 DEF IInv, Shape

(* The one step of an execution that matters: a statement that DuckDB runs *)
(* has no parameter without a value, so queryParams has bound them all.    *)
LEMMA ExecuteCorrect == ASSUME IInv, Execute PROVE IInv'
<1> DEFINE s == call.stmt
<1>1. Objects' /\ Kept'
  BY SameObjects DEF Execute
<1>2. PICK o \in IF Complete THEN {"table", "error", "aborted"} ELSE {"error"} :
        /\ run' = [asked |-> IF call.op = "queryParams" THEN call.params ELSE given[s],
                   bound |-> Bindings, out |-> o]
        /\ out' = o /\ pc' = AfterRun(o)
  BY DEF Execute
<1>3. /\ pc = "execute" /\ s \in DOMAIN stmts
      /\ call.params \in Vectors
      /\ call.op \in {"executePrepared", "queryParams"}
      /\ s \in mine <=> call.op = "executePrepared"
  BY DEF Execute, IInv, Shape, Objects, Doing, Working, OfCaller
<1>4. UNCHANGED <<stmts, live, mine, given, pendings, call, i, ok, lost>>
  BY DEF Execute, held, loop
<1>5. Doing' /\ Progress'
  BY <1>2, <1>3, <1>4 DEF AfterRun, Doing, Progress, Working, OfCaller, IInv, Shape
<1>6. Freed'
  BY <1>2, <1>3, <1>4 DEF AfterRun, Freed, InHand, Working, IInv
<1>7. RunsBound'
  <2> SUFFICES ASSUME o # "error", run'.asked # NoParams
               PROVE  Matches(run'.bound, run'.asked)
    BY <1>2 DEF RunsBound, Matches, Bound, Bindable
  <2>1. Complete
    BY <1>2
  <2>2. CASE call.op = "queryParams"
    <3>1. Upto(Len(call.params))
      BY <1>3, <2>2 DEF IInv, Progress
    <3>2. DOMAIN call.params = 1 .. Len(call.params) /\ Len(call.params) \in Nat
      BY <1>3, VectorType
    <3>3. DOMAIN Bindings = 1 .. Len(Bindings) /\ Len(Bindings) \in Nat
      BY <1>3, StmtType DEF Bindings, IInv, Shape
    <3>4. \A k \in DOMAIN Bindings : k <= Len(call.params)
      BY <2>1, <2>2, <3>1, <3>2, <3>3 DEF Complete, Upto
    <3>5. DOMAIN Bindings = DOMAIN call.params
      <4>1. \A k \in DOMAIN call.params : k \in DOMAIN Bindings
        BY <3>1, <3>2 DEF Upto
      <4>2. \A k \in DOMAIN Bindings : k \in DOMAIN call.params
        BY <3>2, <3>3, <3>4
      <4> QED
        BY <4>1, <4>2
    <3> QED
      BY <1>2, <2>2, <3>1, <3>2, <3>5 DEF Matches, Upto
  <2>3. CASE call.op = "executePrepared"
    BY <1>2, <1>3, <2>3 DEF IInv, Kept, Shape, Objects, Bindings
  <2> QED
    BY <1>3, <2>2, <2>3
<1> QED
  BY <1>1, <1>5, <1>6, <1>7 DEF IInv, Shape

LEMMA ExecutePendingCorrect ==
  ASSUME IInv, NEW q \in DOMAIN pendings, ExecutePending(q)
  PROVE  IInv'
<1> USE DEF ExecutePending, Idle, Enter
<1>1. Objects' /\ Kept'
  BY SameObjects
<1>2. Doing' /\ Progress'
  BY DEF Doing, Progress, Working, IInv, Shape, loop, held
<1>3. Freed'
  BY DEF Freed, InHand, IInv, Working, held
<1>4. RunsBound'
  BY DEF RunsBound, IInv, Kept, Matches, Bound, Bindable
<1> QED
  BY <1>1, <1>2, <1>3, <1>4 DEF IInv, Shape

------------------------------------------------------------------------------
\* Steps that obtain a statement or change one

LEMMA PrepareCorrect ==
  ASSUME IInv, NEW s \in Statements, NEW params \in Params \cup {<<>>},
         NEW op \in {"prepareQuery", "queryParams", "preparePending",
                     "prepareExtractedStatement"},
         Prepare(op, s, params)
  PROVE  IInv'
<1> DEFINE h == Len(stmts) + 1
           new == [prepared |-> s.prepares, bound |-> [k \in 1 .. s.count |-> Unbound]]
<1>1. /\ stmts' = Append(stmts, new) /\ given' = Append(given, NoParams)
      /\ live' = live \cup {h}
      /\ call' = [op |-> op, stmt |-> h, params |-> params]
      /\ pc' = AfterPrepare(op, s.prepares)
      /\ pc = "idle"
      /\ op # "queryParams" => params = <<>>
  BY DEF Prepare, Enter, Idle
<1>2. UNCHANGED <<mine, pendings, i, ok, out, run, lost>>
  BY DEF Prepare, loop, past
<1>3. new \in Stmt
  <2>1. s.count \in Nat /\ s.prepares \in BOOLEAN
    BY StatementsAssumption
  <2>2. [k \in 1 .. s.count |-> Unbound] \in Seq(Bindables)
    BY <2>1 DEF Bindables
  <2> QED
    BY <2>1, <2>2 DEF Stmt
<1>4. /\ stmts \in Seq(Stmt) /\ Len(given) = Len(stmts) /\ Len(stmts) \in Nat
      /\ given \in Seq(Params \cup {NoParams})
      /\ mine \subseteq live /\ live \subseteq DOMAIN stmts
      /\ DOMAIN stmts = 1 .. Len(stmts) /\ DOMAIN given = DOMAIN stmts
  BY DEF IInv, Shape, Objects
<1> HIDE DEF new
<1>5. /\ stmts' \in Seq(Stmt) /\ Len(stmts') = h /\ DOMAIN stmts' = 1 .. h
      /\ \A g \in DOMAIN stmts : stmts'[g] = stmts[g]
      /\ stmts'[h] = new
  BY <1>1, <1>3, <1>4, AppendProperties
<1>6. /\ given' \in Seq(Params \cup {NoParams}) /\ Len(given') = h
      /\ DOMAIN given' = 1 .. h
      /\ \A g \in DOMAIN given : given'[g] = given[g]
      /\ given'[h] = NoParams
  BY <1>1, <1>4, AppendProperties
<1>7. Objects'
  BY <1>1, <1>2, <1>4, <1>5, <1>6 DEF IInv, Shape, Objects
<1>8. Kept'
  <2>1. \A g \in DOMAIN given' : given'[g] # NoParams =>
          g \in DOMAIN given /\ given'[g] = given[g] /\ stmts'[g] = stmts[g]
    BY <1>4, <1>5, <1>6
  <2> QED
    BY <2>1, <1>2 DEF IInv, Kept, Matches, Bound, Bindable
<1>9. h \notin mine
  BY <1>4
<1>10. Doing'
  BY <1>1, <1>2, <1>9 DEF AfterPrepare, Doing, Working, OfCaller, Vectors, IInv, Shape
<1>11. /\ ok /\ i = 1 /\ params \in Vectors
       /\ new.bound = [k \in 1 .. s.count |-> Unbound]
  BY <1>1 DEF IInv, Progress, Vectors, new
<1>12. Progress'
  <2>1. \A k \in DOMAIN new.bound : new.bound[k] = Unbound
    BY <1>11
  <2>2. Len(params) \in Nat
    BY <1>11, VectorType
  <2>3. pc' \in {"refused", "prepareQuery", "queryParams", "preparePending"}
    BY <1>1 DEF AfterPrepare
  <2>4. call'.params = params /\ call'.stmt = h /\ Bindings' = new.bound
    BY <1>1, <1>5 DEF Bindings
  <2>5. Upto(0)'
    BY <2>1, <2>4 DEF Upto
  <2>6. pc' = "queryParams" =>
          /\ ok' /\ i' \in 1 .. Len(call'.params) + 1
          /\ given'[call'.stmt] = NoParams
          /\ Upto(i - 1)'
    BY <1>2, <1>6, <1>11, <2>2, <2>4, <2>5
  <2> QED
    BY <2>3, <2>6 DEF Progress
<1>13. Freed'
  BY <1>1, <1>2 DEF AfterPrepare, Freed, InHand, Working, IInv
<1>14. RunsBound'
  BY <1>2 DEF RunsBound, IInv, Bound, Bindable
<1> QED
  BY <1>7, <1>8, <1>10, <1>12, <1>13, <1>14 DEF IInv, Shape

(* A step that gives one statement other bindings and forgets, or learns,  *)
(* what vector they are.                                                   *)
LEMMA RebindObjects ==
  ASSUME IInv, NEW h \in DOMAIN stmts, NEW b \in Seq(Bindables),
         NEW p \in Params \cup {NoParams},
         stmts' = [stmts EXCEPT ![h].bound = b],
         given' = [given EXCEPT ![h] = p],
         p # NoParams => Matches(b, p),
         UNCHANGED <<live, mine, pendings>>
  PROVE  /\ Objects' /\ Kept'
         /\ DOMAIN stmts' = DOMAIN stmts
         /\ stmts'[h].bound = b /\ given'[h] = p
<1>1. /\ stmts \in Seq(Stmt) /\ given \in Seq(Params \cup {NoParams})
      /\ Len(given) = Len(stmts) /\ Len(stmts) \in Nat
      /\ DOMAIN stmts = 1 .. Len(stmts) /\ DOMAIN given = 1 .. Len(stmts)
  BY DEF IInv, Shape, Objects
<1>2. stmts[h] \in Stmt
  BY <1>1
<1> DEFINE new == [stmts[h] EXCEPT !.bound = b]
<1>3. new \in Stmt /\ new.bound = b
  BY <1>2 DEF Stmt
<1>4. stmts' = [stmts EXCEPT ![h] = new]
  OBVIOUS
<1> HIDE DEF new
<1>5. /\ stmts' \in Seq(Stmt) /\ Len(stmts') = Len(stmts)
      /\ DOMAIN stmts' = DOMAIN stmts
      /\ \A g \in DOMAIN stmts : stmts'[g] = IF g = h THEN new ELSE stmts[g]
  <2>1. stmts \in Seq(Stmt)
    BY <1>1
  <2>2. new \in Stmt
    BY <1>3
  <2>3. \A t : t = [stmts EXCEPT ![h] = new] =>
          /\ t \in Seq(Stmt) /\ Len(t) = Len(stmts) /\ DOMAIN t = DOMAIN stmts
          /\ \A g \in DOMAIN stmts : t[g] = IF g = h THEN new ELSE stmts[g]
    BY <2>1, <2>2, Replaced, Zenon
  <2> QED
    BY <1>4, <2>3, Zenon
<1>6. /\ given' \in Seq(Params \cup {NoParams}) /\ Len(given') = Len(given)
      /\ DOMAIN given' = DOMAIN given
      /\ \A g \in DOMAIN given : given'[g] = IF g = h THEN p ELSE given[g]
  BY <1>1
<1>7. Objects'
  BY <1>1, <1>5, <1>6 DEF IInv, Shape, Objects
<1>8. \A g \in DOMAIN given' : given'[g] # NoParams => Matches(stmts'[g].bound, given'[g])
  BY <1>1, <1>3, <1>5, <1>6 DEF IInv, Kept
<1>9. Kept'
  BY <1>8 DEF IInv, Kept, Matches, Bound, Bindable
<1> QED
  BY <1>1, <1>3, <1>5, <1>6, <1>7, <1>9

LEMMA BindParamsCorrect ==
  ASSUME IInv, NEW h \in mine, NEW params \in Params, BindParams(h, params)
  PROVE  IInv'
<1>1. /\ pc = "idle" /\ pc' = "queryParams"
      /\ call' = [op |-> "bindParams", stmt |-> h, params |-> params]
      /\ given' = [given EXCEPT ![h] = NoParams]
      /\ UNCHANGED <<stmts, live, mine, pendings, i, ok, out, run, lost>>
  BY DEF BindParams, Idle, Enter, loop, past
<1>2. /\ h \in DOMAIN stmts /\ h \in live /\ DOMAIN given = DOMAIN stmts
      /\ given \in Seq(Params \cup {NoParams}) /\ Len(given) = Len(stmts)
  BY DEF IInv, Shape, Objects
<1>3. /\ given' \in Seq(Params \cup {NoParams}) /\ Len(given') = Len(given)
      /\ DOMAIN given' = DOMAIN given
      /\ \A g \in DOMAIN given : given'[g] = IF g = h THEN NoParams ELSE given[g]
  BY <1>1, <1>2
<1>4. Objects' /\ Kept'
  BY <1>1, <1>3 DEF IInv, Shape, Objects, Kept, Matches, Bound, Bindable
<1>5. Doing'
  BY <1>1, <1>2 DEF Doing, Working, OfCaller, Vectors, IInv, Shape
<1>6. ok /\ i = 1 /\ Len(params) \in Nat
  BY <1>1, VectorType DEF IInv, Progress, Vectors
<1>7. Progress'
  BY <1>1, <1>2, <1>3, <1>6 DEF Progress, Upto
<1>8. Freed' /\ RunsBound'
  BY <1>1 DEF Freed, InHand, Working, RunsBound, IInv, Bound, Bindable
<1> QED
  BY <1>4, <1>5, <1>7, <1>8 DEF IInv, Shape

(* Binding one more parameter.                                             *)
LEMMA BindNextCorrect == ASSUME IInv, BindNext PROVE IInv'
<1> DEFINE h == call.stmt
           b == [Bindings EXCEPT ![i] = Bound(Value)]
<1>1. /\ pc = "queryParams" /\ i <= Len(call.params)
      /\ Bindable(Value) /\ i \in DOMAIN Bindings
      /\ stmts' = [stmts EXCEPT ![h].bound = b]
      /\ i' = i + 1
      /\ UNCHANGED <<live, mine, given, pendings, call, pc, ok, out, run, lost>>
  BY DEF BindNext, Binding, Bindings, past
<1>2. /\ h \in DOMAIN stmts /\ given[h] = NoParams /\ call.params \in Vectors
      /\ i \in 1 .. Len(call.params) + 1 /\ Upto(i - 1) /\ ok
  BY <1>1 DEF IInv, Shape, Objects, Doing, Working, Progress
<1>3. Len(call.params) \in Nat /\ Value \in Given
  BY <1>1, <1>2, VectorType DEF Value
<1>4. Bound(Value) \in Bindables
  BY <1>1, <1>3, BoundType
<1>5. Bindings \in Seq(Bindables) /\ DOMAIN Bindings = 1 .. Len(Bindings)
  BY <1>2, StmtType DEF Bindings, IInv, Shape
<1>6. /\ b \in Seq(Bindables) /\ DOMAIN b = DOMAIN Bindings
      /\ \A k \in DOMAIN b : b[k] = IF k = i THEN Bound(Value) ELSE Bindings[k]
  BY <1>1, <1>4, <1>5
<1> HIDE DEF b
<1>7. given' = [given EXCEPT ![h] = NoParams]
  BY <1>1, <1>2 DEF IInv, Shape, Objects
<1>8. Objects' /\ Kept' /\ stmts'[h].bound = b
  BY <1>1, <1>2, <1>6, <1>7, RebindObjects
<1>9. Doing' /\ Freed' /\ RunsBound'
  BY <1>1 DEF Doing, Freed, InHand, Working, RunsBound, IInv, Shape, Bound, Bindable
<1>10. Progress'
  <2>1. /\ Bindings' = b /\ i' - 1 = i /\ i \in Nat /\ i' \in 1 .. Len(call.params) + 1
    BY <1>1, <1>2, <1>3, <1>8 DEF Bindings
  <2>2. \A k \in 1 .. i :
           /\ k \in DOMAIN b /\ Bindable(call.params[k])
           /\ b[k] = Bound(call.params[k])
    <3> SUFFICES ASSUME NEW k \in 1 .. i
                 PROVE  /\ k \in DOMAIN b /\ Bindable(call.params[k])
                        /\ b[k] = Bound(call.params[k])
      OBVIOUS
    <3>1. CASE k = i
      BY <1>1, <1>6, <3>1 DEF Value
    <3>2. CASE k \in 1 .. i - 1
      BY <1>2, <1>6, <3>2, <2>1 DEF Upto
    <3> QED
      BY <2>1, <3>1, <3>2
  <2>3. call.op = "queryParams" => \A k \in DOMAIN b : k > i => b[k] = Unbound
    BY <1>2, <1>5, <1>6, <2>1 DEF Upto
  <2>4. Upto(i - 1)'
    BY <1>1, <2>1, <2>2, <2>3 DEF Upto, Bound, Bindable
  <2> QED
    BY <1>1, <1>2, <2>1, <2>4 DEF Progress
<1> QED
  BY <1>8, <1>9, <1>10 DEF IInv, Shape

LEMMA BindReturnsCorrect == ASSUME IInv, BindReturns PROVE IInv'
<1> DEFINE h == call.stmt
           p == IF ok /\ Len(call.params) = Len(Bindings) THEN call.params ELSE NoParams
<1>1. /\ pc = "bound" /\ call.op = "bindParams" /\ pc' = "return"
      /\ out' \in {"bound", "notbound"}
      /\ given' = [given EXCEPT ![h] = p]
      /\ UNCHANGED <<stmts, live, mine, pendings, call, i, ok, run, lost>>
  BY DEF BindReturns, End, loop, past
<1>2. /\ h \in DOMAIN stmts /\ call.params \in Params /\ h \in mine
      /\ ok => Upto(Len(call.params))
  BY <1>1 DEF IInv, Shape, Objects, Doing, Working, OfCaller, Progress
<1>3. DOMAIN call.params = 1 .. Len(call.params) /\ Len(call.params) \in Nat
  BY <1>2, VectorType DEF Vectors
<1>4. Bindings \in Seq(Bindables) /\ DOMAIN Bindings = 1 .. Len(Bindings)
  BY <1>2, StmtType DEF Bindings, IInv, Shape
<1>5. p \in Params \cup {NoParams}
  BY <1>2
<1>6. p # NoParams => Matches(Bindings, p)
  BY <1>2, <1>3, <1>4 DEF Matches, Upto
<1>7. stmts' = [stmts EXCEPT ![h].bound = Bindings]
  <2>1. stmts[h] = [stmts[h] EXCEPT !.bound = Bindings]
    BY <1>2, StmtType DEF Bindings, Stmt, IInv, Shape
  <2> QED
    BY <1>1, <1>2, <2>1 DEF IInv, Shape, Objects
<1> HIDE DEF p
<1>8. Objects' /\ Kept'
  BY <1>1, <1>2, <1>4, <1>5, <1>6, <1>7, RebindObjects
<1>9. Doing' /\ Progress' /\ Freed' /\ RunsBound'
  BY <1>1, <1>2 DEF Doing, Progress, Freed, InHand, Working, RunsBound, IInv, Shape,
                    Bound, Bindable
<1> QED
  BY <1>8, <1>9 DEF IInv, Shape

LEMMA BindOneCorrect ==
  ASSUME IInv, NEW h \in mine, NEW k \in 1 .. Len(stmts[h].bound) + 1,
         NEW b \in Typed, BindOne(h, k, b)
  PROVE  IInv'
<1>1. /\ pc = "idle" /\ pc' = "return" /\ out' \in {"bound", "notbound"}
      /\ call' = [op |-> "bind", stmt |-> h, params |-> <<>>]
      /\ UNCHANGED <<live, mine, pendings, i, ok, run, lost>>
  BY DEF BindOne, Idle, Enter, loop, past
<1>2. h \in DOMAIN stmts
  BY DEF IInv, Shape, Objects
<1>3. Objects' /\ Kept'
  <2>1. CASE k \in DOMAIN stmts[h].bound
    <3> DEFINE new == [stmts[h].bound EXCEPT ![k] = b]
    <3>1. new \in Seq(Bindables)
      BY <1>2, <2>1, StmtType DEF Bindables, IInv, Shape
    <3>2. /\ stmts' = [stmts EXCEPT ![h].bound = new]
          /\ given' = [given EXCEPT ![h] = NoParams]
      BY <2>1 DEF BindOne
    <3> QED
      BY <1>1, <1>2, <3>1, <3>2, RebindObjects
  <2>2. CASE k \notin DOMAIN stmts[h].bound
    BY <1>1, <2>2, SameObjects DEF BindOne, held
  <2> QED
    BY <2>1, <2>2
<1>4. Doing' /\ Progress' /\ Freed' /\ RunsBound'
  BY <1>1 DEF Doing, Progress, Freed, InHand, Working, RunsBound, IInv, Shape,
              Bound, Bindable
<1> QED
  BY <1>3, <1>4 DEF IInv, Shape

LEMMA ClearBindingsCorrect ==
  ASSUME IInv, NEW h \in mine, ClearBindings(h)
  PROVE  IInv'
<1> DEFINE new == [k \in DOMAIN stmts[h].bound |-> Unbound]
<1>1. /\ pc = "idle" /\ pc' = "return" /\ out' = "cleared"
      /\ call' = [op |-> "clearBindings", stmt |-> h, params |-> <<>>]
      /\ stmts' = [stmts EXCEPT ![h].bound = new]
      /\ given' = [given EXCEPT ![h] = NoParams]
      /\ UNCHANGED <<live, mine, pendings, i, ok, run, lost>>
  BY DEF ClearBindings, Idle, Enter, loop, past
<1>2. h \in DOMAIN stmts
  BY DEF IInv, Shape, Objects
<1>3. new \in Seq(Bindables)
  BY <1>2, StmtType DEF Bindables, IInv, Shape
<1> HIDE DEF new
<1>4. Objects' /\ Kept'
  BY <1>1, <1>2, <1>3, RebindObjects
<1>5. Doing' /\ Progress' /\ Freed' /\ RunsBound'
  BY <1>1 DEF Doing, Progress, Freed, InHand, Working, RunsBound, IInv, Shape,
              Bound, Bindable
<1> QED
  BY <1>4, <1>5 DEF IInv, Shape

LEMMA DestroyPreparedCorrect ==
  ASSUME IInv, NEW h \in mine, DestroyPrepared(h)
  PROVE  IInv'
<1> USE DEF DestroyPrepared, Idle, Enter, loop, past
<1>1. Objects' /\ Kept'
  BY DEF IInv, Shape, Objects, Kept, Matches, Bound, Bindable
<1>2. Doing' /\ Progress' /\ Freed' /\ RunsBound'
  BY DEF Doing, Progress, Freed, InHand, Working, RunsBound, IInv, Shape, Bound, Bindable
<1> QED
  BY <1>1, <1>2 DEF IInv, Shape

------------------------------------------------------------------------------
\* Pending results

(* A pending result takes the statement's bindings with it, and what they  *)
(* are known to be.                                                        *)
LEMMA PendingPreparedCorrect == ASSUME IInv, PendingPrepared PROVE IInv'
<1> DEFINE h == call.stmt
<1>1. PICK good \in {FALSE, Complete} :
        /\ pendings' = Append(pendings, [bound |-> Bindings, asked |-> given[h],
                                         good |-> good, live |-> TRUE])
        /\ out' = IF good THEN "pending" ELSE "nopending"
  BY DEF PendingPrepared
<1> DEFINE new == [bound |-> Bindings, asked |-> given[h], good |-> good, live |-> TRUE]
<1>2. /\ pc = "preparePending"
      /\ pc' = IF call.op = "preparePending" THEN "release" ELSE "return"
      /\ UNCHANGED <<stmts, live, mine, given, call, i, ok, run, lost>>
  BY DEF PendingPrepared, loop, past
<1>3. /\ h \in DOMAIN stmts /\ h \in DOMAIN given
      /\ h \in mine <=> call.op \in OfCaller
      /\ call.op \in {"pendingPrepared", "preparePending"}
      /\ h \in live /\ call.params \in Vectors
  BY <1>2 DEF IInv, Shape, Objects, Doing, Working
<1>4. Bindings \in Seq(Bindables)
  BY <1>3, StmtType DEF Bindings, IInv, Shape
<1>5. given[h] \in Params \cup {NoParams} /\ pendings \in Seq(Pending)
  BY <1>3 DEF IInv, Shape, Objects
<1>6. good \in BOOLEAN
  BY DEF Complete
<1>7. new \in Pending
  BY <1>4, <1>5, <1>6 DEF Pending
<1>8. new.bound = Bindings /\ new.asked = given[h]
  OBVIOUS
<1> HIDE DEF new
<1>9. /\ pendings' \in Seq(Pending)
      /\ \A p \in DOMAIN pendings' :
           \/ p \in DOMAIN pendings /\ pendings'[p] = pendings[p]
           \/ pendings'[p] = new
  <2>1. pendings' = Append(pendings, new)
    BY <1>1 DEF new
  <2> QED
    BY <1>5, <1>7, <2>1, AppendProperties
<1>10. new.asked # NoParams => Matches(new.bound, new.asked)
  BY <1>3, <1>8 DEF IInv, Kept, Bindings
<1>11. Objects' /\ Kept'
  BY <1>2, <1>9, <1>10 DEF IInv, Shape, Objects, Kept, Matches, Bound, Bindable
<1>12. Doing' /\ Progress'
  BY <1>2, <1>3 DEF Doing, Progress, Working, OfCaller, IInv, Shape
<1>13. Freed' /\ RunsBound'
  BY <1>1, <1>2, <1>3 DEF Freed, InHand, Working, OfCaller, RunsBound, IInv, Shape,
                     Bound, Bindable
<1> QED
  BY <1>11, <1>12, <1>13 DEF IInv, Shape

(* Steps that change only whether pending results are good, or live.       *)
LEMMA SamePendings ==
  ASSUME IInv, NEW q \in DOMAIN pendings, NEW good \in BOOLEAN, NEW on \in BOOLEAN,
         pendings' = [pendings EXCEPT ![q] = [@ EXCEPT !.good = good, !.live = on]],
         UNCHANGED <<stmts, live, mine, given>>
  PROVE  Objects' /\ Kept'
<1> DEFINE new == [pendings[q] EXCEPT !.good = good, !.live = on]
<1>1. pendings \in Seq(Pending) /\ q \in 1 .. Len(pendings)
  BY DEF IInv, Shape, Objects
<1>2. pendings[q] \in Pending
  BY <1>1
<1>3. new \in Pending /\ new.bound = pendings[q].bound /\ new.asked = pendings[q].asked
  BY <1>2 DEF Pending
<1>4. pendings' = [pendings EXCEPT ![q] = new]
  OBVIOUS
<1> HIDE DEF new
<1>5. /\ pendings' \in Seq(Pending)
      /\ DOMAIN pendings' = DOMAIN pendings
      /\ \A p \in DOMAIN pendings : pendings'[p] = IF p = q THEN new ELSE pendings[p]
  BY <1>1, <1>3, <1>4, Replaced, Zenon
<1>6. \A p \in DOMAIN pendings' : /\ pendings'[p].asked = pendings[p].asked
                                  /\ pendings'[p].bound = pendings[p].bound
  BY <1>3, <1>5
<1> QED
  BY <1>5, <1>6 DEF IInv, Shape, Objects, Kept, Matches, Bound, Bindable

LEMMA PendingType ==
  ASSUME IInv, NEW q \in DOMAIN pendings
  PROVE  pendings[q] \in Pending
  BY DEF IInv, Shape, Objects

LEMMA PendingExecuteTaskCorrect ==
  ASSUME IInv, NEW q \in DOMAIN pendings, PendingExecuteTask(q)
  PROVE  IInv'
<1>1. PICK good \in {FALSE, pendings[q].good} :
        /\ pendings' = [pendings EXCEPT ![q].good = good]
        /\ out' = IF good THEN "ready" ELSE "error"
  BY DEF PendingExecuteTask
<1>2. pc = "idle" /\ pc' = "return"
  BY DEF PendingExecuteTask, Idle, Enter
<1>3. UNCHANGED <<stmts, live, mine, given, i, ok, run, lost>>
  BY DEF PendingExecuteTask, loop, past
<1>4. good \in BOOLEAN /\ pendings[q].live \in BOOLEAN
  BY PendingType DEF Pending
<1>5. pendings' = [pendings EXCEPT ![q] =
                     [@ EXCEPT !.good = good, !.live = pendings[q].live]]
  <2>1. [pendings[q] EXCEPT !.good = good]
          = [pendings[q] EXCEPT !.good = good, !.live = pendings[q].live]
    BY PendingType DEF Pending
  <2> QED
    BY <1>1, <2>1
<1>6. Objects' /\ Kept'
  BY <1>3, <1>4, <1>5, SamePendings
<1>7. Doing' /\ Progress'
  BY <1>2, <1>3 DEF Doing, Progress, Working, IInv, Shape
<1>8. Freed' /\ RunsBound'
  BY <1>1, <1>2, <1>3 DEF Freed, InHand, Working, RunsBound, IInv, Bound, Bindable
<1> QED
  BY <1>6, <1>7, <1>8 DEF IInv, Shape

LEMMA DestroyPendingCorrect ==
  ASSUME IInv, NEW q \in DOMAIN pendings, DestroyPending(q)
  PROVE  IInv'
<1>1. /\ pendings' = [pendings EXCEPT ![q].live = FALSE]
      /\ out' = "destroyed" /\ pc = "idle" /\ pc' = "return"
      /\ UNCHANGED <<stmts, live, mine, given, i, ok, run, lost>>
  BY DEF DestroyPending, Idle, Enter, loop, past
<1>2. pendings[q].good \in BOOLEAN
  BY PendingType DEF Pending
<1>3. pendings' = [pendings EXCEPT ![q] =
                     [@ EXCEPT !.good = pendings[q].good, !.live = FALSE]]
  <2>1. [pendings[q] EXCEPT !.live = FALSE]
          = [pendings[q] EXCEPT !.good = pendings[q].good, !.live = FALSE]
    BY PendingType DEF Pending
  <2> QED
    BY <1>1, <2>1
<1>4. Objects' /\ Kept'
  BY <1>1, <1>2, <1>3, SamePendings
<1>5. Doing' /\ Progress'
  BY <1>1 DEF Doing, Progress, Working, IInv, Shape
<1>6. Freed' /\ RunsBound'
  BY <1>1 DEF Freed, InHand, Working, RunsBound, IInv, Bound, Bindable
<1> QED
  BY <1>4, <1>5, <1>6 DEF IInv, Shape

------------------------------------------------------------------------------
\* The theorems

LEMMA StutterCorrect == ASSUME IInv, UNCHANGED vars PROVE IInv'
<1> USE DEF vars
<1>1. Objects' /\ Kept'
  BY SameObjects DEF held
<1>2. Doing' /\ Progress' /\ Freed' /\ RunsBound'
  BY DEF Doing, Progress, Upto, Bindings, Freed, InHand, RunsBound, IInv, Shape,
         Bound, Bindable
<1> QED
  BY <1>1, <1>2 DEF IInv, Shape

LEMMA Inductive == IInv /\ [Next]_vars => IInv'
<1> SUFFICES ASSUME IInv, [Next]_vars PROVE IInv'
  OBVIOUS
<1>1. CASE UNCHANGED vars
  BY <1>1, StutterCorrect
<1>2. CASE \E op \in {"prepareQuery", "queryParams", "preparePending",
                      "prepareExtractedStatement"},
              s \in Statements, p \in Params \cup {<<>>} : Prepare(op, s, p)
  BY <1>2, PrepareCorrect
<1>3. CASE \E h \in mine :
             \/ \E p \in Params : BindParams(h, p)
             \/ \E k \in 1 .. Len(stmts[h].bound) + 1, b \in Typed : BindOne(h, k, b)
             \/ ClearBindings(h) \/ ExecutePrepared(h) \/ PreparePending(h)
             \/ DestroyPrepared(h)
  BY <1>3, BindParamsCorrect, BindOneCorrect, ClearBindingsCorrect,
     ExecutePreparedCorrect, PreparePendingCorrect, DestroyPreparedCorrect
<1>4. CASE \E q \in DOMAIN pendings :
             /\ pendings[q].live
             /\ PendingExecuteTask(q) \/ ExecutePending(q) \/ DestroyPending(q)
  BY <1>4, PendingExecuteTaskCorrect, ExecutePendingCorrect, DestroyPendingCorrect
<1>5. CASE \E op \in Operations : NoStatement(op)
  BY <1>5, NoStatementCorrect
<1>6. CASE Step
  BY <1>6, ReturnCorrect, PrepareFailsCorrect, GiveStatementCorrect,
     PendingPreparedCorrect, BindNextCorrect, BindFailsCorrect, BindRaisesCorrect,
     BindEndsCorrect, BindReturnsCorrect, QueryBoundCorrect, ExecuteCorrect,
     ReleaseCorrect DEF Step
<1> QED
  BY <1>1, <1>2, <1>3, <1>4, <1>5, <1>6 DEF Next

(* The invariant holds in every reachable state.                           *)
THEOREM Invariance == Spec => []IInv
  BY InitCorrect, Inductive, PTL DEF Spec

(* What bindParams.aplf makes of a value is what the documentation         *)
(* promises, or the exception to it.                                       *)
LEMMA BoundAsPromised ==
  ASSUME NEW val, Bindable(val)
  PROVE  AsPromised(val, Bound(val))
<1>1. val.kind \in {"null", "bool", "int", "large", "float", "text"}
  BY DEF Bindable, TypeOf
<1>2. val.kind \in DOMAIN Promise
  BY <1>1 DEF Promise
<1>3. Bound(val) = IF val.kind = "large" THEN <<"DOUBLE", Nearest[val.v]>>
                                         ELSE Promised(val)
  BY <1>1 DEF Bound, Promised, TypeOf, Promise
<1> QED
  BY <1>2, <1>3 DEF AsPromised

(* Whatever callers do with their statements and pending results, and in   *)
(* whatever order, an execution that DuckDB accepts uses the values asked  *)
(* for, however many parameters there are, each as documented but for the  *)
(* large integers.                                                         *)
THEOREM RunsAsAskedCorrect == Spec => []RunsAsAsked
<1>1. IInv => RunsAsAsked
  BY BoundAsPromised DEF IInv, RunsBound, RunsAsAsked
<1> QED
  BY <1>1, Invariance, PTL

(* No operation forgets a statement, but those that fail to prepare and    *)
(* those of an APL error.                                                  *)
THEOREM StatementsFreedCorrect == Spec => []StatementsFreed
<1>1. IInv => StatementsFreed
  BY DEF IInv, Freed, InHand, Working, StatementsFreed
<1> QED
  BY <1>1, Invariance, PTL

(* The values of the variables; no caller holds a statement that somebody  *)
(* else has destroyed.                                                     *)
THEOREM TypeCorrect == Spec => []TypeOK
<1>1. IInv => TypeOK
  <2> SUFFICES ASSUME IInv PROVE TypeOK
    OBVIOUS
  <2>1. \A h \in DOMAIN stmts : \A k \in DOMAIN stmts[h].bound :
          stmts[h].bound[k] \in Bindables
    BY StmtType DEF IInv, Shape
  <2>2. DOMAIN given = DOMAIN stmts
    BY DEF IInv, Shape, Objects
  <2> QED
    BY <2>1, <2>2 DEF TypeOK, IInv, Shape, Objects, Doing, Working, Progress
<1> QED
  BY <1>1, Invariance, PTL
==============================================================================
