-------------------------- MODULE ArrowExport_proofs --------------------------
(***************************************************************************)
(* Proofs about the Arrow export, for any results, any number of exports   *)
(* and any of its calls failing: what is given back, and what a reader of  *)
(* the stream sees.                                                        *)
(***************************************************************************)
EXTENDS ArrowExport, SequenceTheorems, Induction, TLAPS

------------------------------------------------------------------------------
\* The inductive invariant

Msgs == {<<"schema">>, <<"eos">>, <<"torn">>} \cup {<<"batch", n>> : n \in Nat}

Answer == [mode : {"file", "buffer"}, chunks : Results, st : {"ok", "error"},
           rows : Nat, msgs : Seq(Msgs), unclosed : BOOLEAN,
           left : SUBSET Things]

(* Where an export has not failed, and where it may have.                  *)
Unfailed == {"fopen", "query", "failed", "columns", "metadata", "schema", "stream",
             "writer", "head", "view", "fetch", "convert", "write"}

Ending == {"finish", "writer_reset", "cleanup", "return"}

Values ==
  /\ mode \in {"file", "buffer"} /\ st \in {"ok", "error"}
  /\ chunks \in Results \cup {<<>>} /\ k \in 0 .. Len(chunks)
  /\ rows \in Nat /\ rows_written \in Nat
  /\ disk \in Seq(Msgs) /\ bytes \in Seq(Msgs)
  /\ allocator \in BOOLEAN /\ file_ptr \in BOOLEAN /\ unclosed \in BOOLEAN
  /\ replies \in Seq(Answer)

Control ==
  /\ pc \in {"idle", "crashed", "reply"} \cup Unfailed \cup Ending
  /\ pc # "idle" => chunks \in Results
  /\ pc \in Unfailed => st = "ok"
  /\ pc = "fopen" => mode = "file"
  /\ pc = "reply" => mode = "buffer"
  /\ pc \in Unfailed \ {"fetch", "convert", "write"} => k = 0

(* The stream owns the file from its creation on; while nothing has failed *)
(* it knows that it does.                                                  *)
Owner ==
  pc \in {"writer", "head", "view", "fetch", "convert", "write"}
      \/ (pc \in {"finish", "writer_reset"} /\ st = "ok")
    => file_ptr = (mode = "file")

Shape == Values /\ Control /\ Owner

File == IF mode = "file" THEN {"file"} ELSE {}

Contents == {"schema", "types", "names", "opts", "result"}

(* After a failure there may still be: what the sink has come to, at most  *)
(* one thing, and the message.                                             *)
SinkThings == IF mode = "file" THEN {"file"} ELSE {"buffer", "block"}

FailedWith(things, sunk) ==
  /\ things \subseteq held /\ held \subseteq things \cup sunk \cup {"error"}
  /\ \A x, y \in held \cap sunk : x = y

HeldUnfailed ==
  /\ pc \in {"idle", "fopen"} => held = {}
  /\ pc = "query" => held = File
  /\ pc \in {"failed", "columns"} => held = File \cup {"result"}
  /\ pc = "metadata" => held = File \cup {"result", "opts"}
  /\ pc = "schema" => held = File \cup {"result", "opts", "types", "names"}
  /\ pc = "stream" => held = File \cup Contents
  /\ pc = "writer" => held = File \cup Contents \cup {"stream"}
  /\ pc = "head" => held = File \cup Contents \cup {"writer"}
  /\ pc = "view" => held = File \cup Grown \cup Contents \cup {"writer"}
  /\ pc = "fetch" => held = File \cup Grown \cup Contents \cup {"writer", "view"}
  /\ pc = "convert" =>
       held = File \cup Grown \cup Contents \cup {"writer", "view", "chunk"}
  /\ pc = "write" =>
       held = File \cup Grown \cup Contents \cup {"writer", "view", "chunk", "array"}
  /\ pc = "crashed" => held \subseteq Things

HeldEnding ==
  IF st = "ok"
    THEN /\ pc = "finish" =>
              held = File \cup Grown \cup Contents \cup {"writer", "view"}
         /\ pc = "writer_reset" => held = File \cup Grown \cup Contents \cup {"writer"}
         /\ pc = "cleanup" => held = Grown \cup Contents
         /\ pc = "return" => held = Grown
         /\ pc = "reply" => held = {"copy"}
    ELSE /\ pc = "finish" => FailedWith(Contents \cup {"writer", "view"}, SinkThings)
         /\ pc = "writer_reset" => FailedWith(Contents \cup {"writer"}, SinkThings)
         /\ pc = "cleanup" => FailedWith(Contents, SinkThings \cup {"private"})
         /\ pc = "return" => FailedWith({}, SinkThings \cup {"private"})
         /\ pc = "reply" => FailedWith({}, {"block", "private"})

(* What was given back without being held.                                 *)
BadRight ==
  /\ NothingGivenBackTwice
  /\ pc \in {"finish", "writer_reset"} => bad = {}

(* The messages so far: the schema and n batches.                          *)
Prefix(n) ==
  [m \in 1 .. n + 1 |-> IF m = 1 THEN <<"schema">> ELSE <<"batch", m - 1>>]

Sink == IF mode = "file" THEN disk ELSE bytes

NoEos(s) == \A n \in DOMAIN s : s[n] # <<"eos">>

Delivered(lost, m, r, msgs) ==
  \/ msgs = Stream(r)
  \/ lost /\ m = "file" /\ msgs \in Cut(Stream(r))

StreamSoFar ==
  /\ pc \in Unfailed \ {"fopen", "view", "fetch", "convert", "write"} => Sink = <<>>
  /\ pc \in {"view", "fetch"} => Sink = Prefix(k)
  /\ pc \in {"convert", "write"} => k > 0 /\ Sink = Prefix(k - 1)
  /\ pc = "finish" /\ st = "ok" => k = Len(chunks) /\ Sink = Prefix(k)
  /\ pc = "writer_reset" /\ st = "ok" => Sink = Stream(chunks)
  /\ pc \in {"cleanup", "return", "reply"} /\ st = "ok" => Delivered(unclosed, mode, chunks, Sink)
  /\ pc \in {"finish", "writer_reset"} /\ st = "error" => NoEos(Sink)

IInv == /\ Shape /\ HeldUnfailed /\ HeldEnding /\ BadRight /\ StreamSoFar
        /\ EosMeansWhole /\ SuccessIsWhole /\ LittleIsLeft

------------------------------------------------------------------------------
\* The messages of a stream

LEMMA Different ==
  /\ <<"schema">> # <<"eos">> /\ <<"torn">> # <<"eos">>
  /\ \A n \in Nat : <<"batch", n>> # <<"eos">>
  OBVIOUS

LEMMA PrefixType ==
  ASSUME NEW n \in Nat
  PROVE  /\ Prefix(n) \in Seq(Msgs) /\ Len(Prefix(n)) = n + 1
         /\ NoEos(Prefix(n))
<1>1. \A m \in 1 .. n + 1 : Prefix(n)[m] \in Msgs
  BY DEF Prefix, Msgs
<1>2. Prefix(n) \in [1 .. n + 1 -> Msgs]
  BY <1>1 DEF Prefix
<1>3. \A m \in 1 .. n + 1 : Prefix(n)[m] # <<"eos">>
  BY Different DEF Prefix
<1> QED
  BY <1>2, <1>3 DEF NoEos

LEMMA PrefixEmpty == Append(<<>>, <<"schema">>) = Prefix(0)
  BY DEF Prefix

LEMMA PrefixGrows ==
  ASSUME NEW n \in Nat
  PROVE  Append(Prefix(n), <<"batch", n + 1>>) = Prefix(n + 1)
<1>1. Prefix(n) \in Seq(Msgs) /\ Len(Prefix(n)) = n + 1
  BY PrefixType
<1>2. Prefix(n + 1) \in Seq(Msgs) /\ Len(Prefix(n + 1)) = n + 2
  BY PrefixType
<1> DEFINE s == Append(Prefix(n), <<"batch", n + 1>>)
<1>3. s \in Seq(Msgs) /\ Len(s) = n + 2
  BY <1>1 DEF Msgs
<1>4. \A m \in 1 .. n + 1 : Prefix(n + 1)[m] = Prefix(n)[m]
  BY DEF Prefix
<1>5. Prefix(n + 1)[n + 2] = <<"batch", n + 1>>
  BY DEF Prefix
<1>6. \A m \in 1 .. n + 2 : s[m] = IF m = n + 2 THEN <<"batch", n + 1>> ELSE Prefix(n)[m]
  BY <1>1
<1> HIDE DEF s
<1>7. \A m \in 1 .. n + 2 : s[m] = Prefix(n + 1)[m]
  BY <1>4, <1>5, <1>6
<1>8. s = Prefix(n + 1)
  BY <1>2, <1>3, <1>7, SeqEqual
<1> QED
  BY <1>8 DEF s

(* The stream of a result is the schema, its batches and the end marker.   *)
LEMMA StreamIs ==
  ASSUME NEW r \in Results
  PROVE  /\ Stream(r) = Append(Prefix(Len(r)), <<"eos">>)
         /\ Stream(r) \in Seq(Msgs)
<1>1. r \in Seq(Nat) /\ Len(r) \in Nat /\ DOMAIN r = 1 .. Len(r)
  BY ResultsAssumption
<1> DEFINE b == [n \in DOMAIN r |-> <<"batch", n>>]
           s == Append(Prefix(Len(r)), <<"eos">>)
<1>2. b \in [1 .. Len(r) -> Msgs]
  BY <1>1 DEF Msgs
<1>3. b \in Seq(Msgs) /\ Len(b) = Len(r)
  BY <1>1, <1>2
<1>4. <<"schema">> \in Msgs /\ <<"eos">> \in Msgs
  BY DEF Msgs
<1>5. Prefix(Len(r)) \in Seq(Msgs) /\ Len(Prefix(Len(r))) = Len(r) + 1
  BY <1>1, PrefixType
<1>6. s \in Seq(Msgs) /\ Len(s) = Len(r) + 2
  BY <1>1, <1>4, <1>5
<1> DEFINE c == << <<"schema">> >> \o b
<1>7. Stream(r) = c \o << <<"eos">> >>
  BY DEF Stream
<1>8. \A m \in 1 .. Len(r) : b[m] = <<"batch", m>>
  BY <1>1
<1> HIDE DEF b
<1>9. /\ c \in Seq(Msgs) /\ Len(c) = Len(r) + 1
      /\ c[1] = <<"schema">> /\ \A m \in 1 .. Len(r) : c[m + 1] = b[m]
  BY <1>1, <1>3, <1>4
<1> HIDE DEF c, Msgs
<1>10. \A m \in 1 .. Len(r) + 1 : c[m] = Prefix(Len(r))[m]
  <2> SUFFICES ASSUME NEW m \in 1 .. Len(r) + 1 PROVE c[m] = Prefix(Len(r))[m]
    OBVIOUS
  <2>1. CASE m = 1
    BY <1>1, <1>9, <2>1 DEF Prefix
  <2>2. CASE m # 1
    <3>1. m - 1 \in 1 .. Len(r) /\ m - 1 + 1 = m
      BY <1>1, <2>2
    <3>2. c[m] = <<"batch", m - 1>>
      BY <1>8, <1>9, <3>1
    <3> QED
      BY <1>1, <2>2, <3>2 DEF Prefix
  <2> QED
    BY <2>1, <2>2
<1>11. c = Prefix(Len(r))
  BY <1>1, <1>5, <1>9, <1>10, SeqEqual
<1>12. c \o << <<"eos">> >> = Append(c, <<"eos">>)
  BY <1>4, <1>9, AppendIsConcat
<1> QED
  BY <1>6, <1>7, <1>11, <1>12

(* What is cut short has lost its last message at least.                   *)
LEMMA CutType ==
  ASSUME NEW s \in Seq(Msgs), NEW t \in Cut(s)
  PROVE  /\ t \in Seq(Msgs)
         /\ \A n \in DOMAIN t :
              t[n] = <<"torn">> \/ (n \in 1 .. Len(s) - 1 /\ t[n] = s[n])
<1>1. PICK n \in 0 .. Len(s) - 1 :
        t = SubSeq(s, 1, n) \/ t = Append(SubSeq(s, 1, n), <<"torn">>)
  BY DEF Cut
<1>2. /\ SubSeq(s, 1, n) \in Seq(Msgs) /\ Len(SubSeq(s, 1, n)) = n
      /\ \A m \in 1 .. n : SubSeq(s, 1, n)[m] = s[m]
  BY <1>1
<1>3. <<"torn">> \in Msgs
  BY DEF Msgs
<1> HIDE DEF Msgs
<1>4. CASE t = SubSeq(s, 1, n)
  BY <1>1, <1>2, <1>4
<1>5. CASE t = Append(SubSeq(s, 1, n), <<"torn">>)
  BY <1>1, <1>2, <1>3, <1>5
<1> QED
  BY <1>1, <1>4, <1>5

LEMMA CutNoEos ==
  ASSUME NEW s \in Seq(Msgs), NoEos(s), NEW t \in Cut(s)
  PROVE  t \in Seq(Msgs) /\ NoEos(t)
  BY CutType, Different DEF NoEos

LEMMA CutStream ==
  ASSUME NEW r \in Results, NEW t \in Cut(Stream(r))
  PROVE  t \in Seq(Msgs) /\ NoEos(t)
<1> DEFINE p == Prefix(Len(r))
<1>1. Len(r) \in Nat
  BY ResultsAssumption
<1>2. p \in Seq(Msgs) /\ Len(p) \in Nat /\ NoEos(p)
  BY <1>1, PrefixType
<1>3. /\ Stream(r) \in Seq(Msgs)
      /\ Stream(r) = Append(p, <<"eos">>)
  BY StreamIs
<1> HIDE DEF p
<1>4. /\ Len(Stream(r)) = Len(p) + 1
      /\ \A n \in 1 .. Len(p) : Stream(r)[n] = p[n] /\ n \in DOMAIN p
  BY <1>2, <1>3
<1>5. ASSUME NEW n \in 1 .. Len(Stream(r)) - 1 PROVE Stream(r)[n] # <<"eos">>
  <2>1. n \in 1 .. Len(p)
    BY <1>2, <1>4
  <2>2. Stream(r)[n] = p[n] /\ n \in DOMAIN p
    BY <1>4, <2>1
  <2> QED
    BY <1>2, <2>2, Zenon DEF NoEos
<1> QED
  BY <1>3, <1>5, CutType, Different DEF NoEos

LEMMA TornNoEos ==
  ASSUME NEW s \in Seq(Msgs), NoEos(s)
  PROVE  /\ Append(s, <<"torn">>) \in Seq(Msgs)
         /\ NoEos(Append(s, <<"torn">>))
<1>1. <<"torn">> \in Msgs
  BY DEF Msgs
<1> HIDE DEF Msgs
<1> QED
  BY <1>1, Different DEF NoEos

LEMMA NothingNoEos == <<>> \in Seq(Msgs) /\ NoEos(<<>>)
  BY DEF NoEos

------------------------------------------------------------------------------
\* What a step has to show

LEMMA InitCorrect == Init => IInv
<1> SUFFICES ASSUME Init PROVE IInv
  OBVIOUS
<1> USE DEF Init
<1>1. Values
  <2>1. <<>> \in Seq(Msgs) /\ <<>> \in Seq(Answer) /\ Len(<<>>) = 0
    BY EmptySeq, Zenon
  <2>2. k \in 0 .. Len(chunks)
    BY <2>1
  <2>3. disk \in Seq(Msgs) /\ bytes \in Seq(Msgs) /\ replies \in Seq(Answer)
    BY <2>1, Zenon
  <2> QED
    BY <2>2, <2>3 DEF Values
<1>2. Control /\ Owner
  BY DEF Control, Owner, Unfailed, Ending
<1>3. HeldUnfailed /\ HeldEnding /\ BadRight /\ StreamSoFar
  BY DEF HeldUnfailed, HeldEnding, BadRight, NothingGivenBackTwice, StreamSoFar, Unfailed
<1>4. EosMeansWhole /\ SuccessIsWhole /\ LittleIsLeft
  BY DEF EosMeansWhole, SuccessIsWhole, LittleIsLeft
<1> QED
  BY <1>1, <1>2, <1>3, <1>4 DEF IInv, Shape

(* Steps that write nothing and answer nobody.                             *)
LEMMA Quiet ==
  ASSUME IInv, UNCHANGED <<disk, bytes, unclosed, replies>>
  PROVE  EosMeansWhole' /\ SuccessIsWhole' /\ LittleIsLeft'
  BY DEF IInv, EosMeansWhole, SuccessIsWhole, LittleIsLeft, Fault, Cut, Stream

(* A failure sets the state, and the message when there is room for it.    *)
LEMMA Failing ==
  ASSUME NEW things, NEW more, NEW next, Fail(things, more, next)
  PROVE  /\ held' = (held \ things) \cup more
              \/ held' = (held \ things) \cup more \cup {"error"}
         /\ bad' = bad \cup (things \ held)
         /\ st' = "error" /\ pc' = next
<1>1. PICK e \in Messages : Release(things, more \cup e)
  BY DEF Fail
<1>2. e = {} \/ e = {"error"}
  BY DEF Messages
<1> QED
  BY <1>1, <1>2 DEF Fail, Release

(* The steps before the first message.                                     *)
Early == {"query", "failed", "columns", "metadata", "schema", "stream"}

Still == UNCHANGED <<mode, chunks, k, rows, rows_written, allocator, disk, bytes, unclosed, replies>>

LEMMA GoodBad == ASSUME IInv, pc \in Unfailed PROVE bad = {}
  BY DEF IInv, Shape, Control, BadRight, NothingGivenBackTwice

LEMMA EarlyOn ==
  ASSUME IInv, pc \in Early, Still, UNCHANGED <<file_ptr, st, bad>>, pc' \in Early, HeldUnfailed'
  PROVE  IInv'
<1> USE DEF Early, Still
<1>1. Values' /\ Control' /\ Owner'
  BY DEF IInv, Shape, Values, Control, Owner, Unfailed, Ending
<1>2. HeldEnding' /\ BadRight'
  BY DEF IInv, HeldEnding, BadRight, NothingGivenBackTwice
<1>3. StreamSoFar'
  BY DEF IInv, StreamSoFar, Unfailed, Sink
<1> QED
  BY <1>1, <1>2, <1>3, Quiet DEF IInv, Shape

(* The error paths that lead to the cleanup, or straight to the return.    *)
LEMMA FailsAnyhow ==
  ASSUME IInv, UNCHANGED <<mode, chunks, k, rows, rows_written, disk, bytes, unclosed, replies>>,
         allocator' \in BOOLEAN, file_ptr' \in BOOLEAN, st' = "error", pc # "idle",
         \/ pc' = "return" /\ FailedWith({}, SinkThings \cup {"private"})'
         \/ pc' = "cleanup" /\ FailedWith(Contents, SinkThings \cup {"private"})',
         NothingGivenBackTwice'
  PROVE  IInv'
<1>1. Values' /\ Control' /\ Owner'
  BY DEF IInv, Shape, Values, Control, Owner, Unfailed, Ending
<1>2. HeldUnfailed' /\ HeldEnding' /\ BadRight'
  BY DEF HeldUnfailed, HeldEnding, BadRight
<1>3. StreamSoFar'
  BY DEF StreamSoFar, Unfailed
<1> QED
  BY <1>1, <1>2, <1>3, Quiet DEF IInv, Shape

LEMMA Fails ==
  ASSUME IInv, Still, UNCHANGED file_ptr, st' = "error", pc # "idle",
         \/ pc' = "return" /\ FailedWith({}, SinkThings \cup {"private"})'
         \/ pc' = "cleanup" /\ FailedWith(Contents, SinkThings \cup {"private"})',
         NothingGivenBackTwice'
  PROVE  IInv'
<1>1. allocator' \in BOOLEAN /\ file_ptr' \in BOOLEAN
  BY DEF Still, IInv, Shape, Values
<1> QED
  BY <1>1, FailsAnyhow DEF Still

------------------------------------------------------------------------------
\* Entry and context

LEMMA CallCorrect ==
  ASSUME IInv, NEW m \in {"file", "buffer"}, NEW r \in Results, Call(m, r)
  PROVE  IInv'
<1> USE DEF Call
<1>1. Values' /\ Control' /\ Owner'
  <2>1. Len(r) \in Nat
    BY ResultsAssumption
  <2>2. Values'
    <3>1. bytes' \in Seq(Msgs)
      BY NothingNoEos, Zenon
    <3>2. disk' \in Seq(Msgs) /\ replies' \in Seq(Answer)
      BY DEF IInv, Shape, Values
    <3>3. k' \in 0 .. Len(chunks')
      BY <2>1
    <3> HIDE DEF Call
    <3>4. /\ mode' \in {"file", "buffer"} /\ st' \in {"ok", "error"}
          /\ chunks' \in Results \cup {<<>>}
          /\ rows' = 0 /\ rows_written' = 0
          /\ allocator' = FALSE /\ file_ptr' = FALSE /\ unclosed' = FALSE
      BY DEF Call
    <3> QED
      BY <3>1, <3>2, <3>3, <3>4 DEF Values
  <2>3. Control' /\ Owner'
    BY DEF IInv, Shape, Control, Owner, Unfailed, Ending
  <2> QED
    BY <2>2, <2>3
<1>2. HeldUnfailed' /\ HeldEnding' /\ BadRight' /\ StreamSoFar'
  BY DEF HeldUnfailed, HeldEnding, BadRight, NothingGivenBackTwice, StreamSoFar,
         Unfailed, Sink, File
<1>3. EosMeansWhole'
  BY DEF IInv, EosMeansWhole
<1>4. SuccessIsWhole' /\ LittleIsLeft'
  BY DEF IInv, SuccessIsWhole, LittleIsLeft, Fault, Cut, Stream
<1> QED
  BY <1>1, <1>2, <1>3, <1>4 DEF IInv, Shape

LEMMA OpenFileCorrect == ASSUME IInv, OpenFile PROVE IInv'
<1>1. /\ pc = "fopen" /\ held = {} /\ bad = {} /\ st = "ok" /\ mode = "file"
      /\ UNCHANGED <<mode, chunks, k, rows, rows_written, allocator, file_ptr, bytes,
                     unclosed, replies>>
  BY GoodBad DEF OpenFile, IInv, Shape, Control, Unfailed, HeldUnfailed, request, cursor, own
<1>2. CASE disk' = <<>> /\ Acquire({"file"}) /\ pc' = "query" /\ UNCHANGED st
  <2> USE <1>1, <1>2 DEF Acquire
  <2>1. Values' /\ Control' /\ Owner'
    BY NothingNoEos DEF IInv, Shape, Values, Control, Owner, Unfailed, Ending
  <2>2. HeldUnfailed' /\ HeldEnding' /\ BadRight' /\ StreamSoFar'
    BY DEF HeldUnfailed, HeldEnding, BadRight, NothingGivenBackTwice, StreamSoFar,
           Unfailed, Sink, File
  <2>3. EosMeansWhole'
    BY DEF IInv, EosMeansWhole
  <2>4. SuccessIsWhole' /\ LittleIsLeft'
    BY DEF IInv, SuccessIsWhole, LittleIsLeft, Fault, Cut, Stream
  <2> QED
    BY <2>1, <2>2, <2>3, <2>4 DEF IInv, Shape
<1>3. CASE Fail({}, {}, "return") /\ UNCHANGED disk
  <2>1. /\ held' \subseteq {"error"} /\ bad' = {} /\ st' = "error" /\ pc' = "return"
    BY <1>1, <1>3, Failing
  <2>2. FailedWith({}, SinkThings \cup {"private"})'
    BY <1>1, <2>1 DEF FailedWith, SinkThings
  <2> QED
    BY <1>1, <1>3, <2>1, <2>2, Fails DEF Still, NothingGivenBackTwice
<1> QED
  BY <1>2, <1>3 DEF OpenFile

LEMMA RunQueryCorrect == ASSUME IInv, RunQuery PROVE IInv'
<1>1. /\ pc \in Early /\ pc' \in {"columns", "failed"} /\ held = File
      /\ held' = File \cup {"result"}
      /\ Still /\ UNCHANGED <<file_ptr, st, bad>>
  BY DEF RunQuery, Acquire, IInv, HeldUnfailed, Early, Still, request, cursor, own, sinks
<1>2. HeldUnfailed'
  BY <1>1 DEF HeldUnfailed, File, Still
<1> QED
  BY <1>1, <1>2, EarlyOn DEF Early

LEMMA QueryFailsCorrect == ASSUME IInv, QueryFails PROVE IInv'
<1>1. /\ pc = "failed" /\ held = File \cup {"result"} /\ bad = {}
      /\ Still /\ UNCHANGED file_ptr
      /\ Fail({"result"}, {}, "return")
  BY GoodBad DEF QueryFails, FailedQueryReleases, IInv, HeldUnfailed, Still, request, cursor,
                 own, sinks, Unfailed
<1>2. /\ held' \subseteq File \cup {"error"} /\ bad' = {} /\ st' = "error" /\ pc' = "return"
  BY <1>1, Failing
<1>3. FailedWith({}, SinkThings \cup {"private"})' /\ NothingGivenBackTwice'
  BY <1>1, <1>2 DEF FailedWith, SinkThings, File, Still, NothingGivenBackTwice
<1> QED
  BY <1>1, <1>2, <1>3, Fails

LEMMA ColumnsCorrect == ASSUME IInv, Columns PROVE IInv'
<1>1. /\ pc = "columns" /\ held = File \cup {"result"} /\ bad = {}
      /\ Still /\ UNCHANGED file_ptr
  BY GoodBad DEF Columns, IInv, HeldUnfailed, Still, request, cursor, own, sinks, Unfailed
<1>2. CASE pc' = "metadata" /\ Acquire({"opts"}) /\ UNCHANGED st
  <2>1. HeldUnfailed'
    BY <1>1, <1>2 DEF Acquire, HeldUnfailed, File, Still
  <2> QED
    BY <1>1, <1>2, <2>1, EarlyOn DEF Early, Acquire
<1>3. CASE Fail(Context, {}, "return")
  <2>1. Context = {"result"}
    BY <1>1 DEF Context, File
  <2>2. /\ held' \subseteq File \cup {"error"} /\ bad' = {} /\ st' = "error" /\ pc' = "return"
    BY <1>1, <1>3, <2>1, Failing
  <2>3. FailedWith({}, SinkThings \cup {"private"})' /\ NothingGivenBackTwice'
    BY <1>1, <2>2 DEF FailedWith, SinkThings, File, Still, NothingGivenBackTwice
  <2> QED
    BY <1>1, <2>2, <2>3, Fails
<1> QED
  BY <1>2, <1>3 DEF Columns

LEMMA MetadataCorrect == ASSUME IInv, Metadata PROVE IInv'
<1>1. /\ pc \in Early /\ pc' = "schema"
      /\ held' = File \cup {"result", "opts", "types", "names"}
      /\ Still /\ UNCHANGED <<file_ptr, st, bad>>
  BY DEF Metadata, Acquire, IInv, HeldUnfailed, Early, Still, request, cursor, own, sinks
<1>2. HeldUnfailed'
  BY <1>1 DEF HeldUnfailed, File, Still
<1> QED
  BY <1>1, <1>2, EarlyOn DEF Early

LEMMA OutOfMemoryCorrect == ASSUME IInv, OutOfMemory PROVE IInv'
<1>1. /\ pc = "metadata" /\ held = File \cup {"result", "opts"} /\ bad = {}
      /\ Still /\ UNCHANGED file_ptr
      /\ st' = "error" /\ pc' = "return"
  BY GoodBad DEF OutOfMemory, IInv, HeldUnfailed, Still, request, cursor, own, sinks, Unfailed
<1>2. held' \subseteq File \cup {"error"} /\ bad' \in {{}, {"types"}}
  <2>1. PICK e \in Messages : held' = (held \ {"opts", "result"}) \cup e
    BY DEF OutOfMemory
  <2>2. e \subseteq {"error"}
    BY DEF Messages
  <2>3. bad' = {} \/ bad' = {"types"}
    BY <1>1 DEF OutOfMemory
  <2> QED
    BY <1>1, <2>1, <2>2, <2>3
<1>3. FailedWith({}, SinkThings \cup {"private"})' /\ NothingGivenBackTwice'
  BY <1>1, <1>2 DEF FailedWith, SinkThings, File, Still, NothingGivenBackTwice
<1> QED
  BY <1>1, <1>2, <1>3, Fails

LEMMA ToSchemaCorrect == ASSUME IInv, ToSchema PROVE IInv'
<1>1. /\ pc = "schema" /\ held = File \cup {"result", "opts", "types", "names"} /\ bad = {}
      /\ Still /\ UNCHANGED file_ptr
  BY GoodBad DEF ToSchema, IInv, HeldUnfailed, Still, request, cursor, own, sinks, Unfailed
<1>2. CASE Acquire({"schema"}) /\ pc' = "stream" /\ UNCHANGED st
  <2>1. held' = File \cup Contents
    BY <1>1, <1>2 DEF Acquire, Contents
  <2>2. HeldUnfailed'
    BY <1>1, <1>2, <2>1 DEF HeldUnfailed, File, Still
  <2> QED
    BY <1>1, <1>2, <2>2, EarlyOn DEF Early, Acquire
<1>3. CASE Fail(Context, {}, "return")
  <2>1. Context = {"result", "opts", "types", "names"}
    BY <1>1 DEF Context, File
  <2>2. /\ held' \subseteq File \cup {"error"} /\ bad' = {} /\ st' = "error" /\ pc' = "return"
    BY <1>1, <1>3, <2>1, Failing
  <2>3. FailedWith({}, SinkThings \cup {"private"})' /\ NothingGivenBackTwice'
    BY <1>1, <2>2 DEF FailedWith, SinkThings, File, Still, NothingGivenBackTwice
  <2> QED
    BY <1>1, <2>2, <2>3, Fails
<1> QED
  BY <1>2, <1>3 DEF ToSchema

------------------------------------------------------------------------------
\* The sink and the chunks

LEMMA SameReplies ==
  ASSUME IInv, UNCHANGED replies
  PROVE  SuccessIsWhole' /\ LittleIsLeft'
  BY DEF IInv, SuccessIsWhole, LittleIsLeft, Fault, Cut, Stream

(* What a step may make of the two sinks.                                  *)
LEMMA EosStep ==
  ASSUME IInv, NEW d, NEW b, disk' = d, bytes' = b,
         d = disk \/ NoEos(d) \/ \E r \in Results : d = Stream(r),
         b = bytes \/ NoEos(b) \/ \E r \in Results : b = Stream(r)
  PROVE  EosMeansWhole'
  BY DEF IInv, EosMeansWhole, NoEos, Stream

LEMMA InitStreamCorrect == ASSUME IInv, InitStream PROVE IInv'
<1>1. /\ pc = "stream" /\ held = File \cup Contents /\ bad = {} /\ st = "ok" /\ k = 0
      /\ Sink = <<>> /\ allocator' \in BOOLEAN
      /\ UNCHANGED <<mode, chunks, k, rows, rows_written, disk, bytes, unclosed, replies>>
  BY GoodBad DEF InitStream, IInv, Shape, Control, HeldUnfailed, StreamSoFar, request,
                 cursor, sinks, Unfailed
<1>2. CASE /\ Acquire({"stream"}) /\ file_ptr' = (mode = "file")
           /\ pc' = "writer" /\ UNCHANGED st
  <2> USE <1>1, <1>2 DEF Acquire
  <2>1. Values' /\ Control' /\ Owner'
    BY DEF IInv, Shape, Values, Control, Owner, Unfailed, Ending
  <2>2. HeldUnfailed' /\ HeldEnding'
    BY DEF HeldUnfailed, HeldEnding, File
  <2>3. BadRight' /\ StreamSoFar'
    BY DEF BadRight, NothingGivenBackTwice, StreamSoFar, Unfailed, Sink
  <2> QED
    BY <2>1, <2>2, <2>3, Quiet DEF IInv, Shape
<1>3. CASE Fail({}, {}, "cleanup") /\ UNCHANGED file_ptr
  <2>1. /\ held' \subseteq File \cup Contents \cup {"error"} /\ Contents \subseteq held'
        /\ bad' = {} /\ st' = "error" /\ pc' = "cleanup"
    BY <1>1, <1>3, Failing
  <2>2. FailedWith(Contents, SinkThings \cup {"private"})'
    BY <1>1, <2>1 DEF FailedWith, SinkThings, File, Contents
  <2>3. NothingGivenBackTwice' /\ file_ptr' \in BOOLEAN
    BY <1>3, <2>1 DEF NothingGivenBackTwice, IInv, Shape, Values
  <2> QED
    BY <1>1, <2>1, <2>2, <2>3, FailsAnyhow
<1> QED
  BY <1>2, <1>3 DEF InitStream

LEMMA CloseFileSinks ==
  ASSUME IInv, CloseFile
  PROVE  /\ bytes' = bytes /\ disk' \in Seq(Msgs)
         /\ \/ disk' = disk /\ unclosed' = unclosed
            \/ disk' \in Cut(disk) /\ unclosed' = TRUE
         /\ file_ptr = FALSE => disk' = disk
<1>1. disk \in Seq(Msgs)
  BY DEF IInv, Shape, Values
<1>2. /\ bytes' = bytes
      /\ \/ disk' = disk /\ unclosed' = unclosed
         \/ disk' \in Cut(disk) /\ unclosed' = TRUE
  BY DEF CloseFile
<1>3. disk' \in Seq(Msgs)
  BY <1>1, <1>2, CutType
<1>4. file_ptr = FALSE => disk' = disk
  BY DEF CloseFile, Closes
<1> QED
  BY <1>2, <1>3, <1>4

LEMMA InitWriterCorrect == ASSUME IInv, InitWriter PROVE IInv'
<1>1. /\ pc = "writer" /\ held = File \cup Contents \cup {"stream"} /\ bad = {}
      /\ st = "ok" /\ k = 0 /\ Sink = <<>> /\ file_ptr = (mode = "file")
      /\ UNCHANGED <<mode, chunks, k, rows, rows_written, allocator, file_ptr, replies>>
  BY GoodBad DEF InitWriter, IInv, Shape, Control, Owner, HeldUnfailed, StreamSoFar,
                 request, cursor, own, Unfailed
<1>2. CASE /\ held' = (held \ {"stream"}) \cup {"writer"} /\ pc' = "head"
           /\ UNCHANGED <<bad, st, sinks>>
  <2> USE <1>1, <1>2 DEF sinks
  <2>1. Values' /\ Control' /\ Owner'
    BY DEF IInv, Shape, Values, Control, Owner, Unfailed, Ending
  <2>2. held' = File \cup Contents \cup {"writer"}
    BY DEF File, Contents
  <2>3. HeldUnfailed' /\ HeldEnding'
    BY <2>2 DEF HeldUnfailed, HeldEnding, File
  <2>4. BadRight' /\ StreamSoFar'
    BY DEF BadRight, NothingGivenBackTwice, StreamSoFar, Unfailed, Sink
  <2> QED
    BY <2>1, <2>3, <2>4, Quiet DEF IInv, Shape
<1>3. CASE /\ \E more \in SUBSET {"private"} :
                Fail({"stream"} \cup Closes, more, "cleanup")
           /\ CloseFile
  <2>1. PICK more \in SUBSET {"private"} : Fail({"stream"} \cup Closes, more, "cleanup")
    BY <1>3
  <2>2. Closes = File
    BY <1>1 DEF Closes, File
  <2>3. /\ held' \subseteq Contents \cup {"error", "private"} /\ Contents \subseteq held'
        /\ bad' = {} /\ st' = "error" /\ pc' = "cleanup"
    <3>1. /\ \/ held' = (held \ ({"stream"} \cup Closes)) \cup more
             \/ held' = (held \ ({"stream"} \cup Closes)) \cup more \cup {"error"}
          /\ bad' = bad \cup (({"stream"} \cup Closes) \ held)
          /\ st' = "error" /\ pc' = "cleanup"
      BY <2>1, Failing
    <3>2. held \ ({"stream"} \cup Closes) = Contents
      BY <1>1, <2>2 DEF File, Contents
    <3>3. ({"stream"} \cup Closes) \ held = {}
      BY <1>1, <2>2 DEF File
    <3> QED
      BY <1>1, <3>1, <3>2, <3>3
  <2>4. FailedWith(Contents, SinkThings \cup {"private"})'
    BY <2>3 DEF FailedWith, SinkThings, Contents
  <2>5. disk' = disk /\ bytes' = bytes /\ unclosed' = unclosed
    <3>1. Cut(<<>>) = {}
      BY DEF Cut
    <3>2. mode = "file" => disk = <<>>
      BY <1>1 DEF Sink
    <3>3. mode # "file" => Closes = {}
      BY <1>1 DEF Closes
    <3> QED
      BY <1>1, <1>3, <3>1, <3>2, <3>3 DEF CloseFile
  <2>6. NothingGivenBackTwice' /\ file_ptr' \in BOOLEAN /\ allocator' \in BOOLEAN
    BY <1>1, <2>3 DEF NothingGivenBackTwice, IInv, Shape, Values
  <2> QED
    BY <1>1, <2>3, <2>4, <2>5, <2>6, FailsAnyhow
<1> QED
  BY <1>2, <1>3 DEF InitWriter

LEMMA Putting ==
  ASSUME IInv, NEW m \in Msgs, Put(m), UNCHANGED mode
  PROVE  /\ Sink' = Append(Sink, m)
         /\ disk' \in Seq(Msgs) /\ bytes' \in Seq(Msgs)
         /\ disk' = disk \/ disk' = Sink'
         /\ bytes' = bytes \/ bytes' = Sink'
         /\ unclosed' = unclosed
<1>1. disk \in Seq(Msgs) /\ bytes \in Seq(Msgs)
  BY DEF IInv, Shape, Values
<1>2. Append(disk, m) \in Seq(Msgs) /\ Append(bytes, m) \in Seq(Msgs)
  <2> HIDE DEF Msgs
  <2> QED
    BY <1>1
<1>3. CASE mode = "file"
  <2>1. disk' = Append(disk, m) /\ bytes' = bytes /\ mode' = "file"
        /\ unclosed' = unclosed
    BY <1>3 DEF Put
  <2> QED
    BY <1>1, <1>2, <1>3, <2>1, Zenon DEF Sink
<1>4. CASE mode # "file"
  <2>1. bytes' = Append(bytes, m) /\ disk' = disk /\ mode' # "file"
        /\ unclosed' = unclosed
    BY <1>4 DEF Put
  <2> QED
    BY <1>1, <1>2, <1>4, <2>1, Zenon DEF Sink
<1> QED
  BY <1>3, <1>4

(* After a message that could not be encoded nothing has changed.          *)
LEMMA Encoding ==
  ASSUME NEW core \in SUBSET (Contents \cup {"writer", "view"}),
         NEW things \in SUBSET {"view", "chunk", "array"}, core \cap things = {},
         NEW next, EncodeFails(things, next), UNCHANGED mode,
         \/ held = File \cup core \cup things
         \/ held = File \cup Grown \cup core \cup things
  PROVE  /\ FailedWith(core, SinkThings)' /\ bad' = bad
         /\ st' = "error" /\ pc' = next /\ UNCHANGED <<disk, bytes, unclosed, file_ptr>>
<1>1. Fail(things, {}, next) /\ UNCHANGED <<disk, bytes, unclosed, file_ptr>>
  BY DEF EncodeFails, sinks
<1>2. /\ held' = held \ things \/ held' = (held \ things) \cup {"error"}
      /\ bad' = bad \cup (things \ held) /\ st' = "error" /\ pc' = next
  BY <1>1, Failing
<1>3. /\ core \subseteq held' /\ held' \subseteq File \cup Grown \cup core \cup {"error"}
      /\ things \ held = {}
  BY <1>2
<1>4. FailedWith(core, SinkThings)'
  BY <1>3 DEF FailedWith, SinkThings, File, Grown, Contents
<1> QED
  BY <1>1, <1>2, <1>3, <1>4

(* A file or a buffer that could not be written holds no end marker, and   *)
(* is held no longer; the old block of the buffer may be.                  *)
LEMMA WriteFailing ==
  ASSUME IInv, NEW core \in SUBSET (Contents \cup {"writer", "view"}),
         NEW things \in SUBSET {"view", "chunk", "array"}, core \cap things = {},
         NEW next, WriteFails(things, next), UNCHANGED mode, NoEos(Sink),
         \/ held = File \cup core \cup things
         \/ held = File \cup Grown \cup core \cup things
  PROVE  /\ FailedWith(core, SinkThings)' /\ bad' = bad
         /\ st' = "error" /\ pc' = next /\ file_ptr' \in BOOLEAN
         /\ disk' \in Seq(Msgs) /\ bytes' \in Seq(Msgs) /\ NoEos(Sink)'
         /\ disk' = disk \/ NoEos(disk')
         /\ bytes' = bytes \/ NoEos(bytes')
         /\ unclosed' \in BOOLEAN
<1>1. /\ disk \in Seq(Msgs) /\ bytes \in Seq(Msgs) /\ file_ptr \in BOOLEAN
      /\ unclosed \in BOOLEAN
  BY DEF IInv, Shape, Values
<1>2. CASE FileFails(things, next)
  <2>1. /\ mode = "file" /\ mode' = "file" /\ Fail(things \cup {"file"}, {}, next)
        /\ bytes' = bytes /\ NoEos(disk)
    BY <1>2 DEF FileFails, Sink
  <2> DEFINE torn == Append(disk, <<"torn">>)
  <2>2. torn \in Seq(Msgs) /\ NoEos(torn)
    BY <1>1, <2>1, TornNoEos
  <2>3. /\ disk' \in {disk, torn} \/ disk' \in Cut(torn)
        /\ file_ptr' = FALSE \/ file_ptr' = file_ptr
        /\ unclosed' = TRUE \/ unclosed' = unclosed
    BY <1>2 DEF FileFails
  <2> HIDE DEF torn
  <2>4. disk' \in Seq(Msgs) /\ NoEos(disk')
    BY <1>1, <2>1, <2>2, <2>3, CutNoEos
  <2>5. NoEos(Sink)'
    BY <2>1, <2>4, Zenon DEF Sink, NoEos
  <2>6. /\ \/ held' = (held \ (things \cup {"file"})) \cup {}
           \/ held' = (held \ (things \cup {"file"})) \cup {} \cup {"error"}
        /\ bad' = bad \cup ((things \cup {"file"}) \ held)
        /\ st' = "error" /\ pc' = next
    BY <2>1, Failing, Zenon
  <2>7. held = {"file"} \cup core \cup things
    BY <2>1 DEF File, Grown
  <2>8. (things \cup {"file"}) \ held = {} /\ held \ (things \cup {"file"}) = core
    BY <2>7 DEF Contents
  <2>9. (held' = core \/ held' = core \cup {"error"}) /\ bad' = bad
    BY <2>6, <2>8
  <2>10. FailedWith(core, SinkThings)'
    BY <2>1, <2>9 DEF FailedWith, SinkThings, Contents
  <2> QED
    BY <1>1, <2>1, <2>3, <2>4, <2>5, <2>6, <2>9, <2>10, Zenon
<1>3. CASE BufferFails(things, next)
  <2> DEFINE gone == things \cup (held \cap {"buffer"})
             more == IF "buffer" \in held THEN {"block"} ELSE {}
  <2>1. /\ mode = "buffer" /\ mode' = "buffer" /\ Fail(gone, more, next)
        /\ bytes' = <<>> /\ disk' = disk /\ file_ptr' = file_ptr
        /\ unclosed' = unclosed
    BY <1>3 DEF BufferFails
  <2>2. /\ \/ held' = (held \ gone) \cup more
           \/ held' = (held \ gone) \cup more \cup {"error"}
        /\ bad' = bad \cup (gone \ held)
        /\ st' = "error" /\ pc' = next
    <3> HIDE DEF gone, more
    <3> QED
      BY <2>1, Failing, Zenon
  <2>3. held = core \cup things \/ held = {"buffer"} \cup core \cup things
    BY <2>1 DEF File, Grown
  <2>4. gone \ held = {} /\ held \ gone = core
    BY <2>3 DEF Contents
  <2>5. more = {} \/ more = {"block"}
    OBVIOUS
  <2>6. core \subseteq held' /\ held' \subseteq core \cup {"block", "error"} /\ bad' = bad
    <3> HIDE DEF gone, more
    <3> QED
      BY <2>2, <2>4, <2>5
  <2>7. FailedWith(core, SinkThings)'
    BY <2>1, <2>6 DEF FailedWith, SinkThings, Contents
  <2>8. <<>> \in Seq(Msgs) /\ NoEos(<<>>)
    BY NothingNoEos
  <2>9. NoEos(Sink)'
    BY <2>1, <2>8, Zenon DEF Sink, NoEos
  <2> QED
    BY <1>1, <2>1, <2>2, <2>6, <2>7, <2>8, <2>9, Zenon
<1> QED
  BY <1>2, <1>3 DEF WriteFails

(* The error paths of the writing part: they lead to finish_stream or to   *)
(* the reset of the writer.                                                *)
LEMMA ToEnding ==
  ASSUME IInv, UNCHANGED <<mode, chunks, k, rows, rows_written, allocator, replies>>,
         pc # "idle", st' = "error", bad' = {}, file_ptr' \in BOOLEAN,
         disk' \in Seq(Msgs), bytes' \in Seq(Msgs), NoEos(Sink)',
         disk' = disk \/ NoEos(disk'), bytes' = bytes \/ NoEos(bytes'),
         unclosed' \in BOOLEAN,
         \/ pc' = "finish" /\ FailedWith(Contents \cup {"writer", "view"}, SinkThings)'
         \/ pc' = "writer_reset" /\ FailedWith(Contents \cup {"writer"}, SinkThings)'
  PROVE  IInv'
<1>1. Values'
  BY Zenon DEF IInv, Shape, Values
<1>2. Control' /\ Owner'
  BY DEF IInv, Shape, Control, Owner, Unfailed, Ending
<1>3. HeldUnfailed' /\ HeldEnding' /\ BadRight'
  BY DEF HeldUnfailed, HeldEnding, BadRight, NothingGivenBackTwice
<1>4. StreamSoFar'
  BY DEF StreamSoFar, Unfailed
<1>5. EosMeansWhole'
  BY EosStep
<1> QED
  BY <1>1, <1>2, <1>3, <1>4, <1>5, SameReplies DEF IInv, Shape

(* The same for a message that was neither encoded nor written.            *)
LEMMA NotWritten ==
  ASSUME IInv, NEW core \in SUBSET (Contents \cup {"writer", "view"}),
         NEW things \in SUBSET {"view", "chunk", "array"}, core \cap things = {},
         NEW next, EncodeFails(things, next) \/ WriteFails(things, next),
         UNCHANGED <<mode, chunks, k, rows, rows_written, allocator, replies>>,
         pc # "idle", bad = {}, NoEos(Sink),
         \/ held = File \cup core \cup things
         \/ held = File \cup Grown \cup core \cup things,
         \/ next = "finish" /\ core = Contents \cup {"writer", "view"}
         \/ next = "writer_reset" /\ core = Contents \cup {"writer"}
  PROVE  IInv'
<1>1. /\ disk \in Seq(Msgs) /\ bytes \in Seq(Msgs) /\ file_ptr \in BOOLEAN
      /\ unclosed \in BOOLEAN
  BY DEF IInv, Shape, Values
<1>2. /\ FailedWith(core, SinkThings)' /\ bad' = bad
      /\ st' = "error" /\ pc' = next /\ file_ptr' \in BOOLEAN
      /\ disk' \in Seq(Msgs) /\ bytes' \in Seq(Msgs) /\ NoEos(Sink)'
      /\ disk' = disk \/ NoEos(disk')
      /\ bytes' = bytes \/ NoEos(bytes')
      /\ unclosed' \in BOOLEAN
  <2>1. CASE EncodeFails(things, next)
    <3>1. /\ FailedWith(core, SinkThings)' /\ bad' = bad
          /\ st' = "error" /\ pc' = next /\ UNCHANGED <<disk, bytes, unclosed, file_ptr>>
      BY <2>1, Encoding
    <3>2. NoEos(Sink)'
      BY <3>1 DEF Sink, NoEos
    <3> QED
      BY <1>1, <3>1, <3>2, Zenon
  <2>2. CASE WriteFails(things, next)
    BY <2>2, WriteFailing
  <2> QED
    BY <2>1, <2>2
<1>3. \/ pc' = "finish" /\ FailedWith(Contents \cup {"writer", "view"}, SinkThings)'
      \/ pc' = "writer_reset" /\ FailedWith(Contents \cup {"writer"}, SinkThings)'
  BY <1>2 DEF FailedWith
<1> QED
  BY <1>2, <1>3, ToEnding

(* A message that was written is the last of its sink; what is in the sink *)
(* then holds no end marker, or is the stream of the result.               *)
LEMMA Delivering ==
  ASSUME IInv, NEW m \in Msgs, Put(m),
         UNCHANGED <<mode, chunks, k, rows, allocator, file_ptr, replies>>,
         NoEos(Append(Sink, m)) \/ (chunks \in Results /\ Append(Sink, m) = Stream(chunks)),
         rows_written' \in Nat, st' = st
  PROVE  /\ Values' /\ EosMeansWhole' /\ SuccessIsWhole' /\ LittleIsLeft'
         /\ Sink' = Append(Sink, m)
<1>1. /\ Sink' = Append(Sink, m)
      /\ disk' \in Seq(Msgs) /\ bytes' \in Seq(Msgs)
      /\ disk' = disk \/ disk' = Append(Sink, m)
      /\ bytes' = bytes \/ bytes' = Append(Sink, m)
      /\ unclosed' = unclosed
  BY Putting, Zenon
<1>2. Values'
  BY <1>1, Zenon DEF IInv, Shape, Values
<1>3. /\ disk' = disk \/ NoEos(disk') \/ \E r \in Results : disk' = Stream(r)
      /\ bytes' = bytes \/ NoEos(bytes') \/ \E r \in Results : bytes' = Stream(r)
  BY <1>1, Zenon
<1>4. EosMeansWhole'
  BY <1>3, EosStep
<1> QED
  BY <1>1, <1>2, <1>4, SameReplies

LEMMA WriteSchemaCorrect == ASSUME IInv, WriteSchema PROVE IInv'
<1>1. /\ pc = "head" /\ held = File \cup Contents \cup {"writer"} /\ bad = {} /\ st = "ok"
      /\ k = 0 /\ Sink = <<>> /\ file_ptr = (mode = "file") /\ chunks \in Results
      /\ UNCHANGED <<mode, chunks, k, rows, rows_written, allocator, replies>>
  BY GoodBad DEF WriteSchema, IInv, Shape, Control, Owner, HeldUnfailed, StreamSoFar,
                 request, cursor, Unfailed
<1>2. NoEos(Sink)
  BY <1>1, NothingNoEos
<1>3. CASE /\ Put(<<"schema">>) /\ Acquire(Grown)
           /\ pc' = "view" /\ UNCHANGED <<st, file_ptr>>
  <2>1. <<"schema">> \in Msgs /\ Append(Sink, <<"schema">>) = Prefix(0) /\ NoEos(Prefix(0))
    BY <1>1, PrefixEmpty, PrefixType DEF Msgs
  <2>2. rows_written' \in Nat
    BY <1>1 DEF IInv, Shape, Values
  <2>3. /\ Values' /\ EosMeansWhole' /\ SuccessIsWhole' /\ LittleIsLeft'
        /\ Sink' = Prefix(0)
    BY <1>1, <1>3, <2>1, <2>2, Delivering
  <2>4. held' = File \cup Grown \cup Contents \cup {"writer"} /\ bad' = {}
    BY <1>1, <1>3 DEF Acquire
  <2>5. Control' /\ Owner'
    BY <1>1, <1>3 DEF Control, Owner, Unfailed, Ending
  <2>6. HeldUnfailed' /\ HeldEnding' /\ BadRight'
    BY <1>1, <1>3, <2>4 DEF HeldUnfailed, HeldEnding, BadRight, NothingGivenBackTwice, File, Grown
  <2>7. StreamSoFar'
    BY <1>1, <1>3, <2>3 DEF StreamSoFar, Unfailed
  <2> QED
    BY <2>3, <2>5, <2>6, <2>7 DEF IInv, Shape
<1>4. CASE EncodeFails({}, "writer_reset") \/ WriteFails({}, "writer_reset")
  <2> DEFINE core == Contents \cup {"writer"}
             none == {}
  <2>1. /\ core \in SUBSET (Contents \cup {"writer", "view"}) /\ core \cap none = {}
        /\ none \in SUBSET {"view", "chunk", "array"}
        /\ held = File \cup core \cup none
        /\ EncodeFails(none, "writer_reset") \/ WriteFails(none, "writer_reset")
        /\ core = Contents \cup {"writer"} /\ pc # "idle"
    BY <1>1, <1>4
  <2> HIDE DEF core, none
  <2> QED
    BY <1>1, <1>2, <2>1, NotWritten
<1> QED
  BY <1>3, <1>4 DEF WriteSchema

(* What the loop over the chunks holds, and has written.                   *)
LEMMA InLoop ==
  ASSUME IInv, pc \in {"view", "fetch", "convert", "write"}
  PROVE  /\ st = "ok" /\ bad = {} /\ file_ptr = (mode = "file")
         /\ chunks \in Results /\ Len(chunks) \in Nat /\ k \in 0 .. Len(chunks) /\ NoEos(Sink)
         /\ rows \in Nat /\ rows_written \in Nat /\ file_ptr \in BOOLEAN
         /\ disk \in Seq(Msgs) /\ bytes \in Seq(Msgs) /\ unclosed \in BOOLEAN
<1>1. /\ st = "ok" /\ bad = {} /\ file_ptr = (mode = "file")
      /\ chunks \in Results /\ k \in 0 .. Len(chunks)
      /\ rows \in Nat /\ rows_written \in Nat /\ file_ptr \in BOOLEAN
      /\ disk \in Seq(Msgs) /\ bytes \in Seq(Msgs) /\ unclosed \in BOOLEAN
  BY GoodBad DEF IInv, Shape, Values, Control, Owner, Unfailed
<1>2. Len(chunks) \in Nat
  BY <1>1, ResultsAssumption
<1>3. CASE pc \in {"view", "fetch"}
  <2>1. Sink = Prefix(k) /\ k \in Nat
    BY <1>1, <1>2, <1>3 DEF IInv, StreamSoFar
  <2> QED
    BY <1>1, <1>2, <2>1, PrefixType
<1>4. CASE pc \in {"convert", "write"}
  <2>1. Sink = Prefix(k - 1) /\ k - 1 \in Nat
    BY <1>1, <1>2, <1>4 DEF IInv, StreamSoFar
  <2> QED
    BY <1>1, <1>2, <2>1, PrefixType
<1> QED
  BY <1>3, <1>4

(* A step of the loop that writes nothing and does not fail.               *)
LEMMA LoopOn ==
  ASSUME IInv, UNCHANGED <<mode, chunks, rows_written, st, allocator, file_ptr, bad, disk, bytes, unclosed, replies>>,
         pc \in {"view", "fetch", "convert", "write"},
         k' \in 0 .. Len(chunks), rows' \in Nat,
         \/ pc' = "fetch" /\ Sink = Prefix(k')
              /\ held' = File \cup Grown \cup Contents \cup {"writer", "view"}
         \/ pc' = "convert" /\ k' > 0 /\ Sink = Prefix(k' - 1)
              /\ held' = File \cup Grown \cup Contents \cup {"writer", "view", "chunk"}
         \/ pc' = "write" /\ k' > 0 /\ Sink = Prefix(k' - 1)
              /\ held' = File \cup Grown \cup Contents \cup {"writer", "view", "chunk", "array"}
  PROVE  IInv'
<1>1. /\ st = "ok" /\ bad = {} /\ file_ptr = (mode = "file") /\ chunks \in Results
  BY InLoop
<1>2. Values'
  BY DEF IInv, Shape, Values
<1>3. Control' /\ Owner'
  BY <1>1 DEF Control, Owner, Unfailed, Ending
<1>4. HeldUnfailed' /\ HeldEnding' /\ BadRight'
  BY <1>1 DEF HeldUnfailed, HeldEnding, BadRight, NothingGivenBackTwice, File, Grown
<1>5. Sink' = Sink
  BY DEF Sink
<1>6. StreamSoFar'
  BY <1>1, <1>5 DEF StreamSoFar, Unfailed
<1> QED
  BY <1>2, <1>3, <1>4, <1>6, Quiet DEF IInv, Shape

LEMMA InitViewCorrect == ASSUME IInv, InitView PROVE IInv'
<1>1. /\ pc = "view" /\ held = File \cup Grown \cup Contents \cup {"writer"}
      /\ Sink = Prefix(k)
      /\ UNCHANGED <<mode, chunks, k, rows, rows_written, allocator, file_ptr, disk, bytes, unclosed, replies>>
  BY DEF InitView, IInv, HeldUnfailed, StreamSoFar, request, cursor, own, sinks
<1>2. /\ k \in 0 .. Len(chunks) /\ rows \in Nat /\ NoEos(Sink) /\ bad = {}
      /\ file_ptr \in BOOLEAN /\ disk \in Seq(Msgs) /\ bytes \in Seq(Msgs)
      /\ unclosed \in BOOLEAN
  BY <1>1, InLoop
<1>3. CASE Acquire({"view"}) /\ pc' = "fetch" /\ UNCHANGED st
  <2>1. held' = File \cup Grown \cup Contents \cup {"writer", "view"} /\ UNCHANGED bad
    BY <1>1, <1>3 DEF Acquire
  <2> QED
    BY <1>1, <1>2, <1>3, <2>1, LoopOn
<1>4. CASE Fail({}, {}, "writer_reset")
  <2>1. /\ held' = held \/ held' = held \cup {"error"}
        /\ bad' = {} /\ st' = "error" /\ pc' = "writer_reset"
    <3>1. bad = {} /\ Fail({}, {}, "writer_reset")
      BY <1>2, <1>4
    <3> QED
      BY <3>1, Failing
  <2>2. FailedWith(Contents \cup {"writer"}, SinkThings)'
    BY <1>1, <2>1 DEF FailedWith, SinkThings, File, Grown, Contents
  <2>3. NoEos(Sink)'
    BY <1>1, <1>2 DEF Sink, NoEos
  <2> QED
    BY <1>1, <1>2, <2>1, <2>2, <2>3, ToEnding
<1> QED
  BY <1>3, <1>4 DEF InitView

LEMMA FetchChunkCorrect == ASSUME IInv, FetchChunk PROVE IInv'
<1>1. /\ pc = "fetch" /\ held = File \cup Grown \cup Contents \cup {"writer", "view"}
      /\ Sink = Prefix(k) /\ pc' = "convert" /\ k < Len(chunks) /\ k' = k + 1
      /\ rows' = rows + chunks[k + 1]
      /\ UNCHANGED <<mode, chunks, rows_written, st, allocator, file_ptr, bad, disk, bytes, unclosed, replies>>
      /\ held' = held \cup {"chunk"}
  BY DEF FetchChunk, Acquire, Counted, IInv, HeldUnfailed, StreamSoFar, request, own, sinks
<1>2. k \in 0 .. Len(chunks) /\ rows \in Nat /\ chunks \in Results /\ Len(chunks) \in Nat
  BY <1>1, InLoop
<1>3. chunks[k + 1] \in Nat
  BY <1>1, <1>2, ResultsAssumption
<1>4. /\ k' \in 0 .. Len(chunks) /\ k' > 0 /\ rows' \in Nat /\ k' - 1 = k
      /\ held' = File \cup Grown \cup Contents \cup {"writer", "view", "chunk"}
  BY <1>1, <1>2, <1>3
<1> QED
  BY <1>1, <1>4, LoopOn

LEMMA ConvertCorrect == ASSUME IInv, Convert PROVE IInv'
<1>1. /\ pc = "convert" /\ held = File \cup Grown \cup Contents \cup {"writer", "view", "chunk"}
      /\ k > 0 /\ Sink = Prefix(k - 1)
      /\ UNCHANGED <<mode, chunks, k, rows, rows_written, allocator, file_ptr, disk, bytes, unclosed, replies>>
  BY DEF Convert, IInv, HeldUnfailed, StreamSoFar, request, cursor, own, sinks
<1>2. /\ k \in 0 .. Len(chunks) /\ rows \in Nat /\ NoEos(Sink) /\ bad = {}
      /\ file_ptr \in BOOLEAN /\ disk \in Seq(Msgs) /\ bytes \in Seq(Msgs)
      /\ unclosed \in BOOLEAN
  BY <1>1, InLoop
<1>3. CASE Acquire({"array"}) /\ pc' = "write" /\ UNCHANGED st
  <2>1. /\ held' = File \cup Grown \cup Contents \cup {"writer", "view", "chunk", "array"}
        /\ UNCHANGED bad
    BY <1>1, <1>3 DEF Acquire
  <2> QED
    BY <1>1, <1>2, <1>3, <2>1, LoopOn
<1>4. CASE ConvertFails
  <2>1. /\ held' = held \ {"chunk"} \/ held' = (held \ {"chunk"}) \cup {"error"}
        /\ bad' = {} /\ st' = "error" /\ pc' = "finish"
    <3>1. Fail({"chunk"}, {}, "finish") /\ {"chunk"} \ held = {}
      BY <1>1, <1>4 DEF ConvertFails
    <3> QED
      BY <1>2, <3>1, Failing
  <2>2. FailedWith(Contents \cup {"writer", "view"}, SinkThings)'
    BY <1>1, <2>1 DEF FailedWith, SinkThings, File, Grown, Contents
  <2>3. NoEos(Sink)'
    BY <1>1, <1>2 DEF Sink, NoEos
  <2> QED
    BY <1>1, <1>2, <2>1, <2>2, <2>3, ToEnding
<1> QED
  BY <1>3, <1>4 DEF Convert

LEMMA WriteChunkCorrect == ASSUME IInv, WriteChunk PROVE IInv'
<1>1. /\ pc = "write"
      /\ held = File \cup Grown \cup Contents \cup {"writer", "view", "chunk", "array"}
      /\ k > 0 /\ Sink = Prefix(k - 1)
      /\ UNCHANGED <<mode, chunks, k, rows, rows_written, allocator, replies>>
  BY DEF WriteChunk, IInv, HeldUnfailed, StreamSoFar, request, cursor
<1>2. /\ st = "ok" /\ k \in 0 .. Len(chunks) /\ Len(chunks) \in Nat /\ NoEos(Sink)
      /\ bad = {} /\ rows_written \in Nat /\ file_ptr = (mode = "file") /\ chunks \in Results
  BY <1>1, InLoop
<1>3. CASE /\ Put(<<"batch", k>>) /\ Release(Written, {})
           /\ pc' = "fetch" /\ UNCHANGED <<st, file_ptr>>
  <2>1. /\ k - 1 \in Nat /\ (k - 1) + 1 = k /\ k \in Nat
        /\ <<"batch", k>> \in Msgs
    BY <1>1, <1>2 DEF Msgs
  <2>2. Append(Sink, <<"batch", k>>) = Prefix(k) /\ NoEos(Prefix(k))
    BY <1>1, <2>1, PrefixGrows, PrefixType
  <2>3. /\ Values' /\ EosMeansWhole' /\ SuccessIsWhole' /\ LittleIsLeft'
        /\ Sink' = Prefix(k)
    BY <1>1, <1>2, <1>3, <2>1, <2>2, Delivering
  <2>4. held' = File \cup Grown \cup Contents \cup {"writer", "view"} /\ bad' = {}
    BY <1>1, <1>2, <1>3 DEF Release, Written, File, Grown, Contents
  <2>5. Control' /\ Owner'
    BY <1>1, <1>2, <1>3 DEF Control, Owner, Unfailed, Ending
  <2>6. HeldUnfailed' /\ HeldEnding' /\ BadRight'
    BY <1>1, <1>2, <1>3, <2>4 DEF HeldUnfailed, HeldEnding, BadRight, NothingGivenBackTwice,
                                  File, Grown
  <2>7. StreamSoFar'
    BY <1>1, <1>3, <2>3 DEF StreamSoFar, Unfailed
  <2> QED
    BY <2>3, <2>5, <2>6, <2>7 DEF IInv, Shape
<1>4. CASE EncodeFails(Written, "finish") \/ WriteFails(Written, "finish")
  <2> DEFINE core == Contents \cup {"writer", "view"}
  <2>1. /\ core \in SUBSET (Contents \cup {"writer", "view"}) /\ core \cap Written = {}
        /\ Written \in SUBSET {"view", "chunk", "array"}
        /\ held = File \cup Grown \cup core \cup Written
        /\ core = Contents \cup {"writer", "view"} /\ pc # "idle"
    BY <1>1 DEF Written, Contents
  <2> HIDE DEF core
  <2> QED
    BY <1>1, <1>2, <1>4, <2>1, NotWritten
<1> QED
  BY <1>3, <1>4 DEF WriteChunk

LEMMA EndOfChunksCorrect == ASSUME IInv, EndOfChunks PROVE IInv'
<1>1. /\ pc = "fetch" /\ k = Len(chunks) /\ Sink = Prefix(k) /\ pc' = "finish"
      /\ held = File \cup Grown \cup Contents \cup {"writer", "view"}
      /\ UNCHANGED <<mode, chunks, k, rows, rows_written, st, held, allocator, file_ptr, bad,
                     disk, bytes, unclosed, replies>>
  BY DEF EndOfChunks, IInv, HeldUnfailed, StreamSoFar, request, cursor, own, sinks
<1>2. st = "ok" /\ bad = {} /\ file_ptr = (mode = "file") /\ chunks \in Results
  BY <1>1, InLoop
<1>3. Values' /\ Control' /\ Owner'
  BY <1>1, <1>2 DEF IInv, Shape, Values, Control, Owner, Unfailed, Ending
<1>4. HeldUnfailed' /\ HeldEnding' /\ BadRight'
  BY <1>1, <1>2 DEF HeldUnfailed, HeldEnding, BadRight, NothingGivenBackTwice, File, Grown
<1>5. StreamSoFar'
  BY <1>1, <1>2 DEF StreamSoFar, Unfailed, Sink
<1> QED
  BY <1>1, <1>3, <1>4, <1>5, Quiet DEF IInv, Shape

LEMMA FinishChunksCorrect == ASSUME IInv, FinishChunks PROVE IInv'
<1>1. /\ pc = "finish" /\ bad = {} /\ chunks \in Results /\ rows \in Nat /\ rows_written \in Nat
      /\ file_ptr \in BOOLEAN /\ disk \in Seq(Msgs) /\ bytes \in Seq(Msgs)
      /\ st \in {"ok", "error"} /\ k \in 0 .. Len(chunks)
      /\ UNCHANGED <<mode, chunks, k, rows, allocator, replies>>
  BY DEF FinishChunks, IInv, Shape, Values, Control, BadRight, request
<1>2. Len(chunks) \in Nat
  BY <1>1, ResultsAssumption
<1>3. st = "ok" => /\ held = File \cup Grown \cup Contents \cup {"writer", "view"}
                   /\ k = Len(chunks) /\ Sink = Prefix(k) /\ NoEos(Sink)
                   /\ file_ptr = (mode = "file")
                   /\ Append(Sink, <<"eos">>) = Stream(chunks)
  <2> SUFFICES ASSUME st = "ok"
               PROVE  /\ held = File \cup Grown \cup Contents \cup {"writer", "view"}
                      /\ k = Len(chunks) /\ Sink = Prefix(k) /\ NoEos(Sink)
                      /\ file_ptr = (mode = "file")
                      /\ Append(Sink, <<"eos">>) = Stream(chunks)
    OBVIOUS
  <2>1. held = File \cup Grown \cup Contents \cup {"writer", "view"}
    BY <1>1 DEF IInv, HeldEnding
  <2>2. k = Len(chunks) /\ Sink = Prefix(k)
    BY <1>1 DEF IInv, StreamSoFar
  <2>3. file_ptr = (mode = "file")
    BY <1>1 DEF IInv, Shape, Owner
  <2> QED
    BY <1>1, <1>2, <2>1, <2>2, <2>3, PrefixType, StreamIs
<1>4. CASE /\ st = "ok" /\ Put(<<"eos">>) /\ Release({"view"}, {})
           /\ rows_written' = rows
           /\ pc' = "writer_reset" /\ UNCHANGED <<st, file_ptr>>
  <2>1. <<"eos">> \in Msgs
    BY DEF Msgs
  <2>2. rows_written' \in Nat
    BY <1>1, <1>4
  <2>3. /\ Values' /\ EosMeansWhole' /\ SuccessIsWhole' /\ LittleIsLeft'
        /\ Sink' = Stream(chunks)
    BY <1>1, <1>3, <1>4, <2>1, <2>2, Delivering
  <2>4. held' = File \cup Grown \cup Contents \cup {"writer"} /\ bad' = {}
    BY <1>1, <1>3, <1>4 DEF Release, File, Grown, Contents
  <2>5. Control' /\ Owner'
    BY <1>1, <1>3, <1>4 DEF Control, Owner, Unfailed, Ending
  <2>6. HeldUnfailed' /\ HeldEnding' /\ BadRight'
    BY <1>1, <1>4, <2>4 DEF HeldUnfailed, HeldEnding, BadRight, NothingGivenBackTwice,
                            File, Grown
  <2>7. Stream(chunks)' = Stream(chunks)
    BY <1>1 DEF Stream
  <2>8. StreamSoFar'
    BY <1>1, <1>4, <2>3, <2>7 DEF StreamSoFar, Unfailed
  <2> QED
    BY <2>3, <2>5, <2>6, <2>8 DEF IInv, Shape
<1>5. CASE /\ st # "ok" /\ UNCHANGED sinks /\ Release({"view"}, {})
           /\ rows_written' = 0
           /\ pc' = "writer_reset" /\ UNCHANGED <<st, file_ptr>>
  <2>1. /\ FailedWith(Contents \cup {"writer", "view"}, SinkThings) /\ NoEos(Sink) /\ st = "error"
    BY <1>1, <1>5 DEF IInv, HeldEnding, StreamSoFar
  <2>2. Values' /\ Control' /\ Owner'
    BY <1>1, <1>5, <2>1 DEF IInv, Shape, Values, Control, Owner, Unfailed, Ending, sinks
  <2>3. bad' = {} /\ held' = held \ {"view"}
    BY <1>1, <1>5, <2>1 DEF Release, FailedWith
  <2>4. FailedWith(Contents \cup {"writer"}, SinkThings)'
    BY <1>1, <2>1, <2>3 DEF FailedWith, SinkThings, Contents
  <2>5. HeldUnfailed' /\ HeldEnding' /\ BadRight'
    BY <1>5, <2>1, <2>3, <2>4 DEF HeldUnfailed, HeldEnding, BadRight, NothingGivenBackTwice
  <2>6. StreamSoFar'
    BY <1>1, <1>5, <2>1 DEF StreamSoFar, Unfailed, Sink, sinks, NoEos
  <2> QED
    BY <1>1, <1>5, <2>2, <2>5, <2>6, Quiet DEF IInv, Shape, sinks
<1>6. CASE st = "ok" /\ WriteFails({"view"}, "writer_reset") /\ UNCHANGED rows_written
  <2> DEFINE core == Contents \cup {"writer"}
             things == {"view"}
  <2>1. /\ core \in SUBSET (Contents \cup {"writer", "view"}) /\ core \cap things = {}
        /\ things \in SUBSET {"view", "chunk", "array"}
        /\ held = File \cup Grown \cup core \cup things
        /\ WriteFails(things, "writer_reset")
        /\ core = Contents \cup {"writer"} /\ pc # "idle"
    BY <1>1, <1>3, <1>6 DEF Contents
  <2> HIDE DEF core, things
  <2> QED
    BY <1>1, <1>3, <1>6, <2>1, NotWritten
<1> QED
  BY <1>4, <1>5, <1>6 DEF FinishChunks, EndsStream, RowsWritten

(* Only a file that the export holds is cut by its closing.                *)
LEMMA ResetWriterCorrect == ASSUME IInv, ResetWriter PROVE IInv'
<1>1. /\ pc = "writer_reset" /\ bad = {} /\ chunks \in Results /\ pc' = "cleanup"
      /\ mode \in {"file", "buffer"} /\ file_ptr \in BOOLEAN /\ st \in {"ok", "error"}
      /\ disk \in Seq(Msgs) /\ bytes \in Seq(Msgs)
      /\ held' = held \ ({"writer"} \cup Closes) /\ bad' = ({"writer"} \cup Closes) \ held
      /\ CloseFile
      /\ UNCHANGED <<mode, chunks, k, rows, rows_written, st, allocator, file_ptr, replies>>
  BY DEF ResetWriter, Release, IInv, Shape, Values, Control, BadRight, request, cursor, own
<1>2. bytes' = bytes /\ disk' \in Seq(Msgs) /\ unclosed' \in BOOLEAN
  BY <1>1, CloseFileSinks DEF IInv, Shape, Values
<1>3. st = "ok" => /\ held = File \cup Grown \cup Contents \cup {"writer"}
                   /\ file_ptr = (mode = "file") /\ Sink = Stream(chunks)
  BY <1>1 DEF IInv, Shape, Owner, HeldEnding, StreamSoFar
<1>4. st = "error" => FailedWith(Contents \cup {"writer"}, SinkThings) /\ NoEos(Sink)
  BY <1>1 DEF IInv, HeldEnding, StreamSoFar
<1>5. "file" \in held => mode = "file"
  BY <1>1, <1>3, <1>4 DEF File, Grown, Contents, FailedWith, SinkThings
<1>6. \/ disk' = disk
      \/ mode = "file" /\ unclosed' /\ disk' \in Cut(disk)
  BY <1>1, <1>5 DEF CloseFile, Closes
<1>7. Values' /\ Control' /\ Owner'
  <2>1. Values'
    BY <1>1, <1>2, Zenon DEF IInv, Shape, Values
  <2> QED
    BY <1>1, <2>1 DEF Control, Owner, Unfailed, Ending
<1>8. HeldUnfailed' /\ HeldEnding' /\ BadRight'
  <2>1. CASE st = "ok"
    <3>1. held' = Grown \cup Contents /\ bad' = {}
      BY <1>1, <1>3, <2>1 DEF Closes, File, Grown, Contents
    <3> QED
      BY <1>1, <2>1, <3>1 DEF HeldUnfailed, HeldEnding, BadRight, NothingGivenBackTwice, Grown
  <2>2. CASE st = "error"
    <3>1. FailedWith(Contents, SinkThings \cup {"private"})'
      BY <1>1, <1>4, <2>2 DEF FailedWith, SinkThings, Contents, Closes
    <3>2. bad' \subseteq Closes
      BY <1>1, <1>4, <2>2 DEF FailedWith
    <3>3. NothingGivenBackTwice'
      BY <1>1, <2>2, <3>2 DEF Closes, NothingGivenBackTwice
    <3> QED
      BY <1>1, <2>2, <3>1, <3>3 DEF HeldUnfailed, HeldEnding, BadRight
  <2> QED
    BY <1>1, <2>1, <2>2
<1>9. EosMeansWhole'
  <2>1. CASE disk' = disk
    BY <1>2, <2>1, EosStep
  <2>2. CASE mode = "file" /\ disk' \in Cut(disk)
    <3>1. NoEos(disk')
      <4>1. CASE st = "ok"
        <5>1. disk = Stream(chunks)
          BY <1>3, <2>2, <4>1 DEF Sink
        <5> QED
          BY <1>1, <2>2, <5>1, CutStream
      <4>2. CASE st = "error"
        <5>1. NoEos(disk)
          BY <1>4, <2>2, <4>2 DEF Sink
        <5> QED
          BY <1>1, <2>2, <5>1, CutNoEos
      <4> QED
        BY <1>1, <4>1, <4>2
    <3> QED
      BY <1>2, <3>1, EosStep
  <2> QED
    BY <1>6, <2>1, <2>2
<1>10. StreamSoFar'
  <2>1. ASSUME st = "ok" PROVE Delivered(unclosed', mode, chunks, Sink')
    <3>1. CASE mode = "file"
      <4>1. disk = Stream(chunks) /\ Sink' = disk'
        BY <1>1, <1>3, <2>1, <3>1 DEF Sink
      <4> QED
        BY <1>6, <3>1, <4>1 DEF Delivered
    <3>2. CASE mode = "buffer"
      <4>1. bytes = Stream(chunks) /\ Sink' = bytes
        BY <1>1, <1>2, <1>3, <2>1, <3>2 DEF Sink
      <4> QED
        BY <4>1 DEF Delivered
    <3> QED
      BY <1>1, <3>1, <3>2
  <2>2. st' = "ok" => Delivered(unclosed, mode, chunks, Sink)'
    BY <1>1, <2>1 DEF Delivered, Stream, Cut, Fault
  <2> QED
    BY <1>1, <2>2 DEF StreamSoFar, Unfailed
<1> QED
  BY <1>1, <1>7, <1>8, <1>9, <1>10, SameReplies DEF IInv, Shape

LEMMA CleanupCorrect == ASSUME IInv, Cleanup PROVE IInv'
<1>1. /\ pc = "cleanup" /\ pc' = "return" /\ st \in {"ok", "error"} /\ NothingGivenBackTwice
      /\ held' = held \ Context /\ bad' = bad
      /\ UNCHANGED <<mode, chunks, k, rows, rows_written, st, allocator, file_ptr, disk,
                     bytes, unclosed, replies>>
  BY DEF Cleanup, Release, Context, IInv, Shape, Values, BadRight, request, cursor, own, sinks
<1>2. Values' /\ Control' /\ Owner'
  BY <1>1 DEF IInv, Shape, Values, Control, Owner, Unfailed, Ending
<1>3. NothingGivenBackTwice'
  BY <1>1 DEF NothingGivenBackTwice
<1>4. HeldUnfailed' /\ HeldEnding' /\ BadRight'
  <2>1. CASE st = "ok"
    <3>1. held = Grown \cup Contents
      BY <1>1, <2>1 DEF IInv, HeldEnding
    <3>2. held' = Grown
      BY <1>1, <3>1 DEF Context, Grown, Contents
    <3> QED
      BY <1>1, <1>3, <2>1, <3>2 DEF HeldUnfailed, HeldEnding, BadRight, Grown
  <2>2. CASE st = "error"
    <3>1. FailedWith(Contents, SinkThings \cup {"private"})
      BY <1>1, <2>2 DEF IInv, HeldEnding
    <3>2. FailedWith({}, SinkThings \cup {"private"})'
      BY <1>1, <3>1 DEF FailedWith, SinkThings, Context, Contents
    <3> QED
      BY <1>1, <1>3, <2>2, <3>2 DEF HeldUnfailed, HeldEnding, BadRight
  <2> QED
    BY <1>1, <2>1, <2>2
<1>5. StreamSoFar'
  BY <1>1 DEF IInv, StreamSoFar, Unfailed, Delivered, Sink, Stream, Cut, Fault
<1> QED
  BY <1>1, <1>2, <1>4, <1>5, Quiet DEF IInv, Shape

------------------------------------------------------------------------------
\* The return to APL

LEMMA CopyOutCorrect == ASSUME IInv, CopyOut PROVE IInv'
<1>1. /\ pc = "return" /\ mode = "buffer" /\ chunks \in Results /\ NothingGivenBackTwice
      /\ UNCHANGED <<mode, chunks, k, rows, rows_written, allocator, file_ptr, disk,
                     bytes, unclosed, replies>>
  BY DEF CopyOut, IInv, Shape, Control, BadRight, request, cursor, own, sinks
<1>2. /\ st = "ok" => held = Grown
      /\ st # "ok" => FailedWith({}, SinkThings \cup {"private"})
  BY <1>1 DEF IInv, HeldEnding
<1>3. Delivered(unclosed, mode, chunks, Sink)' = Delivered(unclosed, mode, chunks, Sink)
  BY <1>1 DEF Delivered, Sink, Stream, Cut, Fault
<1>4. ASSUME st' \in {"ok", "error"}, pc' \in {"crashed", "reply"}
      PROVE  Values' /\ Control' /\ Owner'
  BY <1>1, <1>4 DEF IInv, Shape, Values, Control, Owner, Unfailed, Ending
<1>5. ASSUME HeldUnfailed', HeldEnding', BadRight', st' \in {"ok", "error"},
             pc' \in {"crashed", "reply"}, pc' = "reply" /\ st' = "ok" => st = "ok"
      PROVE  IInv'
  <2>1. StreamSoFar'
    BY <1>1, <1>3, <1>5 DEF IInv, StreamSoFar, Unfailed
  <2> QED
    BY <1>1, <1>4, <1>5, <2>1, Quiet DEF IInv, Shape
<1>6. CASE pc' = "crashed" /\ UNCHANGED <<st, held, bad>>
  <2>1. held \subseteq Things
    BY <1>1, <1>2 DEF Grown, FailedWith, SinkThings, Things
  <2>2. HeldUnfailed' /\ HeldEnding' /\ BadRight'
    BY <1>1, <1>6, <2>1 DEF HeldUnfailed, HeldEnding, BadRight, NothingGivenBackTwice
  <2> QED
    BY <1>5, <1>6, <2>2 DEF IInv, Shape, Values
<1>7. CASE /\ st = "ok" /\ held' = (held \ {"buffer"}) \cup {"copy"}
           /\ pc' = "reply" /\ UNCHANGED <<st, bad>>
  <2>1. held' = {"copy"}
    BY <1>1, <1>2, <1>7 DEF Grown
  <2>2. HeldUnfailed' /\ HeldEnding' /\ BadRight'
    BY <1>1, <1>7, <2>1 DEF HeldUnfailed, HeldEnding, BadRight, NothingGivenBackTwice
  <2> QED
    BY <1>5, <1>7, <2>2
<1>8. CASE st = "ok" /\ Fail({"buffer"}, {}, "reply")
  <2>1. held' \subseteq {"error"} /\ bad' = bad /\ st' = "error" /\ pc' = "reply"
    <3>1. held = {"buffer"}
      BY <1>1, <1>2, <1>8 DEF Grown
    <3> QED
      BY <1>8, <3>1, Failing
  <2>2. FailedWith({}, {"block", "private"})'
    BY <2>1 DEF FailedWith
  <2>3. HeldUnfailed' /\ HeldEnding' /\ BadRight'
    BY <1>1, <1>8, <2>1, <2>2 DEF HeldUnfailed, HeldEnding, BadRight, NothingGivenBackTwice
  <2> QED
    BY <1>5, <2>1, <2>3
<1>9. CASE /\ st = "error" /\ held' = held \ {"buffer"}
           /\ pc' = "reply" /\ UNCHANGED <<st, bad>>
  <2>1. FailedWith({}, {"block", "private"})'
    BY <1>1, <1>2, <1>9 DEF FailedWith, SinkThings
  <2>2. HeldUnfailed' /\ HeldEnding' /\ BadRight'
    BY <1>1, <1>9, <2>1 DEF HeldUnfailed, HeldEnding, BadRight, NothingGivenBackTwice
  <2> QED
    BY <1>5, <1>9, <2>2
<1> QED
  BY <1>6, <1>7, <1>8, <1>9 DEF CopyOut

(* The answer to the caller, and what is left when it has come.            *)
LEMMA ReplyCorrect == ASSUME IInv, Reply PROVE IInv'
<1> DEFINE left == held \ {"error", "copy"}
           answer == [mode |-> mode, chunks |-> chunks, st |-> st, rows |-> rows_written,
                      msgs |-> Sink, unclosed |-> unclosed, left |-> left]
<1>1. /\ pc = IF mode = "buffer" THEN "reply" ELSE "return"
      /\ replies' = Append(replies, answer) /\ held' = {} /\ pc' = "idle"
      /\ UNCHANGED <<mode, chunks, k, rows, rows_written, st, allocator, file_ptr, bad, disk,
                     bytes, unclosed>>
  BY DEF Reply, Sink, request, cursor, own, sinks
<1>2. /\ mode \in {"file", "buffer"} /\ st \in {"ok", "error"} /\ chunks \in Results
      /\ rows_written \in Nat /\ replies \in Seq(Answer) /\ NothingGivenBackTwice
      /\ disk \in Seq(Msgs) /\ bytes \in Seq(Msgs) /\ unclosed \in BOOLEAN
  BY <1>1 DEF IInv, Shape, Values, Control, BadRight
<1>3. /\ st = "ok" => left = {}
      /\ left = {} \/ left = {"private"}
         \/ left = IF mode = "file" THEN {"file"} ELSE {"block"}
  <2>1. CASE st = "ok"
    <3>1. held = {} \/ held = {"copy"}
      BY <1>1, <1>2, <2>1 DEF IInv, HeldEnding, Grown
    <3> QED
      BY <3>1
  <2>2. CASE st = "error"
    <3>1. \/ mode = "buffer" /\ FailedWith({}, {"block", "private"})
          \/ mode = "file" /\ FailedWith({}, {"file", "private"})
      BY <1>1, <1>2, <2>2 DEF IInv, HeldEnding, FailedWith, SinkThings
    <3>2. /\ left \subseteq IF mode = "file" THEN {"file", "private"} ELSE {"block", "private"}
          /\ \A x, y \in left : x = y
      BY <3>1 DEF FailedWith
    <3> HIDE DEF left
    <3> QED
      BY <1>2, <2>2, <3>2
  <2> QED
    BY <1>2, <2>1, <2>2
<1>4. left \subseteq Things
  <2> HIDE DEF left
  <2> QED
    BY <1>3 DEF Things
<1>5. st = "ok" => Delivered(unclosed, mode, chunks, Sink)
  BY <1>1, <1>2 DEF IInv, StreamSoFar
<1>6. Sink \in Seq(Msgs)
  BY <1>2, Zenon DEF Sink
<1> HIDE DEF left
<1>7. answer \in Answer
  BY <1>2, <1>4, <1>6 DEF Answer
<1>8. /\ answer.mode = mode /\ answer.chunks = chunks /\ answer.st = st
      /\ answer.msgs = Sink /\ answer.left = left
      /\ answer.unclosed = unclosed
  OBVIOUS
<1> HIDE DEF answer
<1>9. /\ replies' \in Seq(Answer) /\ DOMAIN replies' = 1 .. Len(replies) + 1
      /\ DOMAIN replies = 1 .. Len(replies)
      /\ \A n \in DOMAIN replies' :
           replies'[n] = answer \/ (n \in DOMAIN replies /\ replies'[n] = replies[n])
  <2> HIDE DEF Answer
  <2> QED
    BY <1>1, <1>2, <1>7
<1>10. Values' /\ Control' /\ Owner'
  <2>1. Values'
    BY <1>1, <1>9, Zenon DEF IInv, Shape, Values
  <2> QED
    BY <1>1, <2>1 DEF Control, Owner, Unfailed, Ending
<1>11. HeldUnfailed' /\ HeldEnding' /\ BadRight' /\ StreamSoFar'
  BY <1>1, <1>2 DEF HeldUnfailed, HeldEnding, BadRight, NothingGivenBackTwice, StreamSoFar,
                    Unfailed
<1>12. EosMeansWhole'
  BY <1>1, EosStep
<1>13. SuccessIsWhole'
  <2> SUFFICES ASSUME NEW n \in DOMAIN replies', replies'[n].st = "ok"
               PROVE  Delivered(replies'[n].unclosed, replies'[n].mode, replies'[n].chunks, replies'[n].msgs)
    BY DEF SuccessIsWhole, Delivered, Stream, Cut, Fault
  <2>1. CASE replies'[n] = answer
    BY <1>5, <1>8, <2>1
  <2>2. CASE n \in DOMAIN replies /\ replies'[n] = replies[n]
    BY <2>2 DEF IInv, SuccessIsWhole, Delivered
  <2> QED
    BY <1>9, <2>1, <2>2
<1>14. LittleIsLeft'
  <2> SUFFICES ASSUME NEW n \in DOMAIN replies'
               PROVE  LET r == replies'[n]
                      IN  /\ r.st = "ok" => r.left = {}
                          /\ r.left = {} \/ r.left = {"private"}
                             \/ r.left = IF r.mode = "file" THEN {"file"} ELSE {"block"}
    BY DEF LittleIsLeft
  <2>1. CASE replies'[n] = answer
    BY <1>3, <1>8, <2>1
  <2>2. CASE n \in DOMAIN replies /\ replies'[n] = replies[n]
    BY <2>2 DEF IInv, LittleIsLeft
  <2> QED
    BY <1>9, <2>1, <2>2
<1> QED
  BY <1>10, <1>11, <1>12, <1>13, <1>14 DEF IInv, Shape

LEMMA StutterCorrect == ASSUME IInv, UNCHANGED vars PROVE IInv'
<1> USE DEF vars
<1>1. Values' /\ Control' /\ Owner'
  BY DEF IInv, Shape, Values, Control, Owner
<1>2. HeldUnfailed' /\ HeldEnding'
  BY DEF IInv, HeldUnfailed, HeldEnding, File, Grown, FailedWith, SinkThings
<1>3. BadRight'
  BY DEF IInv, BadRight, NothingGivenBackTwice
<1>4. StreamSoFar'
  BY DEF IInv, StreamSoFar, Sink, NoEos, Delivered, Stream, Cut, Fault
<1> QED
  BY <1>1, <1>2, <1>3, <1>4, Quiet DEF IInv, Shape

------------------------------------------------------------------------------
\* The theorems

LEMMA Inductive == IInv /\ [Next]_vars => IInv'
<1> SUFFICES ASSUME IInv, [Next]_vars PROVE IInv'
  OBVIOUS
<1>1. CASE \E m \in {"file", "buffer"}, r \in Results : Call(m, r)
  BY <1>1, CallCorrect
<1>2. CASE Step
  <2>1. CASE OpenFile \/ RunQuery \/ QueryFails \/ Columns \/ Metadata \/ OutOfMemory \/ ToSchema
    BY <2>1, OpenFileCorrect, RunQueryCorrect, QueryFailsCorrect, ColumnsCorrect,
       MetadataCorrect, OutOfMemoryCorrect, ToSchemaCorrect
  <2>2. CASE InitStream \/ InitWriter \/ WriteSchema \/ InitView \/ FetchChunk \/ Convert
             \/ WriteChunk
    BY <2>2, InitStreamCorrect, InitWriterCorrect, WriteSchemaCorrect, InitViewCorrect,
       FetchChunkCorrect, ConvertCorrect, WriteChunkCorrect
  <2>3. CASE EndOfChunks \/ FinishChunks \/ ResetWriter \/ Cleanup \/ CopyOut \/ Reply
    BY <2>3, EndOfChunksCorrect, FinishChunksCorrect, ResetWriterCorrect, CleanupCorrect,
       CopyOutCorrect, ReplyCorrect
  <2> QED
    BY <1>2, <2>1, <2>2, <2>3 DEF Step
<1>3. CASE UNCHANGED vars
  BY <1>3, StutterCorrect
<1> QED
  BY <1>1, <1>2, <1>3 DEF Next

(* At every point of an export: what it holds, what it may have given back *)
(* too often, and what a reader of the file or of the bytes would see.     *)
THEOREM Invariance == Spec => []IInv
<1> QED
  BY InitCorrect, Inductive, PTL DEF Spec

(* duckdb_arrow_export.c's success is a whole stream, handed over to the   *)
(* buffer or to the file, which may be cut only in a call whose own fclose *)
(* failed (nanoarrow_ipc.c:29231-29241 drops its result).                  *)
THEOREM SuccessIsWholeCorrect == Spec => []SuccessIsWhole
<1>1. IInv => SuccessIsWhole
  BY DEF IInv
<1> QED
  BY <1>1, Invariance, PTL

(* Whatever fails, and wherever: an end-of-stream message in the file or   *)
(* in the buffer follows all the chunks of a result.                       *)
THEOREM EosMeansWholeCorrect == Spec => []EosMeansWhole
<1>1. IInv => EosMeansWhole
  BY DEF IInv
<1> QED
  BY <1>1, Invariance, PTL

(* The error paths destroy and free what the call holds, with two known    *)
(* exceptions (the types without names, the file closed twice).            *)
THEOREM NothingGivenBackTwiceCorrect == Spec => []NothingGivenBackTwice
<1>1. IInv => NothingGivenBackTwice
  BY DEF IInv, BadRight
<1> QED
  BY <1>1, Invariance, PTL

(* The error paths leave one thing at most, and a successful export none.  *)
THEOREM LittleIsLeftCorrect == Spec => []LittleIsLeft
<1>1. IInv => LittleIsLeft
  BY DEF IInv
<1> QED
  BY <1>1, Invariance, PTL

(* The values of the variables; the loop over the chunks goes on only      *)
(* while nothing has failed.                                               *)
THEOREM TypeCorrect == Spec => []TypeOK
<1>1. IInv => TypeOK
  <2> SUFFICES ASSUME IInv PROVE TypeOK
    OBVIOUS
  <2>1. chunks \in Seq(Nat)
    <3>1. CASE chunks = <<>>
      BY <3>1, EmptySeq, Zenon
    <3>2. CASE chunks \in Results
      BY <3>2, ResultsAssumption
    <3> QED
      BY <3>1, <3>2 DEF IInv, Shape, Values
  <2>2. bad \subseteq Things
    BY DEF IInv, BadRight, NothingGivenBackTwice, Things
  <2>3. pc \in Unfailed => held \subseteq Things /\ st = "ok"
    BY DEF IInv, Shape, Control, HeldUnfailed, Unfailed, File, Grown, Contents, Things
  <2>4. pc \in Ending \cup {"idle", "crashed", "reply"} => held \subseteq Things
    BY DEF IInv, Shape, Values, HeldUnfailed, HeldEnding, Ending, FailedWith, SinkThings,
           File, Grown, Contents, Things
  <2>5. /\ pc \in {"idle", "crashed", "reply"} \cup Unfailed \cup Ending
        /\ mode \in {"file", "buffer"} /\ st \in {"ok", "error"}
        /\ k \in 0 .. Len(chunks) /\ rows \in Nat
        /\ allocator \in BOOLEAN /\ file_ptr \in BOOLEAN /\ unclosed \in BOOLEAN
    BY DEF IInv, Shape, Values, Control
  <2> QED
    BY <2>1, <2>2, <2>3, <2>4, <2>5 DEF TypeOK, Unfailed, Ending
<1> QED
  BY <1>1, Invariance, PTL

------------------------------------------------------------------------------
\* The rows that are reported

(* Total is the sum that starts with 0 and adds one chunk after another.   *)
LEMMA TotalIs ==
  ASSUME NEW r \in Seq(Nat)
  PROVE  /\ Total(r, 0) = 0
         /\ \A n \in 0 .. Len(r) : Total(r, n) \in Nat
         /\ \A n \in 1 .. Len(r) : Total(r, n) = Total(r, n - 1) + r[n]
<1> DEFINE Size(m) == IF m \in 1 .. Len(r) THEN r[m] ELSE 0
           F == [x \in Nat \X Nat |-> x[1] + Size(x[2])]
<1>1. F \in [Nat \X Nat -> Nat]
  OBVIOUS
<1>2. PICK f : Follows(f, F, 0, Nat)
  <2>1. Rule(F, 0, Nat)
    BY <1>1 DEF Rule
  <2> QED
    BY <2>1, Recursion
<1>8. /\ f \in [Nat -> Nat] /\ f[0] = 0
      /\ \A m \in Nat : f[m + 1] = F[<<f[m], m + 1>>]
  BY <1>2 DEF Follows
<1>3. ASSUME NEW m \in 1 .. Len(r) PROVE f[m] = f[m - 1] + r[m]
  <2>1. m - 1 \in Nat /\ m - 1 + 1 = m /\ m \in Nat
    BY LenProperties
  <2>4. f[m - 1] \in Nat
    BY <1>8, <2>1
  <2>2. f[m] = F[<<f[m - 1], m>>]
    BY <1>8, <2>1
  <2>3. <<f[m - 1], m>> \in Nat \X Nat
    BY <2>1, <2>4
  <2> QED
    BY <2>2, <2>3
<1> HIDE DEF F
<1>4. ASSUME NEW n \in 0 .. Len(r) PROVE Total(r, n) = f[n]
  <2> DEFINE Sums(g) == g = [m \in 0 .. n |-> IF m = 0 THEN 0 ELSE g[m - 1] + r[m]]
             h == [m \in 0 .. n |-> f[m]]
             sum == CHOOSE g : Sums(g)
  <2>1. n \in Nat
    OBVIOUS
  <2>2. ASSUME NEW m \in 0 .. n PROVE h[m] = IF m = 0 THEN 0 ELSE h[m - 1] + r[m]
    <3>1. CASE m = 0
      BY <1>8, <3>1
    <3>2. CASE m # 0
      <4>1. m \in 1 .. Len(r) /\ m - 1 \in 0 .. n
        BY <3>2
      <4> QED
        BY <1>3, <3>2, <4>1
    <3> QED
      BY <3>1, <3>2
  <2>3. Sums(h)
    BY <2>2
  <2>4. Sums(sum)
    <3> HIDE DEF Sums, h
    <3> QED
      BY <2>3
  <2>5. sum[0] = 0 /\ \A m \in 1 .. n : sum[m] = sum[m - 1] + r[m]
    <3> HIDE DEF sum
    <3>1. \A m \in 0 .. n : sum[m] = IF m = 0 THEN 0 ELSE sum[m - 1] + r[m]
      BY <2>4
    <3> QED
      BY <2>1, <3>1
  <2>6. Total(r, n) = sum[n]
    BY DEF Total
  <2> HIDE DEF sum
  <2>7. GoOnAlike(sum, f, n)
    BY <1>3, <1>8, <2>1, <2>5 DEF GoOnAlike
  <2>8. AlikeUpTo(sum, f, n)
    BY <2>7, Alike
  <2> QED
    BY <2>1, <2>6, <2>8 DEF AlikeUpTo
<1>5. /\ Len(r) \in Nat
      /\ \A n \in 1 .. Len(r) : n \in 0 .. Len(r) /\ n - 1 \in 0 .. Len(r)
  OBVIOUS
<1>6. \A n \in 0 .. Len(r) : Total(r, n) \in Nat
  BY <1>8, <1>4
<1>7. 0 \in 0 .. Len(r)
  BY <1>5
<1> QED
  BY <1>8, <1>3, <1>4, <1>5, <1>6, <1>7

(* The rows counted are those of the chunks fetched; they are reported     *)
(* when all of them are.                                                   *)
RowsSoFar ==
  /\ rows = Total(chunks, k)
  /\ pc \in Unfailed \cup {"finish"} => rows_written = 0
  /\ st = "error" /\ mode = "file" => rows_written = 0
  /\ pc \in {"writer_reset", "cleanup", "return", "reply"} /\ st = "ok" =>
       rows_written = rows /\ k = Len(chunks)

Counts == RowsSoFar /\ RowsReported

LEMMA ChunksType == ASSUME Values PROVE chunks \in Seq(Nat)
<1>1. CASE chunks = <<>>
  BY <1>1, EmptySeq, Zenon
<1>2. CASE chunks \in Results
  BY <1>2, ResultsAssumption
<1> QED
  BY <1>1, <1>2 DEF Values

(* Steps that neither count nor report.                                    *)
LEMMA CountsStay ==
  ASSUME Counts, UNCHANGED <<mode, chunks, k, rows, rows_written, replies>>,
         st' = st \/ (st' = "error" /\ (pc \in Unfailed \cup {"finish"} \/ mode = "buffer")),
         pc' \in Unfailed \cup {"finish"} => pc \in Unfailed \cup {"finish"},
         pc' \in {"writer_reset", "cleanup", "return", "reply"} /\ st' = "ok" =>
           pc \in {"writer_reset", "cleanup", "return", "reply"}
  PROVE  Counts'
<1>1. RowsSoFar'
  BY DEF Counts, RowsSoFar
<1>2. RowsReported'
  BY DEF Counts, RowsReported
<1> QED
  BY <1>1, <1>2 DEF Counts

(* A call of the internal function or of nanoarrow that fails.             *)
LEMMA FailState ==
  ASSUME NEW things, NEW more, NEW next, Fail(things, more, next)
  PROVE  st' = "error" /\ pc' = next
  BY DEF Fail

(* A step of an export that neither fetches a chunk nor ends the stream.   *)
Others ==
  \/ OpenFile \/ RunQuery \/ QueryFails \/ Columns \/ Metadata \/ OutOfMemory
  \/ ToSchema \/ InitStream \/ InitWriter \/ WriteSchema \/ InitView
  \/ Convert \/ WriteChunk \/ EndOfChunks \/ ResetWriter \/ Cleanup \/ CopyOut

LEMMA OthersStay ==
  ASSUME IInv, Counts, Others
  PROVE  Counts'
<1> USE DEF request, cursor, Acquire, Unfailed
<1>1. pc \in {"fetch", "convert", "write"} => st = "ok"
  BY DEF IInv, Shape, Control
<1>2. UNCHANGED <<mode, chunks, k, rows, rows_written, replies>>
  BY DEF Others, OpenFile, RunQuery, QueryFails, Columns, Metadata, OutOfMemory, ToSchema,
         InitStream, InitWriter, WriteSchema, InitView, Convert, WriteChunk, EndOfChunks,
         ResetWriter, Cleanup, CopyOut
<1>3. CASE OpenFile \/ RunQuery \/ QueryFails \/ Columns \/ Metadata \/ OutOfMemory \/ ToSchema
  <2>1. /\ pc \in Unfailed /\ pc' \in Unfailed \cup {"return"}
        /\ st' = st \/ st' = "error"
        /\ pc' = "return" => st' = "error"
    BY <1>3, FailState DEF OpenFile, RunQuery, QueryFails, Columns, Metadata, OutOfMemory,
         ToSchema
  <2> QED
    BY <1>2, <2>1, CountsStay
<1>4. CASE InitStream \/ InitWriter \/ WriteSchema \/ InitView
  <2>1. /\ pc \in Unfailed /\ pc' \in Unfailed \cup {"cleanup", "writer_reset"}
        /\ st' = st \/ st' = "error"
        /\ pc' \in {"cleanup", "writer_reset"} => st' = "error"
    BY <1>4, FailState DEF InitStream, InitWriter, WriteSchema, InitView, EncodeFails,
         WriteFails, FileFails, BufferFails
  <2> QED
    BY <1>2, <2>1, CountsStay
<1>5. CASE Convert \/ WriteChunk \/ EndOfChunks
  <2>1. /\ pc \in Unfailed /\ pc' \in Unfailed \cup {"finish"}
        /\ st' = st \/ st' = "error"
    BY <1>5, FailState DEF Convert, WriteChunk, EndOfChunks, ConvertFails, EncodeFails,
         WriteFails, FileFails, BufferFails
  <2> QED
    BY <1>2, <2>1, CountsStay
<1>6. CASE ResetWriter \/ Cleanup
  <2>1. /\ pc \in {"writer_reset", "cleanup"} /\ pc' \in {"cleanup", "return"}
        /\ st' = st
    BY <1>6 DEF ResetWriter, Cleanup
  <2> QED
    BY <1>2, <2>1, CountsStay
<1>7. CASE CopyOut
  <2>1. /\ pc = "return" /\ pc' \in {"crashed", "reply"} /\ mode = "buffer"
        /\ st' = st \/ st' = "error"
    BY <1>7, FailState DEF CopyOut
  <2> QED
    BY <1>2, <2>1, CountsStay
<1> QED
  BY <1>3, <1>4, <1>5, <1>6, <1>7 DEF Others

LEMMA FetchCounts ==
  ASSUME IInv, Counts, FetchChunk
  PROVE  Counts'
<1>1. chunks \in Seq(Nat) /\ k \in 0 .. Len(chunks) /\ k < Len(chunks)
  BY ChunksType DEF IInv, Shape, Values, FetchChunk
<1>2. k + 1 \in 1 .. Len(chunks) /\ k + 1 - 1 = k
  BY <1>1
<1>3. Total(chunks, k + 1) = Total(chunks, k) + chunks[k + 1]
  BY <1>1, <1>2, TotalIs
<1>4. rows' = Total(chunks', k')
  BY <1>3 DEF Counts, RowsSoFar, FetchChunk, Counted, request
<1>5. rows_written' = 0 /\ pc' = "convert"
  BY DEF Counts, RowsSoFar, FetchChunk, Unfailed
<1>6. RowsSoFar'
  BY <1>4, <1>5 DEF RowsSoFar
<1>7. RowsReported'
  BY DEF Counts, RowsReported, FetchChunk
<1> QED
  BY <1>6, <1>7 DEF Counts

(* The rows are reported when the end marker is written, in success only.  *)
LEMMA FinishCounts ==
  ASSUME IInv, Counts, FinishChunks
  PROVE  Counts'
<1>1. /\ UNCHANGED <<mode, chunks, k, rows, replies>> /\ pc = "finish"
      /\ rows_written = 0 /\ pc' = "writer_reset"
  BY FailState DEF Counts, RowsSoFar, FinishChunks, request, WriteFails, FileFails, BufferFails
<1>2. \/ st' = st /\ rows_written' = RowsWritten
      \/ st' = "error" /\ rows_written' = 0
  BY <1>1, FailState DEF FinishChunks, WriteFails, FileFails, BufferFails
<1>3. st = "ok" => k = Len(chunks)
  BY <1>1 DEF IInv, StreamSoFar
<1>4. st \in {"ok", "error"}
  BY DEF IInv, Shape, Values
<1>5. RowsSoFar'
  BY <1>1, <1>2, <1>3, <1>4 DEF RowsSoFar, Counts, RowsWritten, EndsStream, Unfailed
<1>6. RowsReported'
  BY <1>1 DEF Counts, RowsReported
<1> QED
  BY <1>5, <1>6 DEF Counts

LEMMA ReplyCounts ==
  ASSUME IInv, Counts, Reply
  PROVE  Counts'
<1> DEFINE answer == [mode |-> mode, chunks |-> chunks, st |-> st, rows |-> rows_written,
             msgs |-> IF mode = "file" THEN disk ELSE bytes,
             unclosed |-> unclosed, left |-> held \ {"error", "copy"}]
<1>1. /\ UNCHANGED <<mode, chunks, k, rows, rows_written, st>> /\ pc' = "idle"
      /\ pc \in {"reply", "return"} /\ replies' = Append(replies, answer)
  BY DEF Reply, request, cursor
<1>2. RowsSoFar'
  BY <1>1 DEF RowsSoFar, Counts, Unfailed
<1>3. /\ answer.st = "ok" => answer.rows = Total(answer.chunks, Len(answer.chunks))
      /\ answer.st = "error" /\ answer.mode = "file" => answer.rows = 0
  BY <1>1 DEF RowsSoFar, Counts
<1>4. replies \in Seq(Answer)
  BY DEF IInv, Shape, Values
<1> HIDE DEF answer
<1>5. ASSUME NEW n \in DOMAIN replies'
      PROVE  \/ n \in DOMAIN replies /\ replies'[n] = replies[n]
             \/ replies'[n] = answer
  BY <1>1, <1>4
<1>6. RowsReported'
  BY <1>3, <1>5 DEF Counts, RowsReported
<1> QED
  BY <1>2, <1>6 DEF Counts

(* duckdb_arrow_export.c:213-215 and the rows an application is told: all  *)
(* the rows of the result when the export succeeds, whatever the number    *)
(* and the sizes of its chunks, and none when a file export fails.         *)
THEOREM RowsReportedCorrect == Spec => []RowsReported
<1>1. Init => Counts
  <2>1. Total(<<>>, 0) = 0
    BY TotalIs, EmptySeq
  <2>2. Init => RowsSoFar
    BY <2>1 DEF Init, RowsSoFar, Unfailed
  <2>3. Init => RowsReported
    BY DEF Init, RowsReported
  <2> QED
    BY <2>2, <2>3 DEF Counts
<1>2. IInv /\ Counts /\ [Next]_vars => Counts'
  <2> SUFFICES ASSUME IInv, Counts, [Next]_vars PROVE Counts'
    OBVIOUS
  <2>1. ASSUME NEW m \in {"file", "buffer"}, NEW r \in Results, Call(m, r) PROVE Counts'
    <3>1. /\ chunks' = r /\ k' = 0 /\ rows' = 0 /\ rows_written' = 0 /\ st' = "ok"
          /\ pc' \in {"fopen", "query"} /\ UNCHANGED replies
      BY <2>1 DEF Call
    <3>2. Total(r, 0) = 0
      <4>1. r \in Seq(Nat)
        BY ResultsAssumption
      <4> QED
        BY <4>1, TotalIs
    <3>3. RowsSoFar'
      BY <3>1, <3>2 DEF RowsSoFar
    <3>4. RowsReported'
      BY <3>1 DEF Counts, RowsReported
    <3> QED
      BY <3>3, <3>4 DEF Counts
  <2>2. CASE UNCHANGED vars
    BY <2>2, CountsStay DEF vars
  <2>3. CASE Step
    BY <2>3, OthersStay, FetchCounts, FinishCounts, ReplyCounts DEF Step, Others
  <2> QED
    BY <2>1, <2>2, <2>3 DEF Next
<1>3. Counts => RowsReported
  BY DEF Counts
<1> QED
  BY <1>1, <1>2, <1>3, Invariance, PTL DEF Spec
==============================================================================
