------------------------------- MODULE Session -------------------------------
(***************************************************************************)
(* Databases, connections and configurations: init, config, createConfig,  *)
(* setConfig, destroyConfig, getConfigFlag, open, openExt, connect, query, *)
(* interrupt, disconnect and close of db/.  Each hands C objects to the    *)
(* application as numbers, 0 standing for a failure, and keeps nothing     *)
(* itself.                                                                 *)
(*                                                                         *)
(* The application is the one testPhase1.aplf:18-35 shows: it makes the    *)
(* calls in any order on whatever it holds, uses nothing it has given      *)
(* back, and does not open a database with a configuration that is 0       *)
(* because it could not be made.  A 0 from any other call it passes on, as *)
(* docs/getting-started.md:39-47 does.                                     *)
(***************************************************************************)
EXTENDS Integers, Sequences, FiniteSets

CONSTANTS
  Pairs,          \* name and value of an option of a configuration
  Refused,        \* the pairs duckdb_set_config refuses
  PairLists,      \* the arguments of config
  Flags,          \* what duckdb_config_count answers
  MaxObjects,     \* bound on the C objects made
  MaxHeld,        \* bound on what the application holds at one time
  MaxSettings,    \* bound on what setConfig is called for, of one object
  Malformed,      \* an item of a pair list that is not a pair
  Unset           \* what an output pointer holds that C did not write to

ASSUME PairsAssumption ==
  /\ Malformed \notin Pairs
  /\ Refused \subseteq Pairs
  /\ PairLists \subseteq Seq(Pairs \cup {Malformed})

ASSUME NumbersAssumption ==
  /\ Flags \in Nat /\ MaxObjects \in Nat /\ MaxHeld \in Nat /\ MaxSettings \in Nat
  /\ Unset \notin Nat

VARIABLES
  ready,      \* init has run
  objs,       \* the C objects ever made: kind, whether alive, the pairs set
  held,       \* the application's variables: kind, handle or 0, pairs asked for
  call,       \* the function that runs, with its locals
  strays,     \* objects a function held when an APL error ended it
  undefined,  \* C functions called with what their description rules out
  reply       \* what was answered other than a handle

vars == <<ready, objs, held, call, strays, undefined, reply>>

Var(kind, h, wish) == [kind |-> kind, h |-> h, wish |-> wish]

NoCall == [fn |-> "none", h |-> 0, wish |-> <<>>, todo |-> <<>>]

Init ==
  /\ ready = FALSE /\ objs = <<>> /\ held = {} /\ call = NoCall
  /\ strays = {} /\ undefined = {} /\ reply = "none"

Idle == call.fn = "none"

CanMake == ready /\ Len(objs) < MaxObjects

CanHold == Cardinality(held) < MaxHeld

Keep(v) == held' = held \cup {v}
------------------------------------------------------------------------------
(* The C API.                                                              *)

Alive(kind, h) == h \in DOMAIN objs /\ objs[h].kind = kind /\ objs[h].live

Made(kind, settings) ==
  Append(objs, [kind |-> kind, live |-> TRUE, settings |-> settings])

Gone(h) == [objs EXCEPT ![h].live = FALSE]

Calls(fn, allowed) ==
  undefined' = IF allowed THEN undefined ELSE undefined \cup {fn}
------------------------------------------------------------------------------
(* What the functions make of what a C call returned, and their guards.    *)

AnswerFaulty(failed, out) == out

Answer(failed, out) == IF failed THEN 0 ELSE out

StopsAtFaulty(p) == FALSE

StopsAt(p) == p \in Refused

AfterRefusalFaulty(h) == h

AfterRefusal(h) == 0

TextReadFaulty(text) == objs

TextRead(text) == IF text = 0 THEN objs ELSE Gone(text)

GuardedFaulty(h) == FALSE

Guarded(h) == h = 0

InRange(i) == i >= 0 /\ i < Flags
------------------------------------------------------------------------------
InitLibrary ==
  /\ Idle /\ ~ready
  /\ ready' = TRUE
  /\ UNCHANGED <<objs, held, call, strays, undefined, reply>>

(* Without null, open and openExt run init without the folder it needs;    *)
(* the others find no api.                                                 *)
TooEarly ==
  /\ Idle /\ ~ready
  /\ reply' = "raised"
  /\ UNCHANGED <<ready, objs, held, call, strays, undefined>>

------------------------------------------------------------------------------
\* config.aplf

ConfigCreated ==
  /\ Idle /\ CanMake /\ CanHold
  /\ objs' = Made("config", <<>>)
  /\ \E list \in PairLists :
       call' = [fn |-> "config", h |-> Len(objs) + 1, wish |-> list, todo |-> list]
  /\ UNCHANGED <<ready, held, strays, undefined, reply>>

ConfigNotCreated ==
  /\ Idle /\ ready /\ CanHold
  /\ Keep(Var("config", Answer(TRUE, Unset), <<>>))
  /\ reply' = "none"
  /\ UNCHANGED <<ready, objs, call, strays, undefined>>

InPairs == call.fn = "config" /\ call.todo # <<>>

SetPair ==
  /\ InPairs /\ Head(call.todo) # Malformed
  /\ ~StopsAt(Head(call.todo))
  /\ Calls("duckdb_set_config", Alive("config", call.h))
  /\ objs' = IF Head(call.todo) \in Refused THEN objs
             ELSE [objs EXCEPT ![call.h].settings = Append(@, Head(call.todo))]
  /\ call' = [call EXCEPT !.todo = Tail(@)]
  /\ UNCHANGED <<ready, held, strays, reply>>

PairRefused ==
  /\ InPairs /\ Head(call.todo) # Malformed
  /\ StopsAt(Head(call.todo))
  /\ Calls("duckdb_destroy_config", Alive("config", call.h))
  /\ objs' = Gone(call.h)
  /\ Keep(Var("config", AfterRefusal(call.h), <<>>))
  /\ call' = NoCall /\ reply' = "none"
  /\ UNCHANGED <<ready, strays>>

(* name value<-pair ends in a LENGTH ERROR.                                *)
PairRaises ==
  /\ InPairs /\ Head(call.todo) = Malformed
  /\ strays' = strays \cup {call.h}
  /\ call' = NoCall /\ reply' = "raised"
  /\ UNCHANGED <<ready, objs, held, undefined>>

ConfigReturns ==
  /\ call.fn = "config" /\ call.todo = <<>>
  /\ Keep(Var("config", call.h, call.wish))
  /\ call' = NoCall /\ reply' = "none"
  /\ UNCHANGED <<ready, objs, strays, undefined>>

------------------------------------------------------------------------------
\* createConfig.aplf, setConfig.aplf, getConfigFlag.aplf

CreateConfig ==
  /\ Idle /\ CanMake /\ CanHold
  /\ objs' = Made("config", <<>>)
  /\ Keep(Var("config", Len(objs) + 1, <<>>))
  /\ reply' = "none"
  /\ UNCHANGED <<ready, call, strays, undefined>>

SetConfig ==
  /\ Idle
  /\ \E v \in held, p \in Pairs :
       /\ v.kind = "config" /\ v.h # 0 /\ Len(v.wish) < MaxSettings
       /\ Calls("duckdb_set_config", Alive("config", v.h))
       /\ \/ /\ p \in Refused
             /\ reply' = "error"
             /\ UNCHANGED <<objs, held>>
          \/ /\ p \notin Refused
             /\ objs' = [objs EXCEPT ![v.h].settings = Append(@, p)]
             /\ held' = (held \ {v}) \cup {[v EXCEPT !.wish = Append(@, p)]}
             /\ reply' = "ok"
  /\ UNCHANGED <<ready, call, strays>>

GetConfigFlag ==
  /\ Idle /\ ready
  /\ \E i \in -1 .. Flags :
       IF InRange(i)
         THEN reply' = "ok" /\ Calls("duckdb_get_config_flag", i \in 0 .. Flags - 1)
         ELSE reply' = "error" /\ UNCHANGED undefined
  /\ UNCHANGED <<ready, objs, held, call, strays>>

------------------------------------------------------------------------------
\* open.aplf, openExt.aplf

(* What openExt can be given: a configuration, or 0 to ask for defaults.   *)
Configs == {v \in held : v.kind = "config" /\ v.h # 0} \cup {Var("config", 0, <<>>)}

Opened ==
  /\ Idle /\ CanMake /\ CanHold
  /\ \E v \in Configs :
       /\ Calls("duckdb_open_ext", v.h = 0 \/ Alive("config", v.h))
       /\ objs' = Made("database", IF v.h = 0 THEN <<>> ELSE objs[v.h].settings)
       /\ Keep(Var("database", Answer(FALSE, Len(objs) + 1), v.wish))
  /\ reply' = "none"
  /\ UNCHANGED <<ready, call, strays>>

OpenFails ==
  /\ Idle /\ ready /\ CanHold
  /\ Keep(Var("database", Answer(TRUE, Unset), <<>>))
  /\ reply' = "none"
  /\ UNCHANGED <<ready, objs, call, strays, undefined>>

(* openExt alone receives a text with the failure, which is the caller's   *)
(* to free; without one the reply is the same as open's.                   *)
OpenExtFails ==
  /\ Idle /\ CanMake /\ CanHold
  /\ \E v \in Configs :
       /\ Calls("duckdb_open_ext", v.h = 0 \/ Alive("config", v.h))
       /\ \E text \in {0, Len(objs) + 1} :
            /\ objs' = IF text = 0 THEN objs ELSE Made("text", <<>>)
            /\ call' = [fn |-> "openExt", h |-> text, wish |-> <<>>, todo |-> <<>>]
  /\ UNCHANGED <<ready, held, strays, reply>>

ReportOpenError ==
  /\ call.fn = "openExt"
  /\ Calls("duckdb_free", call.h = 0 \/ Alive("text", call.h))
  /\ objs' = TextRead(call.h)
  /\ Keep(Var("database", Answer(TRUE, Unset), <<>>))
  /\ call' = NoCall /\ reply' = "none"
  /\ UNCHANGED <<ready, strays>>

------------------------------------------------------------------------------
\* connect.aplf, query.aplf:3-5, interrupt.aplf

Connect ==
  /\ Idle /\ CanMake /\ CanHold
  /\ \E v \in held :
       /\ v.kind = "database"
       /\ Calls("duckdb_connect", v.h = 0 \/ Alive("database", v.h))
       /\ \/ /\ Alive("database", v.h)
             /\ objs' = Made("connection", <<>>)
             /\ Keep(Var("connection", Answer(FALSE, Len(objs) + 1), <<>>))
          \/ /\ Keep(Var("connection", Answer(TRUE, Unset), <<>>))
             /\ UNCHANGED objs
  /\ reply' = "none"
  /\ UNCHANGED <<ready, call, strays>>

Query ==
  /\ Idle
  /\ \E v \in held :
       /\ v.kind = "connection"
       /\ IF Guarded(v.h)
            THEN reply' = "Connection is closed!" /\ UNCHANGED undefined
            ELSE reply' = "ok" /\ Calls("duckdb_query", Alive("connection", v.h))
  /\ UNCHANGED <<ready, objs, held, call, strays>>

Interrupt ==
  /\ Idle
  /\ \E v \in held :
       /\ v.kind = "connection"
       /\ Calls("duckdb_interrupt", v.h = 0 \/ Alive("connection", v.h))
  /\ reply' = "ok"
  /\ UNCHANGED <<ready, objs, held, call, strays>>

------------------------------------------------------------------------------
\* destroyConfig.aplf, disconnect.aplf, close.aplf

(* C destroys the object and clears the pointer it is given, which is a    *)
(* copy: the application has to forget the handle itself, and does.        *)
GiveBack(kind, fn) ==
  /\ Idle
  /\ \E v \in held :
       /\ v.kind = kind
       /\ Calls(fn, v.h = 0 \/ Alive(kind, v.h))
       /\ objs' = IF v.h = 0 THEN objs ELSE Gone(v.h)
       /\ held' = held \ {v}
  /\ reply' = "ok"
  /\ UNCHANGED <<ready, call, strays>>

DestroyConfig == GiveBack("config", "duckdb_destroy_config")
Disconnect == GiveBack("connection", "duckdb_disconnect")
Close == GiveBack("database", "duckdb_close")

Next ==
  \/ InitLibrary \/ TooEarly
  \/ ConfigCreated \/ ConfigNotCreated \/ SetPair \/ PairRefused \/ PairRaises
  \/ ConfigReturns \/ CreateConfig \/ SetConfig \/ DestroyConfig \/ GetConfigFlag
  \/ Opened \/ OpenFails \/ OpenExtFails \/ ReportOpenError \/ Close
  \/ Connect \/ Query \/ Interrupt \/ Disconnect

Spec == Init /\ [][Next]_vars
------------------------------------------------------------------------------
Kinds == {"config", "database", "connection"}

Settings == Seq(Pairs)

TypeOK ==
  /\ ready \in BOOLEAN
  /\ objs \in Seq([kind : Kinds \cup {"text"}, live : BOOLEAN, settings : Settings])
  /\ held \subseteq [kind : Kinds, h : 0 .. Len(objs), wish : Settings]
  /\ call \in [fn : {"none", "config", "openExt"}, h : 0 .. Len(objs),
               wish : Seq(Pairs \cup {Malformed}), todo : Seq(Pairs \cup {Malformed})]
  /\ strays \subseteq DOMAIN objs

(* A configuration has every setting that was asked for or is none at all, *)
(* and a database the application holds was opened with exactly the        *)
(* settings asked for, whatever failed and was tried again on the way      *)
(* (config.aplf:11-18, openExt.aplf:11).                                   *)
OpenedAsAsked ==
  \A v \in held : v.kind # "connection" /\ v.h # 0 => objs[v.h].settings = v.wish

(* No C object is forgotten: each that is alive is in a variable of the    *)
(* application, in the function that runs, or was in one that an APL error *)
(* ended.  Error texts and refused configurations are the ones no variable *)
(* ever receives (config.aplf:15, openExt.aplf:16).                        *)
NothingForgotten ==
  \A h \in DOMAIN objs :
    objs[h].live => h = call.h \/ h \in strays \/ \E v \in held : v.h = h

(* An application that keeps to the order of testPhase1 makes C do nothing *)
(* undefined: no function passes on a handle that is gone, destroys twice, *)
(* queries a connection that was never made, or reads an option out of     *)
(* range.                                                                  *)
NothingUndefined == undefined = {}

(* What the application holds is alive until it gives it back itself, and  *)
(* no two of its variables hold the same object.                           *)
HeldIsAlive ==
  \A v \in held : v.h # 0 =>
    /\ Alive(v.kind, v.h)
    /\ \A w \in held : w.h = v.h => w = v
==============================================================================
