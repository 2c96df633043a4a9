--------------------------- MODULE Session_proofs ---------------------------
(***************************************************************************)
(* What an application holds is alive, is held once and was opened as      *)
(* asked, C does nothing undefined and no C object is forgotten: for all   *)
(* pair lists, any number of objects and any order of calls and failures.  *)
(*                                                                         *)
(* These facts hold together or not at all.  C is never given a handle     *)
(* that is gone because the application holds none, which needs that no    *)
(* other variable and no running function shares a handle that is given    *)
(* back; that a running function has exactly what it holds is Owns.        *)
(***************************************************************************)
EXTENDS Session, TLAPS

Object == [kind : Kinds \cup {"text"}, live : BOOLEAN, settings : Settings]

(* The function that runs: config holds a configuration with the pairs     *)
(* taken so far, in order, and openExt an error text or none.  No variable *)
(* of the application has either.                                          *)
Owns ==
  /\ call.fn = "none" => call.h = 0
  /\ call.fn = "config" => /\ Alive("config", call.h)
                           /\ Len(objs[call.h].settings) + Len(call.todo) = Len(call.wish)
                           /\ \A k \in DOMAIN objs[call.h].settings :
                                objs[call.h].settings[k] = call.wish[k]
                           /\ \A k \in DOMAIN call.todo :
                                call.todo[k] = call.wish[Len(objs[call.h].settings) + k]
  /\ call.fn = "openExt" => call.h = 0 \/ Alive("text", call.h)
  /\ call.h # 0 => \A v \in held : v.h # call.h

IInv == /\ TypeOK /\ Owns /\ HeldIsAlive /\ OpenedAsAsked
        /\ NothingForgotten /\ NothingUndefined

(* A new object comes last and leaves the others as they are.              *)
LEMMA MadeFacts ==
  ASSUME objs \in Seq(Object), NEW kind \in Kinds \cup {"text"}, NEW s \in Settings
  PROVE  /\ Made(kind, s) \in Seq(Object)
         /\ Len(objs) \in Nat
         /\ Len(Made(kind, s)) = Len(objs) + 1
         /\ DOMAIN Made(kind, s) = 1 .. Len(objs) + 1
         /\ DOMAIN objs = 1 .. Len(objs)
         /\ Made(kind, s)[Len(objs) + 1] = [kind |-> kind, live |-> TRUE, settings |-> s]
         /\ \A h \in 1 .. Len(objs) : Made(kind, s)[h] = objs[h]
  BY DEF Made, Object

(* Destroying one object changes nothing but its being alive.              *)
LEMMA GoneFacts ==
  ASSUME objs \in Seq(Object), NEW h \in DOMAIN objs
  PROVE  /\ Gone(h) \in Seq(Object)
         /\ Len(Gone(h)) = Len(objs)
         /\ DOMAIN Gone(h) = DOMAIN objs
         /\ Gone(h)[h].live = FALSE
         /\ \A k \in DOMAIN objs : /\ k # h => Gone(h)[k] = objs[k]
                                   /\ Gone(h)[k].kind = objs[k].kind
                                   /\ Gone(h)[k].settings = objs[k].settings
<1>1. Len(objs) \in Nat /\ DOMAIN objs = 1 .. Len(objs)
  OBVIOUS
<1>2. Gone(h) = [k \in DOMAIN objs |->
                   IF k = h THEN [objs[h] EXCEPT !.live = FALSE] ELSE objs[k]]
  BY Zenon DEF Gone
<1>3. \A k \in 1 .. Len(objs) : objs[k] \in Object
  OBVIOUS
<1>4. [objs[h] EXCEPT !.live = FALSE] \in Object
  BY <1>1, <1>3 DEF Object
<1>5. Gone(h) \in Seq(Object)
  BY <1>1, <1>2, <1>3, <1>4
<1>6. Len(Gone(h)) = Len(objs) /\ DOMAIN Gone(h) = DOMAIN objs
  BY <1>1, <1>2
<1>7. objs[h] \in Object
  BY <1>1, <1>3
<1>8. /\ [objs[h] EXCEPT !.live = FALSE].live = FALSE
      /\ [objs[h] EXCEPT !.live = FALSE].kind = objs[h].kind
      /\ [objs[h] EXCEPT !.live = FALSE].settings = objs[h].settings
  BY <1>7 DEF Object
<1> QED
  BY <1>1, <1>2, <1>5, <1>6, <1>8

(* The application gets a variable for an object just made.                *)
LEMMA Obtained ==
  ASSUME IInv, Idle, NEW kind \in Kinds, NEW s \in Settings,
         objs' = Made(kind, s), held' = held \cup {Var(kind, Len(objs) + 1, s)},
         UNCHANGED <<ready, call, strays>>, NothingUndefined'
  PROVE  IInv'
<1> DEFINE n == Len(objs) + 1
           new == Var(kind, n, s)
<1>0. objs \in Seq(Object)
  BY DEF IInv, TypeOK, Object
<1>1. /\ objs' \in Seq(Object) /\ Len(objs) \in Nat /\ Len(objs') = n
      /\ DOMAIN objs' = 1 .. n /\ DOMAIN objs = 1 .. n - 1
      /\ objs'[n] = [kind |-> kind, live |-> TRUE, settings |-> s]
      /\ \A h \in 1 .. n - 1 : objs'[h] = objs[h]
  BY <1>0, MadeFacts
<1>2. new.kind = kind /\ new.h = n /\ new.wish = s
  BY DEF Var
<1>3. \A v \in held : v.h \in 0 .. n - 1
  BY DEF IInv, TypeOK
<1>4. new \in [kind : Kinds, h : 0 .. n, wish : Settings]
  BY <1>1 DEF Var
<1>5. \A v \in held : v \in [kind : Kinds, h : 0 .. n, wish : Settings]
  BY <1>1 DEF IInv, TypeOK
<1>6. \A v \in held' : v \in held \/ v = new
  OBVIOUS
<1>7. call.h = 0 /\ call.h \in 0 .. n
  BY <1>1 DEF IInv, Owns, Idle
<1> HIDE DEF new, n
<1>8. TypeOK'
  <2>1. call' \in [fn : {"none", "config", "openExt"}, h : 0 .. Len(objs'),
                   wish : Seq(Pairs \cup {Malformed}), todo : Seq(Pairs \cup {Malformed})]
    BY <1>1, <1>7 DEF IInv, TypeOK
  <2>2. held' \subseteq [kind : Kinds, h : 0 .. Len(objs'), wish : Settings]
    BY <1>1, <1>4, <1>5, <1>6
  <2>3. strays' \subseteq DOMAIN objs'
    BY <1>1 DEF IInv, TypeOK, n
  <2> QED
    BY <1>1, <2>1, <2>2, <2>3 DEF IInv, TypeOK, Object
<1>9. Owns'
  BY <1>7 DEF IInv, Owns, Idle
<1>10. HeldIsAlive'
  <2>1. \A v \in held : v.h # 0 => objs'[v.h] = objs[v.h] /\ v.h \in DOMAIN objs' /\ v.h # n
    BY <1>1, <1>3 DEF n
  <2> QED
    BY <1>1, <1>2, <1>6, <2>1 DEF IInv, HeldIsAlive, Alive, n
<1>11. OpenedAsAsked'
  BY <1>1, <1>2, <1>3, <1>6 DEF IInv, OpenedAsAsked
<1>12. NothingForgotten'
  <2>1. new \in held' /\ held \subseteq held'
    BY DEF new, n
  <2>2. \A h \in DOMAIN objs' : h = n \/ (h \in DOMAIN objs /\ objs'[h] = objs[h])
    BY <1>1 DEF n
  <2> QED
    BY <1>2, <2>1, <2>2 DEF IInv, NothingForgotten
<1> QED
  BY <1>8, <1>9, <1>10, <1>11, <1>12 DEF IInv

(* The application gets a 0, and no function runs afterwards.              *)
LEMMA GotNothing ==
  ASSUME IInv, Idle, NEW kind \in Kinds, held' = held \cup {Var(kind, 0, <<>>)},
         UNCHANGED <<ready, objs, call, strays>>, NothingUndefined'
  PROVE  IInv'
<1>1. Var(kind, 0, <<>>) \in [kind : Kinds, h : 0 .. Len(objs), wish : Settings]
  <2>1. Len(objs) \in Nat
    BY DEF IInv, TypeOK
  <2> QED
    BY <2>1 DEF Var, Settings
<1>2. TypeOK'
  BY <1>1 DEF IInv, TypeOK
<1>3. \A v \in held' : v \in held \/ v.h = 0
  BY DEF Var
<1>4. Owns' /\ HeldIsAlive' /\ OpenedAsAsked' /\ NothingForgotten'
  BY <1>3 DEF IInv, Owns, HeldIsAlive, OpenedAsAsked, NothingForgotten, Alive, Idle
<1> QED
  BY <1>2, <1>4 DEF IInv

(* The application gives an object, or a 0, back.                          *)
LEMMA GivenBack ==
  ASSUME IInv, NEW kind \in Kinds, NEW fn, GiveBack(kind, fn)
  PROVE  IInv'
<1>1. PICK v \in held : /\ v.kind = kind
                        /\ Calls(fn, v.h = 0 \/ Alive(kind, v.h))
                        /\ objs' = IF v.h = 0 THEN objs ELSE Gone(v.h)
                        /\ held' = held \ {v}
  BY DEF GiveBack
<1>2. objs \in Seq(Object) /\ UNCHANGED <<ready, call, strays>> /\ Idle
  BY DEF IInv, TypeOK, Object, GiveBack
<1>3. NothingUndefined'
  BY <1>1 DEF IInv, NothingUndefined, Calls, HeldIsAlive
<1>4. CASE v.h = 0
  <2>1. TypeOK' /\ Owns' /\ HeldIsAlive' /\ OpenedAsAsked'
    BY <1>1, <1>2, <1>4 DEF IInv, TypeOK, Owns, HeldIsAlive, OpenedAsAsked, Alive
  <2>2. NothingForgotten'
    <3>1. \A h \in DOMAIN objs : h # 0
      BY <1>2
    <3> QED
      BY <1>1, <1>2, <1>4, <3>1 DEF IInv, NothingForgotten
  <2> QED
    BY <1>3, <2>1, <2>2 DEF IInv
<1>5. CASE v.h # 0
  <2>0. v.h \in DOMAIN objs /\ objs' = Gone(v.h)
    BY <1>1, <1>5 DEF IInv, HeldIsAlive, Alive
  <2>1. /\ objs' \in Seq(Object) /\ Len(objs') = Len(objs)
        /\ DOMAIN objs' = DOMAIN objs /\ objs'[v.h].live = FALSE
        /\ \A k \in DOMAIN objs : /\ k # v.h => objs'[k] = objs[k]
                                  /\ objs'[k].settings = objs[k].settings
    BY <1>2, <2>0, GoneFacts
  <2>2. \A w \in held' : w \in held /\ (w.h # 0 => w.h # v.h)
    BY <1>1 DEF IInv, HeldIsAlive
  <2>3. TypeOK'
    BY <1>1, <1>2, <2>1 DEF IInv, TypeOK, Object
  <2>4. Owns'
    BY <1>2, <2>2 DEF IInv, Owns, Idle
  <2>5. HeldIsAlive'
    BY <2>1, <2>2 DEF IInv, HeldIsAlive, Alive
  <2>6. OpenedAsAsked'
    BY <2>1, <2>2 DEF IInv, OpenedAsAsked, HeldIsAlive, Alive
  <2>7. NothingForgotten'
    BY <1>1, <1>2, <2>1 DEF IInv, NothingForgotten
  <2> QED
    BY <1>3, <2>3, <2>4, <2>5, <2>6, <2>7 DEF IInv
<1> QED
  BY <1>4, <1>5

(* A call starts, with an object made for it or none; the application's    *)
(* variables are left alone.                                               *)
LEMMA Started ==
  ASSUME IInv, Idle, NEW kind \in Kinds \cup {"text"},
         UNCHANGED <<ready, held, strays>>, NothingUndefined',
         \/ call'.h = 0 /\ objs' = objs
         \/ call'.h = Len(objs) + 1 /\ objs' = Made(kind, <<>>),
         call' \in [fn : {"config", "openExt"}, h : 0 .. Len(objs) + 1,
                    wish : Seq(Pairs \cup {Malformed}), todo : Seq(Pairs \cup {Malformed})],
         call'.fn = "config" => kind = "config" /\ call'.h # 0 /\ call'.todo = call'.wish,
         call'.fn = "openExt" => kind = "text"
  PROVE  IInv'
<1> DEFINE n == Len(objs) + 1
<1>0. objs \in Seq(Object) /\ <<>> \in Settings /\ call.h = 0
  BY DEF IInv, TypeOK, Object, Settings, Owns, Idle
<1>1. /\ Made(kind, <<>>) \in Seq(Object) /\ Len(objs) \in Nat
      /\ Len(Made(kind, <<>>)) = n
      /\ DOMAIN Made(kind, <<>>) = 1 .. n /\ DOMAIN objs = 1 .. n - 1
      /\ Made(kind, <<>>)[n] = [kind |-> kind, live |-> TRUE, settings |-> <<>>]
      /\ \A h \in 1 .. n - 1 : Made(kind, <<>>)[h] = objs[h]
  <2> DEFINE s == <<>>
  <2>1. s \in Settings
    BY <1>0
  <2> HIDE DEF s
  <2>2. /\ Made(kind, s) \in Seq(Object) /\ Len(objs) \in Nat
        /\ Len(Made(kind, s)) = n
        /\ DOMAIN Made(kind, s) = 1 .. n /\ DOMAIN objs = 1 .. n - 1
        /\ Made(kind, s)[n] = [kind |-> kind, live |-> TRUE, settings |-> s]
        /\ \A h \in 1 .. n - 1 : Made(kind, s)[h] = objs[h]
    BY <1>0, <2>1, MadeFacts
  <2> QED
    BY <2>2 DEF s
<1>2. \A v \in held : v.h \in 0 .. n - 1
  BY DEF IInv, TypeOK
<1> HIDE DEF n
<1>3. CASE call'.h = 0 /\ objs' = objs
  <2>1. TypeOK'
    BY <1>1, <1>3 DEF IInv, TypeOK
  <2>2. Owns' /\ HeldIsAlive' /\ OpenedAsAsked' /\ NothingForgotten'
    BY <1>0, <1>3 DEF IInv, Owns, HeldIsAlive, OpenedAsAsked, NothingForgotten, Alive
  <2> QED
    BY <2>1, <2>2 DEF IInv
<1>4. CASE call'.h = n /\ objs' = Made(kind, <<>>)
  <2>0. \A v \in held : v.h # 0 => v.h \in DOMAIN objs' /\ v.h # n /\ objs'[v.h] = objs[v.h]
    BY <1>1, <1>2, <1>4 DEF n
  <2>1. TypeOK'
    <3>1. held \subseteq [kind : Kinds, h : 0 .. n, wish : Settings]
      BY <1>1 DEF IInv, TypeOK, n
    <3>2. strays \subseteq 1 .. n
      BY <1>1 DEF IInv, TypeOK, n
    <3> QED
      BY <1>1, <1>4, <3>1, <3>2 DEF IInv, TypeOK, Object, n
  <2>2. Owns'
    <3>1. n \in DOMAIN objs' /\ objs'[n] = [kind |-> kind, live |-> TRUE, settings |-> <<>>]
      BY <1>1, <1>4 DEF n
    <3>2. call'.h # 0 => \A v \in held' : v.h # call'.h
      BY <1>4, <2>0
    <3>3. call'.fn = "openExt" => Alive("text", call.h)'
      BY <1>4, <3>1 DEF Alive
    <3>4. CASE call'.fn = "config"
      <4>1. Alive("config", call.h)'
        BY <1>4, <3>1, <3>4 DEF Alive
      <4>2. objs'[call'.h].settings = <<>> /\ call'.todo = call'.wish
        BY <1>4, <3>1, <3>4
      <4>3. Len(call'.todo) \in Nat
        OBVIOUS
      <4>4. /\ Len(<<>>) + Len(call'.todo) = Len(call'.wish)
            /\ DOMAIN <<>> = {}
            /\ \A k \in DOMAIN call'.todo : call'.todo[k] = call'.wish[Len(<<>>) + k]
        BY <4>2, <4>3
      <4> QED
        BY <3>2, <3>4, <4>1, <4>2, <4>4 DEF Owns
    <3> QED
      BY <3>2, <3>3, <3>4 DEF Owns
  <2>3. HeldIsAlive'
    BY <2>0 DEF IInv, HeldIsAlive, Alive
  <2>4. OpenedAsAsked'
    BY <2>0 DEF IInv, OpenedAsAsked
  <2>5. NothingForgotten'
    <3>1. \A h \in DOMAIN objs' : h = n \/ (h \in DOMAIN objs /\ objs'[h] = objs[h] /\ h # 0)
      BY <1>1, <1>4 DEF n
    <3> QED
      BY <1>0, <1>4, <3>1 DEF IInv, NothingForgotten
  <2> QED
    BY <2>1, <2>2, <2>3, <2>4, <2>5 DEF IInv
<1> QED
  BY <1>3, <1>4 DEF n

(* A call ends with its object destroyed, and the application gets a 0.    *)
LEMMA EndedWithout ==
  ASSUME IInv, call.fn # "none", NEW kind \in Kinds,
         objs' = (IF call.h = 0 THEN objs ELSE Gone(call.h)), call' = NoCall,
         held' = held \cup {Var(kind, 0, <<>>)},
         UNCHANGED <<ready, strays>>, NothingUndefined'
  PROVE  IInv'
<1>0. objs \in Seq(Object) /\ Len(objs) \in Nat /\ (call.h # 0 => call.h \in DOMAIN objs)
  BY DEF IInv, TypeOK, Object
<1>1. /\ objs' \in Seq(Object) /\ Len(objs') = Len(objs) /\ DOMAIN objs' = DOMAIN objs
      /\ \A k \in DOMAIN objs : k # call.h => objs'[k] = objs[k]
      /\ call.h # 0 => objs'[call.h].live = FALSE
  BY <1>0, GoneFacts
<1>2. \A v \in held' : v \in held \/ v = Var(kind, 0, <<>>)
  OBVIOUS
<1>3. Var(kind, 0, <<>>) \in [kind : Kinds, h : 0 .. Len(objs), wish : Settings]
      /\ Var(kind, 0, <<>>).h = 0
  BY <1>0 DEF Var, Settings
<1>4. \A v \in held' : v.h # 0 => v \in held /\ v.h # call.h
  BY <1>2, <1>3 DEF IInv, Owns
<1>5. TypeOK'
  <2>1. call' \in [fn : {"none", "config", "openExt"}, h : 0 .. Len(objs),
                   wish : Seq(Pairs \cup {Malformed}), todo : Seq(Pairs \cup {Malformed})]
    BY <1>0 DEF NoCall
  <2> QED
    BY <1>1, <1>2, <1>3, <2>1 DEF IInv, TypeOK, Object
<1>6. Owns'
  BY DEF Owns, NoCall
<1>7. HeldIsAlive'
  BY <1>1, <1>4 DEF IInv, HeldIsAlive, Alive
<1>8. OpenedAsAsked'
  <2>1. \A v \in held : v.h # 0 => v.h \in DOMAIN objs
    BY DEF IInv, HeldIsAlive, Alive
  <2> QED
    BY <1>1, <1>4, <2>1 DEF IInv, OpenedAsAsked
<1>9. NothingForgotten'
  <2>1. \A h \in DOMAIN objs' : objs'[h].live => h # call.h /\ objs[h].live
    BY <1>0, <1>1
  <2> QED
    BY <1>1, <2>1 DEF IInv, NothingForgotten
<1> QED
  BY <1>5, <1>6, <1>7, <1>8, <1>9 DEF IInv

(* A pair more for one object, at the end, changes nothing else.           *)
LEMMA SetFacts ==
  ASSUME objs \in Seq(Object), NEW h \in DOMAIN objs, NEW p \in Pairs,
         objs' = [objs EXCEPT ![h].settings = Append(@, p)]
  PROVE  /\ objs' \in Seq(Object)
         /\ Len(objs') = Len(objs)
         /\ DOMAIN objs' = DOMAIN objs
         /\ objs'[h].settings = Append(objs[h].settings, p)
         /\ \A k \in DOMAIN objs : /\ k # h => objs'[k] = objs[k]
                                   /\ objs'[k].kind = objs[k].kind
                                   /\ objs'[k].live = objs[k].live
<1> DEFINE set == [objs[h] EXCEPT !.settings = Append(@, p)]
<1>1. Len(objs) \in Nat /\ DOMAIN objs = 1 .. Len(objs)
  OBVIOUS
<1>2. objs' = [k \in DOMAIN objs |-> IF k = h THEN set ELSE objs[k]]
  BY Zenon
<1>3. \A k \in 1 .. Len(objs) : objs[k] \in Object
  OBVIOUS
<1>4. objs[h] \in Object /\ objs[h].settings \in Seq(Pairs)
  BY <1>1, <1>3 DEF Object, Settings
<1>5. /\ set.settings = Append(objs[h].settings, p)
      /\ set.kind = objs[h].kind /\ set.live = objs[h].live
  BY <1>4 DEF Object
<1>6. set \in Object
  <2>1. Append(objs[h].settings, p) \in Settings
    BY <1>4 DEF Settings
  <2> QED
    BY <1>4, <2>1 DEF Object
<1> HIDE DEF set
<1>7. objs' \in Seq(Object)
  BY <1>1, <1>2, <1>3, <1>6
<1>8. Len(objs') = Len(objs) /\ DOMAIN objs' = DOMAIN objs
  BY <1>1, <1>2
<1> QED
  BY <1>1, <1>2, <1>5, <1>7, <1>8

(* config goes on to the next pair.                                        *)
LEMMA PairTaken == IInv /\ SetPair => IInv'
<1> SUFFICES ASSUME IInv, SetPair PROVE IInv'
  OBVIOUS
<1> DEFINE h == call.h
           p == Head(call.todo)
<1>1. /\ call.fn = "config" /\ call.todo # <<>> /\ p # Malformed /\ p \notin Refused
      /\ UNCHANGED <<ready, held, strays>>
      /\ call' = [call EXCEPT !.todo = Tail(@)]
      /\ objs' = [objs EXCEPT ![h].settings = Append(@, p)]
  BY DEF SetPair, InPairs, StopsAt
<1>2. /\ objs \in Seq(Object) /\ Alive("config", h)
      /\ call \in [fn : {"none", "config", "openExt"}, h : 0 .. Len(objs),
                   wish : Seq(Pairs \cup {Malformed}), todo : Seq(Pairs \cup {Malformed})]
  BY <1>1 DEF IInv, TypeOK, Object, Owns
<1>3. /\ call.todo \in Seq(Pairs \cup {Malformed}) /\ p \in Pairs /\ h \in DOMAIN objs
      /\ call'.fn = "config" /\ call'.h = h /\ call'.wish = call.wish
      /\ call'.todo = Tail(call.todo)
  BY <1>1, <1>2 DEF Alive
<1>4. /\ objs' \in Seq(Object) /\ Len(objs') = Len(objs) /\ DOMAIN objs' = DOMAIN objs
      /\ objs'[h].settings = Append(objs[h].settings, p)
      /\ \A k \in DOMAIN objs : /\ k # h => objs'[k] = objs[k]
                                /\ objs'[k].kind = objs[k].kind
                                /\ objs'[k].live = objs[k].live
  <2> HIDE DEF p, h
  <2>1. objs \in Seq(Object) /\ h \in DOMAIN objs /\ p \in Pairs
    BY <1>2, <1>3
  <2>2. objs' = [objs EXCEPT ![h].settings = Append(@, p)]
    BY <1>1
  <2> QED
    BY <2>1, <2>2, SetFacts
<1>5. h # 0 /\ \A v \in held : v.h # h
  <2>1. h # 0
    BY <1>2, <1>3
  <2> QED
    BY <2>1 DEF IInv, Owns
<1>6. NothingUndefined'
  BY <1>2 DEF IInv, NothingUndefined, SetPair, Calls
<1>7. Owns'
  <2> DEFINE s == objs[h].settings
             t == call.todo
  <2>0. objs[h] \in Object
    BY <1>2, <1>3
  <2>1. s \in Seq(Pairs) /\ Len(s) \in Nat /\ Len(t) \in Nat \ {0}
    <3>1. s \in Seq(Pairs)
      BY <2>0 DEF Object, Settings
    <3>2. t \in Seq(Pairs \cup {Malformed}) /\ t # <<>>
      BY <1>1, <1>3
    <3> HIDE DEF s, t
    <3> QED
      BY <3>1, <3>2
  <2>2. Len(s) + Len(t) = Len(call.wish)
    BY <1>1 DEF IInv, Owns
  <2>3. \A k \in DOMAIN s : s[k] = call.wish[k]
    BY <1>1 DEF IInv, Owns
  <2>4. \A k \in DOMAIN t : t[k] = call.wish[Len(s) + k]
    BY <1>1 DEF IInv, Owns
  <2> HIDE DEF s
  <2>5. /\ Len(Append(s, p)) = Len(s) + 1 /\ Len(Tail(t)) = Len(t) - 1
        /\ DOMAIN Append(s, p) = 1 .. Len(s) + 1 /\ DOMAIN s = 1 .. Len(s)
        /\ \A k \in 1 .. Len(s) : Append(s, p)[k] = s[k]
        /\ Append(s, p)[Len(s) + 1] = t[1]
        /\ DOMAIN Tail(t) = 1 .. Len(t) - 1 /\ DOMAIN t = 1 .. Len(t)
        /\ \A k \in 1 .. Len(t) - 1 : Tail(t)[k] = t[k + 1]
    BY <1>3, <2>1
  <2> HIDE DEF t
  <2>6. \A k \in DOMAIN Append(s, p) : Append(s, p)[k] = call.wish[k]
    BY <2>1, <2>3, <2>4, <2>5
  <2>7. \A k \in DOMAIN Tail(t) : Tail(t)[k] = call.wish[Len(Append(s, p)) + k]
    <3> SUFFICES ASSUME NEW k \in DOMAIN Tail(t)
                 PROVE  Tail(t)[k] = call.wish[Len(Append(s, p)) + k]
      OBVIOUS
    <3>1. k + 1 \in DOMAIN t /\ Tail(t)[k] = t[k + 1] /\ Len(s) + (k + 1) = Len(s) + 1 + k
      BY <2>1, <2>5
    <3> QED
      BY <2>4, <2>5, <3>1
  <2>8. Len(Append(s, p)) + Len(Tail(t)) = Len(call.wish)
    BY <2>1, <2>2, <2>5
  <2>9. Alive("config", h)'
    BY <1>2, <1>3, <1>4 DEF Alive
  <2>10. objs'[call'.h].settings = Append(s, p) /\ call'.todo = Tail(t)
    BY <1>3, <1>4 DEF s, t
  <2>11. call'.fn = "config" /\ call'.h = h /\ call'.wish = call.wish /\ held' = held
    BY <1>1, <1>3
  <2>12. Alive("config", call.h)'
    BY <2>9, <2>11 DEF Alive
  <2> HIDE DEF h, p
  <2> QED
    BY <1>5, <2>6, <2>7, <2>8, <2>10, <2>11, <2>12 DEF Owns
<1> HIDE DEF p, h
<1>8. TypeOK'
  <2>1. Tail(call.todo) \in Seq(Pairs \cup {Malformed})
    BY <1>1, <1>3
  <2> QED
    BY <1>1, <1>2, <1>4, <2>1 DEF IInv, TypeOK, Object
<1>9. HeldIsAlive' /\ OpenedAsAsked'
  <2>1. \A v \in held : v.h # 0 => v.h \in DOMAIN objs
    BY DEF IInv, HeldIsAlive, Alive
  <2> QED
    BY <1>1, <1>4, <1>5, <2>1 DEF IInv, HeldIsAlive, OpenedAsAsked, Alive
<1>10. NothingForgotten'
  BY <1>1, <1>3, <1>4 DEF IInv, NothingForgotten, h
<1> QED
  BY <1>6, <1>7, <1>8, <1>9, <1>10 DEF IInv

(* config returns what it made, with all that was asked for.               *)
LEMMA Returned == IInv /\ ConfigReturns => IInv'
<1> SUFFICES ASSUME IInv, ConfigReturns PROVE IInv'
  OBVIOUS
<1> DEFINE h == call.h
           new == Var("config", call.h, call.wish)
<1>1. /\ call.fn = "config" /\ call.todo = <<>> /\ call' = NoCall
      /\ held' = held \cup {new} /\ UNCHANGED <<ready, objs, strays, undefined>>
  BY DEF ConfigReturns, Keep
<1>2. /\ objs \in Seq(Object) /\ Len(objs) \in Nat /\ Alive("config", h)
      /\ call.wish \in Seq(Pairs \cup {Malformed}) /\ h \in 0 .. Len(objs)
  BY <1>1 DEF IInv, TypeOK, Object, Owns
<1>3. h # 0 /\ h \in DOMAIN objs /\ objs[h] \in Object
  BY <1>2 DEF Alive
<1>4. \A v \in held : v.h # h
  BY <1>3 DEF IInv, Owns
<1>5. call.wish = objs[h].settings /\ call.wish \in Settings
  <2> DEFINE s == objs[h].settings
  <2>1. s \in Seq(Pairs)
    BY <1>3 DEF Object, Settings
  <2>2. Len(s) + Len(<<>>) = Len(call.wish) /\ \A k \in DOMAIN s : s[k] = call.wish[k]
    BY <1>1 DEF IInv, Owns
  <2> HIDE DEF s
  <2>3. Len(s) = Len(call.wish) /\ DOMAIN s = 1 .. Len(s)
    BY <2>1, <2>2
  <2>4. s \in Seq(Pairs \cup {Malformed})
    BY <2>1
  <2>5. s = call.wish
    BY <1>2, <2>2, <2>3, <2>4
  <2> QED
    BY <2>1, <2>5 DEF s, Settings
<1>6. new.kind = "config" /\ new.h = h /\ new.wish = call.wish
      /\ new \in [kind : Kinds, h : 0 .. Len(objs), wish : Settings]
  BY <1>2, <1>5 DEF Var, Kinds
<1> HIDE DEF new, h
<1>7. \A v \in held' : v \in held \/ v = new
  BY <1>1
<1>8. TypeOK'
  <2>1. call' \in [fn : {"none", "config", "openExt"}, h : 0 .. Len(objs),
                   wish : Seq(Pairs \cup {Malformed}), todo : Seq(Pairs \cup {Malformed})]
    BY <1>1, <1>2 DEF NoCall
  <2> QED
    BY <1>1, <1>6, <1>7, <2>1 DEF IInv, TypeOK
<1>9. Owns'
  BY <1>1 DEF Owns, NoCall
<1>10. HeldIsAlive'
  BY <1>1, <1>2, <1>4, <1>6, <1>7 DEF IInv, HeldIsAlive, Alive
<1>11. OpenedAsAsked'
  BY <1>1, <1>5, <1>6, <1>7 DEF IInv, OpenedAsAsked, h
<1>12. NothingForgotten'
  <2>1. new \in held' /\ held \subseteq held'
    BY <1>1
  <2> QED
    BY <1>1, <1>6, <2>1 DEF IInv, NothingForgotten, h
<1> QED
  BY <1>1, <1>8, <1>9, <1>10, <1>11, <1>12 DEF IInv, NothingUndefined

(* setConfig, of a configuration the application holds.                    *)
LEMMA OptionSet == IInv /\ SetConfig => IInv'
<1> SUFFICES ASSUME IInv, SetConfig PROVE IInv'
  OBVIOUS
<1>1. PICK v \in held, p \in Pairs :
        /\ v.kind = "config" /\ v.h # 0
        /\ Calls("duckdb_set_config", Alive("config", v.h))
        /\ \/ UNCHANGED <<objs, held>>
           \/ /\ objs' = [objs EXCEPT ![v.h].settings = Append(@, p)]
              /\ held' = (held \ {v}) \cup {[v EXCEPT !.wish = Append(@, p)]}
  BY DEF SetConfig
<1>2. UNCHANGED <<ready, call, strays>> /\ Idle
  BY DEF SetConfig
<1>3. /\ Alive("config", v.h) /\ v.h \in DOMAIN objs /\ objs \in Seq(Object)
      /\ v \in [kind : Kinds, h : 0 .. Len(objs), wish : Settings]
  BY <1>1 DEF IInv, HeldIsAlive, Alive, TypeOK, Object
<1>4. NothingUndefined'
  BY <1>1, <1>3 DEF IInv, NothingUndefined, Calls
<1>5. CASE UNCHANGED <<objs, held>>
  <2>1. TypeOK' /\ Owns' /\ HeldIsAlive' /\ OpenedAsAsked' /\ NothingForgotten'
    BY <1>2, <1>5 DEF IInv, TypeOK, Owns, HeldIsAlive, OpenedAsAsked, NothingForgotten, Alive
  <2> QED
    BY <1>4, <2>1 DEF IInv
<1>6. CASE /\ objs' = [objs EXCEPT ![v.h].settings = Append(@, p)]
           /\ held' = (held \ {v}) \cup {[v EXCEPT !.wish = Append(@, p)]}
  <2> DEFINE h == v.h
             new == [v EXCEPT !.wish = Append(@, p)]
  <2>1. /\ new.kind = "config" /\ new.h = h /\ new.wish = Append(v.wish, p)
        /\ new \in [kind : Kinds, h : 0 .. Len(objs), wish : Settings]
    <3>1. Append(v.wish, p) \in Settings
      BY <1>3 DEF Settings
    <3> QED
      BY <1>1, <1>3, <3>1
  <2>2. h \in DOMAIN objs /\ h # 0 /\ Alive("config", h)
    BY <1>1, <1>3
  <2>3. v.wish = objs[h].settings
    BY <1>1 DEF IInv, OpenedAsAsked
  <2>4. \A w \in held : w.h = h => w = v
    BY <2>2 DEF IInv, HeldIsAlive
  <2>5. held' = (held \ {v}) \cup {new}
    BY <1>6
  <2>6. objs' = [objs EXCEPT ![h].settings = Append(@, p)]
    BY <1>6
  <2> HIDE DEF h, new
  <2>7. /\ objs' \in Seq(Object) /\ Len(objs') = Len(objs) /\ DOMAIN objs' = DOMAIN objs
        /\ objs'[h].settings = Append(objs[h].settings, p)
        /\ \A k \in DOMAIN objs : /\ k # h => objs'[k] = objs[k]
                                  /\ objs'[k].kind = objs[k].kind
                                  /\ objs'[k].live = objs[k].live
    BY <1>3, <2>2, <2>6, SetFacts
  <2>8. \A w \in held' : w = new \/ (w \in held /\ w.h # h)
    BY <2>4, <2>5
  <2>9. TypeOK'
    BY <1>2, <2>1, <2>7, <2>8 DEF IInv, TypeOK, Object
  <2>10. Owns'
    BY <1>2 DEF IInv, Owns, Idle
  <2>11. HeldIsAlive'
    BY <2>1, <2>2, <2>7, <2>8 DEF IInv, HeldIsAlive, Alive
  <2>12. OpenedAsAsked'
    <3>1. \A w \in held : w.h # 0 => w.h \in DOMAIN objs
      BY DEF IInv, HeldIsAlive, Alive
    <3> QED
      BY <2>1, <2>3, <2>7, <2>8, <3>1 DEF IInv, OpenedAsAsked
  <2>13. NothingForgotten'
    <3>1. new \in held' /\ \A w \in held : w # v => w \in held'
      BY <2>5
    <3> QED
      BY <1>2, <2>1, <2>7, <3>1 DEF IInv, NothingForgotten, h
  <2> QED
    BY <1>4, <2>9, <2>10, <2>11, <2>12, <2>13 DEF IInv
<1> QED
  BY <1>1, <1>5, <1>6

(* An APL error ends config; what it made is left behind.                  *)
LEMMA Raised == IInv /\ PairRaises => IInv'
<1> SUFFICES ASSUME IInv, PairRaises PROVE IInv'
  OBVIOUS
<1>1. /\ strays' = strays \cup {call.h} /\ call' = NoCall
      /\ UNCHANGED <<ready, objs, held, undefined>> /\ call.fn = "config"
  BY DEF PairRaises, InPairs
<1>2. call.h \in DOMAIN objs /\ Len(objs) \in Nat
  BY <1>1 DEF IInv, Owns, Alive, TypeOK
<1>3. TypeOK'
  <2>1. call' \in [fn : {"none", "config", "openExt"}, h : 0 .. Len(objs),
                   wish : Seq(Pairs \cup {Malformed}), todo : Seq(Pairs \cup {Malformed})]
    BY <1>1, <1>2 DEF NoCall
  <2> QED
    BY <1>1, <1>2, <2>1 DEF IInv, TypeOK
<1>4. Owns' /\ HeldIsAlive' /\ OpenedAsAsked' /\ NothingForgotten' /\ NothingUndefined'
  BY <1>1 DEF IInv, Owns, HeldIsAlive, OpenedAsAsked, NothingForgotten, NothingUndefined,
              Alive, NoCall
<1> QED
  BY <1>3, <1>4 DEF IInv

LEMMA Initially == Init => IInv
<1> SUFFICES ASSUME Init PROVE IInv
  OBVIOUS
<1>1. TypeOK
  <2>1. \A S : <<>> \in Seq(S)
    OBVIOUS
  <2>2. Len(<<>>) = 0 /\ DOMAIN <<>> = {}
    OBVIOUS
  <2>3. NoCall \in [fn : {"none", "config", "openExt"}, h : 0 .. 0,
                    wish : Seq(Pairs \cup {Malformed}), todo : Seq(Pairs \cup {Malformed})]
    BY <2>1 DEF NoCall
  <2> QED
    BY <2>1, <2>2, <2>3 DEF Init, TypeOK
<1>2. Owns /\ HeldIsAlive /\ OpenedAsAsked /\ NothingForgotten /\ NothingUndefined
  BY DEF Init, Owns, HeldIsAlive, OpenedAsAsked, NothingForgotten, NothingUndefined, NoCall
<1> QED
  BY <1>1, <1>2 DEF IInv

(* Each operation is one of the changes above, or changes none of the      *)
(* variables the invariant speaks of.                                      *)
LEMMA Inductive == IInv /\ [Next]_vars => IInv'
<1> SUFFICES ASSUME IInv, [Next]_vars PROVE IInv'
  OBVIOUS
<1> DEFINE Same == UNCHANGED <<objs, held, call, strays, undefined>> /\ ready' \in BOOLEAN
<1>0. objs \in Seq(Object) /\ Len(objs) \in Nat /\ undefined = {}
  BY DEF IInv, TypeOK, Object, NothingUndefined
<1>1. Same => IInv'
  BY DEF IInv, TypeOK, Owns, HeldIsAlive, OpenedAsAsked, NothingForgotten, NothingUndefined,
         Alive
<1>2. \A v \in held : v.h # 0 => Alive(v.kind, v.h)
  BY DEF IInv, HeldIsAlive
<1>3. CASE InitLibrary \/ TooEarly \/ UNCHANGED vars
  BY <1>1, <1>3 DEF InitLibrary, TooEarly, vars, IInv, TypeOK
<1>4. CASE GetConfigFlag
  <2>1. undefined' = undefined
    <3>1. PICK i \in -1 .. Flags :
            IF InRange(i)
              THEN Calls("duckdb_get_config_flag", i \in 0 .. Flags - 1)
              ELSE UNCHANGED undefined
      BY <1>4 DEF GetConfigFlag
    <3> QED
      BY <3>1, NumbersAssumption DEF InRange, Calls
  <2> QED
    BY <1>1, <1>4, <2>1 DEF GetConfigFlag, IInv, TypeOK
<1>5. CASE Query
  BY <1>1, <1>2, <1>5 DEF Query, Guarded, Calls, IInv, TypeOK
<1>6. CASE Interrupt
  BY <1>1, <1>2, <1>6 DEF Interrupt, Calls, IInv, TypeOK
<1>7. CASE ConfigCreated
  <2>1. PICK list \in PairLists :
          call' = [fn |-> "config", h |-> Len(objs) + 1, wish |-> list, todo |-> list]
    BY <1>7 DEF ConfigCreated
  <2>2. list \in Seq(Pairs \cup {Malformed})
    BY PairsAssumption
  <2>3. call' \in [fn : {"config", "openExt"}, h : 0 .. Len(objs) + 1,
                   wish : Seq(Pairs \cup {Malformed}), todo : Seq(Pairs \cup {Malformed})]
    BY <1>0, <2>1, <2>2
  <2>4. /\ call'.fn = "config" /\ call'.h = Len(objs) + 1 /\ call'.h # 0
        /\ call'.todo = call'.wish
    BY <1>0, <2>1
  <2>5. /\ Idle /\ objs' = Made("config", <<>>) /\ UNCHANGED <<ready, held, strays>>
        /\ NothingUndefined'
    BY <1>0, <1>7 DEF ConfigCreated, NothingUndefined
  <2> QED
    BY <2>3, <2>4, <2>5, Started DEF Kinds
<1>8. CASE OpenExtFails
  <2>1. PICK v \in Configs, text \in {0, Len(objs) + 1} :
          /\ Calls("duckdb_open_ext", v.h = 0 \/ Alive("config", v.h))
          /\ objs' = IF text = 0 THEN objs ELSE Made("text", <<>>)
          /\ call' = [fn |-> "openExt", h |-> text, wish |-> <<>>, todo |-> <<>>]
    BY <1>8 DEF OpenExtFails
  <2>2. call' \in [fn : {"config", "openExt"}, h : 0 .. Len(objs) + 1,
                   wish : Seq(Pairs \cup {Malformed}), todo : Seq(Pairs \cup {Malformed})]
    BY <1>0, <2>1
  <2>3. /\ call'.fn = "openExt"
        /\ \/ call'.h = 0 /\ objs' = objs
           \/ call'.h = Len(objs) + 1 /\ objs' = Made("text", <<>>)
    BY <1>0, <2>1
  <2>4. v.h = 0 \/ Alive("config", v.h)
    BY <1>2 DEF Configs, Var
  <2>5. Idle /\ UNCHANGED <<ready, held, strays>> /\ NothingUndefined'
    BY <1>0, <1>8, <2>1, <2>4 DEF OpenExtFails, Calls, NothingUndefined
  <2> QED
    BY <2>2, <2>3, <2>5, Started
<1>9. CASE ConfigNotCreated \/ OpenFails
  <2>1. PICK kind \in Kinds : held' = held \cup {Var(kind, 0, <<>>)}
    BY <1>9 DEF ConfigNotCreated, OpenFails, Keep, Answer, Kinds
  <2>2. Idle /\ UNCHANGED <<ready, objs, call, strays>> /\ NothingUndefined'
    BY <1>0, <1>9 DEF ConfigNotCreated, OpenFails, NothingUndefined
  <2> QED
    BY <2>1, <2>2, GotNothing
<1>10. CASE CreateConfig
  <2>1. /\ Idle /\ objs' = Made("config", <<>>)
        /\ held' = held \cup {Var("config", Len(objs) + 1, <<>>)}
        /\ UNCHANGED <<ready, call, strays>> /\ NothingUndefined'
    BY <1>0, <1>10 DEF CreateConfig, Keep, NothingUndefined
  <2>2. <<>> \in Settings /\ "config" \in Kinds
    BY DEF Settings, Kinds
  <2> QED
    BY <2>1, <2>2, Obtained
<1>11. CASE Opened
  <2>1. PICK v \in Configs :
          /\ Calls("duckdb_open_ext", v.h = 0 \/ Alive("config", v.h))
          /\ objs' = Made("database", IF v.h = 0 THEN <<>> ELSE objs[v.h].settings)
          /\ held' = held \cup {Var("database", Len(objs) + 1, v.wish)}
    BY <1>11 DEF Opened, Keep, Answer
  <2>2. v.h = 0 \/ Alive("config", v.h)
    BY <1>2 DEF Configs, Var
  <2>3. v.wish \in Settings /\ v.wish = IF v.h = 0 THEN <<>> ELSE objs[v.h].settings
    <3>1. CASE v = Var("config", 0, <<>>)
      BY <3>1 DEF Var, Settings
    <3>2. CASE v \in held /\ v.kind = "config" /\ v.h # 0
      BY <3>2 DEF IInv, TypeOK, OpenedAsAsked
    <3> QED
      BY <3>1, <3>2 DEF Configs
  <2>4. Idle /\ UNCHANGED <<ready, call, strays>> /\ NothingUndefined'
    BY <1>0, <1>11, <2>1, <2>2 DEF Opened, Calls, NothingUndefined
  <2>5. "database" \in Kinds
    BY DEF Kinds
  <2> QED
    BY <2>1, <2>3, <2>4, <2>5, Obtained
<1>12. CASE Connect
  <2>1. PICK v \in held :
          /\ v.kind = "database"
          /\ Calls("duckdb_connect", v.h = 0 \/ Alive("database", v.h))
          /\ \/ /\ objs' = Made("connection", <<>>)
                /\ held' = held \cup {Var("connection", Len(objs) + 1, <<>>)}
             \/ held' = held \cup {Var("connection", 0, <<>>)} /\ objs' = objs
    BY <1>12 DEF Connect, Keep, Answer
  <2>2. Idle /\ UNCHANGED <<ready, call, strays>> /\ NothingUndefined'
    BY <1>0, <1>2, <1>12, <2>1 DEF Connect, Calls, NothingUndefined
  <2>3. <<>> \in Settings /\ "connection" \in Kinds
    BY DEF Settings, Kinds
  <2>4. CASE /\ objs' = Made("connection", <<>>)
             /\ held' = held \cup {Var("connection", Len(objs) + 1, <<>>)}
    BY <2>2, <2>3, <2>4, Obtained
  <2>5. CASE held' = held \cup {Var("connection", 0, <<>>)} /\ objs' = objs
    BY <2>2, <2>3, <2>5, GotNothing
  <2> QED
    BY <2>1, <2>4, <2>5
<1>13. CASE PairRefused
  <2>1. Alive("config", call.h) /\ call.fn = "config" /\ call.h # 0
    BY <1>0, <1>13 DEF PairRefused, InPairs, IInv, Owns, Alive
  <2>2. /\ objs' = IF call.h = 0 THEN objs ELSE Gone(call.h)
        /\ call' = NoCall /\ held' = held \cup {Var("config", 0, <<>>)}
        /\ UNCHANGED <<ready, strays>> /\ NothingUndefined' /\ call.fn # "none"
    BY <1>0, <1>13, <2>1 DEF PairRefused, Keep, AfterRefusal, Calls, NothingUndefined
  <2>3. "config" \in Kinds
    BY DEF Kinds
  <2> QED
    BY <2>2, <2>3, EndedWithout
<1>14. CASE ReportOpenError
  <2>1. call.fn = "openExt" /\ (call.h = 0 \/ Alive("text", call.h))
    BY <1>14 DEF ReportOpenError, IInv, Owns
  <2>2. /\ objs' = IF call.h = 0 THEN objs ELSE Gone(call.h)
        /\ call' = NoCall /\ held' = held \cup {Var("database", 0, <<>>)}
        /\ UNCHANGED <<ready, strays>> /\ NothingUndefined' /\ call.fn # "none"
    BY <1>0, <1>14, <2>1 DEF ReportOpenError, Keep, TextRead, Answer, Calls, NothingUndefined
  <2>3. "database" \in Kinds
    BY DEF Kinds
  <2> QED
    BY <2>2, <2>3, EndedWithout
<1>15. CASE DestroyConfig \/ Disconnect \/ Close
  BY <1>15, GivenBack, Zenon DEF DestroyConfig, Disconnect, Close, Kinds
<1> QED
  BY <1>3, <1>4, <1>5, <1>6, <1>7, <1>8, <1>9, <1>10, <1>11, <1>12, <1>13, <1>14, <1>15,
     PairTaken, Returned, Raised, OptionSet
  DEF Next

LEMMA Invariance == Spec => []IInv
  BY Initially, Inductive, PTL DEF Spec

(* For every instance: a configuration has exactly the pairs asked for, in *)
(* order, or is none at all, and every database was opened with them.      *)
THEOREM OpenedAsAskedCorrect == Spec => []OpenedAsAsked
<1>1. IInv => OpenedAsAsked
  BY DEF IInv
<1> QED
  BY <1>1, Invariance, PTL

(* For every instance: what the application holds is alive and held once.  *)
THEOREM HeldIsAliveCorrect == Spec => []HeldIsAlive
<1>1. IInv => HeldIsAlive
  BY DEF IInv
<1> QED
  BY <1>1, Invariance, PTL

(* For every instance: no C function gets a handle that is gone.           *)
THEOREM NothingUndefinedCorrect == Spec => []NothingUndefined
<1>1. IInv => NothingUndefined
  BY DEF IInv
<1> QED
  BY <1>1, Invariance, PTL

(* For every instance: each live C object is held, or an APL error left it.*)
THEOREM NothingForgottenCorrect == Spec => []NothingForgotten
<1>1. IInv => NothingForgotten
  BY DEF IInv
<1> QED
  BY <1>1, Invariance, PTL

(* For every instance: the variables have their types.                     *)
THEOREM TypeCorrect == Spec => []TypeOK
<1>1. IInv => TypeOK
  BY DEF IInv
<1> QED
  BY <1>1, Invariance, PTL
=============================================================================
