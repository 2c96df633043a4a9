-------------------------------- MODULE Charts --------------------------------
(***************************************************************************)
(* Charts in a window: plotShow.aplf opens a page in the interpreter's     *)
(* browser, the page connects and asks for its data, and the callback      *)
(* plotShowWebSocket.aplf, which the interpreter runs for every event of   *)
(* the window, exports a query and sends the bytes.  What the callback     *)
(* knows of the window is in plotCtx.apln, one for all windows.            *)
(*                                                                         *)
(* The browser, the delivery of events and the export (ArrowExport's) are  *)
(* taken as they should be: the page runs, every event arrives, in order.  *)
(***************************************************************************)
EXTENDS Integers, Sequences

CONSTANTS
  Names,        \* the names plotShow looks for that are defined where it looks
  Origin,       \* where the interpreter counts from; init.aplf:2 sets it to 0
  Connections,  \* the connections charts are shown for, 0 for a failed one
  Queries,      \* what plotShow is asked for: SQL and a flat specification
  Marks,        \* the kinds of plot the library in the page has
  MaxShows      \* bound on the number of calls of plotShow

VARIABLES
  ctx,      \* plotCtx: connection, query and WebSocket
  open,     \* the connections not disconnected
  window,   \* the window called dbplot: what it was asked for, where its page is
  events,   \* the events the interpreter has not delivered
  want,     \* the chart last asked for with a specification in pairs
  shows     \* the number of calls of plotShow

vars == <<ctx, open, window, events, want, shows>>

NoChart == [con |-> 0, sql |-> ""]

NoWindow == [con |-> 0, sql |-> "", mark |-> "", page |-> "none"]

Init ==
  /\ ctx = [con |-> 0, sql |-> "", wsid |-> ""]
  /\ open = Connections \ {0}
  /\ window = NoWindow /\ events = <<>> /\ want = NoChart /\ shows = 0
-------------------------------------------------------------------------------
(* What the interpreter's functions compute.                               *)

(* k of a vector, counted from Origin.                                     *)
Pick(k, vector) == vector[k + 1 - Origin]

(* Whether a vector of words occurs in an array; there is no occurrence in *)
(* an array of lower rank, and what is enclosed is of rank 0.              *)
Enclosed(array) == [rank |-> 0, words |-> <<array>>]

OccursIn(word, array) ==
  array.rank >= 1 /\ \E k \in DOMAIN array.words : array.words[k] = word

(* plotSpecJson: n pairs reshaped to two rows of n, the names and the      *)
(* values; the value a name is given, if it is one.                        *)
SpecValue(spec, name) ==
  LET n == Len(spec) \div 2
      at == {k \in 1 .. n : spec[k] = name}
  IN IF at = {} THEN "" ELSE spec[n + CHOOSE k \in at : \A j \in at : j <= k]
-------------------------------------------------------------------------------
(* Without these names plotShow signals before it does anything (8-13):    *)
(* one of its own namespace, and a function of api.                        *)
Available == {"HTMLRenderer", "duckdb_export_query_arrow_ipc_buffer"} \subseteq Names

(* plotShow assigns plotCtx, checks the specification, and makes a window  *)
(* in the place of the last.  A page without a type of its own is a barY.  *)
Show(con, q) ==
  /\ ctx' = [con |-> con, sql |-> q.sql, wsid |-> ""]
  /\ IF Len(q.spec) % 2 # 0
       THEN UNCHANGED <<window, events>>
       ELSE LET type == SpecValue(q.spec, "type")
            IN /\ window' = [con |-> con, sql |-> q.sql, page |-> "loaded",
                             mark |-> IF type = "" THEN "barY" ELSE type]
               /\ events' = <<>>

(* A specification that is not of pairs asks for no chart: the call        *)
(* signals (plotSpecJson.aplf:3-5).                                        *)
PlotShow ==
  /\ shows < MaxShows
  /\ shows' = shows + 1
  /\ \E con \in Connections, q \in Queries :
       /\ want' = IF Len(q.spec) % 2 = 0 THEN [con |-> con, sql |-> q.sql] ELSE want
       /\ \/ Available /\ Show(con, q)
          \/ ~Available /\ UNCHANGED <<ctx, window, events>>
  /\ UNCHANGED open

(* An event is the window, the name of the event, the WebSocket, the data. *)
Event(name, data) == <<"dbplot", name, "ws", data>>

PageConnects ==
  /\ window.page = "loaded"
  /\ window' = [window EXCEPT !.page = "connecting"]
  /\ events' = Append(events, Event("WebSocketUpgrade", "url"))
  /\ UNCHANGED <<ctx, open, want, shows>>

PageAsks ==
  /\ window.page = "connected"
  /\ window' = [window EXCEPT !.page = "asked"]
  /\ events' = Append(events, Event("WebSocketReceive", [rank |-> 1, words |-> <<"cmd", "ready">>]))
  /\ UNCHANGED <<ctx, open, want, shows>>

Asks(args) ==
  /\ Pick(2, args) = "WebSocketReceive"
  /\ ctx.con # 0 /\ ctx.sql # ""
  /\ OccursIn("ready", Enclosed(Pick(4, args)))

(* What the page makes of bytes, which it draws if the library has such a  *)
(* plot, and of a text, which it drops.                                    *)
Drawn(sql) == IF window.mark \in Marks /\ sql = window.sql THEN "shown" ELSE "wrong"

(* The whole callback.  The upgrade needs no answer of its own: with any   *)
(* answer the page is connected.  An export fails when its connection is   *)
(* gone, or for reasons of its own.                                        *)
Callback ==
  /\ events # <<>>
  /\ events' = Tail(events)
  /\ LET args == Head(events)
     IN /\ ctx' = IF Pick(2, args) = "WebSocketUpgrade"
                    THEN [ctx EXCEPT !.wsid = Pick(3, args)] ELSE ctx
        /\ \/ /\ Asks(args)
              /\ ctx.con \in open
              /\ window' = [window EXCEPT !.page = Drawn(ctx.sql)]
           \/ /\ Asks(args)
              /\ window' = [window EXCEPT !.page = "told"]
           \/ /\ ~Asks(args)
              /\ window' = [window EXCEPT !.page = IF @ = "connecting" THEN "connected" ELSE @]
  /\ UNCHANGED <<open, want, shows>>

Disconnect ==
  /\ \E con \in open : open' = open \ {con}
  /\ UNCHANGED <<ctx, window, events, want, shows>>

Next == PlotShow \/ PageConnects \/ PageAsks \/ Callback \/ Disconnect

(* The page runs its script and the interpreter delivers events without    *)
(* anyone's help; nobody has to show a chart or to disconnect.             *)
Fairness == WF_vars(PageConnects) /\ WF_vars(PageAsks) /\ WF_vars(Callback)

Spec == Init /\ [][Next]_vars /\ Fairness
-------------------------------------------------------------------------------
ChartsAskedFor == [con : Connections, sql : {q.sql : q \in Queries}]

Answered(w) ==
  window.con = w.con /\ window.sql = w.sql /\ window.page \in {"shown", "told"}

(* plotShow.aplf:2, "Show an Observable Plot chart in HTMLRenderer for     *)
(* aggregated SQL results": the chart last asked for comes to be shown,    *)
(* or the error of its export does, unless its connection is not open; a   *)
(* call that signals for its specification takes nothing from the one      *)
(* before it.  Violated: plotShow signals in every session.                *)
ChartShown ==
  \A w \in ChartsAskedFor : want = w ~> (want # w \/ w.con \notin open \/ Answered(w))
===============================================================================
