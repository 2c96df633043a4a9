------------------------------- MODULE MCCharts -------------------------------
(* Two charts, and a specification with a name that has no value.          *)
EXTENDS Charts

Two == {[sql |-> "q1", spec |-> <<"type", "dot", "x", "a">>],
        [sql |-> "q2", spec |-> <<"type", "dot">>],
        [sql |-> "q2", spec |-> <<"type">>]}
===============================================================================
