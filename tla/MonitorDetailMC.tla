----------------------------- MODULE MonitorDetailMC -----------------------------
(***************************************************************************)
(* A small tree of tasks for MonitorDetail.                                *)
(***************************************************************************)
EXTENDS MonitorDetail

CONSTANT j1

MCIds == {<<"a">>, <<"a", "b">>, <<"a", "c">>, <<"a", "b", "d">>}
MCTaskOf == [j \in {j1} |-> <<"a", "b">>]
================================================================================
