------------------------------ MODULE MCDayFinish ------------------------------
(***************************************************************************)
(* Finite instances of DayFinish.                                          *)
(***************************************************************************)
EXTENDS DayFinish

\* Two figures that a report can tell apart, one of them below zero.
SomeStocks == {-1, 1}

\* One period, with an admin's closes.
BothPages == {1} \X Pages
OneDay == {[date |-> <<1>>, slots |-> BothPages, counts |-> {}, close |-> TRUE, drive |-> FALSE]}
=============================================================================
