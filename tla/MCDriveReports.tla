----------------------------- MODULE MCDriveReports -----------------------------
(***************************************************************************)
(* Finite instances of DriveReports.                                       *)
(***************************************************************************)
EXTENDS DriveReports

SomeStocks == {-1, 1}

Day(date, slots, counts, close, drive) ==
    [date |-> date, slots |-> slots, counts |-> counts, close |-> close, drive |-> drive]

\* One period with an admin's closes; the two shifts of a date; two dates; counts of
\* the day before a page's entries, the other page's too, and one beside them; and a
\* page of one period whose report goes to Drive.
ON(p) == <<p, "ONLINE">>
OFF(p) == <<p, "OFFLINE">>
SomeDays ==
    {Day(<<1, 2>>, {ON(1), OFF(1)}, {}, TRUE, FALSE),
     Day(<<1, 1>>, {ON(1), ON(2)}, {}, FALSE, FALSE),
     Day(<<1, 2>>, {ON(1), ON(2), OFF(2)}, {}, FALSE, FALSE),
     Day(<<1, 2>>, {ON(2)}, {ON(1), OFF(1)}, FALSE, FALSE),
     Day(<<1, 2>>, {ON(2)}, {ON(2)}, FALSE, FALSE),
     Day(<<1, 2>>, {ON(2)}, {}, FALSE, TRUE)}
=============================================================================
