--------------------------- MODULE MCAdministration ---------------------------
(***************************************************************************)
(* Finite instances of Administration.                                     *)
(***************************************************************************)
EXTENDS Administration

\* Releases against a month that is being closed, and corrections, of a page;
\* counts and their corrections with two pages; asks while two pages are finished and
\* unlocked.
SomeScopes ==
    { [parts |-> {"release", "month"}, pages |-> {"ONLINE"}, figure |-> 1, crashes |-> 1],
      [parts |-> {"correction", "month"}, pages |-> {"ONLINE"}, figure |-> 2, crashes |-> 1],
      [parts |-> {"correction", "count", "month"}, pages |-> Pages, figure |-> 1, crashes |-> 0],
      [parts |-> {"unlock request"}, pages |-> Pages, figure |-> 1, crashes |-> 0] }
=============================================================================
