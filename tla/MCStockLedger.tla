----------------------------- MODULE MCStockLedger -----------------------------
(***************************************************************************)
(* Finite instances of StockLedger.                                        *)
(***************************************************************************)
EXTENDS StockReports

Entry(page, p, in, out, moved) ==
    [page |-> page, period |-> p, figs |-> [in |-> in, out |-> out, moved |-> moved]]

\* Whole days (the Night sheets of three dates): stock moves on the first, a
\* transfer is typed (or not) on the Offline page of the second, the third is
\* only carried into.
ThreeDays == {Entry("ONLINE", 2, 0, 0, 0), Entry("ONLINE", 2, 0, 0, 1),
              Entry("OFFLINE", 4, 0, 0, 0), Entry("OFFLINE", 4, 2, 0, 0),
              Entry("ONLINE", 6, 0, 0, 0)}

\* Two whole days, for the runs in which counts and locks meet.
TwoDays == {Entry("ONLINE", 2, 0, 0, 0), Entry("ONLINE", 2, 0, 0, 1),
            Entry("OFFLINE", 4, 2, 0, 0)}

\* Two dates by shift: the Morning and the Night of the first, the Morning of the
\* second, and no Offline row on the first.
TwoDaysByShift == {Entry("ONLINE", 1, 0, 0, 1),
                   Entry("ONLINE", 2, 0, 0, 0), Entry("ONLINE", 2, 0, 0, 1),
                   Entry("OFFLINE", 3, 2, 0, 0)}
=============================================================================
