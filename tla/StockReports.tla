----------------------------- MODULE StockReports -----------------------------
(***************************************************************************)
(* What the reading pages show of a product's ledger: the opening a sheet  *)
(* previews, the day's sheet of the Daily Report (Morning and Night added  *)
(* together), the stock of a date in the Consolidated view, the dashboard  *)
(* and the days-of-stock list, and the movement of a date in the Weekly    *)
(* and Monthly Monitoring.  Each is computed by code of its own from the   *)
(* same rows; the properties say when they agree.                          *)
(***************************************************************************)
EXTENDS StockLedger

MorningOf(d) == 2 * d - 1
Dates == {Day(p) : p \in Periods}
OnDate(page, d) == saved[page] \cap {MorningOf(d), NightOf(d)}

-----------------------------------------------------------------------------
(* getOpeningStocksForProducts: the opening of a period, by dates             *)

FirstOf(page, d) == Earliest(OnDate(page, d))
LastOf(page, d) == Latest(OnDate(page, d))

\* Mutant of Predecessor: a Night does not look at its own date's Morning.
PredecessorByDate(page, p) ==
    LET earlier == {Day(q) : q \in {r \in saved[page] : Day(r) < Day(p)}}
    IN {LastOf(page, e) : e \in {f \in earlier : \A g \in earlier : g <= f}}

\* The same day's Morning for a Night, else the last sheet of the latest
\* earlier date; a set of one period, or none.
Predecessor(page, p) ==
    LET d == Day(p)
        earlier == {Day(q) : q \in {r \in saved[page] : Day(r) < d}}
    IN IF p = NightOf(d) /\ MorningOf(d) \in saved[page] THEN {MorningOf(d)}
       ELSE {LastOf(page, e) : e \in {f \in earlier : \A g \in earlier : g <= f}}

\* The latest applied count of an earlier date wins over a predecessor that is
\* not of a later date; a product with neither starts at 0.
PreviewOpening(page, p, hidden) ==
    LET applied == CountsBefore(page, p, hidden)
        prior == Predecessor(page, p)
    IN IF applied # {} /\ \A q \in prior : Day(q) <= Day(Latest(applied))
       THEN counts[page][Latest(applied)].value
       ELSE IF prior # {} THEN rows[page][Latest(prior)].remaining ELSE 0

-----------------------------------------------------------------------------
(* The sheets and totals of a date                                            *)

Shown(page, p) == IF p \in saved[page] THEN rows[page][p] ELSE BlankRow

\* Mutant of Combined: the opening of the row that is kept, the Night's.
CombinedOnNight(page, d) ==
    LET last == rows[page][LastOf(page, d)]
        sum(f) == Shown(page, MorningOf(d))[f] + Shown(page, NightOf(d))[f]
    IN Closing(last.opening, sum("in"), sum("out"), sum("moved"))

\* combineSplitRows: the transfers and movements of both shifts on the opening
\* of the first; the closing is computed anew from them.
Combined(page, d) ==
    LET first == rows[page][FirstOf(page, d)]
        sum(f) == Shown(page, MorningOf(d))[f] + Shown(page, NightOf(d))[f]
    IN Closing(first.opening, sum("in"), sum("out"), sum("moved"))

\* What the day's sheet of the Daily Report closes at.  A day is split when any
\* product has a Morning row, so `split` may hold without one of this product.
SheetClosing(page, d, split) ==
    IF OnDate(page, d) = {}
    THEN PreviewOpening(page, IF split THEN MorningOf(d) ELSE NightOf(d), {})
    ELSE IF split THEN Combined(page, d) ELSE rows[page][NightOf(d)].remaining
Splits(page, d) == {split \in BOOLEAN : MorningOf(d) \in saved[page] => split}

\* Mutant of DayStock: a date without a row is taken for an empty shelf.
DayStockOfRows(page, d) ==
    IF OnDate(page, d) = {} THEN 0 ELSE rows[page][LastOf(page, d)].remaining

\* getTotalStocksGrid: the stock of a page on a date, Night before Morning; a
\* product without a row stands at what its Morning would open at.
DayStock(page, d) ==
    IF OnDate(page, d) = {}
    THEN PreviewOpening(page, MorningOf(d), {})
    ELSE rows[page][LastOf(page, d)].remaining
TotalStock(d) == DayStock("ONLINE", d) + DayStock("OFFLINE", d)

\* getManualCountGrid: the stock a count of a page would be measured against.
SystemStock(page, p) ==
    IF p \in saved[page] THEN rows[page][p].remaining ELSE PreviewOpening(page, p, {})

\* What a saved row should open at, of the counts its first save could see (the
\* expected opening) and of all of them; nothing is expected of a first row.
Expected(page, p, hidden) ==
    IF CountsBefore(page, p, hidden) = {} /\ Predecessor(page, p) = {} THEN {}
    ELSE {PreviewOpening(page, p, hidden)}

\* Mutant of OpeningBreak: a row that an applied audit reached is flagged.
OpeningBreakGated(page, p) ==
    /\ p \in saved[page]
    /\ \E expected \in Expected(page, p, rows[page][p].missed) :
            rows[page][p].opening # expected

\* openingBreakFor: the audit page flags a row that opens at neither.
OpeningBreak(page, p) ==
    /\ p \in saved[page]
    /\ \E expected \in Expected(page, p, rows[page][p].missed) :
            rows[page][p].opening # expected
    /\ rows[page][p].opening \notin Expected(page, p, {})

\* buildPeriodMonitoring over one date: production and returns less what went
\* out, of both pages and shifts (OnlineMovement, OfflineMovement); transfers
\* are not part of it.
Flow(d) ==
    Shown("ONLINE", MorningOf(d)).moved + Shown("ONLINE", NightOf(d)).moved
      + Shown("OFFLINE", MorningOf(d)).moved + Shown("OFFLINE", NightOf(d)).moved

-----------------------------------------------------------------------------
(* Properties *)

\* What a sheet previews for a row that is not saved is what saving it stores,
\* and what the audit page expects of a saved row is what the walk would give
\* it: the batched lookup by dates and the lookup of one row agree.
PreviewIsCarry ==
    \A page \in Pages : \A p \in Periods :
        /\ PreviewOpening(page, p, {}) = UngatedCarry(page, p)
        /\ PreviewOpening(page, p, rows[page][p].missed) = GatedCarry(page, p)

\* A row whose opening may differ from what carries into it: it was imported,
\* an admin has been asked or refused, or the walk is about to reach it.
OpeningExcused(page, p) ==
    \/ rows[page][p].manual
    \/ HeldOpening(page, p) \in requests
    \/ p \in declined[page]
    \/ NextOnWalk(page, p)

\* The Daily Report does not contradict itself: a page's sheet, its closing
\* computed from both shifts, closes at the stock its totals show, unless both
\* shifts are saved and the Night's opening is excused.
ReportClosesAtTotal ==
    \A page \in Pages : \A d \in Dates : \A split \in Splits(page, d) :
        \/ SheetClosing(page, d, split) = DayStock(page, d)
        \/ /\ OnDate(page, d) = {MorningOf(d), NightOf(d)}
           /\ OpeningExcused(page, NightOf(d))

\* The audit of a day's last sheet measures against the stock its totals show,
\* and flags no opening but those that are excused: an applied audit does not
\* make the rows it reached, or those it passed over, look broken.
AuditIsExplained ==
    \A page \in Pages :
        /\ \A d \in Dates : SystemStock(page, NightOf(d)) = DayStock(page, d)
        /\ \A p \in Periods : OpeningBreak(page, p) => OpeningExcused(page, p)

\* The date opens at what the date before it shows: none of its rows is excused
\* or passed over by a publish, and no count of the date before was applied.
OpensAtDayBefore(page, d) ==
    /\ \A p \in OnDate(page, d) :
        ~OpeningExcused(page, p) /\ rows[page][p].missed = {}
    /\ \A c \in Periods : Day(c) = d - 1 => counts[page][c].standing # "applied"

\* The total stock shown moves from one date to the next by exactly what the
\* monitoring reports for that date: transfers, mirrored on both pages and held
\* while one is finished, create nothing and lose nothing in any report.
StockMovesByFlow ==
    \A d \in Dates :
        (\A page \in Pages : OpensAtDayBefore(page, d))
            => TotalStock(d) = TotalStock(d - 1) + Flow(d)
=============================================================================
