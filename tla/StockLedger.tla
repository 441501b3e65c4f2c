----------------------------- MODULE StockLedger -----------------------------
(***************************************************************************)
(* The stock ledger of one product: its Online and Offline rows, one per   *)
(* period, the physical counts, the page locks, the pending correction     *)
(* requests and the carry-forward of remaining stock into later openings.  *)
(*                                                                         *)
(* A save, a publish, a revert and an approval each run in one database    *)
(* transaction that ends with propagateOpeningStock, a loop over the later *)
(* saved rows.  The loop is modelled one iteration per step: `walk[page]`  *)
(* is its cursor, and no other transaction starts before it has ended      *)
(* (the entry saves are SERIALIZABLE; what the weaker isolation of the     *)
(* others permits is the subject of module DayFinish).                     *)
(***************************************************************************)
EXTENDS StockMath, DayLock, FiniteSets

CONSTANTS
    Periods,        \* the periods of the run: 2*d - 1 is day d's Morning, 2*d its Night
    CountPeriods,   \* the periods a physical count may be saved for
    FinishPeriods,  \* the periods whose pages may be finished, closed and unlocked
    Entries,        \* what encoders may save: a sheet (page and period) and its figures,
                    \* the transfers in and out and the net of the other movements
    CountValues,    \* physical counts
    Imports,        \* opening stocks a CSV import may set
    FinishInOrder,  \* Settings > Entry Rules > "Finish days in order"
    MaxRequests     \* bound on correction requests pending at once

ASSUME PeriodsAssumption == Periods \subseteq Nat \ {0}
ASSUME SubPeriodsAssumption ==
    /\ CountPeriods \subseteq Periods
    /\ FinishPeriods \subseteq Periods
ASSUME FiguresAssumption ==
    /\ Entries \subseteq [page: Pages, period: Periods, figs: [in: Int, out: Int, moved: Int]]
    /\ CountValues \subseteq Nat
    /\ Imports \subseteq Int
ASSUME SettingsAssumption == FinishInOrder \in BOOLEAN /\ MaxRequests \in Nat

VARIABLES
    saved,     \* saved[page]: the periods with a saved row
    rows,      \* rows[page][p]: the row's figures (all zero when not saved)
    counts,    \* counts[page][p]: the physical count and its standing
    closures,  \* closures[p]: the period's lock
    requests,  \* correction requests still pending
    declined,  \* declined[page]: rows whose held opening an admin refused to change
    walk       \* walk[page]: the carry-forward loop in progress

vars == <<saved, rows, counts, closures, requests, declined, walk>>

-----------------------------------------------------------------------------
(* Periods *)

Day(p) == (p + 1) \div 2
NightOf(d) == 2 * d

-----------------------------------------------------------------------------
(* State *)

\* `missed`: the counts of earlier dates applied after this row was first
\* saved, that is, the ones a comparison of publishedAt with the row's
\* createdAt hides from it.  `manual` is the column openingManual.
Row == [opening: Int, in: Int, out: Int, moved: Int, remaining: Int,
        manual: BOOLEAN, missed: SUBSET Periods]
BlankRow == [opening |-> 0, in |-> 0, out |-> 0, moved |-> 0, remaining |-> 0,
             manual |-> FALSE, missed |-> {}]

\* A count is absent, a draft (saved, unpublished), published as an audit only
\* or published and applied to opening stock.  `batch` is the set of pages
\* whose counts the same publish released: one audit snapshot.
Standings == {"none", "draft", "audit", "applied"}
Count == [value: Nat, standing: Standings, batch: SUBSET Pages]
NoCount == [value |-> 0, standing |-> "none", batch |-> {}]

\* A request names one figure of one row; it leaves the set when it is decided,
\* or when the count it names is deleted (nothing can be applied to it then).
\* A held opening carries no value: it is re-derived when approved.
Transfers == {"in", "out"}
Figures == Transfers \cup {"moved"}
Request == [page: Pages, period: Periods, field: Figures \cup {"opening", "count"},
            value: Int]
HeldOpening(page, p) == [page |-> page, period |-> p, field |-> "opening", value |-> 0]

\* The loop's cursor and options.  `reach` is PropagateOptions.reachSaved,
\* `approved` the period of approvedRowId (0: none), `cascade` the choice the
\* approver made in runAsAdjustment.
Walk == [on: BOOLEAN, cursor: Nat, reach: BOOLEAN, approved: Nat, cascade: BOOLEAN]
NoWalk == [on |-> FALSE, cursor |-> 0, reach |-> FALSE, approved |-> 0, cascade |-> FALSE]
\* Mutant of WalkFrom: the walk starts after the next whole day.
WalkFromNextDay(cursor) == [NoWalk EXCEPT !.on = TRUE, !.cursor = cursor + 2]
WalkFrom(cursor) == [NoWalk EXCEPT !.on = TRUE, !.cursor = cursor]

\* No transaction is in progress.
Idle == \A page \in Pages : ~walk[page].on
Locked(page, p) == IsSideLocked(closures[p], page)

Init ==
    /\ saved = [page \in Pages |-> {}]
    /\ rows = [page \in Pages |-> [p \in Periods |-> BlankRow]]
    /\ counts = [page \in Pages |-> [p \in Periods |-> NoCount]]
    /\ closures = [p \in Periods |-> NoClosure]
    /\ requests = {}
    /\ declined = [page \in Pages |-> {}]
    /\ walk = [page \in Pages |-> NoWalk]

-----------------------------------------------------------------------------
(* Carry-forward: what a period opens at *)

Latest(S) == CHOOSE p \in S : \A q \in S : q <= p
Earliest(S) == CHOOSE p \in S : \A q \in S : p <= q

RowsBefore(page, p) == {q \in saved[page] : q < p}
RowsAfter(page, p) == {q \in saved[page] : q > p}

\* Counts a period may open from: applied, of an earlier date, not hidden.
CountsBefore(page, p, hidden) ==
    {c \in Periods \ hidden :
        counts[page][c].standing = "applied" /\ Day(c) < Day(p)}

\* A count as late as every earlier row wins, the latest of them if there are
\* several; else the latest earlier row's remaining stock carries; a product
\* with neither starts at 0.
CountsInForce(page, p, hidden) ==
    {c \in CountsBefore(page, p, hidden) : \A q \in RowsBefore(page, p) : Day(q) <= Day(c)}
Carry(page, p, hidden) ==
    IF CountsInForce(page, p, hidden) # {}
    THEN counts[page][Latest(CountsInForce(page, p, hidden))].value
    ELSE IF RowsBefore(page, p) # {}
         THEN rows[page][Latest(RowsBefore(page, p))].remaining
         ELSE 0

\* The two figures a saved row may settle at: the carry as it stood for the
\* row when it was first saved, and the carry a published audit gives it now.
GatedCarry(page, p) == Carry(page, p, rows[page][p].missed)
UngatedCarry(page, p) == Carry(page, p, {})
Follows(page, p) == rows[page][p].opening \in {GatedCarry(page, p), UngatedCarry(page, p)}

-----------------------------------------------------------------------------
(* Saving an entry: saveOnlineEntry and saveOfflineEntry, the two being the  *)
(* mirror image of each other (Online's transfers in are Offline's out).     *)

\* findUnfinishedEarlierPeriod: a page has a saved, unfinished row on a day
\* before p's, at or after the first day a closure was ever written for.
EarlierUnfinished(page, p) ==
    \E q \in saved[page], c \in Periods :
        /\ closures[c].exists
        /\ Day(c) <= Day(q) /\ Day(q) < Day(p)
        /\ ~Locked(page, q)

\* holdLockedTransfers: changed transfers wait while the other page is locked.
HeldTransfers(page, p, figs) ==
    {f \in Transfers : Locked(OtherPage(page), p) /\ figs[f] # rows[page][p][f]}
Kept(page, p, figs) ==
    [f \in Figures |-> IF f \in HeldTransfers(page, p, figs) THEN rows[page][p][f] ELSE figs[f]]

\* requestHeldTransfers: one pending request per figure, the newest value.
Filed(page, p, figs) ==
    {r \in requests : ~(r.page = page /\ r.period = p /\ r.field \in HeldTransfers(page, p, figs))}
    \cup {[page |-> page, period |-> p, field |-> f, value |-> figs[f]] :
            f \in HeldTransfers(page, p, figs)}

OpeningOf(page, p) ==
    IF p \in saved[page] THEN rows[page][p].opening ELSE UngatedCarry(page, p)

\* A row with these figures; what is not a figure stays as it was.
WithFigures(row, opening, figs) ==
    [row EXCEPT !.opening = opening, !.in = figs.in, !.out = figs.out, !.moved = figs.moved,
                !.remaining = Closing(opening, figs.in, figs.out, figs.moved)]

\* Mutant of MarkedImported: the next save of the row clears the flag.
MarkedByLastSave(row, typed) == [row EXCEPT !.manual = typed]

\* A typed opening (a CSV import's) is flagged, and stays flagged.
MarkedImported(row, typed) == [row EXCEPT !.manual = row.manual \/ typed]

\* Mutant of NoopSave: an unsaved row is taken for one that holds zeros.
NoopSaveOfAnyRow(page, p, opening, figs) ==
    WithFigures(rows[page][p], opening, figs) = rows[page][p]

\* isNoopSave: the save would write exactly what the row already holds.
NoopSave(page, p, opening, figs) ==
    p \in saved[page] /\ WithFigures(rows[page][p], opening, figs) = rows[page][p]

\* Mutant of Mirrored: in and out are not exchanged.
MirroredSameWay(page, p, figs) ==
    [in |-> figs.in, out |-> figs.out, moved |-> rows[OtherPage(page)][p].moved]

\* mirrorTransferToOffline / mirrorTransferToOnline: the other page's row takes
\* the same transfers, in and out exchanged; nothing else on it changes.  A row
\* that already agrees (an unsaved one holds zeros) is left alone.
Mirrored(page, p, figs) ==
    [in |-> figs.out, out |-> figs.in, moved |-> rows[OtherPage(page)][p].moved]
MirrorAgreesWith(page, p, figs) ==
    rows[OtherPage(page)][p].in = figs.out /\ rows[OtherPage(page)][p].out = figs.in

\* The row, its mirror, and the two carry-forward walks a save ends with.
WriteEntry(page, p, opening, typed, figs, cascade) ==
    LET other == OtherPage(page)
        mirror == ~MirrorAgreesWith(page, p, figs)
    IN /\ saved' = [saved EXCEPT ![page] = @ \cup {p},
                                 ![other] = IF mirror THEN @ \cup {p} ELSE @]
       /\ rows' = [rows EXCEPT
            ![page][p] = WithFigures(MarkedImported(@, typed), opening, figs),
            ![other][p] = IF mirror
                          THEN WithFigures(@, OpeningOf(other, p), Mirrored(page, p, figs))
                          ELSE @]
       /\ walk' = [q \in Pages |-> [WalkFrom(p) EXCEPT !.cascade = cascade]]

SaveEntry(page, p, opening, typed, figs) ==
    LET kept == Kept(page, p, figs)
    IN /\ Idle
       /\ ~Locked(page, p)
       /\ FinishInOrder => ~EarlierUnfinished(page, p)
       /\ requests' = Filed(page, p, figs)
       /\ \/ NoopSave(page, p, opening, kept) /\ UNCHANGED <<saved, rows, walk>>
          \/ /\ ~NoopSave(page, p, opening, kept)
             /\ WriteEntry(page, p, opening, typed, kept, FALSE)
       /\ UNCHANGED <<counts, closures, declined>>

-----------------------------------------------------------------------------
(* propagateOpeningStock: one action per way an iteration of its loop goes.  *)

Walking(page) == walk[page].on /\ (page = "OFFLINE" => ~walk["ONLINE"].on)
NextRow(page) == Earliest(RowsAfter(page, walk[page].cursor))
WalkCarry(page, n) ==
    IF walk[page].reach THEN UngatedCarry(page, n) ELSE GatedCarry(page, n)

\* Mutant of Settled: an applied audit is undone by the next ordinary walk.
SettledAtCarry(page, n) == rows[page][n].opening = WalkCarry(page, n)

\* The row already opens at what carries into it, or at what an applied audit
\* gives it, which an ordinary walk does not undo.
Settled(page, n) == rows[page][n].opening \in {WalkCarry(page, n), UngatedCarry(page, n)}

\* Mutant of HeldForCarry: it looks at isClosed, the lock of both pages.
HeldForClosedDay(page, n) ==
    n # walk[page].approved /\ ~walk[page].cascade /\ IsClosed(closures[n])

\* isLockedForCarry: a finished page is not rewritten, unless it is the row
\* being approved or the approver accepted the consequences.
HeldForCarry(page, n) ==
    n # walk[page].approved /\ ~walk[page].cascade /\ Locked(page, n)

EndOfChain(page) ==
    /\ Walking(page)
    /\ RowsAfter(page, walk[page].cursor) = {}
    /\ walk' = [walk EXCEPT ![page] = NoWalk]
    /\ UNCHANGED <<saved, rows, counts, closures, requests, declined>>

\* The walk stops at a settled row and, whatever carries, at an imported opening.
StopAtRow(page) ==
    /\ Walking(page)
    /\ RowsAfter(page, walk[page].cursor) # {}
    /\ Settled(page, NextRow(page)) \/ rows[page][NextRow(page)].manual
    /\ walk' = [walk EXCEPT ![page] = NoWalk]
    /\ declined' = [declined EXCEPT ![page] = @ \ {NextRow(page)}]
    /\ UNCHANGED <<saved, rows, counts, closures, requests>>

\* holdStaleOpening: the walk stops and files (or keeps) the row's request.
HoldRow(page) ==
    /\ Walking(page)
    /\ RowsAfter(page, walk[page].cursor) # {}
    /\ ~Settled(page, NextRow(page)) /\ ~rows[page][NextRow(page)].manual
    /\ HeldForCarry(page, NextRow(page))
    /\ requests' = requests \cup {HeldOpening(page, NextRow(page))}
    /\ walk' = [walk EXCEPT ![page] = NoWalk]
    /\ declined' = [declined EXCEPT ![page] = @ \ {NextRow(page)}]
    /\ UNCHANGED <<saved, rows, counts, closures>>

\* The opening and the remaining stock that follows are rewritten; what was
\* entered on the row is kept, and the walk goes on from it.
RewriteRow(page) ==
    /\ Walking(page)
    /\ RowsAfter(page, walk[page].cursor) # {}
    /\ ~Settled(page, NextRow(page)) /\ ~rows[page][NextRow(page)].manual
    /\ ~HeldForCarry(page, NextRow(page))
    /\ rows' = [rows EXCEPT ![page][NextRow(page)] =
                    WithFigures(@, WalkCarry(page, NextRow(page)), @)]
    /\ walk' = [walk EXCEPT ![page].cursor = NextRow(page)]
    /\ declined' = [declined EXCEPT ![page] = @ \ {NextRow(page)}]
    /\ UNCHANGED <<saved, counts, closures, requests>>

WalkStep(page) == EndOfChain(page) \/ StopAtRow(page) \/ HoldRow(page) \/ RewriteRow(page)

-----------------------------------------------------------------------------
(* Physical counts *)

Drafts(c) == {page \in Pages : counts[page][c].standing = "draft"}
Uncounted(c) == {page \in Pages : counts[page][c].standing = "none"}
\* Mutant of FromNextDay: the walk skips the count's next date.
FromDayAfterNext(c, cascade) == [WalkFrom(NightOf(Day(c)) + 2) EXCEPT !.cascade = cascade]
FromNextDay(c, cascade) == [WalkFrom(NightOf(Day(c))) EXCEPT !.cascade = cascade]

\* The counts of period c that no later row hides any more, on these pages.
Unmissed(pages, c) ==
    [page \in Pages |-> [p \in Periods |->
        IF page \in pages THEN [rows[page][p] EXCEPT !.missed = @ \ {c}] ELSE rows[page][p]]]

\* The count on these pages becomes `count`; where it was applied, the later
\* rows go back to the carried-forward figure.
Unapply(pages, c, count, cascade) ==
    LET undone == {page \in pages : counts[page][c].standing = "applied"}
    IN /\ counts' = [page \in Pages |->
            IF page \in pages THEN [counts[page] EXCEPT ![c] = count[page]] ELSE counts[page]]
       /\ rows' = Unmissed(undone, c)
       /\ walk' = [page \in Pages |->
            IF page \in undone THEN FromNextDay(c, cascade) ELSE walk[page]]

Released(count, standing, batch) ==
    [count EXCEPT !.standing = standing, !.batch = batch]
Draft(value) == [value |-> value, standing |-> "draft", batch |-> {}]

\* saveManualCount: a saved count is unpublished until it is published again.
SaveCount(page, c, value) ==
    /\ Idle
    /\ ~CountsClosed(closures[c])
    /\ Unapply({page}, c, [q \in {page} |-> Draft(value)], FALSE)
    /\ UNCHANGED <<saved, closures, requests, declined>>

\* deleteManualCount: reverting the import that created the count.
DeleteCount(page, c) ==
    /\ Idle
    /\ counts[page][c].standing # "none"
    /\ ~CountsClosed(closures[c])
    /\ Unapply({page}, c, [q \in {page} |-> NoCount], FALSE)
    /\ requests' = {r \in requests : ~(r.page = page /\ r.period = c /\ r.field = "count")}
    /\ UNCHANGED <<saved, closures, declined>>

\* publishManualCounts: every draft of the sheet is released.  Applied to
\* opening stock, a page without a count is given a count of 0, and the later
\* rows are walked past their first-save gate.  (Another product's draft may be
\* the one that lets an applied publish run.)
Publish(c, apply) ==
    LET released == Drafts(c) \cup (IF apply THEN Uncounted(c) ELSE {})
        standing == IF apply THEN "applied" ELSE "audit"
    IN /\ Idle
       /\ released # {}
       /\ apply /\ Uncounted(c) # {} => ~CountsClosed(closures[c])
       /\ counts' = [page \in Pages |-> IF page \in released
            THEN [counts[page] EXCEPT ![c] = Released(@, standing, released)]
            ELSE counts[page]]
       /\ IF apply
          THEN /\ rows' = [page \in Pages |-> [p \in Periods |->
                    IF page \in released /\ p \in saved[page] /\ Day(c) < Day(p)
                    THEN [rows[page][p] EXCEPT !.missed = @ \cup {c}] ELSE rows[page][p]]]
               /\ walk' = [page \in Pages |-> IF page \in released
                    THEN [FromNextDay(c, FALSE) EXCEPT !.reach = TRUE] ELSE walk[page]]
          ELSE UNCHANGED <<rows, walk>>
       /\ UNCHANGED <<saved, closures, requests, declined>>

\* revertAuditSnapshot: the counts that still carry this publish become drafts.
Revert(c, batch) ==
    LET reverted == {page \in Pages : counts[page][c].batch = batch}
    IN /\ Idle
       /\ batch # {} /\ reverted # {}
       /\ ~CountsClosed(closures[c])
       /\ Unapply(reverted, c, [page \in Pages |-> Draft(counts[page][c].value)], FALSE)
       /\ UNCHANGED <<saved, closures, requests, declined>>

-----------------------------------------------------------------------------
(* Locks.  The page must hold a saved row to be finished, and the sheet a     *)
(* count to be closed: rows and counts of any product, so of others too.      *)

FinishPage(page, p) ==
    /\ Idle
    /\ ~Locked(page, p)
    /\ ~EarlierUnfinished(page, p)
    /\ closures' = [closures EXCEPT ![p] = ClosePeriod(@, {page}, TRUE)]
    /\ UNCHANGED <<saved, rows, counts, requests, declined, walk>>

CloseDay(p) ==
    /\ Idle
    /\ Drafts(p) = {}
    /\ closures' = [closures EXCEPT ![p] = ClosePeriod(@, Pages, FALSE)]
    /\ UNCHANGED <<saved, rows, counts, requests, declined, walk>>

UnlockDay(p, scope) ==
    /\ Idle
    /\ Unlockable(closures[p], scope)
    /\ closures' = [closures EXCEPT ![p] = Unlocked(@, scope)]
    /\ UNCHANGED <<saved, rows, counts, requests, declined, walk>>

-----------------------------------------------------------------------------
(* Correction requests *)

Pending(page, p, field) ==
    \E r \in requests : r.page = page /\ r.period = p /\ r.field = field
NewRequest(page, p, field, value) ==
    [page |-> page, period |-> p, field |-> field, value |-> value]

RequestFigure(page, p, field, value) ==
    /\ Idle
    /\ Cardinality(requests) < MaxRequests
    /\ p \in saved[page]
    /\ value # rows[page][p][field]
    /\ ~Pending(page, p, field)
    /\ requests' = requests \cup {NewRequest(page, p, field, value)}
    /\ UNCHANGED <<saved, rows, counts, closures, declined, walk>>

RequestCount(page, c, value) ==
    /\ Idle
    /\ Cardinality(requests) < MaxRequests
    /\ counts[page][c].standing # "none"
    /\ value # counts[page][c].value
    /\ ~Pending(page, c, "count")
    /\ requests' = requests \cup {NewRequest(page, c, "count", value)}
    /\ UNCHANGED <<saved, rows, counts, closures, declined, walk>>

\* approveCorrection of a figure: the normal save, as an adjustment: no lock, no
\* order of days and no hold applies to it.
ApproveFigure(r, cascade) ==
    LET row == rows[r.page][r.period]
        figs == [f \in Figures |-> IF f = r.field THEN r.value ELSE row[f]]
    IN /\ Idle
       /\ r \in requests /\ r.field \in Figures
       /\ requests' = requests \ {r}
       /\ \/ NoopSave(r.page, r.period, row.opening, figs) /\ UNCHANGED <<saved, rows, walk>>
          \/ /\ ~NoopSave(r.page, r.period, row.opening, figs)
             /\ WriteEntry(r.page, r.period, row.opening, FALSE, figs, cascade)
       /\ UNCHANGED <<counts, closures, declined>>

\* applyStaleOpening: the carry-forward walk, from the period before the row.
ApproveOpening(r, cascade) ==
    /\ Idle
    /\ r \in requests /\ r.field = "opening"
    /\ requests' = requests \ {r}
    /\ walk' = [walk EXCEPT ![r.page] =
            [WalkFrom(r.period - 1) EXCEPT !.approved = r.period, !.cascade = cascade]]
    /\ UNCHANGED <<saved, rows, counts, closures, declined>>

ApproveCount(r, cascade) ==
    /\ Idle
    /\ r \in requests /\ r.field = "count"
    /\ requests' = requests \ {r}
    /\ Unapply({r.page}, r.period, [q \in {r.page} |-> Draft(r.value)], cascade)
    /\ UNCHANGED <<saved, closures, declined>>

Reject(r) ==
    /\ Idle
    /\ r \in requests
    /\ requests' = requests \ {r}
    /\ declined' = IF r.field = "opening"
                   THEN [declined EXCEPT ![r.page] = @ \cup {r.period}] ELSE declined
    /\ UNCHANGED <<saved, rows, counts, closures, walk>>

-----------------------------------------------------------------------------
Enter(page, p, figs) ==
    \/ SaveEntry(page, p, OpeningOf(page, p), FALSE, figs)
    \/ \E opening \in Imports : SaveEntry(page, p, opening, TRUE, figs)
CountSheet(page, c) ==
    \/ \E value \in CountValues : SaveCount(page, c, value) \/ RequestCount(page, c, value)
    \/ DeleteCount(page, c)
Propose(page, p, figs) ==
    \E field \in Figures : RequestFigure(page, p, field, figs[field])
Approve(r) ==
    \E cascade \in BOOLEAN :
        ApproveFigure(r, cascade) \/ ApproveOpening(r, cascade) \/ ApproveCount(r, cascade)

Next ==
    \/ \E page \in Pages : WalkStep(page)
    \/ \E e \in Entries :
            Enter(e.page, e.period, e.figs) \/ Propose(e.page, e.period, e.figs)
    \/ \E page \in Pages, c \in CountPeriods : CountSheet(page, c)
    \/ \E c \in CountPeriods, apply \in BOOLEAN : Publish(c, apply)
    \/ \E c \in CountPeriods, batch \in SUBSET Pages : Revert(c, batch)
    \/ \E page \in Pages, p \in FinishPeriods : FinishPage(page, p)
    \/ \E p \in FinishPeriods : CloseDay(p)
    \/ \E p \in FinishPeriods, scope \in SUBSET Pages : UnlockDay(p, scope)
    \/ \E r \in requests : Approve(r) \/ Reject(r)

Spec == Init /\ [][Next]_vars

-----------------------------------------------------------------------------
(* Properties *)

\* Every variable keeps its type; only saved rows hold figures and have requests
\* for one of them (a correction is filed against the id of a row), and what is
\* asked for a count is a count.
TypeOK ==
    /\ saved \in [Pages -> SUBSET Periods]
    /\ rows \in [Pages -> [Periods -> Row]]
    /\ counts \in [Pages -> [Periods -> Count]]
    /\ closures \in [Periods -> Closures]
    /\ requests \subseteq Request
    /\ declined \in [Pages -> SUBSET Periods]
    /\ walk \in [Pages -> Walk]
    /\ \A page \in Pages : \A p \in Periods \ saved[page] : rows[page][p] = BlankRow
    /\ \A r \in requests :
        IF r.field = "count" THEN r.value \in Nat ELSE r.period \in saved[r.page]

\* A transfer is entered once and lives on both pages, so it never creates or
\* loses stock: over both pages a period closes at its two openings plus what
\* moved in or out of the business.  Holds through mirrored saves, transfers
\* held because one page is finished, approvals and carry-forwards.
TransfersConserveStock ==
    \A p \in Periods :
        LET on == rows["ONLINE"][p]
            off == rows["OFFLINE"][p]
        IN on.remaining + off.remaining
             = on.opening + off.opening + on.moved + off.moved

NextOnWalk(page, p) ==
    /\ walk[page].on
    /\ p \in RowsAfter(page, walk[page].cursor)
    /\ \A q \in RowsAfter(page, walk[page].cursor) : p <= q

\* No saved row silently keeps a stale opening: it opens at what carries into it
\* from the rows and applied counts before it, or at an imported figure, or an
\* admin has been asked (or has refused) to change it, or a carry-forward in
\* progress is about to reach it.
ChainFollows ==
    \A page \in Pages : \A p \in saved[page] :
        \/ Follows(page, p)
        \/ rows[page][p].manual
        \/ HeldOpening(page, p) \in requests
        \/ p \in declined[page]
        \/ NextOnWalk(page, p)

\* A finished page changes only by an approval: of a figure of that period, at
\* the value asked for, or of an opening on the row or ahead of it.
FinishedPageChanges(page, p) ==
    \/ \E r \in requests \ requests' :
        /\ r.period = p /\ r.field \in Figures
        /\ rows'[r.page][p][r.field] = r.value
    \/ walk[page].on /\ (walk[page].approved = p \/ walk[page].cascade)
FiguresOf(row) == [row EXCEPT !.missed = {}]
FinishedPagesFrozen ==
    [][\A page \in Pages, p \in Periods :
        Locked(page, p) /\ FiguresOf(rows'[page][p]) # FiguresOf(rows[page][p])
            => FinishedPageChanges(page, p)]_vars

\* An imported opening is changed by another import of the same row only, never
\* by a carry-forward, an applied count or an approval.
ImportsStay ==
    [][\A page \in Pages, p \in Periods :
        rows[page][p].manual =>
            /\ rows'[page][p].manual
            /\ rows'[page][p].opening # rows[page][p].opening =>
                    Idle /\ rows'[page][p].opening \in Imports /\ ~Locked(page, p)]_vars

\* Audit rules 1 and 5: the first saved day after an applied count opens at
\* exactly the count, unless its opening was imported, an admin has been asked
\* or has refused, or the publish is still being carried forward.  The count is
\* the last word of its date on the page: a Morning count with a saved Night is
\* not (openingStock.test.ts: the next day "must open at" the Night's remaining
\* stock, "not the count again").
LastOfItsDate(page, c) == \A p \in saved[page] : Day(p) = Day(c) => p <= c
OpensAtCount(page, c) ==
    LET later == RowsAfter(page, NightOf(Day(c)))
        first == Earliest(later)
    IN later # {} /\ c = Latest(CountsBefore(page, first, {})) =>
        \/ rows[page][first].opening = counts[page][c].value
        \/ rows[page][first].manual
        \/ HeldOpening(page, first) \in requests
        \/ first \in declined[page]
        \/ NextOnWalk(page, first)
AppliedCountOpensNextDay ==
    \A page \in Pages : \A c \in CountPeriods :
        counts[page][c].standing = "applied" /\ LastOfItsDate(page, c) => OpensAtCount(page, c)

\* dayLock.service.ts: "the locks stay in sequence, so a day is never locked
\* while an earlier one can still change under it".  Days before the first one
\* ever finished are exempt.
LocksStayInSequence ==
    \A page \in Pages : \A p \in Periods :
        Locked(page, p) => ~EarlierUnfinished(page, p)
=============================================================================
