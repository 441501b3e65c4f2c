------------------------------- MODULE DayFinish -------------------------------
(***************************************************************************)
(* Finishing days: dayFinish.service.ts, finishThrough.service.ts,         *)
(* dayLock.service.ts, the frozen Daily Report of a date                   *)
(* (dailyReportSnapshot.service.ts) and its refresh after an approved      *)
(* correction (snapshotRefresh.service.ts).                                *)
(*                                                                         *)
(* A period is a date and a shift, numbered in their order; a slot is one  *)
(* page of a period, which is what an encoder finishes.  A report is of a  *)
(* whole date: both pages of its one or two periods, what is carried into  *)
(* a page without rows, and the counts.  One product stands for a page.    *)
(*                                                                         *)
(* The server serves requests concurrently.  A request is one operation of *)
(* a worker, cut where the code awaits between what it reads and what it   *)
(* writes: the summary or plan and the reports are read before the         *)
(* transaction, and the transaction itself (MySQL REPEATABLE READ) reads   *)
(* the closure rows without locking them, then writes every column of      *)
(* them.  Saving an entry is SERIALIZABLE, so it is one step: it holds the *)
(* closure row it read until it commits.                                   *)
(***************************************************************************)
EXTENDS DayLock

CONSTANTS
    Workers,   \* requests served at once
    Stocks,    \* remaining stock a page may be saved with
    Periods,
    Dates,
    Scopes     \* what one behaviour exercises, see `scope`

ASSUME StocksAssumption == Stocks \subseteq Int
ASSUME PeriodsAssumption == Periods \subseteq Nat
ASSUME DatesAssumption == Dates \subseteq Nat
ASSUME ScopesAssumption ==
    /\ Scopes \subseteq [date: [Periods -> Dates], slots: SUBSET (Periods \X Pages),
                   counts: SUBSET (Periods \X Pages), close: BOOLEAN, drive: BOOLEAN]
    /\ \A chosen \in Scopes : \A p, q \in Periods : p < q => chosen.date[p] <= chosen.date[q]

VARIABLES
    scope,     \* the date of each period, the pages in use and those counted, whether
               \* admins close days, and whether reports go to Google Drive
    sheet,     \* sheet[slot]: the page's saved rows, as one remaining stock
    count,     \* count[slot]: the page's physical count
    closure,   \* closure[p]: the period's lock
    snapshot,  \* snapshot[date]: the saved Daily Report
    op,        \* op[w]: the operation the worker is serving
    cut        \* history, which no other variable follows: the dates whose refresh
               \* a restart cut short, until their report is saved again

ledger == <<sheet, count>>
vars == <<scope, ledger, closure, snapshot, op, cut>>

Slots == Periods \X Pages
DateOf(slot) == scope.date[slot[1]]
OtherSlot(slot) == <<slot[1], OtherPage(slot[2])>>
Locked(slot) == IsSideLocked(closure[slot[1]], slot[2])

\* What a page holds, and its count: saved, published as an audit only or applied
\* to opening stock, with the system stock it was measured against.
Sheet == [saved: BOOLEAN, stock: Int]
NoRows == [saved |-> FALSE, stock |-> 0]
Standings == {"none", "draft", "audit", "applied"}
Count == [standing: Standings, value: Int, system: SUBSET Int]
NoCount == [standing |-> "none", value |-> 0, system |-> {}]

\* What a page without rows of its own on a date stands at (getTotalStocksGrid): an
\* applied count as late as every earlier row, the latest of them, else the latest
\* earlier row, else 0.
RowsUpTo(page, date) == {s \in Slots : s[2] = page /\ sheet[s].saved /\ DateOf(s) < date}
AppliedUpTo(page, date) ==
    {s \in Slots : s[2] = page /\ count[s].standing = "applied" /\ DateOf(s) < date}
LatestOf(slots) == {s \in slots : \A t \in slots : t[1] <= s[1]}
CarriedInto(page, date) ==
    IF RowsUpTo(page, date) \cup AppliedUpTo(page, date) = {} THEN {0}
    ELSE {count[c].value : c \in {c \in LatestOf(AppliedUpTo(page, date)) :
                                    \A s \in RowsUpTo(page, date) : DateOf(s) <= DateOf(c)}}
         \cup {sheet[s].stock : s \in {s \in LatestOf(RowsUpTo(page, date)) :
                                    \A c \in AppliedUpTo(page, date) : DateOf(c) < DateOf(s)}}

\* A Daily Report: the date's saved rows, the stock carried into a page without any,
\* and the audit section, which says of a count only whether it is published.
Report == [taken: BOOLEAN, rows: [Slots -> Sheet], carried: [Pages -> SUBSET Int],
           audit: [Slots -> Count]]
NoReport == [taken |-> FALSE, rows |-> [slot \in Slots |-> NoRows],
             carried |-> [page \in Pages |-> {}], audit |-> [slot \in Slots |-> NoCount]]
Shown(c) == IF c.standing = "applied" THEN [c EXCEPT !.standing = "audit"] ELSE c
RowsOn(page, date) == {s \in Slots : s[2] = page /\ DateOf(s) = date /\ sheet[s].saved}
LiveReport(date) ==
    [taken |-> TRUE,
     rows |-> [slot \in Slots |-> IF DateOf(slot) = date THEN sheet[slot] ELSE NoRows],
     carried |-> [page \in Pages |->
                    IF RowsOn(page, date) = {} THEN CarriedInto(page, date) ELSE {}],
     audit |-> [slot \in Slots |-> IF DateOf(slot) = date THEN Shown(count[slot]) ELSE NoCount]]

\* `slots`: the pages to lock or unlock.  `todo`: the dates whose report is to be
\* built, or looked at by a refresh.  `reports`: what was built to be saved.
\* `read`: the closure rows the transaction read.
Kinds == {"finish", "close", "unlock", "correct"}
Steps == {"idle", "build", "begin", "commit", "refresh", "resave"}
Op == [kind: Kinds, step: Steps, slots: SUBSET Slots, todo: SUBSET Dates,
       reports: [Dates -> Report], read: [Periods -> Closures]]
Idle == [kind |-> "finish", step |-> "idle", slots |-> {}, todo |-> {},
         reports |-> [date \in Dates |-> NoReport],
         read |-> [p \in Periods |-> NoClosure]]

At(w, step) == op[w].step = step
Start(w, kind, step, slots, dates) ==
    /\ At(w, "idle")
    /\ op' = [op EXCEPT ![w] = [Idle EXCEPT !.kind = kind, !.step = step,
                                            !.slots = slots, !.todo = dates]]

\* Mutant of End: the worker keeps what it read.
EndKeepingFields(w) == op' = [op EXCEPT ![w].step = "idle"]
End(w) == op' = [op EXCEPT ![w] = Idle]

Earliest(dates) == CHOOSE date \in dates : \A other \in dates : date <= other

Init ==
    /\ scope \in Scopes
    /\ sheet = [slot \in Slots |-> NoRows]
    /\ count = [slot \in Slots |-> NoCount]
    /\ closure = [p \in Periods |-> NoClosure]
    /\ snapshot = [date \in Dates |-> NoReport]
    /\ op = [w \in Workers |-> Idle]
    /\ cut = {}

-----------------------------------------------------------------------------
(* Entries *)

Rows(stock) == [saved |-> TRUE, stock |-> stock]

\* The rows a change may be carried into: the later ones of its page that are
\* open, or any of them when an approval cascades.
Later(slot, cascade) ==
    {s \in Slots : /\ s[2] = slot[2] /\ s[1] > slot[1]
                   /\ sheet[s].saved
                   /\ cascade \/ ~Locked(s)}

\* The pages of `typed` are written and the counts become `counted`; the later rows
\* that a walk from the pages of `walked` rewrites take new stocks, and the counts
\* beside them that stock as their system figure.
Write(typed, walked, counted, cascade) ==
    \E carried \in SUBSET UNION {Later(s, cascade) : s \in walked} :
        \E stock \in [typed \cup carried -> Stocks] :
            /\ sheet' = [s \in Slots |-> IF s \in typed \cup carried THEN Rows(stock[s]) ELSE sheet[s]]
            /\ count' = [s \in Slots |-> IF s \in carried /\ counted[s].standing # "none"
                                        THEN [counted[s] EXCEPT !.system = {stock[s]}]
                                        ELSE counted[s]]

\* A page, and the other one too for a transfer.
Typed(slot, mirrored) == {slot} \cup (IF mirrored THEN {OtherSlot(slot)} ELSE {})
WriteEntry(slot, mirrored, cascade) ==
    Write(Typed(slot, mirrored), Typed(slot, mirrored), count, cascade)

\* saveOnlineEntry / saveOfflineEntry, refused while the page is locked.  A
\* transfer rewrites the other page too, unless that one is locked (held).
SaveEntry(w, slot, mirrored) ==
    /\ At(w, "idle")
    /\ ~Locked(slot)
    /\ mirrored => OtherSlot(slot) \in scope.slots /\ ~Locked(OtherSlot(slot))
    /\ WriteEntry(slot, mirrored, FALSE)
    /\ UNCHANGED <<scope, closure, snapshot, op, cut>>

-----------------------------------------------------------------------------
(* Physical counts.  The later pages walked from are those of the count's page. *)

CountValues == {stock \in Stocks : stock >= 0}
Counted(p, standing) == {s \in scope.counts : s[1] = p /\ count[s].standing = standing}
Undone(slots) == {s \in slots : count[s].standing = "applied"}

\* getSystemRemainingStock: the page's rows, or what they would open at.
SystemStock(slot) ==
    LET own == {s \in Slots : s[2] = slot[2] /\ DateOf(s) = DateOf(slot) /\ s[1] <= slot[1]
                              /\ sheet[s].saved}
    IN IF own # {} THEN {sheet[s].stock : s \in LatestOf(own)}
                   ELSE CarriedInto(slot[2], DateOf(slot))
NewCount(slot, standing, value) ==
    [standing |-> standing, value |-> value, system |-> SystemStock(slot)]

\* The counts become `counted`, and the rows after those of `walked` follow.
WriteCounts(walked, counted, cascade) == Write({}, walked, counted, cascade)

\* saveManualCount: a saved count is unpublished until it is published again.
WriteCount(slot, cascade) ==
    \E value \in CountValues :
        WriteCounts(Undone({slot}), [count EXCEPT ![slot] = NewCount(slot, "draft", value)], cascade)
SaveCount(w, slot) ==
    /\ At(w, "idle")
    /\ ~CountsClosed(closure[slot[1]])
    /\ WriteCount(slot, FALSE)
    /\ UNCHANGED <<scope, closure, snapshot, op, cut>>

\* deleteManualCount
DeleteCount(w, slot) ==
    /\ At(w, "idle")
    /\ count[slot].standing # "none"
    /\ ~CountsClosed(closure[slot[1]])
    /\ WriteCounts(Undone({slot}), [count EXCEPT ![slot] = NoCount], FALSE)
    /\ UNCHANGED <<scope, closure, snapshot, op, cut>>

\* publishManualCounts of a sheet; applied, a page without a count is counted as 0.
PublishCounts(w, p, apply) ==
    LET drafts == Counted(p, "draft")
        blank == IF apply THEN Counted(p, "none") ELSE {}
        standing == IF apply THEN "applied" ELSE "audit"
    IN
    /\ At(w, "idle")
    /\ drafts \cup blank # {}
    /\ blank # {} => ~CountsClosed(closure[p])
    /\ WriteCounts(IF apply THEN drafts \cup blank ELSE {},
                   [s \in Slots |-> IF s \in drafts THEN [count[s] EXCEPT !.standing = standing]
                                    ELSE IF s \in blank THEN NewCount(s, standing, 0)
                                    ELSE count[s]],
                   FALSE)
    /\ UNCHANGED <<scope, closure, snapshot, op, cut>>

\* revertAuditSnapshot: the counts of one publish become drafts.
RevertCounts(w, p, slots) ==
    /\ At(w, "idle")
    /\ slots # {} /\ slots \subseteq Counted(p, "audit") \cup Counted(p, "applied")
    /\ ~CountsClosed(closure[p])
    /\ WriteCounts(Undone(slots),
                   [s \in Slots |-> IF s \in slots THEN [count[s] EXCEPT !.standing = "draft"]
                                    ELSE count[s]],
                   FALSE)
    /\ UNCHANGED <<scope, closure, snapshot, op, cut>>

-----------------------------------------------------------------------------
(* finishDay and finishThrough *)

\* Mutant of Settles: a page without rows is waited for.
SettlesOnLock(slot) == Locked(OtherSlot(slot))

\* The period is settled once this page is finished: the other page is finished
\* too, or has nothing saved.
Settles(slot) == Locked(OtherSlot(slot)) \/ ~sheet[OtherSlot(slot)].saved

\* Days before the first one ever finished are left alone.
SinceFirst(date) == \E p \in Periods : closure[p].exists /\ scope.date[p] <= date
NoneFinished == \A p \in Periods : ~closure[p].exists

\* assertEarlierDaysFinished, for locking a page
EarlierFinished(slot) ==
    \A s \in Slots :
        s[2] = slot[2] /\ DateOf(s) < DateOf(slot) /\ SinceFirst(DateOf(s)) /\ sheet[s].saved
            => Locked(s)

Reported(slots) == {DateOf(slot) : slot \in {s \in slots : Settles(s)}}
BeginLock(w, slots) ==
    Start(w, "finish", IF Reported(slots) = {} THEN "begin" ELSE "build", slots, Reported(slots))

\* getFinishSummary and the checks on it: the page is open and has rows, and
\* negative stock has a supervisor's sign-off.
BeginFinish(w, slot, signedOff) ==
    /\ ~Locked(slot)
    /\ EarlierFinished(slot)
    /\ sheet[slot].saved
    /\ sheet[slot].stock < 0 => signedOff
    /\ BeginLock(w, {slot})
    /\ UNCHANGED <<scope, ledger, closure, snapshot, cut>>

\* planFinishThrough: the unfinished pages up to a date; negative stock in the
\* span blocks it.
Backlog(page, date) ==
    {s \in Slots : /\ s[2] = page /\ DateOf(s) <= date
                   /\ NoneFinished \/ SinceFirst(DateOf(s))
                   /\ sheet[s].saved /\ ~Locked(s)}
InSpan(slot, slots, date) ==
    DateOf(slot) <= date /\ \E s \in slots : DateOf(s) <= DateOf(slot)
BeginThrough(w, page, date) ==
    /\ Backlog(page, date) # {}
    /\ \A s \in Slots : s[2] = page /\ InSpan(s, Backlog(page, date), date) => sheet[s].stock >= 0
    /\ BeginLock(w, Backlog(page, date))
    /\ UNCHANGED <<scope, ledger, closure, snapshot, cut>>

\* buildDailyReport of each settled date, before the transaction.
BuildReport(w) ==
    LET date == Earliest(op[w].todo) IN
    /\ At(w, "build")
    /\ op' = [op EXCEPT ![w].step = IF op[w].todo = {date} THEN "begin" ELSE "build",
                        ![w].todo = @ \ {date},
                        ![w].reports[date] = LiveReport(date)]
    /\ UNCHANGED <<scope, ledger, closure, snapshot, cut>>

-----------------------------------------------------------------------------
(* The transactions on the closure rows *)

\* closeDay, once closeReadiness has found nothing missing; unlockDay.
BeginClose(w, p) ==
    /\ scope.close
    /\ Counted(p, "draft") = {}
    /\ Start(w, "close", "begin", {p} \X Pages, {})
    /\ UNCHANGED <<scope, ledger, closure, snapshot, cut>>
BeginUnlock(w, slots) ==
    /\ Start(w, "unlock", "begin", slots, {})
    /\ UNCHANGED <<scope, ledger, closure, snapshot, cut>>

Asked(w, p) == {page \in Pages : <<p, page>> \in op[w].slots}
AskedPeriods(w) == {slot[1] : slot \in op[w].slots}

\* The transaction's snapshot is taken at its first read.  An unlock of a page
\* that is not locked is refused.
ReadClosure(w) ==
    /\ At(w, "begin")
    /\ IF op[w].kind = "unlock" /\ \A p \in AskedPeriods(w) : ~Unlockable(closure[p], Asked(w, p))
       THEN End(w)
       ELSE op' = [op EXCEPT ![w].step = "commit", ![w].read = closure]
    /\ UNCHANGED <<scope, ledger, closure, snapshot, cut>>

\* Creating a row another transaction has created since violates its unique key,
\* and rolls the whole transaction back.
Collides(w) == \E p \in AskedPeriods(w) : ~op[w].read[p].exists /\ closure[p].exists
EntriesOnly(w) == op[w].kind = "finish"
Written(w, p) ==
    LET read == op[w].read[p] IN
    IF p \notin AskedPeriods(w) THEN closure[p]
    ELSE IF op[w].kind = "unlock" THEN Unlocked(read, Asked(w, p))
    ELSE IF AlreadyClosed(read, Asked(w, p), EntriesOnly(w)) THEN closure[p]
    ELSE ClosePeriod(read, Asked(w, p), EntriesOnly(w))
Commit(w) ==
    /\ At(w, "commit")
    /\ IF Collides(w)
       THEN UNCHANGED <<closure, snapshot, cut>>
       ELSE /\ closure' = [p \in Periods |-> Written(w, p)]
            /\ snapshot' = [date \in Dates |-> IF op[w].reports[date].taken
                                               THEN op[w].reports[date]
                                               ELSE snapshot[date]]
            /\ cut' = {date \in cut : ~op[w].reports[date].taken}
    /\ End(w)
    /\ UNCHANGED <<scope, ledger>>

-----------------------------------------------------------------------------
(* approveCorrection *)

\* The approved figure is saved, and refreshFrozenSnapshots then looks at its date,
\* or at every date from it on.
ToRefresh(slot, cascade) == {DateOf(slot)} \cup {date \in Dates : cascade /\ date > DateOf(slot)}
StartRefresh(w, slot, cascade) == Start(w, "correct", "refresh", {}, ToRefresh(slot, cascade))

\* The normal save, as an adjustment that no lock stops, of a saved row or count.
Correct(w, slot, mirrored, cascade) ==
    /\ sheet[slot].saved
    /\ mirrored => OtherSlot(slot) \in scope.slots
    /\ WriteEntry(slot, mirrored, cascade)
    /\ StartRefresh(w, slot, cascade)
    /\ UNCHANGED <<scope, closure, snapshot, cut>>
CorrectCount(w, slot, cascade) ==
    /\ count[slot].standing # "none"
    /\ WriteCount(slot, cascade)
    /\ StartRefresh(w, slot, cascade)
    /\ UNCHANGED <<scope, closure, snapshot, cut>>

\* findFrozenSnapshot: a report is served from the snapshot only while every
\* page with rows is locked, and live otherwise.
AllLocked(date) == \A s \in Slots : DateOf(s) = date /\ sheet[s].saved => Locked(s)
Frozen(date) == snapshot[date].taken /\ AllLocked(date)

LookAt(w, date) == op' = [op EXCEPT ![w].step = "resave", ![w].reports[date] = LiveReport(date)]
PassOver(w, date) ==
    IF op[w].todo = {date}
    THEN End(w)
    ELSE op' = [op EXCEPT ![w].step = "refresh", ![w].todo = @ \ {date},
                          ![w].reports[date] = NoReport]

\* Mutant of Refresh: only the date of the correction itself is looked at.
RefreshFirst(w) ==
    LET date == Earliest(op[w].todo) IN
    /\ At(w, "refresh")
    /\ IF Frozen(date) /\ LiveReport(date) # snapshot[date] THEN LookAt(w, date) ELSE End(w)
    /\ UNCHANGED <<scope, ledger, closure, snapshot, cut>>

\* The report of a frozen date is rebuilt, and saved again if it differs.
Refresh(w) ==
    LET date == Earliest(op[w].todo) IN
    /\ At(w, "refresh")
    /\ IF Frozen(date) /\ LiveReport(date) # snapshot[date] THEN LookAt(w, date) ELSE PassOver(w, date)
    /\ UNCHANGED <<scope, ledger, closure, snapshot, cut>>
Resave(w) ==
    LET date == Earliest(op[w].todo) IN
    /\ At(w, "resave")
    /\ snapshot' = [snapshot EXCEPT ![date] = op[w].reports[date]]
    /\ cut' = cut \ {date}
    /\ PassOver(w, date)
    /\ UNCHANGED <<scope, ledger, closure>>

-----------------------------------------------------------------------------
Encode(w) == \E slot \in scope.slots, mirrored \in BOOLEAN : SaveEntry(w, slot, mirrored)
CountSheets(w) ==
    \/ \E slot \in scope.counts : SaveCount(w, slot) \/ DeleteCount(w, slot)
    \/ \E p \in Periods :
        \/ \E apply \in BOOLEAN : PublishCounts(w, p, apply)
        \/ \E slots \in SUBSET scope.counts : RevertCounts(w, p, slots)
Finish(w) ==
    \/ \E slot \in scope.slots, signedOff \in BOOLEAN : BeginFinish(w, slot, signedOff)
    \/ \E page \in Pages, date \in Dates : BeginThrough(w, page, date)
    \/ BuildReport(w)
Administer(w) ==
    \E p \in Periods :
        \/ BeginClose(w, p)
        \/ \E slots \in SUBSET ({p} \X Pages \cap scope.slots) \ {{}} : BeginUnlock(w, slots)
Approve(w) ==
    \/ \E slot \in scope.slots, mirrored, cascade \in BOOLEAN : Correct(w, slot, mirrored, cascade)
    \/ \E slot \in scope.counts, cascade \in BOOLEAN : CorrectCount(w, slot, cascade)
    \/ Refresh(w)

\* Every step but the two that save a report.
Quietly(w) ==
    \/ Encode(w) \/ CountSheets(w) \/ Finish(w) \/ Administer(w) \/ Approve(w)
    \/ ReadClosure(w)

\* The server is restarted, between any two steps: what was not committed is rolled
\* back, and the dates an approval has not looked at yet are not looked at.
Refreshing == {w \in Workers : op[w].kind = "correct"}
Crash ==
    /\ op' = [w \in Workers |-> Idle]
    /\ cut' = cut \cup UNION {op[w].todo : w \in Refreshing}
    /\ UNCHANGED <<scope, ledger, closure, snapshot>>

Next == (\E w \in Workers : Quietly(w) \/ Commit(w) \/ Resave(w)) \/ Crash

Spec == Init /\ [][Next]_vars

-----------------------------------------------------------------------------
(* Properties *)

\* Every variable keeps its type; only a finish or a refresh holds a report, and
\* a worker holds nothing of an operation it has ended.
TypeOK ==
    /\ scope \in Scopes
    /\ sheet \in [Slots -> Sheet]
    /\ count \in [Slots -> Count]
    /\ cut \subseteq Dates
    /\ closure \in [Periods -> Closures]
    /\ snapshot \in [Dates -> Report]
    /\ op \in [Workers -> Op]
    /\ \A w \in Workers :
        /\ (\E date \in Dates : op[w].reports[date].taken) => op[w].kind \in {"finish", "correct"}
        /\ At(w, "idle") => op[w] = Idle

Quiet == \A w \in Workers : At(w, "idle")

\* While a saved report is served in place of the live one, it reports the rows that
\* the ledger holds for the date, after any sequence of saves, counts, finishes,
\* closes, unlocks, approved corrections and restarts (schema.prisma,
\* DailyReportSnapshot: "Re-finishing after an admin unlock replaces it with the new
\* state").  What it says of a page without rows and of the counts stands as it was
\* at the finish ("a corrected count, tomorrow's carry-forward - never alter a day
\* that was already reported").  A restart between an approval's save and the
\* refresh leaves the old rows in it.
ReportIsLedger(date) ==
    Frozen(date) /\ date \notin cut => snapshot[date].rows = LiveReport(date).rows
FrozenReportIsLedger == Quiet => \A date \in Dates : ReportIsLedger(date)

\* The same while the locks in force are the encoders': an admin's full close
\* saves no report and may leave an older one in place.
EncodersLock(date) == \A p \in Periods : scope.date[p] = date => closure[p].entriesOnly
FinishedReportIsLedger ==
    Quiet => \A date \in Dates : EncodersLock(date) => ReportIsLedger(date)

\* Finishing the last open page of the date freezes a report: once every page
\* with rows, of either shift, is finished by its encoder, there is one
\* (finishDay: "Finishing the second page therefore freezes the report").
FinishedDayHasReport ==
    Quiet => \A date \in Dates :
        EncodersLock(date) /\ AllLocked(date) /\ (\E s \in Slots : DateOf(s) = date /\ sheet[s].saved)
            => snapshot[date].taken

\* A lock is lifted by an unlock of that page, by nothing else: a finish or a
\* close of one page keeps what it read of the other's lock.  The counts that an
\* admin's full close refuses stay refused until an unlock of the period.
LocksLiftedByUnlock ==
    [][\A p \in Periods :
        LET unlocked == {page \in Pages : \E w \in Workers :
                            op[w].kind = "unlock" /\ <<p, page>> \in op[w].slots}
        IN
        /\ closure[p].locked \ closure'[p].locked \subseteq unlocked
        /\ CountsClosed(closure[p]) /\ ~CountsClosed(closure'[p]) => unlocked # {}]_vars
=============================================================================
