# A verification project for the Ala Eh stock monitoring system

TLA+ modules for the protocols of the server and of the pages that keep unsaved
work, TLC
configurations that check them on small instances, and theorems checked by
TLAPS.  Paths below are relative to the repository; "services" are in
`server/src/services/`.

## The system

An Express server over MySQL (Prisma) keeps, for every product, an **Online**
and an **Offline** row per *period* (a date and a shift, Morning before Night).
A row opens at what the row before it closed at, records transfers between the
two pages and the other movements, and closes at its remaining stock.  Encoders
save rows and finish their page of a day; supervisors count stock and publish
the counts; administrators close and unlock days, release awaiting goods,
decide correction requests and close months.  The client stages edits in the
browser and sends them as saves that are safe to retry; finished days are
frozen as Daily Reports and copied to Google Drive.

### Inventory

| component | state | operations | interacts with |
|---|---|---|---|
| stock formulas (`utils/stockMath.ts`) | none | subtotal, remaining stock, outflow | used by every save and walk |
| entries and transfers (`dailyOnlineStock`, `dailyOfflineStock`, `heldTransfers`) | `daily_online_stock`, `daily_offline_stock` | save (typed or imported), mirror, hold | starts two carry-forward walks, files corrections, refused by locks |
| carry-forward (`manualCounts.propagateOpeningStock`, the repositories' `getOpeningStock`, `staleOpening`) | the loop's cursor and options | re-derive, stop, hold | rewrites rows, files stale-opening requests |
| physical counts (`manualCounts`) | `manual_counts`, `audit_snapshots` | save, delete, publish, revert | applied counts open the next date |
| day locks (`dayLock`) | `day_closures` | close, unlock, refuse | entries, counts, walks, finishing |
| corrections (`correction`, `snapshotRefresh`) | `correction_requests` | request, approve (cascade or not), reject | ordinary saves as adjustments, walks, report refresh |
| finishing (`dayFinish`, `finishThrough`, `dailyReportSnapshot`) | `daily_report_snapshots` | finish a page, finish through a range, build, save, serve | locks, the whole ledger, Drive |
| month closing (`monthClose`) | `month_closures` | readiness, close, unlock | locks, counts, requests |
| awaiting release (`pendingRelease`) | `pending_releases` | create, update, cancel, release | saves an entry |
| unlock requests (`unlockRequest`) | `unlock_requests` | ask, sweep, answer | day locks |
| safe retries (`api/http.ts`, `middleware/idempotency.ts`) | the tab's keys, `idempotency_keys` | send, claim, replay, settle, free, purge | wraps every mutating request |
| reading pages (`totalStocks`, `reports`, `periodMonitoring`, the grids, `utils/wholeDay.ts`) | none | look up, combine, total | read the ledger, each with code of its own |
| Drive (`drive`, `lib/reportSaved.ts`) | files of a folder, an in-memory queue | upload after a finish or correction, generate, back up | reads what is served as a report |
| entry pages (`OnlineEntryPage`, `OfflineEntryPage`, `usePendingEntryChanges`, `draftBackup`, `sessionHistory`, `useUnsavedWorkGuard`, `AuthContext`) | staged edits, undo stacks, backups in `localStorage`, the token | type, undo, save, resolve a conflict, restore, sign in and out | the server's row, other tabs of the browser |
| audit page and imports (`ManualCountPage`, `manualCountDrafts`, `CsvTools`, `importBatch`, `changeLogArchive`) | staged counts, undo stacks, the import each draft came from; `import_batches`, `change_log` | type, import, undo, save, delete an import, archive | counts, and everyone else who changes them |
| cache, realtime, backup, accounts, products, HTTP layer, other client pages | read models, I/O, access control, layout | | see "Not modelled" |

### What is hard here

* A save touches two pages and then walks forward over any number of later
  rows; rows stop the walk, are held because they are finished, or were pinned
  by an import.  The result depends on when counts were published relative to
  the row's first save.
* The same opening is found by three pieces of code: one row at a time for a
  save, by dates in a batch for the pages, by a cursor in the walk.
* Locks are per page, requests wait for a decision while the ledger moves on,
  and an approval writes through a lock, with or without its consequences.
* The saves are SERIALIZABLE; almost everything else reads first and decides in
  a REPEATABLE READ transaction, so two requests can each act on what the other
  is about to change, and a closed month on what was decided before it closed.
* A finished day's report is a copy, and so is its file in Drive: each must be
  taken at the right moment and replaced when the day is finished again or
  corrected, through failures and restarts.
* A retry meets its original anywhere between arrival and settlement.
* Deleting an import decides from the change log which counts are still the
  import's, while the log is archived, the counts are changed by others, and the
  page keeps what ties a draft to its import apart from the draft.
* Unsaved edits outlive the session, the tab and the browser in three stores
  that all tabs and people of a computer share.

What makes each component correct is stated as the properties below; the
hazards, each with the line where it bites, are in `PROJECT.json`.

## The modules

| module | models |
|---|---|
| `StockMath` | the formulas of `utils/stockMath.ts` |
| `DayLock` | one row of `day_closures` and the operators of `dayLock.service.ts` on it |
| `StockLedger` | the ledger of one product: entries, mirrors, holds, counts, locks, requests and the carry-forward walk, one transaction at a time |
| `StockReports` | what the reading pages compute from that ledger |
| `MCStockLedger` | finite instances of both |
| `DayFinish` | finishing pages and ranges of dates, and the frozen reports, with requests served concurrently |
| `DriveReports` | the uploads of those reports, with failures and restarts |
| `MCDayFinish`, `MCDriveReports` | finite instances of them |
| `SaveOnce` | what safe retries promise: the abstract specification |
| `SafeRetry` | the retry protocol, browser and server, which implements it |
| `EntrySheet` | the staged edits of one figure: a pure module of operators |
| `EntryTabs` | browser tabs with that sheet open: saving, conflicts, backups, sessions |
| `AuditSheets` | the audit page's staged counts, imports into it and their deletion |
| `ClientPages` | the composition of both kinds of page |
| `MCEntryTabs` | finite instances |
| `MonthClose` | one period of a month being closed, and the writes it must stop |
| `AwaitingRelease`, `Corrections`, `UnlockRequests` | the three administrative queues over it |
| `Administration`, `MCAdministration` | their composition, and its instances |
| `StockLedgerProofs`, `StockLedgerChain`, `DayFinishProofs`, `DriveReportsProofs`, `SafeRetryProofs`, `EntryTabsProofs`, `AuditSheetsProofs`, `AdministrationProofs` | the theorems |

How they fit: `DayLock` is shared by `StockLedger`, `DayFinish` and
`MonthClose`.  `StockLedger` is about *what* is written, in which order, across
periods, one transaction at a time; `DayFinish` and `MonthClose` are about the
*interleaving* of the requests, with the ledger reduced to one figure per page.
`DriveReports` extends `DayFinish` with the uploads its steps ask for, and
`Administration` composes `MonthClose` with the three queues.

### StockLedger and the code

* **Periods** are integers: `2d - 1` is day *d*'s Morning and `2d` its Night.
  Whole-day sheets are the Nights; no action distinguishes the two modes.
* **Figures** are integers (hundredths).  A row keeps its opening, the two
  transfers and one signed amount `moved` for all other movements
  (`StockMath.OnlineMovement`, `OfflineMovement`); lemmas `OnlineRowCloses` and
  `OfflineRowCloses` say that this loses nothing of the closing stock.
* **Comparison of publishedAt with createdAt**: the code hides a count from a
  row first saved before the count was published.  Rows carry this as a set,
  `missed`, extended when a publish passes over them; no clock is modelled.
* **The walk**: `propagateOpeningStock` is a loop inside the transaction that
  starts it.  Each iteration is one action, named for the way it goes:
  `EndOfChain`, `StopAtRow` (settled, or imported), `HoldRow`, `RewriteRow`.
  No other transaction starts meanwhile (`Idle`).  The two walks of a save run
  Online first; they touch different pages, so their order does not matter.
* **A correction request** names a figure of a row, or a count, or a held
  opening, whose value is re-derived on approval, as in the code.  `declined`
  remembers the rows whose held opening was rejected; the code keeps this in
  the status of the decided request.
* A page is finished if any product has a row on it, so `FinishPage` does not
  ask this product for one, and the days in order are asked of this product's
  rows: both let the model do what some ledger of several products can do.

### StockReports and the code

No state: operators over the variables of `StockLedger`, one per computation.
`PreviewOpening` is `getOpeningStocksForProducts` (the same day's Morning, else
the last sheet of the latest earlier date, else a count as late as that),
written by dates as the code is and not as `Carry`.  `Combined` is
`combineSplitRows` with the closing recomputed as `getOnlineGrid` does;
`SheetClosing` is what a day's sheet of the Daily Report ends at, `DayStock`
what `getTotalStocksGrid` shows, `SystemStock` and `OpeningBreak` what the audit
page measures against and flags, `Flow` one date of `buildPeriodMonitoring`.
A day is split if *any* product has a Morning row: `split` ranges over what the
other products allow (`Splits`).

### DayFinish, DriveReports and the code

* A *slot* is one page of a period.  The summary or plan (`BeginFinish`,
  `BeginThrough`), each date's report (`BuildReport`), the transaction's read of
  the closure rows (`ReadClosure`) and its writes (`Commit`) are separate steps
  of a worker, because the code awaits between them; creating a row that another
  transaction has created fails on its unique key (`Collides`).  Saves are one
  step: they are SERIALIZABLE and hold the closure row they read.
* `finishThrough` plans over several periods and dates, builds the report of
  each settled date and locks all of them in one transaction.
* A report (`LiveReport`) is what `buildDailyReport` composes: the date's saved
  rows of both pages, for a page without any what `getTotalStocksGrid` carries
  into it (`CarriedInto`: an applied count as late as every earlier row, else the
  latest earlier row), and the audit section, each count with the system stock it
  was measured against and whether it is published.
* A save writes one row, or both pages' for a transfer; its walk may rewrite any
  set of later open rows of the page (any at all with cascade) with any stocks,
  and the counts beside them follow (`Write`).  *Which* rows it rewrites, and to
  what, is `StockLedger`'s subject.
* Counts are saved, deleted, published (as an audit only, or applied with the
  implied zeros) and reverted; an encoder's finish leaves them open
  (`CountsClosed`).  One product stands for a page: an applied publish may find
  nothing but the zeros to add, the draft that allows it being another product's.
* An approval of a figure or of a count is the save as an adjustment, then, in
  steps of its own, the refresh: each date it covers is looked at, its report
  rebuilt (`Refresh`) and saved if it differs (`Resave`).
* `Crash` forgets the requests in progress, between any two steps, between an
  approval's save and its refresh too.  Nothing takes that refresh up again:
  `cut`, a history variable that no guard reads, names the dates it had still to
  look at, until their report is saved again.
* A transaction that saves a report, a refresh, or a person starts an upload;
  uploads of a date wait for each other (`queue`, the code's `inDayOrder`).  An
  upload builds the report as it is served then, lists the date's files, trashes
  what it replaces and puts the new one; `Fail` ends it at any call, with the
  last one possibly done; `Restart` forgets all uploads.  `SaveDailyReports`, run
  after a backup, uploads outside the queue, as in the code.  `unsure` is a
  history variable: a date whose last upload failed, or on which an upload of a
  backup met another one.
* `SaveEntry` leaves out the order of days, which an administrator may waive;
  the warnings of a finish are taken as acknowledged.

### SafeRetry, SaveOnce and the code

A person sends one save again until an answer settles it.  Every send is an
attempt with three independent parts: what the tab sees of it (`seen`), the
handler it started (claim, lookup, commit or refusal, answer), and the settling
of its key.  A key is named after the attempt that made it; the tab keeps it
while answers are lost or fail with a 5xx, and drops it on success, on a 4xx and
on a reload (`KeyAfter`).  On the server a claim is an insert on a unique key
(`Claim`); refused, the row is read by a second query (`LookUp`) and the answer
is a replay, a 409, or, if the row is gone meanwhile, a run *without* a claim. A
finished 2xx or 4xx settles the row, a 5xx or a closed connection deletes it, a
crash leaves it, `Purge` removes it.  Faults (`Fault`) are bounded by
`MaxFaults`. `SaveOnce` is the promise: a save runs once, and once more at most
for each *risk*, a time the record of a run was given up; it is reported saved
only if it ran.

### EntrySheet, EntryTabs and the code

`EntrySheet` is `usePendingEntryChanges` for one figure: the staged value, the
saved value it was typed over, undo and redo stacks cut to `HistoryLimit`, and
the resolution of a conflict.  `EntryTabs` has two tabs, two people, one figure
on the server, the token and the one backup slot of the sheet that the tabs
share, and the steps of `handleSaveAll`: click, re-read (conflicts are looked
for here), send, commit, clear, answer.  A tab may be abandoned or closed in any
step, its save committing later (`late`); a session may expire, be renewed by
the dialog, be left by a reload, or be logged out of keeping or dropping the
drafts.  A backup has an owner and a heartbeat (`beat`): live, parked by its
tab, or gone silent.

### AuditSheets, ClientPages and the code

One product at one location, on several sheets.  `book` is the server's counts
and change log.  A count has a record id, which a later count of the sheet gets
anew after a deletion (the log is asked by id).  `page.source` is
`importedBatchByProduct`: one attribution for the product whatever sheet is
open, kept in memory; `drafts[d]` is what `sessionStorage` keeps of a sheet.
`Pushed`, `UndoCount` and `RedoCount` are the page's own undo stacks, which hold
the attribution too, cut like those of `EntrySheet` (`Latest`, `Earliest`).
`ImportCount` registers the import (or fails to, and goes on without), stages
the figure and remembers the one for `UndoImport`.  A save is a click, the
server's commit, and the answer or its loss; `CommitCount` needs the import to be
registered still (a foreign key).

`revertImportBatch` is cut after its snapshot and after each write:
`BeginRevert` keeps what the REPEATABLE READ transaction sees (`seen`).
`WriteBack` is one entry of its loop that is taken back, in the order of their
ids, if no later entry of the record is among what it sees and wrote itself
(`Takes`, `SeesCount`); it writes over whatever was written meanwhile
(`TakeBack`).  `FinishRevert` untags the entries and deletes the import.  A
record that was deleted or made since the snapshot fails the deletion
(`Clashes`), which rolls back (`FailRevert`).  Nobody sees it half done: from
its first write to its end it runs alone (`Writing`).  `Archive` moves a prefix
of the untagged entries.

The properties follow each figure, not the code's tag: a count remembers the
import whose staged figure it is (`by`, reset by every later change), whether its
attribution was carried from another sheet (`strayed`) and whether its import was
being deleted as it was saved (`raced`).  These are history fields; no guard reads
them.

Entry pages and audit page share no figure, so `ClientPages` shows one kind per
behaviour: the scope without tabs is the audit page's.

### MonthClose, its queues and the code

One period of a month that has ended, whose last day may still be released into,
so that everything can happen at once.  A SERIALIZABLE transaction (an entry
save, a release, the close of the month) is one step; a REPEATABLE READ one is
cut between what it reads and what it writes, and two workers serve requests.
`AwaitingRelease` has the items (`LoadItem`, then `WriteItem`, against
`Release`); `Corrections` the life of a request as the code commits it, load,
apply, mark, in three transactions; `UnlockRequests` the asks, with the sweep
by the Admin Queue.  `Restart` drops the jobs.  History fields name the way a
row went wrong: `overtaken`, `contested`, `cut`, `late`, and `disturbed` for a
closed month.

## Runs

| run | expected | shows |
|---|---|---|
| `ledger_locks` | pass, 198,000 states | `TypeOK`, `TransfersConserveStock`, `ChainFollows`, `StockMovesByFlow`, `FinishedPagesFrozen` with locks, held transfers and corrections |
| `ledger_counts` | pass, 273,000 | `ChainFollows`, `AppliedCountOpensNextDay`, `PreviewIsCarry`, `ReportClosesAtTotal`, `AuditIsExplained`, `ImportsStay` with one counted sheet and imports, by shift |
| `ledger_held_audit` | violation | an applied count held on a finished day is lost when approved |
| `ledger_recount` | violation | un-applying a later count also drops an earlier one |
| `ledger_lock_order` | violation | a day without rows is entered after a later one was locked |
| `day_finish` | pass, 443,000 | `DriveTypeOK`, `FinishedReportIsLedger`, `FinishedDayHasReport`, `LocksLiftedByUnlock`, one request at a time, with counts and restarts; `OneFileADay`, `DriveHoldsReport`, `UploadsEnd` |
| `day_close_report` | violation | Close day serves an older report |
| `day_finish_race` | violation | a save between building the report and the lock is missing from it |
| `day_finish_two_pages` | violation | two pages finished at once leave no report |
| `safe_retry` | pass, 127,000 | `TypeOK`, `RunsOncePerKey`, `SavedIsStored`, `ImplementsSaveOnce`, `SaveIsAnswered` |
| `entry_tabs` | pass, 805,000 | `TypeOK`, `SavesAreInformed`, `DraftsStayPersonal`, `EditsEndSaved`, `OrphansAreKept`; on the audit page `AuditTypeOK`, `RevertTakesImportOnly`, `RevertLeavesNothing` |
| `administration` | pass, 451,000 | `TypeOK`, `ReleaseListIsTrue`, `DecisionIsTrue`, `ClosedMonthIsFinal`, `AsksAreAnswered`, `StockAddedOnce`, `ClosedFiguresStay`, `AsksSettle`, two requests at a time |

The properties:

* `TransfersConserveStock`: over both pages a period closes at its openings
  plus what moved in or out of the business, whatever was transferred.
* `ChainFollows`: a saved row opens at what carries into it, or at an imported
  figure, or an admin was asked or refused, or the walk is about to reach it.
* `FinishedPagesFrozen`: a locked page changes by an approval only, of the
  figure asked for, of that row's opening, or ahead of it with cascade.
* `AppliedCountOpensNextDay`: audit rules 1 and 5 for the first saved day after
  an applied count, when no row is saved later on the count's own date.  After a
  Morning count with a saved Night the repository says the opposite of what the
  code does (7 under "Where the code and its documentation part"), so the property
  promises nothing there.
* `ImportsStay`: an imported opening is changed by another import only.
* `PreviewIsCarry`: what a sheet previews is what saving it stores, and what
  the audit page expects is what the walk gives.
* `ReportClosesAtTotal`: the Daily Report's sheets close at its own totals,
  except over a Night whose opening is imported, held, refused or not yet
  carried.
* `AuditIsExplained`: a day's last audit measures against the totals, and the
  openings it flags are exactly of those kinds.
* `StockMovesByFlow`: the total shown moves between dates by the monitored
  flow: transfers create nothing in any report.
* `LocksStayInSequence`: the sentence of `findUnfinishedEarlierPeriod`.
* `FrozenReportIsLedger`, `FinishedReportIsLedger`, `FinishedDayHasReport`:
  when all requests have been answered, the rows of a report served as frozen are
  the ledger's, unless a restart cut its refresh, and a day finished by its
  encoders has one.  The report's other parts, what it carries into a page without
  rows and its audit section, stay as they were at the finish, as
  `schema.prisma:514-519` says they shall.
* `LocksLiftedByUnlock`: a page's lock disappears by an unlock of that page.
* `OneFileADay`, `DriveHoldsReport`, `UploadsEnd`: Drive has one file of a
  date, the report that is served, and every upload ends.
* `RunsOncePerKey`, `SavedIsStored`, `ImplementsSaveOnce`, `SaveIsAnswered`: a
  key lets a save run once, "saved" is never shown for one that is not stored,
  and pressing Save again comes to an answer.
* `SavesAreInformed`: a save overwrites only what its person saw.
  `EditsEndSaved`: an edit goes only by its person's doing or because it was
  saved.  `DraftsStayPersonal`, `OrphansAreKept`: edits reach their author
  only, and the backup of a tab that is gone waits for its owner.
* `RevertTakesImportOnly`: deleting an import moves no count that was typed, saved
  again, published or remarked on since.  `RevertLeavesNothing`: a count that
  stands as its import left it is taken back with it.
* `ReleaseListIsTrue`, `StockAddedOnce`: the awaiting list tells the truth and
  an item enters stock once.  `DecisionIsTrue`: a decided request says what
  happened to its figure.  `ClosedMonthIsFinal`, `ClosedFiguresStay`: what a
  closed month closed over.  `AsksAreAnswered`, `AsksSettle`: no ask is dropped,
  none waits for ever on a page that has opened up.

A property that would fail in a known way names the way in a history field; the
field is set by the steps of that way only, and the observation is listed
below.

### Bounds, and why they are enough

* `Periods` are three whole days (`ledger_locks`): one that moves, one that is
  in the middle and may be locked or mirrored into, one only carried into, so
  that a walk rewrites one row and is stopped or held at the next; or two dates
  of two shifts (`ledger_counts`), the least on which a count's own date, its
  Night, and the two shifts of the next date differ.
* `Entries` offers two rows of figures for a source of change, one with a
  transfer, and zeros: each figure takes two values that no sum confuses.
* `FinishPeriods` is days 1 and 2 in `ledger_locks`: the third day is left open
  so that a walk continues past a held row after its approval.
* `CountPeriods` is one sheet in `ledger_counts`; `ledger_recount` has two, and
  there the property fails.  `CountValues` and `Imports` are one value each,
  different from every sum of entries; implied counts add the value 0.
* `MaxRequests` bounds what encoders ask for at once (2 and 1).  Held openings
  and transfers are not bounded by it.
* Counts and locks meet only in `ledger_held_audit`, where the property fails;
  locks, counts and corrections together are too large for a run of minutes,
  and are covered by the proofs, which have no bounds.  An applied count between
  two shift days and a third date, which `ledger_counts` does not reach, is
  covered by `PreviewsAreCarries`.
* `Stocks` are two, one negative.  The six scopes of `day_finish` are one period
  with an admin's closes; two shifts of one date; two dates, of which the second
  has both pages; counts of both pages on the day before a page's entries; a
  count beside a page's entries; and one page whose report goes to Drive.  Each
  keeps a behaviour to the pages and counts where its question arises.  Restarts
  are not bounded, but in the Drive scope, where they are faults like the failed
  calls.  There are two uploads at a time and three in all (one running, one
  waiting, one after a backup or a failure), one fault, and three file names.
  Two workers are used by the violation runs, where two are enough for each
  race.
* `MaxAttempts = 5`, `MaxFaults = 2`: an original, a double click, a retry that
  meets them, and two more after two keys were given up.
* `entry_tabs`: two tabs, two people, three figures and one undo step; each
  scope leaves out one of the dimensions and says how many edits, faults and
  sign-ins it has (three edits are one typed, undone and redone; `signIns` of 3 or
  4 leaves one for a return to a session that ended).  Tabs and the two typed figures are symmetric.
* The audit page of `entry_tabs`: two sheets, two imports, the figure 0 and two
  more, and budgets of what may happen in a behaviour: edits, imports, undos
  and redos (`typed`), other people's writes and lost answers (`others`),
  switches of sheets and reloads (`turned`), archivings (`archived`).  Two edits
  are an import and what undoes it, a third a second import; a tag needs two
  switches to come back to its sheet.  Saves and deletions of imports are bounded by
  what there is to save or delete.
* `administration`: two workers, one item, one request, two asks; figures up to
  2 where a release must add to something, a restart where a request may be cut.
  `MaxFigure` also bounds the sum a release may reach.

Deadlock is checked in the ledger and the `day_finish` runs.  It is off in
`safe_retry` (the save has been answered), `entry_tabs` (edits, faults, sign-ins
or the page's budget are used up) and `administration` (everything of the scope
was decided), where behaviours end.

### Fairness, and why the code justifies it

* `safe_retry`: weak fairness of the server's steps (Node runs each handler and
  callback it has started), of an answer on an open connection being received,
  and of the person's pressing Save again: `SaveIsAnswered` is about pressing
  again.  Nothing is assumed of faults, the purge, or a lost connection being
  noticed.
* `administration`: weak fairness of the steps of an unlock-request job and of
  an unlock once begun; strong fairness of opening the Admin Queue, which its
  page does on every load: `AsksSettle` says only that an ask does not stay
  although the queue is looked at again and again, with a free worker each time
  competed for by other requests, hence strong.
* `day_finish`: weak fairness of an upload's progress.  Every call to Google
  ends, answered, refused or timed out (undici's `fetch` times out by default
  after 300 s).  Finishing, unlocking and saving are people's doing and have
  none.
* The ledger has none: its properties are safety properties.  The walk is a
  terminating loop and requests wait for people.

### Where the code and its documentation part

Six runs find a sentence of the repository violated:

1. **A held audit is lost** (`correction.service.ts:106`).  Approving a stale
   opening walks without `reachSaved`; for a day saved before the publish the
   gated carry is the old opening, so nothing is written and the request is
   closed.  `README.md` promises the finished day is "held for an admin's
   approval", `propagateOpeningStock` that approving "continues the walk".
2. **A recount takes an earlier count with it** (`manualCounts.service.ts:269`,
   from 118, 166 and 740).  Un-applying walks with the first-save gate, which
   hides every count published after the row, not the one that was withdrawn.
3. **Locks out of sequence** (`dayLock.service.ts:170`).  Days without rows are
   not looked at.
4. **Close day keeps an old report** (`dayLock.service.ts:317`).  It saves no
   snapshot, and `findFrozenSnapshot` serves the one a single page left.
5. **The report may miss a save** (`dayFinish.service.ts:128`).
6. **Two pages finished at once leave no report** (`dayFinish.service.ts:125`).

One more is on record in the repository itself and no run is spent on it:

7. **A Morning count forgets its Night** (`dailyOnlineStockRepository.ts:100-105`,
   the offline one alike).  `openingStock.test.ts:178-207` says of a Morning count
   applied on a date whose Night then moved 4 that the Night's 12 "is what the next
   day must open at - not the count again", and pins as `it.fails` that the code
   opens the next date at the count; the comments at `:72-76` call it a known gap.
   `StockLedger` does what the code does.  The audit rules promise the count, the
   test the Night's remaining stock, so no property is stated of such a count.

### Other observations

Made while modelling; where a property is affected it names the case.

*Ledger and reports.*
* An import whose opening equals the carried one is a no-op save and returns
  before `openingManual` is stored (`dailyOnlineStock.service.ts:251`): that
  opening is not pinned although it was imported.
* `buildDailyReport`'s comment says a combined day closes at "the Night
  sheet's" closing (`reports.service.ts:52-54`); the grid recomputes it from the
  Morning's opening, so over an imported, held or refused Night opening the sheet
  and the totals of one report differ.
* The audit page's comment on `openingBreak` says "only a CSV import can do
  that" (`manualCounts.service.ts:424`); held and refused openings do too.
* `mergeProductInto` (`productMerge.service.ts`) moves one product's rows to
  another without re-deriving openings, so the merged rows need not follow from
  each other until a walk next passes over them.
* A count's stored system figure follows a walk that rewrites its row, not a
  save of the counted period itself, nor a count of a period without a row.
* A frozen report is not the live one in everything.  With one page finished and
  the other without rows, a save on an earlier open day, or a count, changes
  what `buildDailyReport` would give: the frozen copy keeps the carried figure and
  the audit section of the finish.  `schema.prisma:514-519` wants that.  An
  approval of an earlier date without cascade does not look at later dates, whose
  frozen totals may have been carried from it.
* A restart between an approval's own transaction and `refreshFrozenSnapshots`
  leaves a frozen report with the old figure, although "the frozen Daily Report of
  every day written to is re-saved, so a finished day never keeps reporting figures
  its ledger no longer has" (`correction.service.ts:123-125`).  The request is still
  pending, and approving it once more refreshes the report.

*Retries.*
* A dropped connection or an abort frees the key while the handler runs on, so
  the retry runs the save twice, against `http.ts:48-52` and
  `idempotency.ts:36-39`.  A 5xx deletes the row, so the key that the tab keeps
  for it protects nothing.  A 409 makes the tab drop its key.  A connection closed
  before the claim leaves a row without a status until the purge.  A reload
  loses the keys.  A double click is answered 409, not replayed.  A row that
  vanishes between the failed insert and the lookup leaves a run without a
  claim.

*Entry pages.*
* An edit typed during a Retry's re-read is dropped by `clear(productId)`.  A
  reload that finds the session expired leaves edits (or undo steps) in the tab
  for whoever signs in next.  A confirmed log out drops every backup, other
  people's too.  What is written between the re-read and the commit, and what a
  timed-out save commits late, overwrites unseen.  A tab that is throttled for
  more than 20 s lets another restore its draft.

*Audit page and imports.*
* `archiveChangeLog` moves a record's untagged entries and leaves an import's,
  because "undoing an import reads them" (`changeLogArchive.service.ts:15-16`).
  `revertImportBatch` compares with the latest entry *left*
  (`importBatch.service.ts:63`): once a newer edit is archived (nightly, after 12
  months by default, or on demand), the import's own passes for the latest, and
  deleting the old import removes or overwrites the newer count, against "deleting
  an old import must never silently overwrite a newer, legitimate edit" (`:43-44`).
  `RevertTakesImportOnly` without its last disjunct is violated so, in nine states:
  import, save, edit elsewhere, archive, delete the import.
* `importedBatchByProduct` is one per product and survives a switch of sheets: a
  count imported on one sheet tags the draft of the same product on another, typed
  there earlier by hand, which is then taken back with the import (against
  `ManualCountPage.tsx:340-343`).
* Undo Import stages 0 for a cell that was not counted, or blank because published
  (`CsvTools.tsx:945`), so it is a change of its own, not a return.
* Deleting an import whose drafts are still staged makes their saves fail on the
  foreign key until the figure is typed again; counts saved while their import
  is being deleted stay; a published count is restored unpublished; the page
  does not re-read the sheet before it saves.

*Administration.*
* `saveManualCount` is REPEATABLE READ: a count checked before the month closed
  is written into it (against `monthClose.service.ts:128-133`).  An approved
  count correction leaves an unpublished count in a closed month.  `unlockDay`
  does not look at the month.  Finishes and unlocks decided on an older closure
  row overwrite each other's locks.
* Approve and reject of one request at once, or a restart between the
  transactions of an approval, leave a REJECTED or PENDING request whose figure
  was applied.  A cancel or update that loaded an item before its release writes
  CANCELLED, or another quantity, over RELEASED; its stock was added once.
* One request per figure (`correction.service.ts:64`) and one ask per page are
  check-then-create without a unique key.  A reopening of a month that was
  loaded earlier may reopen a newer close.

*Drive and the rest.*
* `saveDailyReports` uploads outside `inDayOrder`: beside another upload it can
  leave two files of a date, or an older report over a newer one (against
  `docs/GOOGLE_DRIVE.md:13` and the comment of `inDayOrder`).  The old file is
  trashed first, so a failure leaves none until the next upload; a restart
  loses the queue.
* `lib/cache.ts:24`: a fill that read before a write may store its value after
  the write's invalidation, and is served until it expires.
* Reverting an import checks that a row's last change is the import's at
  REPEATABLE READ and writes after; an edit between the two is overwritten
  (`RevertTakesImportOnly` exempts it, as a write after the revert began).

## Proofs

Eight modules, for every choice of the constants that satisfies the named
assumptions: `PeriodsAssumption` and its like say that periods, figures and
bounds are numbers and which sets lie in which; `TabsAssumption` and
`AuditAssumption` what the values of a sheet, the undo limit and the marks of
nobody and of no import are; `FileIdsAssumption` and `SomeDatesAssumption` that
files are numbered in the order they are made and that there are finitely many
dates.  Nothing else is assumed finite.  Further hypotheses are named in the
theorem that needs them.

**The ledger.**
* `TypeCorrect`.
* `TransfersConserve`.  The property alone is not inductive: it does not say
  that a row's remaining stock follows from its figures, nor that one page's
  transfers are the other's exchanged, and a save writes from both.  The
  invariant is `Balanced`, their conjunction (`RowsClose`, `TransfersAgree`),
  proved as `LedgerIsBalanced`; `BalancedConserves` derives the property.
* `ChainIsConsistent` (`ChainFollows`).  Inductive given `TypeOK`; the argument
  is about carries: a write to one row (`RowReachesNextRowOnly`) or to one count
  (`CountReachesNextRowOnly`) can change what carries into the next saved row
  only, and that row is where the walk's cursor is set; the walk then settles
  it, holds it or rewrites it, which hands the same obligation to the row after.
  This is why one cursor per page is enough, however long the chain.
* `FinishedPagesStay` (`FinishedPagesFrozen`) and `ImportedOpeningsStay`
  (`ImportsStay`), action properties.  The steps are classified by whether they
  change figures (`FigureSteps`).  `FinishedPagesStay` needs `Balanced`: a save
  beside a locked page mirrors nothing only because both pages already held each
  other's transfers.
* `AppliedCountOpens` (`AppliedCountOpensNextDay`) under two hypotheses:
  `OneSheetCounted`, and `CountedDaysStayOpen`, that no page after a counted
  date is finished; of a count that is the last word of its date, as in the
  property.  Without the first `ledger_recount` violates it, without the
  second `ledger_held_audit`.  The invariant is `CountsReach`: a row over which a
  count is in force opens at the ungated carry, whatever publish it missed, or at
  an imported figure, or the publish's own walk is next at it.  It is about
  every such row, not the first only, and unlike `ChainFollows` it lets none of
  them open at the gated carry.

**The reports**, all from the ledger's invariants, no new one:
* `PreviewsAreCarries`: the latest row of an earlier period is the last sheet
  of the latest earlier date, or the same date's Morning (`PredecessorIsLatest`),
  and a count is in force over the one exactly when it is over the other
  (`PreviewEqualsCarry`).
* `ReportAgreesWithTotals`: needs that rows close (`RowsClose`) and that an
  unexcused Night opens at its Morning's closing (`ChainFollows`, and
  `NightOpensAtMorning`: no count comes between them).
* `AuditsAreExplained`; `StockFollowsFlow`: a Morning is carried what the date
  before shows (`MorningCarriesDayStock`), a page moves by what its rows moved
  (`DayStockMoves`), and the transfers of the two pages cancel
  (`TransfersAgree`).

**Finishing days.** `TypeCorrect` for any number of workers.
`ServedReportIsLedger`, `FinishLeavesReport` and `UnlockLiftsLocks` assume
`OneAtATime` (`\A v, w \in Workers : v = w`): with two workers the runs
`day_finish_race` and `day_finish_two_pages` violate the first two.  The
inductive invariant `DayInv` adds to the types what a worker in each step has
read and that it is still so (`OpKnows`), and that every date finished by
encoders is reported as it is (`DaysReported`).  Saves, counts and restarts are
covered: only an approval writes to a row of a date whose report is served, and
the dates it writes to are those it looks at next (`SaveKnows`, `ApprovalKnows`);
a restart before it has done so puts them into `cut`.  Counts do not touch the
rows of a report, which are what `ServedReportIsLedger` is about.

**Drive.** `DriveTypeCorrect` and `OneFile` (`OneFileADay`) for any number of
workers, uploads, failures and restarts.  `QueueInv`: an upload that was asked for
stands in its date's queue, and has built its report only as its head.
`FilesInv`: two uploads past their beginning run beside each other only where it
is known that they crossed (`unsure`); any other one, when it has listed the date's
files, knows all of them but the one it puts itself.  `DriveHasReport`
(`DriveHoldsReport`) is under `OneAtATime`, since it rests on the served report
(`DayInv`).  In `DeliveredInv` an upload of a finished date has not built its
report yet (`Coming`), or carries what is served (`Carrying`), or Drive holds it
(`Holding`); whatever changes what is served asks for an upload.

**Safe retries.** The invariant is `TypeOK`, that attempts are used in order,
that a claim's row outlives its run unless the key was freed (`RowsOutliveRuns`),
that an answer "ok" means a stored run (`OksAreStored`), and `ChancesArePaid`: the
runs that have happened or may still happen are at most one more than the risks
taken.  From it `OncePerKey`, `SavedIsStoredAlways`, and
`RetriesImplementSaveOnce`, that every step is a step of `SaveOnce` or a stutter.

**Entry pages.** For any number of tabs, people, figures and undo steps.
`TypeCorrect` needs `SavesHaveEdits`: a save under way has something staged, in a
tab that is signed in, and what is staged is what it saves unless the person went
on typing.  With it (`TabsInv`), `SavesOverwriteWhatWasSeen`, `EditsEnd` and
`OrphansWait` follow step by step.  `DraftsAreTheirAuthors` needs `MarksAreOwned`:
what a tab has staged, or has in its undo or redo steps, was made by the person
signed in there, unless an ended session left it behind.

**Audit page.** For any number of sheets, imports, figures and archivings.  The
deletion of an import decides from the change log alone, so `AuditInv` says what
the log tells: record ids are of one sheet; a count that stands as an import left
it is the subject of its record's last entry, tagged with that import
(`OriginsAreLogged`); a tagged entry that is the last of a sheet that was never
archived is of such a count, or of one whose attribution was carried (`TagsTell`);
and a deletion under way still has before it every count its import left
(`RevertKnows`).  Each write keeps this by `RewritesKeepBook`.  Then an entry of
such a count is taken (`StandingIsTaken`: `RevertTakesAll`), and an entry that is
taken is the last one (`TakenIsLast`: `RevertTakesNoOther`).
`PagesKeepTheirSpecs`: a client with both kinds of page behaves as each
specification says, so what is proved of either holds of the composition.

**Administration.** `Types`; `ItemInv` (an item loaded by a job is as loaded, or
will be marked overtaken) for `ReleaseListTrue` and `StockIsAddedOnce`;
invariants of a decision and of an ask in progress for `DecisionsSayTheTruth`
and `NoAskIsDropped`; `MonthInv` for `ClosedMonthStaysFinal`;
`ClosedFiguresChangeByApproval` is an action property from it.  For any number
of workers, items, requests and asks.

Only model-checked: what is temporal beyond safety (`SaveIsAnswered`,
`AsksSettle`, `UploadsEnd`).  Liveness under fairness and `ENABLED` are out of the
prover's reach, and so is induction over data: `Carry` is defined by choice from
sets instead of recursion for that reason, so all of it can be proved of.  Every
safety property of a passing run is stated by a theorem, where it needs one
under the hypotheses without which a run above violates it.

## Not modelled

* *Of the ledger*: several products (rows of different products share only
  locks, the order of days and the publish; see the remark on `FinishPage`), the
  variance stored with a count (its system figure is in `DayFinish`), its remarks,
  the opening-balance flag and TOTAL counts; added columns, summed before they reach
  the row; whole-day mode in the refusals of `assertPeriodOpen`.
* *Of finishing*: the 62-day limit and dates that have not happened; a waived
  order of days; in a report, products without a row on a page that has rows
  of others (one product stands for a page), product names, and of its audit
  section TOTAL counts, variance, remarks and the opening-balance flag.
* *Of the month*: that its end has come and the release window of a day either
  side; the readiness warnings, which stop nothing.
* *Of the entry pages*: several products per save, added columns, the
  manual-count cell, the expiry of backups after a week.
* *Of Drive*: the connection and its token, folders and their locks, backups,
  retention and the schedule, the time of saving printed on the PDF.
* *Of the reading pages*: outflow charts, days of stock left, report history,
  action queue and PDF: sums, divisions, lists and layout of the same rows.
* *Of the audit page*: several products and locations per save, printing, selection
  and layout; CSV parsing and matching; the row count an import is finalized
  with.  The opening a reverted count hands on is `StockLedger`'s.
* **Sheet restore, product merge and data reset**: a restore replays ordinary
  saves in one SERIALIZABLE transaction; merge and reset are
  administrators' rewrites of whole tables (see the remark on merging above).
* **The rest of the change log, users and sign-in, products, backup, HTTP
  layer**: records, access control, master data and I/O around the protocols.
* **The other client pages**: React components for layout, selection, printing
  and CSV parsing, whose rules the server enforces.  Most of the nearly 58,000
  lines of implementation are such components, their styles and their helpers,
  with no protocol of their own; the server's services, middleware and
  repositories, where the state changes, are about 10,400.  The map covers about
  5,100 lines, nearly all in the files that change stock, locks, reports and
  requests.

## Plan

Done, in order of what the system depends on most: `StockLedger` and `DayLock`
with their theorems; finishing, ranges and Drive; retries and their refinement;
entry pages; month closing and the queues; the reading pages; the audit page and
its imports.  What would come next: the stored variance of a count as a field of
`StockLedger.Count`; `EntryTabs` with two products per save; a weaker
`OneSheetCounted`, that no count is withdrawn while a later one stands.

## Running it

    tlc -config ledger_locks.cfg          MCStockLedger
    tlc -config ledger_counts.cfg         MCStockLedger
    tlc -config ledger_held_audit.cfg     MCStockLedger
    tlc -config ledger_recount.cfg        MCStockLedger
    tlc -config ledger_lock_order.cfg     MCStockLedger
    tlc -config day_finish.cfg            MCDriveReports
    tlc -config day_close_report.cfg      MCDayFinish
    tlc -config day_finish_race.cfg       MCDayFinish
    tlc -config day_finish_two_pages.cfg  MCDayFinish
    tlc -config safe_retry.cfg            SafeRetry
    tlc -config entry_tabs.cfg            MCEntryTabs
    tlc -config administration.cfg        MCAdministration

    tlapm StockLedgerProofs.tla
    tlapm StockLedgerChain.tla
    tlapm DayFinishProofs.tla
    tlapm DriveReportsProofs.tla
    tlapm SafeRetryProofs.tla
    tlapm EntryTabsProofs.tla
    tlapm AuditSheetsProofs.tla
    tlapm AdministrationProofs.tla
