------------------------------ MODULE MonthClose ------------------------------
(***************************************************************************)
(* One period of a month that is being closed: the lock layer above a      *)
(* day's own (monthClose.service.ts, dayLock.service.ts), and the writes   *)
(* it has to stop.  Awaiting items, corrections and unlock requests extend *)
(* this module; Administration puts them together.                         *)
(*                                                                         *)
(* The month has ended and its last day may still be released into, so all *)
(* of it can happen at once.  A SERIALIZABLE transaction (an entry save, a *)
(* release, the close of the month) is one step.  A REPEATABLE READ one is *)
(* cut between what it reads, without a lock, and what it writes.          *)
(***************************************************************************)
EXTENDS DayLock

CONSTANTS
    Workers,      \* requests served at once
    MaxFigure,    \* the largest figure of a row
    Scopes        \* what one behaviour exercises, see `scope`

ASSUME FigureAssumption == MaxFigure \in Nat \ {0}

VARIABLES
    closure,       \* the period's lock, a row of day_closures
    entry,         \* entry[page]: Production (In) of a product, 0 without a row
    earlier,       \* pages with an unfinished earlier day of the month
    count,         \* the period's manual count
    monthClosed,   \* month_closures.isClosed
    disturbed,     \* a known way to change a closed month was taken since it was closed
    job,           \* job[w]: the request worker w is serving
    crashes,       \* restarts so far
    scope          \* the parts of the system, pages, largest figure typed and restarts

monthVars == <<closure, entry, earlier, count, monthClosed, disturbed, job, crashes, scope>>

On(part) == part \in scope.parts

Figures == 1..MaxFigure

\* `seen`: the status of the row the job loaded.
Steps == {"idle", "finishing", "locking", "unlocking", "counting", "reopening",
          "updating", "cancelling", "requesting", "approving", "marking", "rejecting",
          "asking", "creating", "sweeping", "resolving"}
Jobs == [step: Steps, id: Nat, on: SUBSET (Pages \cup {"COUNT"}), figure: 0..MaxFigure,
         seen: {"none", "AWAITING", "RELEASED", "CANCELLED", "PENDING", "APPROVED", "REJECTED"},
         read: Closures]
Idle == [step |-> "idle", id |-> 0, on |-> {}, figure |-> 0, seen |-> "none", read |-> NoClosure]

At(w, step) == job[w].step = step
Start(w, new) == At(w, "idle") /\ job' = [job EXCEPT ![w] = new]
GoTo(w, step) == job' = [job EXCEPT ![w].step = step]

\* Mutant of End: what the request had loaded is kept.
EndKeepingLoaded(w) == GoTo(w, "idle")
End(w) == job' = [job EXCEPT ![w] = Idle]

Locked(page) == IsSideLocked(closure, page)

MonthTypeOK ==
    /\ closure \in Closures
    /\ entry \in [Pages -> 0..MaxFigure]
    /\ earlier \in SUBSET Pages
    /\ count \in {"none", "saved", "published"}
    /\ monthClosed \in BOOLEAN
    /\ disturbed \in BOOLEAN
    /\ job \in [Workers -> Jobs]
    /\ \A w \in Workers: At(w, "idle") => job[w] = Idle
    /\ crashes \in Nat
    /\ scope \in Scopes

MonthInit ==
    /\ closure = NoClosure
    /\ entry = [page \in Pages |-> 0]
    /\ earlier = {}
    /\ count = "none"
    /\ monthClosed = FALSE
    /\ disturbed = FALSE
    /\ job = [w \in Workers |-> Idle]
    /\ crashes = 0
    /\ scope \in Scopes

Disturb(how) == disturbed' = (disturbed \/ (monthClosed /\ how))

-----------------------------------------------------------------------------
(* Entries and counts *)

\* assertPeriodOpen and assertEarlierDaysFinished
OpenForEntry(page) == ~monthClosed /\ ~Locked(page) /\ page \notin earlier

SaveEntry(page, figure) ==
    /\ page \in scope.pages /\ figure <= scope.figure
    /\ OpenForEntry(page)
    /\ entry' = [entry EXCEPT ![page] = figure]
    /\ UNCHANGED <<closure, earlier, count, monthClosed, disturbed, job, crashes, scope>>

\* saveManualCount: the month is read, then the count is written, unpublished.
CheckCount(w) ==
    /\ On("count")
    /\ ~monthClosed
    /\ ~CountsClosed(closure)
    /\ Start(w, [Idle EXCEPT !.step = "counting"])
    /\ UNCHANGED <<closure, entry, earlier, count, monthClosed, disturbed, crashes, scope>>

SaveCount(w) ==
    /\ At(w, "counting")
    /\ count' = "saved"
    /\ Disturb(TRUE)
    /\ End(w)
    /\ UNCHANGED <<closure, entry, earlier, monthClosed, crashes, scope>>

\* publishManualCounts; counts kept for audit only are published in any month.
PublishCount ==
    /\ count = "saved"
    /\ count' = "published"
    /\ UNCHANGED <<closure, entry, earlier, monthClosed, disturbed, job, crashes, scope>>

-----------------------------------------------------------------------------
(* Finishing and unlocking a page *)

\* finishDay's checks, before its transaction
CheckFinish(w, page) ==
    /\ ~Locked(page)
    /\ page \notin earlier
    /\ entry[page] # 0
    /\ Start(w, [Idle EXCEPT !.step = "finishing", !.on = {page}])
    /\ UNCHANGED <<closure, entry, earlier, count, monthClosed, disturbed, crashes, scope>>

ReadForFinish(w) ==
    /\ At(w, "finishing")
    /\ job' = [job EXCEPT ![w].step = "locking", ![w].read = closure]
    /\ UNCHANGED <<closure, entry, earlier, count, monthClosed, disturbed, crashes, scope>>

\* The row is written as read, whatever was written in between; a row created
\* in between fails the request.
LockPage(w) ==
    LET read == job[w].read IN
    /\ At(w, "locking")
    /\ closure' = IF AlreadyClosed(read, job[w].on, TRUE) \/ (closure.exists /\ ~read.exists)
                  THEN closure
                  ELSE ClosePeriod(read, job[w].on, TRUE)
    /\ Disturb(closure # read)
    /\ End(w)
    /\ UNCHANGED <<entry, earlier, count, monthClosed, crashes, scope>>

\* unlockDay; the month is not looked at.
ReadForUnlock(w, on) ==
    /\ Unlockable(closure, on)
    /\ Start(w, [Idle EXCEPT !.step = "unlocking", !.on = on, !.read = closure])
    /\ UNCHANGED <<closure, entry, earlier, count, monthClosed, disturbed, crashes, scope>>

UnlockPages(w) ==
    /\ At(w, "unlocking")
    /\ closure' = Unlocked(job[w].read, job[w].on)
    /\ Disturb(TRUE)
    /\ End(w)
    /\ UNCHANGED <<entry, earlier, count, monthClosed, crashes, scope>>

\* An earlier day of the month is unlocked, or finished (again).
UnlockEarlier(page) ==
    /\ On("unlock request")
    /\ page \notin earlier
    /\ earlier' = earlier \cup {page}
    /\ Disturb(TRUE)
    /\ UNCHANGED <<closure, entry, count, monthClosed, job, crashes, scope>>

FinishEarlier(page) ==
    /\ page \in earlier
    /\ earlier' = earlier \ {page}
    /\ UNCHANGED <<closure, entry, count, monthClosed, disturbed, job, crashes, scope>>

-----------------------------------------------------------------------------
(* Closing and reopening the month *)

\* Mutant of MonthReady: unpublished counts and pending corrections are warnings.
MonthReadyWarning(pending) ==
    /\ \E page \in Pages: entry[page] # 0
    /\ \A page \in Pages: entry[page] # 0 => Locked(page)
    /\ earlier = {}

\* monthReadiness: `pending` are the undecided corrections against the month.
MonthReady(pending) ==
    /\ \E page \in Pages: entry[page] # 0
    /\ \A page \in Pages: entry[page] # 0 => Locked(page)
    /\ earlier = {}
    /\ count # "saved"
    /\ pending = {}

CloseMonth(pending) ==
    /\ On("month")
    /\ ~monthClosed
    /\ MonthReady(pending)
    /\ monthClosed' = TRUE
    /\ disturbed' = FALSE
    /\ UNCHANGED <<closure, entry, earlier, count, job, crashes, scope>>

\* unlockMonth
ReadForReopen(w) ==
    /\ monthClosed
    /\ Start(w, [Idle EXCEPT !.step = "reopening"])
    /\ UNCHANGED <<closure, entry, earlier, count, monthClosed, disturbed, crashes, scope>>

ReopenMonth(w) ==
    /\ At(w, "reopening")
    /\ monthClosed' = FALSE
    /\ End(w)
    /\ UNCHANGED <<closure, entry, earlier, count, disturbed, crashes, scope>>

\* The server is restarted: its transactions are rolled back, its jobs lost.
Restart ==
    /\ crashes < scope.crashes
    /\ \E w \in Workers: ~At(w, "idle")
    /\ crashes' = crashes + 1
    /\ job' = [w \in Workers |-> Idle]
    /\ UNCHANGED <<closure, entry, earlier, count, monthClosed, disturbed, scope>>

-----------------------------------------------------------------------------
\* Every step but the close, an unlock and a restart, which also touch the queues.
MonthNext ==
    \/ PublishCount
    \/ \E page \in Pages:
        \/ UnlockEarlier(page) \/ FinishEarlier(page)
        \/ \E figure \in Figures: SaveEntry(page, figure)
    \/ \E w \in Workers:
        \/ CheckCount(w) \/ SaveCount(w)
        \/ ReadForFinish(w) \/ LockPage(w)
        \/ ReadForReopen(w) \/ ReopenMonth(w)
        \/ \E page \in Pages: CheckFinish(w, page)
        \/ \E on \in {{page}: page \in Pages} \cup {Pages}: ReadForUnlock(w, on)
=============================================================================
