------------------------------- MODULE DayLock -------------------------------
(***************************************************************************)
(* The lock of one period (a date and a shift), as kept in a row of        *)
(* day_closures and computed by server/src/services/dayLock.service.ts.    *)
(* Online and Offline are two pages finished independently; onlineLocked   *)
(* and offlineLocked are the members of `locked`.  The column isClosed is  *)
(* written as the conjunction of the two flags by every writer of the row, *)
(* so it is the predicate IsClosed here.                                   *)
(***************************************************************************)
EXTENDS Integers

Pages == {"ONLINE", "OFFLINE"}
OtherPage(page) == IF page = "ONLINE" THEN "OFFLINE" ELSE "ONLINE"

\* `exists`: the row of day_closures was written at least once; an unlock
\* keeps the row.
Closures == [exists: BOOLEAN, locked: SUBSET Pages, entriesOnly: BOOLEAN]
NoClosure == [exists |-> FALSE, locked |-> {}, entriesOnly |-> TRUE]

IsSideLocked(closure, page) == page \in closure.locked
IsClosed(closure) == closure.locked = Pages

\* Counts are refused only by an admin's full close, entries by the page's lock.
CountsClosed(closure) == IsClosed(closure) /\ ~closure.entriesOnly

\* What was asked for is already locked at least that hard.
AlreadyClosed(closure, scope, entriesOnly) ==
    \/ scope # Pages /\ scope \subseteq closure.locked
    \/ scope = Pages /\ IsClosed(closure) /\ (entriesOnly \/ ~closure.entriesOnly)

\* Mutant of ClosePeriod: the other page's flag is not carried over.
ClosePeriodOverwriting(closure, scope, entriesOnly) ==
    IF AlreadyClosed(closure, scope, entriesOnly)
    THEN closure
    ELSE [exists |-> TRUE, locked |-> scope, entriesOnly |-> entriesOnly]

\* closePeriod: `scope` is one page (an encoder's Finish day) or both.
ClosePeriod(closure, scope, entriesOnly) ==
    IF AlreadyClosed(closure, scope, entriesOnly)
    THEN closure
    ELSE [exists |-> TRUE, locked |-> closure.locked \cup scope,
          entriesOnly |-> entriesOnly]

\* unlockDay, for one page or for both; only the lock flags change.
Unlockable(closure, scope) == closure.locked \cap scope # {}
Unlocked(closure, scope) == [closure EXCEPT !.locked = @ \ scope]
=============================================================================
