---------------------------- MODULE UnlockRequests ----------------------------
(***************************************************************************)
(* An encoder's recorded ask for a page to be unlocked (unlockRequest.     *)
(* service.ts): resolved by the unlock of its page, or once the page has   *)
(* opened up, by whoever looks at the page or at the Admin Queue.          *)
(***************************************************************************)
EXTENDS MonthClose, FiniteSets

CONSTANTS Asks

ASSUME AsksAssumption == Asks \subseteq Nat

VARIABLES
    ask,     \* ask[a]: a row of unlock_requests
    opened   \* asks whose page was seen without its lock since they were made

AskTypeOK ==
    /\ ask \in [Asks -> [status: {"none", "PENDING", "RESOLVED"}, page: Pages]]
    /\ opened \in SUBSET Asks

AskInit ==
    /\ ask = [a \in Asks |-> [status |-> "none", page |-> "ONLINE"]]
    /\ opened = {}

Waiting(a) == ask[a].status = "PENDING"

\* isLockedForEntry: finished, or held up by an earlier unfinished day
LockedForEntry(page) == Locked(page) \/ page \in earlier

\* Bound: every request under way has a row left for its ask.
Room ==
    LET asking == {w \in Workers: job[w].step \in {"asking", "creating"}}
    IN Cardinality(asking) < Cardinality({a \in Asks: ask[a].status = "none"})

\* requestUnlock: the lock, the ask already waiting, and a new ask.
CheckLocked(w, page) ==
    /\ On("unlock request")
    /\ Room
    /\ LockedForEntry(page)
    /\ Start(w, [Idle EXCEPT !.step = "asking", !.on = {page}])
    /\ UNCHANGED <<closure, entry, earlier, count, monthClosed, disturbed, crashes, scope, ask>>

FindAsk(w) ==
    /\ At(w, "asking")
    /\ IF \E a \in Asks: Waiting(a) /\ ask[a].page \in job[w].on
       THEN End(w)
       ELSE GoTo(w, "creating")
    /\ UNCHANGED <<closure, entry, earlier, count, monthClosed, disturbed, crashes, scope, ask>>

CreateAsk(w, a) ==
    /\ At(w, "creating")
    /\ ask[a].status = "none"
    /\ \E page \in job[w].on: ask' = [ask EXCEPT ![a] = [status |-> "PENDING", page |-> page]]
    /\ End(w)
    /\ UNCHANGED <<closure, entry, earlier, count, monthClosed, disturbed, crashes, scope>>

\* Mutant of AsksOf: the asks for both pages are answered.
AsksOfPeriod(on) == {a \in Asks: Waiting(a)}
AsksOf(on) == {a \in Asks: Waiting(a) /\ ask[a].page \in on}

\* unlockDay's updateMany, in the transaction of the unlock
AnswerAsks(on) ==
    ask' = [a \in Asks |-> IF a \in AsksOf(on) THEN [ask[a] EXCEPT !.status = "RESOLVED"]
                           ELSE ask[a]]

\* sweepStaleUnlockRequests and currentUnlockRequest: an ask, its page, the mark
ReadAsk(w, a) ==
    /\ Waiting(a)
    /\ Start(w, [Idle EXCEPT !.step = "sweeping", !.id = a])
    /\ UNCHANGED <<closure, entry, earlier, count, monthClosed, disturbed, crashes, scope, ask>>

\* Mutant of Stale: no page is found to have opened up.
StaleNever(page) == FALSE
Stale(page) == ~LockedForEntry(page)

CheckAsk(w) ==
    /\ At(w, "sweeping")
    /\ IF Stale(ask[job[w].id].page) THEN GoTo(w, "resolving") ELSE End(w)
    /\ UNCHANGED <<closure, entry, earlier, count, monthClosed, disturbed, crashes, scope, ask>>

ResolveAsk(w) ==
    LET a == job[w].id IN
    /\ At(w, "resolving")
    /\ ask' = IF Waiting(a) THEN [ask EXCEPT ![a].status = "RESOLVED"] ELSE ask
    /\ End(w)
    /\ UNCHANGED <<closure, entry, earlier, count, monthClosed, disturbed, crashes, scope>>

Sweep(w) == CheckAsk(w) \/ ResolveAsk(w)

AskNext ==
    \E w \in Workers:
        \/ FindAsk(w) \/ Sweep(w)
        \/ \E page \in Pages: CheckLocked(w, page)
        \/ \E a \in Asks: CreateAsk(w, a) \/ ReadAsk(w, a)

\* Bookkeeping of `opened`, a conjunct of every step.
Observe ==
    opened' = {a \in Asks: \/ a \in opened
                           \/ /\ Waiting(a) \/ Waiting(a)'
                              /\ ~IsSideLocked(closure', ask'[a].page)}

-----------------------------------------------------------------------------
(* Properties *)

\* No ask is dropped: one is resolved only if its page was without its lock at
\* some moment since it was made.
AsksAreAnswered ==
    \A a \in Asks: ask[a].status = "RESOLVED" => a \in opened

\* An ask does not wait for ever on a page that has opened up.
AsksSettle ==
    \A a \in Asks: []<>(~Waiting(a) \/ LockedForEntry(ask[a].page))
=============================================================================
