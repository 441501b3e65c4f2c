---------------------------- MODULE AwaitingRelease ----------------------------
(***************************************************************************)
(* Finished goods that cannot be sold yet (pendingRelease.service.ts): an  *)
(* awaiting item is released into Production (In) of the current shift, or *)
(* written off.                                                            *)
(***************************************************************************)
EXTENDS MonthClose

CONSTANTS Items

ASSUME ItemsAssumption == Items \subseteq Nat

VARIABLE item   \* item[i]: a row of pending_releases

\* `added`: what its release put into stock.  `overtaken`: it was written by a
\* request that had loaded it before somebody else resolved it.
ItemStatuses == {"none", "AWAITING", "RELEASED", "CANCELLED"}
NoItem == [status |-> "none", page |-> "ONLINE", quantity |-> 0, added |-> 0, overtaken |-> FALSE]

ReleaseTypeOK ==
    item \in [Items -> [status: ItemStatuses, page: Pages, quantity: 0..MaxFigure,
                        added: 0..MaxFigure, overtaken: BOOLEAN]]

ReleaseInit == item = [i \in Items |-> NoItem]

CreateItem(i, page, quantity) ==
    /\ On("release") /\ page \in scope.pages
    /\ item[i].status = "none"
    /\ item' = [item EXCEPT ![i] = [NoItem EXCEPT !.status = "AWAITING", !.page = page,
                                                  !.quantity = quantity]]
    /\ UNCHANGED monthVars

\* Mutant of Awaiting: an item that was resolved is loaded as well.
AwaitingAny(i) == item[i].status # "none"

Awaiting(i) == item[i].status = "AWAITING"

\* loadAwaiting, for an update or a cancel, in a REPEATABLE READ transaction
LoadItem(w, i, step, quantity) ==
    /\ Awaiting(i)
    /\ Start(w, [Idle EXCEPT !.step = step, !.id = i, !.figure = quantity,
                             !.seen = item[i].status])
    /\ UNCHANGED <<closure, entry, earlier, count, monthClosed, disturbed, crashes, scope, item>>

\* Mutant of Rewritten: the whole row is written back as it was loaded.
RewrittenWhole(old, j) ==
    LET new == [old EXCEPT !.overtaken = @ \/ old.status # j.seen] IN
    IF j.step = "cancelling"
    THEN [new EXCEPT !.status = "CANCELLED"]
    ELSE [new EXCEPT !.status = j.seen, !.quantity = j.figure]

\* What an update or a cancel writes, by id alone.
Rewritten(old, j) ==
    LET new == [old EXCEPT !.overtaken = @ \/ old.status # j.seen] IN
    IF j.step = "cancelling"
    THEN [new EXCEPT !.status = "CANCELLED"]
    ELSE [new EXCEPT !.quantity = j.figure]

WriteItem(w) ==
    /\ At(w, "updating") \/ At(w, "cancelling")
    /\ item' = [item EXCEPT ![job[w].id] = Rewritten(@, job[w])]
    /\ End(w)
    /\ UNCHANGED <<closure, entry, earlier, count, monthClosed, disturbed, crashes, scope>>

\* releasePendingRelease: the entry save and the status in one transaction
Release(i) ==
    LET page == item[i].page IN
    /\ Awaiting(i)
    /\ OpenForEntry(page)
    /\ entry[page] + item[i].quantity <= MaxFigure
    /\ item[i].added + item[i].quantity <= MaxFigure
    /\ entry' = [entry EXCEPT ![page] = @ + item[i].quantity]
    /\ item' = [item EXCEPT ![i].status = "RELEASED", ![i].added = @ + item[i].quantity]
    /\ UNCHANGED <<closure, earlier, count, monthClosed, disturbed, job, crashes, scope>>

ReleaseNext ==
    \/ \E w \in Workers: WriteItem(w)
    \/ \E i \in Items:
        \/ Release(i)
        \/ \E page \in Pages, quantity \in Figures: CreateItem(i, page, quantity)
        \/ \E w \in Workers:
            \/ LoadItem(w, i, "cancelling", 0)
            \/ \E quantity \in Figures: LoadItem(w, i, "updating", quantity)

-----------------------------------------------------------------------------
(* Properties *)

\* An item enters stock once, whatever is written over its row while it is being
\* released ("an item can neither be released twice nor ...").
StockAddedOnce ==
    [][\A i \in Items: item[i].added # 0 => item'[i].added = item[i].added]_<<item, monthVars>>

\* What the list says of an item is what its stock got, unless an update or a
\* cancel that loaded it earlier was written over its release.
ReleaseListIsTrue ==
    \A i \in Items: ~item[i].overtaken =>
        item[i].added = IF item[i].status = "RELEASED" THEN item[i].quantity ELSE 0
=============================================================================
