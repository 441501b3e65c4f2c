---------------------------- MODULE Administration ----------------------------
(***************************************************************************)
(* Closing a month while its pages are finished and unlocked, its awaiting *)
(* items released, its figures corrected and its locks asked about, by     *)
(* requests served at the same time.                                       *)
(***************************************************************************)
EXTENDS AwaitingRelease, Corrections, UnlockRequests

vars == <<monthVars, item, request, ask, opened>>

TypeOK == MonthTypeOK /\ ReleaseTypeOK /\ CorrectionTypeOK /\ AskTypeOK

Init == MonthInit /\ ReleaseInit /\ CorrectionInit /\ AskInit

\* closeMonth: one SERIALIZABLE transaction over pages, counts and requests
Close == CloseMonth(Pending) /\ UNCHANGED <<item, request, ask>>

\* unlockDay: the lock, and the asks it answers
UnlockDay(w) == UnlockPages(w) /\ AnswerAsks(job[w].on) /\ UNCHANGED <<item, request>>

Crash == Restart /\ CutApprovals /\ UNCHANGED <<item, ask>>

Next ==
    /\ \/ MonthNext /\ UNCHANGED <<item, request, ask>>
       \/ ReleaseNext /\ UNCHANGED <<request, ask>>
       \/ CorrectionNext /\ UNCHANGED <<item, ask>>
       \/ AskNext /\ UNCHANGED <<item, request>>
       \/ Close \/ (\E w \in Workers: UnlockDay(w)) \/ Crash
    /\ Observe

Spec == Init /\ [][Next]_vars

\* A request of the unlock requests' part that was begun goes on to its end.
Proceed(w) ==
    \/ (FindAsk(w) \/ Sweep(w) \/ \E a \in Asks: CreateAsk(w, a)) /\ UNCHANGED <<item, request>>
    \/ (ReadForFinish(w) \/ LockPage(w)) /\ UNCHANGED <<item, request, ask>>
    \/ UnlockDay(w)

\* The Admin Queue is opened again and again, whatever else is served.
OpenQueue(a) == (\E w \in Workers: ReadAsk(w, a)) /\ UNCHANGED <<item, request>>

Fairness ==
    /\ \A a \in Asks: SF_vars(OpenQueue(a) /\ Observe)
    /\ \A w \in Workers: WF_vars(Proceed(w) /\ Observe)

FairSpec == Spec /\ Fairness

-----------------------------------------------------------------------------
(* Properties *)

\* A closed month is what was closed: every page with rows finished, every count
\* published, nobody waiting for a correction.  What can still change it is known:
\* an unlock, a finish decided on an older row, a count checked before the close,
\* a corrected count and a request raised since.
ClosedMonthIsFinal ==
    monthClosed /\ ~disturbed =>
        /\ \A page \in Pages: entry[page] # 0 => Locked(page) /\ page \notin earlier
        /\ count # "saved"
        /\ Pending = {}
=============================================================================
