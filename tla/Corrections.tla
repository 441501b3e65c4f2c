------------------------------ MODULE Corrections ------------------------------
(***************************************************************************)
(* The corrections queue (correction.service.ts): a figure of a finished   *)
(* page, or of a closed month, is changed by an approved request only.     *)
(*                                                                         *)
(* An approval loads the request, writes the figure and marks the request  *)
(* in three transactions; nothing of it is locked in between.              *)
(***************************************************************************)
EXTENDS MonthClose

CONSTANTS Requests

ASSUME RequestsAssumption == Requests \subseteq Nat

VARIABLE request   \* request[r]: a row of correction_requests

\* `late`: raised while the month was closed.  `applied`: its figure was
\* written.  `contested`: it was loaded to be decided while another decision of
\* it was under way.  `cut`: a restart fell between its figure and its mark.
RequestStatuses == {"none", "PENDING", "APPROVED", "REJECTED"}
Correctable == Pages \cup {"COUNT"}
NoRequest == [status |-> "none", on |-> "COUNT", value |-> 0, late |-> FALSE,
              applied |-> FALSE, contested |-> FALSE, cut |-> FALSE]

CorrectionTypeOK ==
    request \in [Requests -> [status: RequestStatuses, on: Correctable, value: 0..MaxFigure,
                              late: BOOLEAN, applied: BOOLEAN, contested: BOOLEAN,
                              cut: BOOLEAN]]

CorrectionInit == request = [r \in Requests |-> NoRequest]

Undecided(r) == request[r].status = "PENDING"
Pending == {r \in Requests: Undecided(r)}

HasRow(on) == IF on = "COUNT" THEN count # "none" ELSE entry[on] # 0

\* requestCorrection looks for a pending one, then creates its own.
CheckRequest(w, on, value) ==
    /\ On("correction")
    /\ HasRow(on) /\ value <= scope.figure
    /\ on \in Pages => entry[on] # value
    /\ \A r \in Pending: request[r].on # on
    /\ Start(w, [Idle EXCEPT !.step = "requesting", !.on = {on}, !.figure = value])
    /\ UNCHANGED <<closure, entry, earlier, count, monthClosed, disturbed, crashes, scope, request>>

CreateRequest(w, r) ==
    /\ At(w, "requesting")
    /\ request[r].status = "none"
    /\ \E on \in job[w].on:
           request' = [request EXCEPT ![r] = [NoRequest EXCEPT !.status = "PENDING", !.on = on,
                                                !.value = job[w].figure, !.late = monthClosed]]
    /\ Disturb(TRUE)
    /\ End(w)
    /\ UNCHANGED <<closure, entry, earlier, count, monthClosed, crashes, scope>>

\* Mutant of Decidable: a decided request can be decided again.
DecidableAny(r) == request[r].status # "none"
Decidable(r) == Undecided(r)

Deciding(r) ==
    \E w \in Workers: job[w].id = r /\ job[w].step \in {"approving", "marking", "rejecting"}

\* loadPending, outside any transaction
LoadRequest(w, r, step) ==
    /\ Decidable(r)
    /\ Start(w, [Idle EXCEPT !.step = step, !.id = r, !.seen = request[r].status])
    /\ request' = [request EXCEPT ![r].contested = @ \/ Deciding(r)]
    /\ UNCHANGED <<closure, entry, earlier, count, monthClosed, disturbed, crashes, scope>>

\* runAsAdjustment: no lock, order or closed month stops the save.
Applied(on, value) ==
    IF on \in Pages THEN [entry EXCEPT ![on] = value] ELSE entry

\* A corrected count is unpublished, like any count that is saved again.
ApplyRequest(w) ==
    LET r == job[w].id IN
    /\ At(w, "approving")
    /\ entry' = Applied(request[r].on, request[r].value)
    /\ count' = IF request[r].on = "COUNT" THEN "saved" ELSE count
    /\ Disturb(request[r].on = "COUNT")
    /\ request' = [request EXCEPT ![r].applied = TRUE]
    /\ GoTo(w, "marking")
    /\ UNCHANGED <<closure, earlier, monthClosed, crashes, scope>>

\* The mark is unconditional, of an approval as of a rejection.
MarkRequest(w, step, status) ==
    /\ At(w, step)
    /\ request' = [request EXCEPT ![job[w].id].status = status]
    /\ End(w)
    /\ UNCHANGED <<closure, entry, earlier, count, monthClosed, disturbed, crashes, scope>>

\* What a restart leaves of the approvals under way.
CutApprovals ==
    request' = [r \in Requests |->
        [request[r] EXCEPT !.cut = @ \/ \E w \in Workers: At(w, "marking") /\ job[w].id = r]]

CorrectionNext ==
    \E w \in Workers:
        \/ \E on \in Correctable, value \in Figures: CheckRequest(w, on, value)
        \/ ApplyRequest(w)
        \/ MarkRequest(w, "marking", "APPROVED")
        \/ MarkRequest(w, "rejecting", "REJECTED")
        \/ \E r \in Requests:
            CreateRequest(w, r) \/ LoadRequest(w, r, "approving") \/ LoadRequest(w, r, "rejecting")

-----------------------------------------------------------------------------
(* Properties *)

\* A decided request says what happened to the figure, unless two reviewers
\* decided it at once or a restart cut its approval short.
DecisionIsTrue ==
    \A r \in Requests: ~request[r].contested /\ ~request[r].cut =>
        /\ request[r].status = "APPROVED" => request[r].applied
        /\ request[r].status = "REJECTED" => ~request[r].applied

\* What the month closed over stays: afterwards a figure is changed only by the
\* approval of a request raised since, or of one that somebody else had decided
\* ("closing must never freeze a figure someone is still waiting on").
ClosedFiguresStay ==
    [][monthClosed /\ monthClosed' /\ entry' # entry =>
        \E w \in Workers:
            /\ At(w, "approving")
            /\ request[job[w].id].late \/ ~Undecided(job[w].id)]_<<request, monthVars>>
=============================================================================
