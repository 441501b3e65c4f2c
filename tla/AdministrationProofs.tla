------------------------- MODULE AdministrationProofs -------------------------
(***************************************************************************)
(* Theorems about Administration, for any number of requests served at     *)
(* once, of items, corrections and asks: its types, and every safety       *)
(* property of the month and of its three queues.                          *)
(***************************************************************************)
EXTENDS Administration, TLAPS

-----------------------------------------------------------------------------
(* What a step does to the jobs *)

MonthSteps == {"finishing", "locking", "unlocking", "counting", "reopening"}
ItemSteps == {"updating", "cancelling"}
RequestSteps == {"requesting", "approving", "marking", "rejecting"}
AskSteps == {"asking", "creating", "sweeping", "resolving"}

\* A job that changes is over, or at one of these steps.
JobsKeptBut(steps) ==
    \A v \in Workers: job'[v] = job[v] \/ job'[v] = Idle \/ job'[v].step \in steps

JobsAreTyped == job \in [Workers -> Jobs] /\ \A w \in Workers: At(w, "idle") => job[w] = Idle

LEMMA IdleIsJob == Idle \in Jobs /\ Idle.on = {} /\ Idle.step = "idle"
BY FigureAssumption DEF Idle, Jobs, Steps, Closures, NoClosure, Pages

LEMMA StartKeepsJobs ==
    ASSUME JobsAreTyped, NEW w \in Workers, NEW new \in Jobs, new.step # "idle", Start(w, new)
    PROVE  /\ JobsAreTyped' /\ At(w, "idle")
           /\ job'[w] = new
           /\ \A v \in Workers: v # w => job'[v] = job[v]
BY DEF JobsAreTyped, Start, At

LEMMA EndKeepsJobs ==
    ASSUME JobsAreTyped, NEW w \in Workers, End(w)
    PROVE  /\ JobsAreTyped'
           /\ job'[w] = Idle
           /\ \A v \in Workers: v # w => job'[v] = job[v]
BY IdleIsJob DEF JobsAreTyped, End, At

LEMMA GoToKeepsJobs ==
    ASSUME JobsAreTyped, NEW w \in Workers, NEW step \in Steps \ {"idle"}, GoTo(w, step)
    PROVE  /\ JobsAreTyped'
           /\ job'[w] = [job[w] EXCEPT !.step = step]
           /\ \A v \in Workers: v # w => job'[v] = job[v]
BY DEF JobsAreTyped, GoTo, At, Jobs

-----------------------------------------------------------------------------
(* Types *)

LEMMA LockStaysClosure ==
    ASSUME NEW read \in Closures, NEW on \in SUBSET Pages, NEW entriesOnly \in BOOLEAN
    PROVE  /\ ClosePeriod(read, on, entriesOnly) \in Closures
           /\ read.locked \subseteq ClosePeriod(read, on, entriesOnly).locked
           /\ Unlocked(read, on) \in Closures
           /\ \A page \in on: page \notin Unlocked(read, on).locked
BY DEF ClosePeriod, Unlocked, Closures, AlreadyClosed

\* Which job needs which fields.
JobsAreOf(items, requests, asks) ==
    \A w \in Workers:
        /\ job[w].step \in ItemSteps => job[w].id \in items /\ job[w].seen = "AWAITING"
        /\ job[w].step \in {"approving", "marking", "rejecting"} => job[w].id \in requests
        /\ job[w].step \in {"sweeping", "resolving"} => job[w].id \in asks
        /\ job[w].step \in MonthSteps \cup {"asking", "creating"} => job[w].on \subseteq Pages
        /\ job[w].step = "requesting" => job[w].figure \in Figures /\ job[w].on # {}

Types == TypeOK /\ JobsAreOf(Items, Requests, Asks)

LEMMA TypesOfJobs ==
    Types => /\ JobsAreTyped
             /\ \A w \in Workers: job[w] \in Jobs /\ job[w].read \in Closures
BY DEF Types, TypeOK, MonthTypeOK, JobsAreTyped, Jobs

\* What every step of the month keeps.
MonthKeeps == MonthTypeOK' /\ JobsKeptBut(MonthSteps) /\ \A w \in Workers:
    job'[w] # job[w] => job'[w].on \subseteq Pages /\ job[w].step \in MonthSteps \cup {"idle"}

LEMMA MonthStepKeeps ==
    ASSUME Types, MonthNext
    PROVE  MonthKeeps
<1> USE DEF Types, TypeOK, MonthTypeOK, MonthKeeps, JobsKeptBut
<1>0. Types /\ JobsAreTyped
  BY TypesOfJobs
<1>1. CASE PublishCount
  BY <1>0, <1>1 DEF PublishCount, At
<1>2. ASSUME NEW page \in Pages, UnlockEarlier(page) PROVE MonthKeeps
  BY <1>0, <1>2 DEF UnlockEarlier, Disturb, At
<1>3. ASSUME NEW page \in Pages, FinishEarlier(page) PROVE MonthKeeps
  BY <1>0, <1>3 DEF FinishEarlier, At
<1>4. ASSUME NEW page \in Pages, NEW figure \in Figures, SaveEntry(page, figure) PROVE MonthKeeps
  BY <1>0, <1>4, FigureAssumption DEF SaveEntry, At, Figures
<1>5. ASSUME NEW w \in Workers, CheckCount(w) PROVE MonthKeeps
  <2> DEFINE new == [Idle EXCEPT !.step = "counting"]
  <2>1. new \in Jobs /\ new.step = "counting" /\ new.on = {}
    BY IdleIsJob DEF Idle, Jobs, Steps
  <2>2. JobsAreTyped' /\ At(w, "idle") /\ job'[w] = new /\ \A v \in Workers: v # w => job'[v] = job[v]
    BY <1>0, <1>5, <2>1, StartKeepsJobs DEF CheckCount
  <2> QED BY <1>0, <1>5, <2>1, <2>2 DEF CheckCount, JobsAreTyped, MonthSteps, At
<1>6. ASSUME NEW w \in Workers, SaveCount(w) PROVE MonthKeeps
  <2>1. JobsAreTyped' /\ job'[w] = Idle /\ \A v \in Workers: v # w => job'[v] = job[v]
    BY <1>0, <1>6, EndKeepsJobs DEF SaveCount
  <2> QED BY <1>0, <1>6, <2>1, IdleIsJob DEF SaveCount, Disturb, JobsAreTyped, At, MonthSteps
<1>7. ASSUME NEW w \in Workers, NEW page \in Pages, CheckFinish(w, page) PROVE MonthKeeps
  <2> DEFINE new == [Idle EXCEPT !.step = "finishing", !.on = {page}]
  <2>1. new \in Jobs /\ new.step = "finishing" /\ new.on \subseteq Pages
    BY IdleIsJob DEF Idle, Jobs, Steps
  <2>2. JobsAreTyped' /\ At(w, "idle") /\ job'[w] = new /\ \A v \in Workers: v # w => job'[v] = job[v]
    BY <1>0, <1>7, <2>1, StartKeepsJobs DEF CheckFinish
  <2> QED BY <1>0, <1>7, <2>1, <2>2 DEF CheckFinish, JobsAreTyped, MonthSteps, At
<1>8. ASSUME NEW w \in Workers, ReadForFinish(w) PROVE MonthKeeps
  <2> DEFINE new == [job[w] EXCEPT !.step = "locking", !.read = closure]
  <2>1. job' = [job EXCEPT ![w] = new] /\ new \in Jobs /\ new.step = "locking" /\ new.on \subseteq Pages
    BY <1>0, <1>8, TypesOfJobs DEF ReadForFinish, Jobs, Steps, JobsAreOf, MonthSteps, At
  <2>2. JobsAreTyped' /\ job'[w] = new /\ \A v \in Workers: v # w => job'[v] = job[v]
    BY <1>0, <2>1 DEF JobsAreTyped, At
  <2> QED BY <1>0, <1>8, <2>1, <2>2 DEF ReadForFinish, JobsAreTyped, MonthSteps, At
<1>9. ASSUME NEW w \in Workers, LockPage(w) PROVE MonthKeeps
  <2>1. JobsAreTyped' /\ job'[w] = Idle /\ \A v \in Workers: v # w => job'[v] = job[v]
    BY <1>0, <1>9, EndKeepsJobs DEF LockPage
  <2>2. job[w].read \in Closures /\ job[w].on \in SUBSET Pages
    BY <1>0, <1>9, TypesOfJobs DEF LockPage, JobsAreOf, MonthSteps, At
  <2>3. closure' \in Closures
    BY <1>0, <1>9, <2>2, LockStaysClosure DEF LockPage
  <2> QED BY <1>0, <1>9, <2>1, <2>3, IdleIsJob DEF LockPage, Disturb, JobsAreTyped, At, MonthSteps
<1>10. ASSUME NEW w \in Workers, ReadForReopen(w) PROVE MonthKeeps
  <2> DEFINE new == [Idle EXCEPT !.step = "reopening"]
  <2>1. new \in Jobs /\ new.step = "reopening" /\ new.on = {}
    BY IdleIsJob DEF Idle, Jobs, Steps
  <2>2. JobsAreTyped' /\ At(w, "idle") /\ job'[w] = new /\ \A v \in Workers: v # w => job'[v] = job[v]
    BY <1>0, <1>10, <2>1, StartKeepsJobs DEF ReadForReopen
  <2> QED BY <1>0, <1>10, <2>1, <2>2 DEF ReadForReopen, JobsAreTyped, MonthSteps, At
<1>11. ASSUME NEW w \in Workers, ReopenMonth(w) PROVE MonthKeeps
  <2>1. JobsAreTyped' /\ job'[w] = Idle /\ \A v \in Workers: v # w => job'[v] = job[v]
    BY <1>0, <1>11, EndKeepsJobs DEF ReopenMonth
  <2> QED BY <1>0, <1>11, <2>1, IdleIsJob DEF ReopenMonth, JobsAreTyped, At, MonthSteps
<1>12. ASSUME NEW w \in Workers, NEW on \in SUBSET Pages, ReadForUnlock(w, on) PROVE MonthKeeps
  <2> DEFINE new == [Idle EXCEPT !.step = "unlocking", !.on = on, !.read = closure]
  <2>1. new \in Jobs /\ new.step = "unlocking" /\ new.on \subseteq Pages
    BY <1>0, IdleIsJob DEF Idle, Jobs, Steps
  <2>2. JobsAreTyped' /\ At(w, "idle") /\ job'[w] = new /\ \A v \in Workers: v # w => job'[v] = job[v]
    BY <1>0, <1>12, <2>1, StartKeepsJobs DEF ReadForUnlock
  <2> QED BY <1>0, <1>12, <2>1, <2>2 DEF ReadForUnlock, JobsAreTyped, MonthSteps, At
<1>13. \A on \in {{page}: page \in Pages} \cup {Pages}: on \in SUBSET Pages
  OBVIOUS
<1> QED
  BY <1>1, <1>2, <1>3, <1>4, <1>5, <1>6, <1>7, <1>8, <1>9, <1>10, <1>11, <1>12, <1>13 DEF MonthNext

-----------------------------------------------------------------------------
(* Types: the queues *)

LEMMA OnlyJobsMove ==
    ASSUME MonthTypeOK, JobsAreTyped',
           UNCHANGED <<closure, entry, earlier, count, monthClosed, disturbed, crashes, scope>>
    PROVE  MonthTypeOK'
BY DEF MonthTypeOK, JobsAreTyped

\* A job that changed is over or one of these steps, with what it needs.
ItemJobs == \A w \in Workers: job'[w] # job[w] =>
    /\ job[w].step \in ItemSteps \cup {"idle"}
    /\ \/ job'[w] = Idle
       \/ job'[w].step \in ItemSteps /\ job'[w].id \in Items /\ job'[w].seen = "AWAITING"

LEMMA ItemStepKeeps ==
    ASSUME Types, ReleaseNext
    PROVE  MonthTypeOK' /\ ReleaseTypeOK' /\ ItemJobs
<1>0. Types /\ MonthTypeOK /\ JobsAreTyped /\ JobsAreOf(Items, Requests, Asks)
      /\ entry \in [Pages -> 0..MaxFigure] /\ monthClosed \in BOOLEAN /\ item \in [Items -> [status: ItemStatuses, page: Pages,
                quantity: 0..MaxFigure, added: 0..MaxFigure, overtaken: BOOLEAN]]
  BY TypesOfJobs DEF Types, TypeOK, MonthTypeOK, ReleaseTypeOK
<1>1. ASSUME NEW w \in Workers, WriteItem(w) PROVE MonthTypeOK' /\ ReleaseTypeOK' /\ ItemJobs
  <2>1. JobsAreTyped' /\ job'[w] = Idle /\ \A v \in Workers: v # w => job'[v] = job[v]
    BY <1>0, <1>1, EndKeepsJobs DEF WriteItem
  <2>2. job[w].id \in Items /\ job[w].figure \in 0..MaxFigure /\ job[w].step \in ItemSteps
        /\ job[w].seen = "AWAITING"
    BY <1>0, <1>1, TypesOfJobs DEF WriteItem, JobsAreOf, ItemSteps, Jobs, At
  <2>3. ReleaseTypeOK'
    <3>1. item' = [item EXCEPT ![job[w].id] = Rewritten(item[job[w].id], job[w])]
      BY <1>1 DEF WriteItem
    <3>2. Rewritten(item[job[w].id], job[w]) \in [status: ItemStatuses, page: Pages,
                            quantity: 0..MaxFigure, added: 0..MaxFigure, overtaken: BOOLEAN]
      BY <1>0, <2>2 DEF Rewritten, ItemStatuses
    <3> QED BY <1>0, <2>2, <3>1, <3>2 DEF ReleaseTypeOK
  <2>4. MonthTypeOK'
    BY <1>0, <1>1, <2>1, OnlyJobsMove DEF WriteItem
  <2> QED BY <2>1, <2>2, <2>3, <2>4 DEF ItemJobs
<1>2. ASSUME NEW i \in Items, Release(i) PROVE MonthTypeOK' /\ ReleaseTypeOK' /\ ItemJobs
  <2>1. item[i].page \in Pages /\ entry[item[i].page] + item[i].quantity \in 0..MaxFigure
        /\ item[i].added + item[i].quantity \in 0..MaxFigure
    BY <1>0, <1>2, FigureAssumption DEF Release
  <2>2. ReleaseTypeOK'
    BY <1>0, <1>2, <2>1 DEF Release, ReleaseTypeOK, ItemStatuses
  <2>3. MonthTypeOK'
    BY <1>0, <1>2, <2>1 DEF Release, At, MonthTypeOK
  <2> QED BY <1>2, <2>2, <2>3 DEF Release, ItemJobs, ItemSteps, At
<1>3. ASSUME NEW i \in Items, NEW page \in Pages, NEW quantity \in Figures, CreateItem(i, page, quantity)
      PROVE  MonthTypeOK' /\ ReleaseTypeOK' /\ ItemJobs
  <2>1. ReleaseTypeOK'
    <3>1. quantity \in 0..MaxFigure /\ 0 \in 0..MaxFigure
      BY FigureAssumption DEF Figures
    <3>2. [NoItem EXCEPT !.status = "AWAITING", !.page = page, !.quantity = quantity]
            \in [status: ItemStatuses, page: Pages, quantity: 0..MaxFigure,
                 added: 0..MaxFigure, overtaken: BOOLEAN]
      BY <3>1 DEF NoItem, ItemStatuses, Pages
    <3> QED BY <1>0, <1>3, <3>2 DEF CreateItem, ReleaseTypeOK
  <2>2. MonthTypeOK'
    BY <1>0, <1>3 DEF CreateItem, monthVars, MonthTypeOK, At
  <2> QED BY <1>3, <2>1, <2>2 DEF CreateItem, monthVars, ItemJobs, ItemSteps, At
<1>4. ASSUME NEW i \in Items, NEW w \in Workers, NEW step \in ItemSteps, NEW quantity \in 0..MaxFigure,
             LoadItem(w, i, step, quantity)
      PROVE  MonthTypeOK' /\ ReleaseTypeOK' /\ ItemJobs
  <2> DEFINE new == [Idle EXCEPT !.step = step, !.id = i, !.figure = quantity, !.seen = item[i].status]
  <2>1. item[i].status = "AWAITING" /\ i \in Nat
    BY <1>4, ItemsAssumption DEF LoadItem, Awaiting
  <2>2. new \in Jobs /\ new.step = step /\ new.id = i /\ new.seen = "AWAITING" /\ step # "idle"
    BY <2>1, IdleIsJob DEF Idle, Jobs, Steps, ItemSteps
  <2>3. JobsAreTyped' /\ At(w, "idle") /\ job'[w] = new /\ \A v \in Workers: v # w => job'[v] = job[v]
    BY <1>0, <1>4, <2>2, StartKeepsJobs DEF LoadItem
  <2>4. ReleaseTypeOK' /\ MonthTypeOK'
    BY <1>0, <1>4, <2>3, OnlyJobsMove DEF LoadItem, ReleaseTypeOK
  <2> QED BY <1>4, <2>2, <2>3, <2>4 DEF ItemJobs, ItemSteps, At
<1>5. 0 \in 0..MaxFigure /\ Figures \subseteq 0..MaxFigure
  BY FigureAssumption DEF Figures
<1> QED BY <1>1, <1>2, <1>3, <1>4, <1>5 DEF ReleaseNext, ItemSteps

RequestJobs == \A w \in Workers: job'[w] # job[w] =>
    \/ job'[w] = Idle
    \/ job'[w].step \in RequestSteps \ {"requesting"} /\ job'[w].id \in Requests
    \/ job'[w].step = "requesting" /\ job'[w].figure \in Figures /\ job'[w].on # {}

LEMMA RequestStepKeeps ==
    ASSUME Types, CorrectionNext
    PROVE  MonthTypeOK' /\ CorrectionTypeOK' /\ RequestJobs
<1>0. Types /\ MonthTypeOK /\ JobsAreTyped /\ JobsAreOf(Items, Requests, Asks)
      /\ entry \in [Pages -> 0..MaxFigure] /\ monthClosed \in BOOLEAN /\ request \in [Requests -> [status: RequestStatuses, on: Correctable,
                value: 0..MaxFigure, late: BOOLEAN, applied: BOOLEAN, contested: BOOLEAN, cut: BOOLEAN]]
  BY TypesOfJobs DEF Types, TypeOK, MonthTypeOK, CorrectionTypeOK
<1>1. ASSUME NEW w \in Workers, NEW on \in Correctable, NEW value \in Figures, CheckRequest(w, on, value)
      PROVE  MonthTypeOK' /\ CorrectionTypeOK' /\ RequestJobs
  <2> DEFINE new == [Idle EXCEPT !.step = "requesting", !.on = {on}, !.figure = value]
  <2>1. new \in Jobs /\ new.step = "requesting" /\ new.figure \in Figures /\ new.on # {}
    <3>1. value \in 0..MaxFigure /\ {on} \subseteq Pages \cup {"COUNT"} /\ "requesting" \in Steps
      BY FigureAssumption DEF Figures, Correctable, Steps
    <3> QED BY <3>1, IdleIsJob DEF Jobs
  <2>2. JobsAreTyped' /\ At(w, "idle") /\ job'[w] = new /\ \A v \in Workers: v # w => job'[v] = job[v]
    BY <1>0, <1>1, <2>1, StartKeepsJobs DEF CheckRequest
  <2>3. CorrectionTypeOK' /\ MonthTypeOK'
    BY <1>0, <1>1, <2>2, OnlyJobsMove DEF CheckRequest, CorrectionTypeOK
  <2> QED BY <2>1, <2>2, <2>3 DEF RequestJobs
<1>2. ASSUME NEW w \in Workers, NEW r \in Requests, CreateRequest(w, r)
      PROVE  MonthTypeOK' /\ CorrectionTypeOK' /\ RequestJobs
  <2>1. JobsAreTyped' /\ job'[w] = Idle /\ \A v \in Workers: v # w => job'[v] = job[v]
    BY <1>0, <1>2, EndKeepsJobs DEF CreateRequest
  <2>2. job[w].figure \in 0..MaxFigure /\ job[w].on \subseteq Correctable
    BY <1>0, TypesOfJobs DEF Jobs, Correctable
  <2>3. CorrectionTypeOK'
    <3>1. PICK on \in job[w].on:
            request' = [request EXCEPT ![r] = [NoRequest EXCEPT !.status = "PENDING", !.on = on,
                                                !.value = job[w].figure, !.late = monthClosed]]
      BY <1>2 DEF CreateRequest
    <3>2. on \in Correctable /\ monthClosed \in BOOLEAN
      BY <1>0, <2>2
    <3> QED BY <1>0, <2>2, <3>1, <3>2 DEF NoRequest, CorrectionTypeOK, RequestStatuses
  <2>4. MonthTypeOK'
    BY <1>0, <1>2, <2>1 DEF CreateRequest, JobsAreTyped, Disturb, MonthTypeOK
  <2> QED BY <2>1, <2>3, <2>4 DEF RequestJobs
<1>3. ASSUME NEW w \in Workers, NEW r \in Requests, NEW step \in {"approving", "rejecting"},
             LoadRequest(w, r, step)
      PROVE  MonthTypeOK' /\ CorrectionTypeOK' /\ RequestJobs
  <2> DEFINE new == [Idle EXCEPT !.step = step, !.id = r, !.seen = request[r].status]
  <2>1. request[r].status = "PENDING" /\ r \in Nat
    BY <1>3, RequestsAssumption DEF LoadRequest, Decidable, Undecided
  <2>2. new \in Jobs /\ new.step = step /\ new.id = r /\ step # "idle"
    BY <2>1, IdleIsJob DEF Idle, Jobs, Steps
  <2>3. JobsAreTyped' /\ At(w, "idle") /\ job'[w] = new /\ \A v \in Workers: v # w => job'[v] = job[v]
    BY <1>0, <1>3, <2>2, StartKeepsJobs DEF LoadRequest
  <2>4. MonthTypeOK'
    BY <1>0, <1>3, <2>3, OnlyJobsMove DEF LoadRequest
  <2>5. CorrectionTypeOK'
    BY <1>0, <1>3 DEF LoadRequest, CorrectionTypeOK, Deciding
  <2> QED BY <2>2, <2>3, <2>4, <2>5 DEF RequestJobs, RequestSteps
<1>4. ASSUME NEW w \in Workers, ApplyRequest(w) PROVE MonthTypeOK' /\ CorrectionTypeOK' /\ RequestJobs
  <2>1. job[w].id \in Requests
    BY <1>0, <1>4 DEF ApplyRequest, JobsAreOf, At
  <2>2. JobsAreTyped' /\ job'[w] = [job[w] EXCEPT !.step = "marking"] /\ \A v \in Workers: v # w => job'[v] = job[v]
    BY <1>0, <1>4, GoToKeepsJobs DEF ApplyRequest, Steps
  <2>3. job'[w].step = "marking" /\ job'[w].id \in Requests
    BY <1>0, <2>1, <2>2, TypesOfJobs DEF Jobs
  <2>4. request[job[w].id].value \in 0..MaxFigure /\ CorrectionTypeOK'
    BY <1>0, <1>4, <2>1 DEF ApplyRequest, CorrectionTypeOK
  <2>5. Applied(request[job[w].id].on, request[job[w].id].value) \in [Pages -> 0..MaxFigure]
    BY <1>0, <2>4 DEF Applied
  <2>6. MonthTypeOK'
    BY <1>0, <1>4, <2>2, <2>5 DEF ApplyRequest, JobsAreTyped, Disturb, MonthTypeOK
  <2> QED BY <2>2, <2>3, <2>4, <2>6 DEF RequestJobs, RequestSteps
<1>5. ASSUME NEW w \in Workers, NEW step \in {"marking", "rejecting"}, NEW status \in {"APPROVED", "REJECTED"},
             MarkRequest(w, step, status)
      PROVE  MonthTypeOK' /\ CorrectionTypeOK' /\ RequestJobs
  <2>1. JobsAreTyped' /\ job'[w] = Idle /\ \A v \in Workers: v # w => job'[v] = job[v]
    BY <1>0, <1>5, EndKeepsJobs DEF MarkRequest
  <2>2. CorrectionTypeOK'
    BY <1>0, <1>5 DEF MarkRequest, CorrectionTypeOK, RequestStatuses
  <2>3. MonthTypeOK'
    BY <1>0, <1>5, <2>1, OnlyJobsMove DEF MarkRequest
  <2> QED BY <2>1, <2>2, <2>3 DEF RequestJobs
<1> QED BY <1>1, <1>2, <1>3, <1>4, <1>5 DEF CorrectionNext

AskJobs == \A w \in Workers: job'[w] # job[w] =>
    /\ job[w].step \in AskSteps \cup {"idle"}
    /\ \/ job'[w] = Idle
       \/ job'[w].step \in {"sweeping", "resolving"} /\ job'[w].id \in Asks
       \/ job'[w].step \in {"asking", "creating"} /\ job'[w].on \subseteq Pages

AskRows == [Asks -> [status: {"none", "PENDING", "RESOLVED"}, page: Pages]]

LEMMA AskStepKeeps ==
    ASSUME Types, AskNext
    PROVE  MonthTypeOK' /\ ask' \in AskRows /\ AskJobs
<1>0. Types /\ MonthTypeOK /\ JobsAreTyped /\ JobsAreOf(Items, Requests, Asks)
      /\ entry \in [Pages -> 0..MaxFigure] /\ monthClosed \in BOOLEAN /\ ask \in AskRows
  BY TypesOfJobs DEF Types, TypeOK, MonthTypeOK, AskTypeOK, AskRows
<1>1. ASSUME NEW w \in Workers, End(w), job[w].step \in AskSteps,
             UNCHANGED <<closure, entry, earlier, count, monthClosed, disturbed, crashes, scope>>
      PROVE  MonthTypeOK' /\ AskJobs
  <2>1. JobsAreTyped' /\ job'[w] = Idle /\ \A v \in Workers: v # w => job'[v] = job[v]
    BY <1>0, <1>1, EndKeepsJobs
  <2> QED BY <1>0, <1>1, <2>1, OnlyJobsMove DEF AskJobs, AskSteps, At
<1>2. ASSUME NEW w \in Workers, NEW page \in Pages, CheckLocked(w, page)
      PROVE  MonthTypeOK' /\ ask' \in AskRows /\ AskJobs
  <2> DEFINE new == [Idle EXCEPT !.step = "asking", !.on = {page}]
  <2>1. new \in Jobs /\ new.step = "asking" /\ new.on \subseteq Pages
    BY IdleIsJob DEF Idle, Jobs, Steps
  <2>2. JobsAreTyped' /\ At(w, "idle") /\ job'[w] = new /\ \A v \in Workers: v # w => job'[v] = job[v]
    BY <1>0, <1>2, <2>1, StartKeepsJobs DEF CheckLocked
  <2>3. MonthTypeOK'
    BY <1>0, <1>2, <2>2, OnlyJobsMove DEF CheckLocked
  <2> QED BY <1>0, <1>2, <2>1, <2>2, <2>3 DEF CheckLocked, AskJobs, AskSteps, At
<1>3. ASSUME NEW w \in Workers, FindAsk(w) PROVE MonthTypeOK' /\ ask' \in AskRows /\ AskJobs
  <2>1. CASE End(w)
    BY <1>0, <1>1, <1>3, <2>1 DEF FindAsk, AskSteps, At
  <2>2. CASE GoTo(w, "creating")
    <3>1. JobsAreTyped' /\ job'[w] = [job[w] EXCEPT !.step = "creating"] /\ \A v \in Workers: v # w => job'[v] = job[v]
      BY <1>0, <2>2, GoToKeepsJobs DEF Steps
    <3>2. job'[w].step = "creating" /\ job'[w].on \subseteq Pages
      BY <1>0, <1>3, <3>1, TypesOfJobs DEF FindAsk, JobsAreOf, Jobs, At
    <3>3. MonthTypeOK'
      BY <1>0, <1>3, <3>1, OnlyJobsMove DEF FindAsk
    <3> QED BY <1>0, <1>3, <3>1, <3>2, <3>3 DEF FindAsk, AskJobs, AskSteps, At
  <2> QED BY <1>3, <2>1, <2>2 DEF FindAsk
<1>4. ASSUME NEW w \in Workers, NEW a \in Asks, CreateAsk(w, a) PROVE MonthTypeOK' /\ ask' \in AskRows /\ AskJobs
  <2>1. job[w].on \subseteq Pages
    BY <1>0, <1>4 DEF CreateAsk, JobsAreOf, At
  <2>2. ask' \in AskRows
    BY <1>0, <1>4, <2>1 DEF CreateAsk, AskRows
  <2> QED BY <1>1, <1>4, <2>2 DEF CreateAsk, AskSteps, At
<1>5. ASSUME NEW w \in Workers, NEW a \in Asks, ReadAsk(w, a) PROVE MonthTypeOK' /\ ask' \in AskRows /\ AskJobs
  <2> DEFINE new == [Idle EXCEPT !.step = "sweeping", !.id = a]
  <2>1. new \in Jobs /\ new.step = "sweeping" /\ new.id = a
    BY AsksAssumption, IdleIsJob DEF Idle, Jobs, Steps
  <2>2. JobsAreTyped' /\ At(w, "idle") /\ job'[w] = new /\ \A v \in Workers: v # w => job'[v] = job[v]
    BY <1>0, <1>5, <2>1, StartKeepsJobs DEF ReadAsk
  <2>3. MonthTypeOK'
    BY <1>0, <1>5, <2>2, OnlyJobsMove DEF ReadAsk
  <2> QED BY <1>0, <1>5, <2>1, <2>2, <2>3 DEF ReadAsk, AskJobs, AskSteps, At
<1>6. ASSUME NEW w \in Workers, CheckAsk(w) PROVE MonthTypeOK' /\ ask' \in AskRows /\ AskJobs
  <2>1. CASE End(w)
    BY <1>0, <1>1, <1>6, <2>1 DEF CheckAsk, AskSteps, At
  <2>2. CASE GoTo(w, "resolving")
    <3>1. JobsAreTyped' /\ job'[w] = [job[w] EXCEPT !.step = "resolving"] /\ \A v \in Workers: v # w => job'[v] = job[v]
      BY <1>0, <2>2, GoToKeepsJobs DEF Steps
    <3>2. job'[w].step = "resolving" /\ job'[w].id \in Asks
      BY <1>0, <1>6, <3>1, TypesOfJobs DEF CheckAsk, JobsAreOf, Jobs, At
    <3>3. MonthTypeOK'
      BY <1>0, <1>6, <3>1, OnlyJobsMove DEF CheckAsk
    <3> QED BY <1>0, <1>6, <3>1, <3>2, <3>3 DEF CheckAsk, AskJobs, AskSteps, At
  <2> QED BY <1>6, <2>1, <2>2 DEF CheckAsk
<1>7. ASSUME NEW w \in Workers, ResolveAsk(w) PROVE MonthTypeOK' /\ ask' \in AskRows /\ AskJobs
  <2>1. ask' \in AskRows
    BY <1>0, <1>7 DEF ResolveAsk, AskRows
  <2> QED BY <1>1, <1>7, <2>1 DEF ResolveAsk, AskSteps, At
<1> QED BY <1>2, <1>3, <1>4, <1>5, <1>6, <1>7 DEF AskNext, Sweep

\* The steps that are not of one part: the close, an unlock and a restart.
LEMMA JointStepKeeps ==
    ASSUME Types, Close \/ (\E w \in Workers: UnlockDay(w)) \/ Crash
    PROVE  MonthTypeOK' /\ ReleaseTypeOK' /\ CorrectionTypeOK' /\ ask' \in AskRows
           /\ \A w \in Workers: job'[w] \in {job[w], Idle}
<1>0. Types /\ MonthTypeOK /\ JobsAreTyped /\ ReleaseTypeOK /\ CorrectionTypeOK /\ ask \in AskRows
  BY TypesOfJobs DEF Types, TypeOK, AskTypeOK, AskRows
<1>1. CASE Close
  <2>1. MonthTypeOK'
    BY <1>0, <1>1 DEF Close, CloseMonth, MonthTypeOK, At
  <2> QED BY <1>0, <1>1, <2>1 DEF Close, CloseMonth, ReleaseTypeOK, CorrectionTypeOK
<1>2. ASSUME NEW w \in Workers, UnlockDay(w)
      PROVE  MonthTypeOK' /\ ReleaseTypeOK' /\ CorrectionTypeOK' /\ ask' \in AskRows
             /\ \A v \in Workers: job'[v] \in {job[v], Idle}
  <2>1. JobsAreTyped' /\ job'[w] = Idle /\ \A v \in Workers: v # w => job'[v] = job[v]
    BY <1>0, <1>2, EndKeepsJobs DEF UnlockDay, UnlockPages
  <2>2. job[w].read \in Closures /\ job[w].on \in SUBSET Pages
    BY <1>0, <1>2, TypesOfJobs DEF UnlockDay, UnlockPages, Types, JobsAreOf, MonthSteps, At
  <2>3. closure' \in Closures
    BY <1>2, <2>2, LockStaysClosure DEF UnlockDay, UnlockPages
  <2>4. MonthTypeOK'
    BY <1>0, <1>2, <2>1, <2>3 DEF UnlockDay, UnlockPages, Disturb, MonthTypeOK, JobsAreTyped
  <2>5. ask' \in AskRows
    BY <1>0, <1>2 DEF UnlockDay, AnswerAsks, AskRows
  <2> QED BY <1>0, <1>2, <2>1, <2>4, <2>5 DEF UnlockDay, ReleaseTypeOK, CorrectionTypeOK
<1>3. CASE Crash
  <2>1. MonthTypeOK' /\ \A w \in Workers: job'[w] = Idle
    BY <1>0, <1>3, IdleIsJob DEF Crash, Restart, MonthTypeOK, At
  <2>2. CorrectionTypeOK'
    BY <1>0, <1>3 DEF Crash, CutApprovals, CorrectionTypeOK
  <2> QED BY <1>0, <1>3, <2>1, <2>2 DEF Crash, ReleaseTypeOK
<1> QED BY <1>1, <1>2, <1>3

LEMMA TypesStay ==
    ASSUME Types, [Next]_vars
    PROVE  Types'
<1>0. MonthTypeOK /\ ReleaseTypeOK /\ CorrectionTypeOK /\ ask \in AskRows /\ opened \subseteq Asks
      /\ JobsAreOf(Items, Requests, Asks) /\ Types
  BY DEF Types, TypeOK, AskTypeOK, AskRows
<1>1. CASE UNCHANGED vars
  BY <1>0, <1>1
  DEF vars, monthVars, Types, TypeOK, MonthTypeOK, ReleaseTypeOK, CorrectionTypeOK, AskTypeOK,
      JobsAreOf, At
<1>2. CASE Next
  <2>1. opened' \subseteq Asks
    BY <1>0, <1>2 DEF Next, Observe
  <2>2. CASE MonthNext /\ UNCHANGED <<item, request, ask>>
    <3>1. MonthKeeps
      BY <1>0, <2>2, MonthStepKeeps
    <3>2. JobsAreOf(Items, Requests, Asks)'
      BY <1>0, <3>1, IdleIsJob DEF MonthKeeps, JobsKeptBut, JobsAreOf, MonthSteps, ItemSteps
    <3> QED BY <1>0, <2>1, <2>2, <3>1, <3>2
            DEF MonthKeeps, Types, TypeOK, ReleaseTypeOK, CorrectionTypeOK, AskTypeOK, AskRows
  <2>3. CASE ReleaseNext /\ UNCHANGED <<request, ask>>
    <3>1. MonthTypeOK' /\ ReleaseTypeOK' /\ ItemJobs
      BY <1>0, <2>3, ItemStepKeeps
    <3>2. JobsAreOf(Items, Requests, Asks)'
      BY <1>0, <3>1, IdleIsJob DEF ItemJobs, JobsAreOf, MonthSteps, ItemSteps
    <3> QED BY <1>0, <2>1, <2>3, <3>1, <3>2 DEF Types, TypeOK, CorrectionTypeOK, AskTypeOK, AskRows
  <2>4. CASE CorrectionNext /\ UNCHANGED <<item, ask>>
    <3>1. MonthTypeOK' /\ CorrectionTypeOK' /\ RequestJobs
      BY <1>0, <2>4, RequestStepKeeps
    <3>2. JobsAreOf(Items, Requests, Asks)'
      BY <1>0, <3>1, IdleIsJob DEF RequestJobs, JobsAreOf, MonthSteps, ItemSteps, RequestSteps
    <3> QED BY <1>0, <2>1, <2>4, <3>1, <3>2 DEF Types, TypeOK, ReleaseTypeOK, AskTypeOK, AskRows
  <2>5. CASE AskNext /\ UNCHANGED <<item, request>>
    <3>1. MonthTypeOK' /\ ask' \in AskRows /\ AskJobs
      BY <1>0, <2>5, AskStepKeeps
    <3>2. JobsAreOf(Items, Requests, Asks)'
      BY <1>0, <3>1, IdleIsJob DEF AskJobs, JobsAreOf, MonthSteps, ItemSteps
    <3> QED BY <1>0, <2>1, <2>5, <3>1, <3>2
            DEF Types, TypeOK, ReleaseTypeOK, CorrectionTypeOK, AskTypeOK, AskRows
  <2>6. CASE Close \/ (\E w \in Workers: UnlockDay(w)) \/ Crash
    <3>1. MonthTypeOK' /\ ReleaseTypeOK' /\ CorrectionTypeOK' /\ ask' \in AskRows
          /\ \A w \in Workers: job'[w] \in {job[w], Idle}
      BY <1>0, <2>6, JointStepKeeps
    <3>2. JobsAreOf(Items, Requests, Asks)'
      BY <1>0, <3>1, IdleIsJob DEF JobsAreOf, MonthSteps, ItemSteps
    <3> QED BY <2>1, <3>1, <3>2 DEF Types, TypeOK, AskTypeOK, AskRows
  <2> QED BY <1>2, <2>2, <2>3, <2>4, <2>5, <2>6 DEF Next
<1> QED BY <1>1, <1>2

LEMMA InitTypes == Init => Types
<1> SUFFICES ASSUME Init PROVE Types
  OBVIOUS
<1>1. 0 \in 0..MaxFigure /\ NoClosure \in Closures
  BY FigureAssumption DEF NoClosure, Closures
<1>2. MonthTypeOK
  BY <1>1, IdleIsJob DEF Init, MonthInit, MonthTypeOK, At
<1>3. ReleaseTypeOK /\ CorrectionTypeOK /\ AskTypeOK
  BY <1>1 DEF Init, ReleaseInit, CorrectionInit, AskInit, ReleaseTypeOK, CorrectionTypeOK, AskTypeOK,
              NoItem, NoRequest, ItemStatuses, RequestStatuses, Correctable, Pages
<1>4. JobsAreOf(Items, Requests, Asks)
  BY IdleIsJob DEF Init, MonthInit, JobsAreOf, MonthSteps, ItemSteps
<1> QED BY <1>2, <1>3, <1>4 DEF Types, TypeOK

LEMMA AlwaysTypes == Spec => []Types
BY InitTypes, TypesStay, PTL DEF Spec

\* Every lock, figure, queue row and request under way keeps its type
\* (monthClose, pendingRelease, correction and unlockRequest.service.ts).
THEOREM TypeCorrect == Spec => []TypeOK
<1>1. Types => TypeOK
  BY DEF Types
<1> QED BY <1>1, AlwaysTypes, PTL

-----------------------------------------------------------------------------
(* Awaiting items *)

\* An item that was not resolved put nothing into stock; an item nobody wrote
\* over put in what it says.
ItemsAreTrue ==
    \A i \in Items:
        /\ item[i].status \in {"none", "AWAITING"} => item[i].added = 0
        /\ ~item[i].overtaken =>
              item[i].added = IF item[i].status = "RELEASED" THEN item[i].quantity ELSE 0

ItemInv == Types /\ ItemsAreTrue

LEMMA ItemStep ==
    ASSUME ItemInv, [Next]_vars
    PROVE  /\ ItemsAreTrue'
           /\ \A i \in Items: item[i].added # 0 => item'[i].added = item[i].added
<1> DEFINE Goal == /\ ItemsAreTrue'
                   /\ \A i \in Items: item[i].added # 0 => item'[i].added = item[i].added
<1>0. Types /\ ItemsAreTrue /\ ReleaseTypeOK /\ JobsAreOf(Items, Requests, Asks)
  BY DEF ItemInv, Types, TypeOK
<1>1. CASE UNCHANGED item
  BY <1>0, <1>1 DEF ItemsAreTrue
<1>2. ASSUME NEW w \in Workers, WriteItem(w) PROVE Goal
  <2>1. job[w].id \in Items /\ job[w].seen = "AWAITING"
    BY <1>0, <1>2 DEF WriteItem, JobsAreOf, ItemSteps, At
  <2>2. item' = [item EXCEPT ![job[w].id] = Rewritten(item[job[w].id], job[w])]
    BY <1>2 DEF WriteItem
  <2>3. ASSUME NEW old \in [status: ItemStatuses, page: Pages, quantity: 0..MaxFigure,
                            added: 0..MaxFigure, overtaken: BOOLEAN]
        PROVE  LET new == Rewritten(old, job[w]) IN
               /\ new.added = old.added
               /\ new.status \in {"CANCELLED", old.status}
               /\ ~new.overtaken => ~old.overtaken /\ old.status = "AWAITING"
    BY <2>1 DEF Rewritten
  <2>4. \A i \in Items: item'[i] = item[i] \/ item'[i] = Rewritten(item[i], job[w])
    BY <1>0, <2>1, <2>2 DEF ReleaseTypeOK
  <2>5. \A i \in Items: item[i] \in [status: ItemStatuses, page: Pages, quantity: 0..MaxFigure,
                                     added: 0..MaxFigure, overtaken: BOOLEAN]
    BY <1>0 DEF ReleaseTypeOK
  <2> QED BY <1>0, <2>3, <2>4, <2>5 DEF ItemsAreTrue
<1>3. ASSUME NEW i \in Items, Release(i) PROVE Goal
  <2>1. item[i].added = 0 /\ item[i].quantity \in 0..MaxFigure
    BY <1>0, <1>3 DEF Release, Awaiting, ItemsAreTrue, ReleaseTypeOK
  <2>2. /\ item'[i] = [item[i] EXCEPT !.status = "RELEASED", !.added = item[i].added + item[i].quantity]
        /\ \A k \in Items: k # i => item'[k] = item[k]
    BY <1>0, <1>3 DEF Release, ReleaseTypeOK
  <2>3. item'[i].status = "RELEASED" /\ item'[i].added = item[i].quantity /\ item'[i].quantity = item[i].quantity
    BY <1>0, <2>1, <2>2 DEF ReleaseTypeOK
  <2> QED BY <1>0, <2>1, <2>2, <2>3 DEF ItemsAreTrue
<1>4. ASSUME NEW i \in Items, NEW page \in Pages, NEW quantity \in Figures, CreateItem(i, page, quantity)
      PROVE  Goal
  <2>1. item[i].added = 0
    BY <1>0, <1>4 DEF CreateItem, ItemsAreTrue
  <2> QED BY <1>0, <1>4, <2>1 DEF CreateItem, NoItem, ItemsAreTrue, ReleaseTypeOK
<1>5. ASSUME NEW i \in Items, NEW w \in Workers, NEW step, NEW quantity, LoadItem(w, i, step, quantity)
      PROVE  UNCHANGED item
  BY <1>5 DEF LoadItem
<1>6. ReleaseNext => Goal
  BY <1>1, <1>2, <1>3, <1>4, <1>5 DEF ReleaseNext
<1>7. ASSUME NEW w \in Workers, UnlockDay(w) PROVE UNCHANGED item
  BY <1>7 DEF UnlockDay
<1> QED BY <1>1, <1>6, <1>7 DEF Next, Close, Crash, vars

LEMMA AlwaysItemInv == Spec => []ItemInv
<1>1. Init => ItemInv
  BY InitTypes DEF ItemInv, ItemsAreTrue, Init, ReleaseInit, NoItem
<1>2. ItemInv /\ [Next]_vars => ItemInv'
  BY TypesStay, ItemStep DEF ItemInv
<1> QED BY <1>1, <1>2, PTL DEF Spec

\* The list of awaiting items says what its stock got, unless a request wrote
\* over a release it had not seen (pendingRelease.service.ts).
THEOREM ReleaseListTrue == Spec => []ReleaseListIsTrue
<1>1. ItemInv => ReleaseListIsTrue
  BY DEF ItemInv, ItemsAreTrue, ReleaseListIsTrue
<1> QED BY <1>1, AlwaysItemInv, PTL

\* An item enters stock once, even when a cancel or an update that loaded it
\* earlier writes over its release (releasePendingRelease).
THEOREM StockIsAddedOnce == Spec => StockAddedOnce
<1>1. ItemInv /\ [Next]_vars =>
          [\A i \in Items: item[i].added # 0 => item'[i].added = item[i].added]_<<item, monthVars>>
  BY ItemStep
<1> QED BY <1>1, AlwaysItemInv, PTL DEF Spec, StockAddedOnce

-----------------------------------------------------------------------------
(* Asks *)

AsksAreTrue ==
    /\ \A a \in Asks: ask[a].status = "RESOLVED" => a \in opened
    /\ \A w \in Workers:
        /\ At(w, "sweeping") => ask[job[w].id].status # "none"
        /\ At(w, "resolving") => job[w].id \in opened

AskInv == Types /\ AsksAreTrue

LEMMA AskStep ==
    ASSUME AskInv, [Next]_vars
    PROVE  AsksAreTrue'
<1>0. Types /\ MonthTypeOK /\ AsksAreTrue /\ ask \in AskRows /\ opened \subseteq Asks /\ JobsAreTyped
      /\ JobsAreOf(Items, Requests, Asks)
  BY TypesOfJobs DEF AskInv, Types, TypeOK, AskTypeOK, AskRows
<1>1. CASE UNCHANGED vars
  BY <1>0, <1>1 DEF AsksAreTrue, vars, monthVars, At
<1>2. CASE Next
  <2>1. opened \subseteq opened'
    BY <1>0, <1>2 DEF Next, Observe
  \* A step that leaves the asks alone starts no sweep.
  <2>2. ASSUME UNCHANGED ask,
               \A w \in Workers: job'[w] \in {job[w], Idle} \/ job'[w].step \notin {"sweeping", "resolving"}
        PROVE  AsksAreTrue'
    BY <1>0, <2>1, <2>2, IdleIsJob DEF AsksAreTrue, At
  <2>3. CASE MonthNext /\ UNCHANGED <<item, request, ask>>
    BY <1>0, <2>2, <2>3, MonthStepKeeps DEF MonthKeeps, JobsKeptBut, MonthSteps
  <2>4. CASE ReleaseNext /\ UNCHANGED <<request, ask>>
    BY <1>0, <2>2, <2>4, ItemStepKeeps DEF ItemJobs, ItemSteps
  <2>5. CASE CorrectionNext /\ UNCHANGED <<item, ask>>
    BY <1>0, <2>2, <2>5, RequestStepKeeps DEF RequestJobs, RequestSteps
  <2>6. CASE Close \/ Crash
    <3>1. UNCHANGED ask
      BY <2>6 DEF Close, Crash
    <3> QED BY <1>0, <2>2, <2>6, <3>1, JointStepKeeps
  <2>7. ASSUME NEW w \in Workers, UnlockDay(w) PROVE AsksAreTrue'
    <3>1. job[w].on \subseteq Pages /\ job[w].read \in Closures /\ closure' = Unlocked(job[w].read, job[w].on)
      BY <1>0, <2>7, TypesOfJobs DEF UnlockDay, UnlockPages, JobsAreOf, MonthSteps, At
    <3>2. \A page \in job[w].on: ~IsSideLocked(closure', page)
      BY <3>1, LockStaysClosure DEF IsSideLocked
    <3>3. \A a \in Asks: ask'[a] = IF Waiting(a) /\ ask[a].page \in job[w].on
                                   THEN [ask[a] EXCEPT !.status = "RESOLVED"] ELSE ask[a]
      BY <2>7 DEF UnlockDay, AnswerAsks, AsksOf
    <3>4. \A a \in Asks: \/ ask'[a].status = ask[a].status
                         \/ /\ ask'[a].status = "RESOLVED" /\ Waiting(a)
                            /\ ask'[a].page = ask[a].page /\ ask[a].page \in job[w].on
      BY <1>0, <3>3 DEF AskRows
    <3>5. \A a \in Asks: ask'[a].status = "RESOLVED" => a \in opened'
      BY <1>0, <1>2, <2>1, <3>2, <3>4 DEF Next, Observe, AsksAreTrue
    <3>6. \A v \in Workers: job'[v] \in {job[v], Idle}
      BY <1>0, <2>7, JointStepKeeps
    <3> QED BY <1>0, <2>1, <3>4, <3>5, <3>6, IdleIsJob DEF AsksAreTrue, At, JobsAreOf, Waiting
  <2>8. CASE AskNext /\ UNCHANGED <<item, request>>
    <3>1. AskJobs
      BY <1>0, <2>8, AskStepKeeps
    <3>2. ASSUME NEW w \in Workers, NEW page \in Pages, CheckLocked(w, page) PROVE AsksAreTrue'
      <4>1. job'[w].step = "asking" /\ \A v \in Workers: v # w => job'[v] = job[v]
        BY <1>0, <3>2 DEF CheckLocked, Start, JobsAreTyped, Idle
      <4> QED BY <2>2, <3>2, <4>1 DEF CheckLocked
    <3>3. ASSUME NEW w \in Workers, FindAsk(w) PROVE AsksAreTrue'
      <4>1. job'[w] = Idle \/ job'[w].step = "creating"
        BY <1>0, <3>3 DEF FindAsk, GoTo, End, JobsAreTyped, Jobs
      <4>2. \A v \in Workers: v # w => job'[v] = job[v]
        BY <1>0, <3>3 DEF FindAsk, GoTo, End, JobsAreTyped
      <4> QED BY <2>2, <3>3, <4>1, <4>2 DEF FindAsk
    <3>4. ASSUME NEW w \in Workers, NEW a \in Asks, CreateAsk(w, a) PROVE AsksAreTrue'
      <4>1. job'[w] = Idle /\ \A v \in Workers: v # w => job'[v] = job[v]
        BY <1>0, <3>4, EndKeepsJobs DEF CreateAsk
      <4>2. \A b \in Asks: b # a => ask'[b] = ask[b]
        BY <1>0, <3>4 DEF CreateAsk, AskRows
      <4>3. ask'[a].status = "PENDING"
        BY <1>0, <3>4 DEF CreateAsk, AskRows
      <4> QED BY <1>0, <2>1, <4>1, <4>2, <4>3, IdleIsJob DEF AsksAreTrue, At, JobsAreOf
    <3>5. ASSUME NEW w \in Workers, NEW a \in Asks, ReadAsk(w, a) PROVE AsksAreTrue'
      <4>1. job'[w].step = "sweeping" /\ job'[w].id = a /\ \A v \in Workers: v # w => job'[v] = job[v]
        BY <1>0, <3>5 DEF ReadAsk, Start, JobsAreTyped, Idle
      <4>2. ask[a].status = "PENDING" /\ UNCHANGED ask
        BY <3>5 DEF ReadAsk, Waiting
      <4> QED BY <1>0, <2>1, <4>1, <4>2 DEF AsksAreTrue, At
    <3>6. ASSUME NEW w \in Workers, CheckAsk(w) PROVE AsksAreTrue'
      <4>1. job[w].id \in Asks /\ ask[job[w].id].status # "none" /\ UNCHANGED <<ask, closure>>
        BY <1>0, <3>6 DEF CheckAsk, JobsAreOf, AsksAreTrue, At
      <4>2. \A v \in Workers: v # w => job'[v] = job[v]
        BY <1>0, <3>6 DEF CheckAsk, GoTo, End, JobsAreTyped
      <4>3. CASE End(w)
        BY <1>0, <2>2, <4>1, <4>2, <4>3, EndKeepsJobs
      <4>4. CASE GoTo(w, "resolving") /\ Stale(ask[job[w].id].page)
        <5>1. ~IsSideLocked(closure', ask'[job[w].id].page)
          BY <4>1, <4>4 DEF Stale, LockedForEntry, Locked
        <5>2. ask[job[w].id].status = "PENDING" => job[w].id \in opened'
          BY <1>2, <4>1, <5>1 DEF Next, Observe, Waiting
        <5>3. ask[job[w].id].status = "RESOLVED" => job[w].id \in opened'
          BY <1>0, <2>1, <4>1 DEF AsksAreTrue
        <5>4. job[w].id \in opened'
          BY <1>0, <4>1, <5>2, <5>3 DEF AskRows
        <5>5. job'[w].id = job[w].id /\ job'[w].step = "resolving"
          BY <1>0, <4>4 DEF GoTo, JobsAreTyped, Jobs
        <5> QED BY <1>0, <2>1, <4>1, <4>2, <5>4, <5>5 DEF AsksAreTrue, At
      <4> QED BY <3>6, <4>3, <4>4 DEF CheckAsk
    <3>7. ASSUME NEW w \in Workers, ResolveAsk(w) PROVE AsksAreTrue'
      <4>1. job'[w] = Idle /\ \A v \in Workers: v # w => job'[v] = job[v]
        BY <1>0, <3>7, EndKeepsJobs DEF ResolveAsk
      <4>2. job[w].id \in Asks /\ job[w].id \in opened
        BY <1>0, <3>7 DEF ResolveAsk, JobsAreOf, AsksAreTrue, At
      <4>3. \A b \in Asks: ask'[b].status = ask[b].status \/ (b = job[w].id /\ ask'[b].status = "RESOLVED")
        BY <1>0, <3>7, <4>2 DEF ResolveAsk, AskRows
      <4> QED BY <1>0, <2>1, <4>1, <4>2, <4>3, IdleIsJob DEF AsksAreTrue, At, JobsAreOf
    <3> QED BY <2>8, <3>2, <3>3, <3>4, <3>5, <3>6, <3>7 DEF AskNext, Sweep
  <2> QED BY <1>2, <2>3, <2>4, <2>5, <2>6, <2>7, <2>8 DEF Next
<1> QED BY <1>1, <1>2

\* No ask for an unlock is dropped: it is resolved only if its page was without
\* its lock at some moment since (unlockRequest.service.ts, unlockDay).
THEOREM NoAskIsDropped == Spec => []AsksAreAnswered
<1>1. Init => AskInv
  BY InitTypes, IdleIsJob DEF AskInv, AsksAreTrue, Init, AskInit, MonthInit, At
<1>2. AskInv /\ [Next]_vars => AskInv'
  BY TypesStay, AskStep DEF AskInv
<1>3. AskInv => AsksAreAnswered
  BY DEF AskInv, AsksAreTrue, AsksAreAnswered
<1> QED BY <1>1, <1>2, <1>3, PTL DEF Spec

-----------------------------------------------------------------------------
(* Corrections *)

DecidingSteps == {"approving", "marking", "rejecting"}
Decides(w, r) == job[w].step \in DecidingSteps /\ job[w].id = r

\* A request that one reviewer decides is pending until the mark, and its figure
\* is written by that decision alone.
DecisionsAreTrue ==
    \A r \in Requests:
        /\ request[r].status = "none" => ~request[r].applied /\ ~request[r].contested
        /\ \A w \in Workers: Decides(w, r) =>
            /\ request[r].status # "none"
            /\ ~request[r].contested => Undecided(r)
            /\ At(w, "marking") => request[r].applied
            /\ \A v \in Workers: v # w /\ Decides(v, r) => request[r].contested
        /\ ~request[r].contested /\ ~request[r].cut =>
            /\ Undecided(r) /\ request[r].applied => \E w \in Workers: At(w, "marking") /\ job[w].id = r
            /\ request[r].status = "APPROVED" => request[r].applied
            /\ request[r].status = "REJECTED" => ~request[r].applied

DecisionInv == Types /\ DecisionsAreTrue

\* Other parts' steps leave the requests alone and decide nothing.
LEMMA OtherStepDecidesNothing ==
    ASSUME DecisionInv, UNCHANGED request,
           \A w \in Workers: job'[w] = job[w]
                \/ (job[w].step \notin DecidingSteps /\ job'[w].step \notin DecidingSteps)
    PROVE  DecisionsAreTrue'
BY DEF DecisionInv, DecisionsAreTrue, Decides, Undecided, At, DecidingSteps

LEMMA DecisionStep ==
    ASSUME DecisionInv, CorrectionNext
    PROVE  DecisionsAreTrue'
<1>0. Types /\ DecisionsAreTrue /\ JobsAreTyped /\ CorrectionTypeOK /\ JobsAreOf(Items, Requests, Asks)
  BY TypesOfJobs DEF DecisionInv, Types, TypeOK
<1>1. ASSUME NEW w \in Workers, NEW on \in Correctable, NEW value \in Figures, CheckRequest(w, on, value)
      PROVE  DecisionsAreTrue'
  <2>1. job[w].step = "idle" /\ job'[w].step = "requesting" /\ \A v \in Workers: v # w => job'[v] = job[v]
    BY <1>0, <1>1 DEF CheckRequest, Start, JobsAreTyped, Idle, At
  <2> QED BY <1>1, <2>1, OtherStepDecidesNothing DEF CheckRequest, DecidingSteps
<1>2. ASSUME NEW w \in Workers, NEW r \in Requests, CreateRequest(w, r) PROVE DecisionsAreTrue'
  <2>1. job[w].step = "requesting" /\ job'[w].step = "idle" /\ \A v \in Workers: v # w => job'[v] = job[v]
    BY <1>0, <1>2, EndKeepsJobs, IdleIsJob DEF CreateRequest, At
  <2>2. request[r].status = "none" /\ \A q \in Requests: q # r => request'[q] = request[q]
    BY <1>0, <1>2 DEF CreateRequest, CorrectionTypeOK
  <2>3. request'[r].status = "PENDING" /\ ~request'[r].applied /\ ~request'[r].contested
    BY <1>0, <1>2 DEF CreateRequest, CorrectionTypeOK, NoRequest
  <2>4. \A v \in Workers: ~Decides(v, r)'
    BY <1>0, <2>1, <2>2 DEF DecisionsAreTrue, Decides, DecidingSteps
  <2> QED BY <1>0, <2>1, <2>2, <2>3, <2>4 DEF DecisionsAreTrue, Decides, DecidingSteps, Undecided, At
<1>3. ASSUME NEW w \in Workers, NEW r \in Requests, NEW step \in {"approving", "rejecting"},
             LoadRequest(w, r, step)
      PROVE  DecisionsAreTrue'
  <2>1. job[w].step = "idle" /\ job'[w].step = step /\ job'[w].id = r /\ \A v \in Workers: v # w => job'[v] = job[v]
    BY <1>0, <1>3 DEF LoadRequest, Start, JobsAreTyped, Idle, At
  <2>2. Undecided(r) /\ \A q \in Requests: q # r => request'[q] = request[q]
    BY <1>0, <1>3 DEF LoadRequest, Decidable, CorrectionTypeOK
  <2>3. request'[r] = [request[r] EXCEPT !.contested = request[r].contested \/ Deciding(r)]
    BY <1>0, <1>3 DEF LoadRequest, CorrectionTypeOK
  <2>4. /\ request'[r].status = "PENDING" /\ request'[r].applied = request[r].applied
        /\ request'[r].cut = request[r].cut
        /\ request'[r].contested = (request[r].contested \/ Deciding(r))
    <3>1. request[r] \in [status: RequestStatuses, on: Correctable, value: 0..MaxFigure, late: BOOLEAN,
                         applied: BOOLEAN, contested: BOOLEAN, cut: BOOLEAN]
      BY <1>0 DEF CorrectionTypeOK
    <3> HIDE DEF Deciding
    <3> QED BY <2>2, <2>3, <3>1 DEF Undecided
  <2>5. Deciding(r) <=> \E v \in Workers: Decides(v, r)
    BY DEF Deciding, Decides, DecidingSteps
  <2>6. ~request'[r].contested => ~request[r].contested /\ \A v \in Workers: ~Decides(v, r)
    BY <2>4, <2>5
  <2>7. \A v \in Workers: v # w => (Decides(v, r)' <=> Decides(v, r))
    BY <2>1 DEF Decides
  <2>8. ~request'[r].contested /\ ~request[r].cut => ~request[r].applied
    BY <1>0, <2>2, <2>6 DEF DecisionsAreTrue, Decides, DecidingSteps, At
  <2>9. request[r].status # "none" /\ request'[r].status # "none" /\ Undecided(r)'
    BY <2>2, <2>4 DEF Undecided
  <2>10. ASSUME NEW q \in Requests, q # r
         PROVE  /\ request'[q] = request[q]
                /\ \A v \in Workers: (Decides(v, q)' <=> Decides(v, q)) /\ (Decides(v, q)' => job'[v] = job[v])
                /\ \A v \in Workers: At(v, "marking") /\ job[v].id = q => At(v, "marking")' /\ job'[v].id = q
    BY <2>1, <2>2, <2>10 DEF Decides, DecidingSteps, At
  <2>11. \A v \in Workers: Decides(v, r)' => v = w \/ (Decides(v, r) /\ job'[v] = job[v])
    BY <2>1, <2>7
  <2>12. ~At(w, "marking")'
    BY <2>1 DEF At
  <2>13. \A v \in Workers: v # w /\ Decides(v, r)' => request'[r].contested
    BY <2>6, <2>7
  <2>14. \A v \in Workers: At(v, "marking")' /\ Decides(v, r)' => request'[r].applied
    BY <1>0, <2>4, <2>11, <2>12 DEF DecisionsAreTrue, At
  <2> QED BY <1>0, <2>4, <2>8, <2>9, <2>10, <2>13, <2>14 DEF DecisionsAreTrue, Undecided, At
<1>4. ASSUME NEW w \in Workers, ApplyRequest(w) PROVE DecisionsAreTrue'
  <2> DEFINE r == job[w].id
  <2>1. job[w].step = "approving" /\ r \in Requests
    BY <1>0, <1>4 DEF ApplyRequest, JobsAreOf, At
  <2>2. job'[w].step = "marking" /\ job'[w].id = job[w].id /\ \A v \in Workers: v # w => job'[v] = job[v]
    BY <1>0, <1>4 DEF ApplyRequest, GoTo, JobsAreTyped, Jobs
  <2>3. /\ \A q \in Requests: q # job[w].id => request'[q] = request[q]
        /\ request'[job[w].id] = [request[job[w].id] EXCEPT !.applied = TRUE]
    BY <1>0, <1>4, <2>1 DEF ApplyRequest, CorrectionTypeOK
  <2>4. \A q \in Requests: /\ request'[q].status = request[q].status /\ request'[q].contested = request[q].contested
                           /\ request'[q].cut = request[q].cut
                           /\ request'[q].applied <=> q = job[w].id \/ request[q].applied
    BY <1>0, <2>3 DEF CorrectionTypeOK
  <2>5. \A v \in Workers, q \in Requests: Decides(v, q)' <=> Decides(v, q)
    BY <2>1, <2>2 DEF Decides, DecidingSteps
  <2>6. ~request[job[w].id].contested => Undecided(job[w].id)
    BY <1>0, <2>1 DEF DecisionsAreTrue, Decides, DecidingSteps
  <2> QED BY <1>0, <2>1, <2>2, <2>4, <2>5, <2>6
          DEF DecisionsAreTrue, Decides, DecidingSteps, Undecided, At
<1>5. ASSUME NEW w \in Workers, NEW step \in {"marking", "rejecting"}, NEW status \in {"APPROVED", "REJECTED"},
             MarkRequest(w, step, status), step = "marking" <=> status = "APPROVED"
      PROVE  DecisionsAreTrue'
  <2>1. job[w].step = step /\ job[w].id \in Requests
    BY <1>0, <1>5 DEF MarkRequest, JobsAreOf, At
  <2>2. job'[w].step = "idle" /\ \A v \in Workers: v # w => job'[v] = job[v]
    BY <1>0, <1>5, EndKeepsJobs, IdleIsJob DEF MarkRequest
  <2>3. /\ \A q \in Requests: q # job[w].id => request'[q] = request[q]
        /\ request'[job[w].id] = [request[job[w].id] EXCEPT !.status = status]
    BY <1>0, <1>5, <2>1 DEF MarkRequest, CorrectionTypeOK
  <2>4. \A q \in Requests: /\ request'[q].status = IF q = job[w].id THEN status ELSE request[q].status
                           /\ request'[q].contested = request[q].contested
                           /\ request'[q].cut = request[q].cut
                           /\ request'[q].applied = request[q].applied
    BY <1>0, <2>3 DEF CorrectionTypeOK
  <2>5. \A v \in Workers, q \in Requests: Decides(v, q)' <=> v # w /\ Decides(v, q)
    BY <2>1, <2>2 DEF Decides, DecidingSteps
  <2>6. Decides(w, job[w].id)
    BY <2>1 DEF Decides, DecidingSteps
  <2>7. ~request[job[w].id].contested => /\ Undecided(job[w].id)
                                         /\ \A v \in Workers: v # w => ~Decides(v, job[w].id)
    BY <1>0, <2>1, <2>6 DEF DecisionsAreTrue
  <2>8. ~request[job[w].id].contested /\ ~request[job[w].id].cut =>
            (request[job[w].id].applied <=> status = "APPROVED")
    BY <1>0, <1>5, <2>1, <2>6, <2>7 DEF DecisionsAreTrue, Decides, DecidingSteps, At
  <2>9. \A v \in Workers: v # w => (At(v, "marking")' <=> At(v, "marking"))
    BY <2>2 DEF At
  <2>10. \A q \in Requests: q # job[w].id => ((\E v \in Workers: At(v, "marking") /\ job[v].id = q)
                                             => \E v \in Workers: At(v, "marking")' /\ job'[v].id = q)
    BY <2>2 DEF At
  <2> QED BY <1>0, <2>1, <2>4, <2>5, <2>7, <2>8, <2>9, <2>10 DEF DecisionsAreTrue, Undecided
<1> QED BY <1>1, <1>2, <1>3, <1>4, <1>5 DEF CorrectionNext

LEMMA CrashCutsDecisions ==
    ASSUME DecisionInv, Crash
    PROVE  DecisionsAreTrue'
<1>0. Types /\ DecisionsAreTrue /\ CorrectionTypeOK
  BY DEF DecisionInv, Types, TypeOK
<1>1. \A v \in Workers, r \in Requests: ~Decides(v, r)'
  BY IdleIsJob DEF Crash, Restart, Decides, DecidingSteps
<1>2. \A r \in Requests: /\ request'[r].status = request[r].status /\ request'[r].contested = request[r].contested
                         /\ request'[r].applied = request[r].applied
                         /\ request'[r].cut <=> \/ request[r].cut
                                                \/ \E w \in Workers: At(w, "marking") /\ job[w].id = r
  BY <1>0 DEF Crash, CutApprovals, CorrectionTypeOK
<1> QED BY <1>0, <1>1, <1>2 DEF DecisionsAreTrue, Undecided

LEMMA DecisionsStayTrue ==
    ASSUME DecisionInv, [Next]_vars
    PROVE  DecisionsAreTrue'
<1>0. Types /\ JobsAreTyped
  BY TypesOfJobs DEF DecisionInv
<1> DEFINE Other == \A w \in Workers: job'[w] = job[w]
                \/ (job[w].step \notin DecidingSteps /\ job'[w].step \notin DecidingSteps)
<1>1. CASE MonthNext /\ UNCHANGED <<item, request, ask>>
  <2>1. Other
    BY <1>0, <1>1, MonthStepKeeps, IdleIsJob DEF MonthKeeps, JobsKeptBut, MonthSteps, DecidingSteps
  <2> QED BY <1>1, <2>1, OtherStepDecidesNothing
<1>2. CASE ReleaseNext /\ UNCHANGED <<request, ask>>
  <2>1. Other
    BY <1>0, <1>2, ItemStepKeeps, IdleIsJob DEF ItemJobs, ItemSteps, DecidingSteps
  <2> QED BY <1>2, <2>1, OtherStepDecidesNothing
<1>3. CASE CorrectionNext /\ UNCHANGED <<item, ask>>
  BY <1>3, DecisionStep
<1>4. CASE AskNext /\ UNCHANGED <<item, request>>
  <2>1. Other
    BY <1>0, <1>4, AskStepKeeps, IdleIsJob DEF AskJobs, AskSteps, DecidingSteps
  <2> QED BY <1>4, <2>1, OtherStepDecidesNothing
<1>5. CASE Close
  BY <1>5, OtherStepDecidesNothing DEF Close, CloseMonth
<1>6. ASSUME NEW w \in Workers, UnlockDay(w) PROVE DecisionsAreTrue'
  <2>1. Other
    BY <1>0, <1>6 DEF UnlockDay, UnlockPages, End, At, Idle, JobsAreTyped, DecidingSteps
  <2> QED BY <1>6, <2>1, OtherStepDecidesNothing DEF UnlockDay
<1>7. CASE Crash
  BY <1>7, CrashCutsDecisions
<1>8. CASE UNCHANGED vars
  BY <1>8, OtherStepDecidesNothing DEF vars, monthVars
<1> QED BY <1>1, <1>2, <1>3, <1>4, <1>5, <1>6, <1>7, <1>8 DEF Next

\* A decided correction says what became of its figure, unless two reviewers
\* decided it at once or a restart cut its approval (correction.service.ts).
THEOREM DecisionsSayTheTruth == Spec => []DecisionIsTrue
<1>1. Init => DecisionInv
  BY InitTypes, IdleIsJob
  DEF DecisionInv, DecisionsAreTrue, Init, CorrectionInit, MonthInit, NoRequest, Decides,
     DecidingSteps, Undecided
<1>2. DecisionInv /\ [Next]_vars => DecisionInv'
  BY TypesStay, DecisionsStayTrue DEF DecisionInv
<1>3. DecisionInv => DecisionIsTrue
  BY DEF DecisionInv, DecisionsAreTrue, DecisionIsTrue
<1> QED BY <1>1, <1>2, <1>3, PTL DEF Spec

-----------------------------------------------------------------------------
(* The closed month *)

\* A figure somebody asks to correct exists and is asked to be another figure, so
\* no correction empties a row; what waits for a decision was raised after the close.
MonthIsTrue ==
    /\ ClosedMonthIsFinal
    /\ monthClosed => \A r \in Requests: Undecided(r) => request[r].late
    /\ \A r \in Requests: request[r].status # "none" =>
          /\ request[r].value # 0
          /\ request[r].on \in Pages => entry[request[r].on] # 0
    /\ \A w \in Workers: At(w, "requesting") =>
          \A page \in Pages: page \in job[w].on => entry[page] # 0
    /\ \A w \in Workers: job[w].step \in DecidingSteps => request[job[w].id].status # "none"

MonthInv == Types /\ MonthIsTrue

RowsStayed == \A page \in Pages: entry[page] # 0 => entry'[page] # 0

\* A step that keeps what the close looked at, or says that it disturbs it.
LEMMA MonthStaysTrue ==
    ASSUME MonthInv,
           RowsStayed, UNCHANGED request,
           \A w \in Workers: job'[w] = job[w] \/ job'[w].step \notin RequestSteps,
           monthClosed' => monthClosed,
           monthClosed' /\ ~disturbed' =>
               /\ ~disturbed /\ UNCHANGED entry /\ earlier' \subseteq earlier
               /\ closure.locked \subseteq closure'.locked
               /\ count' = "saved" => count = "saved"
    PROVE  MonthIsTrue'
<1>1. /\ monthClosed' => \A r \in Requests: Undecided(r)' => request'[r].late
      /\ \A r \in Requests: request'[r].status # "none" =>
            /\ request'[r].value # 0
            /\ request'[r].on \in Pages => entry'[request'[r].on] # 0
  BY DEF MonthInv, MonthIsTrue, RowsStayed, Undecided
<1>2. /\ \A w \in Workers: At(w, "requesting")' =>
            \A page \in Pages: page \in job'[w].on => entry'[page] # 0
      /\ \A w \in Workers: job'[w].step \in DecidingSteps => request'[job'[w].id].status # "none"
  BY DEF MonthInv, MonthIsTrue, RowsStayed, At, DecidingSteps, RequestSteps
<1>3. ClosedMonthIsFinal'
  BY DEF MonthInv, MonthIsTrue, ClosedMonthIsFinal, Locked, IsSideLocked, Pending, Undecided
<1> QED BY <1>1, <1>2, <1>3 DEF MonthIsTrue

\* The month's own steps.
LEMMA MonthStepStaysTrue ==
    ASSUME MonthInv, MonthNext, UNCHANGED request
    PROVE  MonthIsTrue'
<1>0. Types /\ MonthTypeOK /\ JobsAreTyped /\ JobsAreOf(Items, Requests, Asks)
  BY TypesOfJobs DEF MonthInv, Types, TypeOK
<1>1. \A w \in Workers: job'[w] = job[w] \/ job'[w].step \notin RequestSteps
  BY <1>0, MonthStepKeeps, IdleIsJob DEF MonthKeeps, JobsKeptBut, MonthSteps, RequestSteps
<1> DEFINE Kept == /\ RowsStayed
                   /\ monthClosed' => monthClosed
                   /\ monthClosed' /\ ~disturbed' =>
                         /\ ~disturbed /\ UNCHANGED entry /\ earlier' \subseteq earlier
                         /\ closure.locked \subseteq closure'.locked
                         /\ count' = "saved" => count = "saved"
<1>2. ASSUME PublishCount PROVE Kept
  BY <1>2 DEF PublishCount, RowsStayed
<1>3. ASSUME NEW page \in Pages, UnlockEarlier(page) \/ FinishEarlier(page) PROVE Kept
  <2>1. CASE UnlockEarlier(page)
    BY <2>1 DEF UnlockEarlier, Disturb, RowsStayed
  <2>2. CASE FinishEarlier(page)
    BY <2>2 DEF FinishEarlier, RowsStayed
  <2> QED BY <1>3, <2>1, <2>2
<1>4. ASSUME NEW page \in Pages, NEW figure \in Figures, SaveEntry(page, figure) PROVE Kept
  BY <1>0, <1>4 DEF SaveEntry, OpenForEntry, RowsStayed, Figures, MonthTypeOK
<1>5. ASSUME NEW w \in Workers, CheckCount(w) \/ ReadForFinish(w) \/ ReadForReopen(w) \/ ReopenMonth(w) PROVE Kept
  BY <1>5 DEF CheckCount, ReadForFinish, ReadForReopen, ReopenMonth, RowsStayed
<1>6. ASSUME NEW w \in Workers, SaveCount(w) PROVE Kept
  BY <1>6 DEF SaveCount, Disturb, RowsStayed
<1>7. ASSUME NEW w \in Workers, LockPage(w) PROVE Kept
  <2>1. job[w].on \in SUBSET Pages /\ job[w].read \in Closures
    BY <1>0, <1>7, TypesOfJobs DEF LockPage, JobsAreOf, MonthSteps, At
  <2>2. UNCHANGED <<entry, earlier, count, monthClosed>> /\ Disturb(closure # job[w].read)
    BY <1>7 DEF LockPage
  <2>3. closure = job[w].read => closure.locked \subseteq closure'.locked
    BY <1>7, <2>1, LockStaysClosure DEF LockPage
  <2> QED BY <2>2, <2>3 DEF Disturb, RowsStayed
<1>8. ASSUME NEW w \in Workers, NEW page \in Pages, CheckFinish(w, page) PROVE Kept
  BY <1>8 DEF CheckFinish, RowsStayed
<1>9. ASSUME NEW w \in Workers, NEW on, ReadForUnlock(w, on) PROVE Kept
  BY <1>9 DEF ReadForUnlock, RowsStayed
<1>10. Kept
  BY <1>2, <1>3, <1>4, <1>5, <1>6, <1>7, <1>8, <1>9 DEF MonthNext, PublishCount, RowsStayed
<1> QED BY <1>1, <1>10, MonthStaysTrue

\* Corrections: a request raised against a closed month is late, and an approved
\* figure is not 0.
LEMMA CorrectionStaysTrue ==
    ASSUME MonthInv, CorrectionNext
    PROVE  MonthIsTrue'
<1>0. Types /\ MonthIsTrue /\ MonthTypeOK /\ JobsAreTyped /\ CorrectionTypeOK /\ JobsAreOf(Items, Requests, Asks)
      /\ entry \in [Pages -> 0..MaxFigure]
  BY TypesOfJobs DEF MonthInv, Types, TypeOK, MonthTypeOK
<1>1. ASSUME NEW w \in Workers, NEW on \in Correctable, NEW value \in Figures, CheckRequest(w, on, value)
      PROVE  MonthIsTrue'
  <2>1. job'[w].step = "requesting" /\ job'[w].on = {on} /\ \A v \in Workers: v # w => job'[v] = job[v]
    BY <1>0, <1>1 DEF CheckRequest, Start, JobsAreTyped, Idle
  <2>2. on \in Pages => entry[on] # 0
    BY <1>1 DEF CheckRequest, HasRow, Pages
  <2>3. UNCHANGED <<closure, entry, earlier, count, monthClosed, disturbed, request>>
    BY <1>1 DEF CheckRequest
  <2> QED BY <1>0, <2>1, <2>2, <2>3
          DEF MonthIsTrue, ClosedMonthIsFinal, Locked, IsSideLocked, Pending, Undecided, At,
              DecidingSteps
<1>2. ASSUME NEW w \in Workers, NEW r \in Requests, CreateRequest(w, r) PROVE MonthIsTrue'
  <2>1. job'[w].step = "idle" /\ \A v \in Workers: v # w => job'[v] = job[v]
    BY <1>0, <1>2, EndKeepsJobs, IdleIsJob DEF CreateRequest
  <2>2. request[r].status = "none" /\ \A q \in Requests: q # r => request'[q] = request[q]
    BY <1>0, <1>2 DEF CreateRequest, CorrectionTypeOK
  <2>3. job[w].figure # 0 /\ \A page \in Pages: page \in job[w].on => entry[page] # 0
    BY <1>0, <1>2, FigureAssumption DEF CreateRequest, JobsAreOf, MonthIsTrue, Figures, At
  <2>4. /\ request'[r].status = "PENDING" /\ request'[r].late = monthClosed /\ request'[r].value # 0
        /\ request'[r].on \in job[w].on
    BY <1>0, <1>2, <2>3 DEF CreateRequest, CorrectionTypeOK, NoRequest
  <2>5. UNCHANGED <<closure, entry, earlier, count, monthClosed>> /\ Disturb(TRUE)
    BY <1>2 DEF CreateRequest
  <2>6. ClosedMonthIsFinal'
    BY <2>5 DEF ClosedMonthIsFinal, Disturb
  <2>7. \A q \in Requests: request[q].status # "none" => request'[q].status = request[q].status
    BY <2>2
  <2>8. \A v \in Workers: job'[v].step \in DecidingSteps =>
          job[v].step \in DecidingSteps /\ job'[v].id = job[v].id /\ job[v].id \in Requests
    BY <1>0, <2>1 DEF DecidingSteps, JobsAreOf
  <2>9. \A v \in Workers: At(v, "requesting")' => At(v, "requesting") /\ job'[v].on = job[v].on
    BY <2>1 DEF At
  <2> QED BY <1>0, <2>2, <2>3, <2>4, <2>5, <2>6, <2>7, <2>8, <2>9 DEF MonthIsTrue, Undecided
<1>3. ASSUME NEW w \in Workers, NEW r \in Requests, NEW step \in {"approving", "rejecting"},
             LoadRequest(w, r, step)
      PROVE  MonthIsTrue'
  <2>1. job'[w].step = step /\ job'[w].id = r /\ \A v \in Workers: v # w => job'[v] = job[v]
    BY <1>0, <1>3 DEF LoadRequest, Start, JobsAreTyped, Idle
  <2>2. request[r].status = "PENDING"
    BY <1>3 DEF LoadRequest, Decidable, Undecided
  <2>3. \A q \in Requests: /\ request'[q].status = request[q].status /\ request'[q].late = request[q].late
                           /\ request'[q].on = request[q].on /\ request'[q].value = request[q].value
    BY <1>0, <1>3 DEF LoadRequest, CorrectionTypeOK
  <2>4. UNCHANGED <<closure, entry, earlier, count, monthClosed, disturbed>>
    BY <1>3 DEF LoadRequest
  <2>5. ClosedMonthIsFinal'
    BY <1>0, <2>3, <2>4 DEF MonthIsTrue, ClosedMonthIsFinal, Locked, IsSideLocked, Pending, Undecided
  <2>6. \A v \in Workers: job'[v].step \in DecidingSteps =>
          job'[v].id \in Requests /\ request[job'[v].id].status # "none"
    BY <1>0, <2>1, <2>2 DEF DecidingSteps, JobsAreOf, MonthIsTrue
  <2>7. \A v \in Workers: At(v, "requesting")' => At(v, "requesting") /\ job'[v].on = job[v].on
    BY <2>1 DEF At
  <2> QED BY <1>0, <2>3, <2>4, <2>5, <2>6, <2>7 DEF MonthIsTrue, Undecided
<1>4. ASSUME NEW w \in Workers, ApplyRequest(w) PROVE MonthIsTrue'
  <2>1. job[w].id \in Requests /\ request[job[w].id].status # "none"
    BY <1>0, <1>4 DEF ApplyRequest, JobsAreOf, MonthIsTrue, At, DecidingSteps
  <2>2. request[job[w].id].value # 0 /\ request[job[w].id].on \in Correctable
        /\ (request[job[w].id].on \in Pages => entry[request[job[w].id].on] # 0)
    BY <1>0, <2>1 DEF MonthIsTrue, CorrectionTypeOK
  <2>3. \A page \in Pages: entry'[page] # 0 <=> entry[page] # 0
    BY <1>0, <1>4, <2>2 DEF ApplyRequest, Applied
  <2>4. job'[w].step = "marking" /\ job'[w].id = job[w].id /\ \A v \in Workers: v # w => job'[v] = job[v]
    BY <1>0, <1>4 DEF ApplyRequest, GoTo, JobsAreTyped, Jobs
  <2>5. \A q \in Requests: /\ request'[q].status = request[q].status /\ request'[q].late = request[q].late
                           /\ request'[q].on = request[q].on /\ request'[q].value = request[q].value
    BY <1>0, <1>4 DEF ApplyRequest, CorrectionTypeOK
  <2>6. UNCHANGED <<closure, earlier, monthClosed>> /\ Disturb(request[job[w].id].on = "COUNT")
        /\ count' = IF request[job[w].id].on = "COUNT" THEN "saved" ELSE count
    BY <1>4 DEF ApplyRequest
  <2>7. ClosedMonthIsFinal'
    <3> SUFFICES ASSUME monthClosed', ~disturbed'
                 PROVE  /\ \A page \in Pages: entry'[page] # 0 => Locked(page)' /\ page \notin earlier'
                        /\ count' # "saved"
                        /\ Pending' = {}
      BY DEF ClosedMonthIsFinal
    <3>1. monthClosed /\ ~disturbed /\ UNCHANGED count
      BY <2>6 DEF Disturb
    <3>2. /\ \A page \in Pages: entry[page] # 0 => Locked(page) /\ page \notin earlier
          /\ count # "saved"
          /\ Pending = {}
      BY <1>0, <3>1 DEF MonthIsTrue, ClosedMonthIsFinal
    <3>3. \A page \in Pages: Locked(page)' <=> Locked(page)
      BY <2>6 DEF Locked, IsSideLocked
    <3>4. Pending' \subseteq Pending
      BY <2>5 DEF Pending, Undecided
    <3> QED BY <2>3, <2>6, <3>1, <3>2, <3>3, <3>4
  <2>8. \A v \in Workers: job'[v].step \in DecidingSteps =>
          job[v].step \in DecidingSteps /\ job'[v].id = job[v].id /\ job[v].id \in Requests
    BY <1>0, <1>4, <2>1, <2>4 DEF ApplyRequest, At, DecidingSteps, JobsAreOf
  <2>9. \A v \in Workers: At(v, "requesting")' => At(v, "requesting") /\ job'[v].on = job[v].on
    BY <2>4 DEF At
  <2> QED BY <1>0, <2>3, <2>5, <2>6, <2>7, <2>8, <2>9 DEF MonthIsTrue, Undecided
<1>5. ASSUME NEW w \in Workers, NEW step \in {"marking", "rejecting"}, NEW status \in {"APPROVED", "REJECTED"},
             MarkRequest(w, step, status)
      PROVE  MonthIsTrue'
  <2>1. job'[w].step = "idle" /\ \A v \in Workers: v # w => job'[v] = job[v]
    BY <1>0, <1>5, EndKeepsJobs, IdleIsJob DEF MarkRequest
  <2>2. \A q \in Requests: /\ request'[q].status \in {request[q].status, status} /\ request'[q].late = request[q].late
                           /\ request'[q].on = request[q].on /\ request'[q].value = request[q].value
                           /\ (request'[q].status # request[q].status => q = job[w].id)
    BY <1>0, <1>5 DEF MarkRequest, CorrectionTypeOK
  <2>3. job[w].id \in Requests /\ request[job[w].id].status # "none"
    BY <1>0, <1>5 DEF MarkRequest, JobsAreOf, MonthIsTrue, DecidingSteps, At
  <2>4. \A q \in Requests: (request'[q].status # "none" <=> request[q].status # "none")
                           /\ (Undecided(q)' => Undecided(q))
    BY <2>2, <2>3 DEF Undecided
  <2>5. UNCHANGED <<closure, entry, earlier, count, monthClosed, disturbed>>
    BY <1>5 DEF MarkRequest
  <2>6. ClosedMonthIsFinal'
    BY <1>0, <2>4, <2>5 DEF MonthIsTrue, ClosedMonthIsFinal, Locked, IsSideLocked, Pending
  <2>7. \A v \in Workers: job'[v].step \in DecidingSteps =>
          job[v].step \in DecidingSteps /\ job'[v].id = job[v].id /\ job[v].id \in Requests
    BY <1>0, <2>1 DEF DecidingSteps, JobsAreOf
  <2>8. \A v \in Workers: At(v, "requesting")' => At(v, "requesting") /\ job'[v].on = job[v].on
    BY <2>1 DEF At
  <2> QED BY <1>0, <2>2, <2>4, <2>5, <2>6, <2>7, <2>8 DEF MonthIsTrue
<1> QED BY <1>1, <1>2, <1>3, <1>4, <1>5 DEF CorrectionNext

LEMMA ReleaseStaysTrue ==
    ASSUME MonthInv, ReleaseNext, UNCHANGED request
    PROVE  MonthIsTrue'
<1>0. Types /\ ReleaseTypeOK /\ entry \in [Pages -> 0..MaxFigure]
  BY DEF MonthInv, Types, TypeOK, MonthTypeOK
<1>1. \A w \in Workers: job'[w] = job[w] \/ job'[w].step \notin RequestSteps
  BY <1>0, ItemStepKeeps, IdleIsJob DEF ItemJobs, ItemSteps, RequestSteps
<1>2. UNCHANGED <<closure, earlier, count, monthClosed, disturbed>>
  BY DEF ReleaseNext, WriteItem, Release, CreateItem, LoadItem, monthVars
<1>3. ASSUME NEW i \in Items, Release(i) PROVE RowsStayed /\ ~monthClosed
  <2>1. item[i].page \in Pages /\ item[i].quantity \in 0..MaxFigure
    BY <1>0 DEF ReleaseTypeOK
  <2>2. \A page \in Pages: entry'[page] = IF page = item[i].page THEN entry[page] + item[i].quantity ELSE entry[page]
    BY <1>0, <1>3, <2>1 DEF Release
  <2> QED BY <1>0, <1>3, <2>1, <2>2, FigureAssumption DEF Release, OpenForEntry, RowsStayed
<1>4. (\E i \in Items: Release(i)) \/ UNCHANGED entry
  BY DEF ReleaseNext, WriteItem, CreateItem, LoadItem, monthVars
<1>5. RowsStayed /\ (UNCHANGED entry \/ ~monthClosed)
  BY <1>3, <1>4 DEF RowsStayed
<1> QED BY <1>1, <1>2, <1>5, MonthStaysTrue

LEMMA AskStaysTrue ==
    ASSUME MonthInv, AskNext, UNCHANGED request
    PROVE  MonthIsTrue'
<1>1. \A w \in Workers: job'[w] = job[w] \/ job'[w].step \notin RequestSteps
  BY AskStepKeeps, IdleIsJob DEF MonthInv, AskJobs, RequestSteps
<1>2. UNCHANGED <<closure, entry, earlier, count, monthClosed, disturbed>>
  BY DEF AskNext, CheckLocked, FindAsk, CreateAsk, ReadAsk, Sweep, CheckAsk, ResolveAsk
<1> QED BY <1>1, <1>2, MonthStaysTrue DEF RowsStayed

LEMMA JointStepStaysTrue ==
    ASSUME MonthInv, Close \/ (\E w \in Workers: UnlockDay(w)) \/ Crash
    PROVE  MonthIsTrue'
<1>0. Types /\ MonthIsTrue /\ CorrectionTypeOK
  BY DEF MonthInv, Types, TypeOK
<1>1. \A w \in Workers: job'[w] \in {job[w], Idle}
  BY <1>0, JointStepKeeps
<1>2. \A w \in Workers: job'[w] = job[w] \/ job'[w].step \notin RequestSteps
  BY <1>1, IdleIsJob DEF RequestSteps
<1>3. CASE Close
  <2>1. monthClosed' /\ UNCHANGED <<closure, entry, earlier, count, job, request>> /\ MonthReady(Pending)
    BY <1>3 DEF Close, CloseMonth
  <2>2. Pending = {} /\ Pending' = {}
    BY <2>1 DEF MonthReady, Pending, Undecided
  <2>3. \A r \in Requests: ~Undecided(r)'
    BY <2>2 DEF Pending
  <2>4. ClosedMonthIsFinal'
    BY <2>1, <2>2 DEF MonthReady, ClosedMonthIsFinal, Locked, IsSideLocked
  <2> QED BY <1>0, <2>1, <2>3, <2>4 DEF MonthIsTrue, At
<1>4. ASSUME NEW w \in Workers, UnlockDay(w) PROVE MonthIsTrue'
  BY <1>2, <1>4, MonthStaysTrue DEF UnlockDay, UnlockPages, Disturb, RowsStayed
<1>5. CASE Crash
  <2>1. \A r \in Requests: /\ request'[r].status = request[r].status /\ request'[r].late = request[r].late
                           /\ request'[r].on = request[r].on /\ request'[r].value = request[r].value
    BY <1>0, <1>5 DEF Crash, CutApprovals, CorrectionTypeOK
  <2>2. UNCHANGED <<closure, entry, earlier, count, monthClosed, disturbed>> /\ \A w \in Workers: job'[w] = Idle
    BY <1>5 DEF Crash, Restart
  <2>3. ClosedMonthIsFinal'
    BY <1>0, <2>1, <2>2 DEF MonthIsTrue, ClosedMonthIsFinal, Locked, IsSideLocked, Pending, Undecided
  <2>4. \A w \in Workers: ~At(w, "requesting")' /\ job'[w].step \notin DecidingSteps
    BY <2>2, IdleIsJob DEF At, DecidingSteps
  <2> QED BY <1>0, <2>1, <2>2, <2>3, <2>4 DEF MonthIsTrue, Undecided
<1> QED BY <1>3, <1>4, <1>5

LEMMA MonthInvStays == MonthInv /\ [Next]_vars => MonthInv'
<1> SUFFICES ASSUME MonthInv, [Next]_vars PROVE MonthIsTrue'
  BY TypesStay DEF MonthInv
<1>1. CASE MonthNext /\ UNCHANGED <<item, request, ask>>
  BY <1>1, MonthStepStaysTrue
<1>2. CASE ReleaseNext /\ UNCHANGED <<request, ask>>
  BY <1>2, ReleaseStaysTrue
<1>3. CASE CorrectionNext
  BY <1>3, CorrectionStaysTrue
<1>4. CASE AskNext /\ UNCHANGED <<item, request>>
  BY <1>4, AskStaysTrue
<1>5. CASE Close \/ (\E w \in Workers: UnlockDay(w)) \/ Crash
  BY <1>5, JointStepStaysTrue
<1>6. CASE UNCHANGED vars
  BY <1>6, MonthStaysTrue DEF vars, monthVars, RowsStayed
<1> QED BY <1>1, <1>2, <1>3, <1>4, <1>5, <1>6 DEF Next

LEMMA AlwaysMonthInv == Spec => []MonthInv
<1>1. Init => MonthInv
  BY InitTypes, IdleIsJob
  DEF MonthInv, MonthIsTrue, ClosedMonthIsFinal, Init, MonthInit, CorrectionInit, NoRequest, At,
      DecidingSteps
<1> QED BY <1>1, MonthInvStays, PTL DEF Spec

\* A closed month is what was closed, until one of the known ways around the
\* close is taken (monthClose.service.ts, monthReadiness).
THEOREM ClosedMonthStaysFinal == Spec => []ClosedMonthIsFinal
<1>1. MonthInv => ClosedMonthIsFinal
  BY DEF MonthInv, MonthIsTrue
<1> QED BY <1>1, AlwaysMonthInv, PTL

\* A figure of a closed month is changed only by the approval of a request raised
\* since the close, or of one somebody else had decided (correction.service.ts).
THEOREM ClosedFiguresChangeByApproval == Spec => ClosedFiguresStay
<1> DEFINE Step == monthClosed /\ monthClosed' /\ entry' # entry =>
                      \E w \in Workers:
                          /\ At(w, "approving")
                          /\ request[job[w].id].late \/ ~Undecided(job[w].id)
<1>1. MonthInv /\ [Next]_vars => [Step]_<<request, monthVars>>
  <2> SUFFICES ASSUME MonthInv, [Next]_vars, monthClosed, entry' # entry PROVE Step
    OBVIOUS
  <2>0. JobsAreOf(Items, Requests, Asks) /\ MonthIsTrue
    BY DEF MonthInv, Types
  <2>1. \E w \in Workers: ApplyRequest(w)
    BY DEF Next, MonthNext, PublishCount, UnlockEarlier, FinishEarlier, SaveEntry, OpenForEntry,
       CheckCount, SaveCount,
       ReadForFinish, LockPage, ReadForReopen, ReopenMonth, CheckFinish, ReadForUnlock, ReleaseNext, WriteItem, Release,
       CreateItem, LoadItem, CorrectionNext, CheckRequest, CreateRequest, LoadRequest, MarkRequest, AskNext, CheckLocked,
       FindAsk, CreateAsk, ReadAsk, Sweep, CheckAsk, ResolveAsk, Close, CloseMonth, UnlockDay, UnlockPages, Crash, Restart,
       vars, monthVars
  <2>2. PICK w \in Workers: ApplyRequest(w)
    BY <2>1
  <2>3. At(w, "approving") /\ job[w].id \in Requests
    BY <2>0, <2>2 DEF ApplyRequest, JobsAreOf, At
  <2> QED BY <2>0, <2>3 DEF MonthIsTrue
<1> QED BY <1>1, AlwaysMonthInv, PTL DEF Spec, ClosedFiguresStay

=============================================================================
