---------------------------- MODULE DayFinishProofs ----------------------------
(***************************************************************************)
(* Theorems about DayFinish: its types for any number of requests served   *)
(* at once, and what its reports and locks promise when one is served at a *)
(* time, for any periods, dates, pages in use and figures.                 *)
(***************************************************************************)
EXTENDS DayFinish, TLAPS

-----------------------------------------------------------------------------
(* Types *)

CarriesNoReport(o) == \A date \in Dates : ~o.reports[date].taken
OpsAreTyped ==
    /\ op \in [Workers -> Op]
    /\ \A w \in Workers : CarriesNoReport(op[w]) \/ op[w].kind \in {"finish", "correct"}
    /\ \A w \in Workers : At(w, "idle") => op[w] = Idle

LEMMA Slotted ==
    ASSUME TypeOK
    PROVE  /\ scope.slots \in SUBSET Slots /\ scope.counts \in SUBSET Slots
           /\ scope.date \in [Periods -> Dates]
           /\ \A slot \in Slots : /\ slot[1] \in Periods /\ slot[2] \in Pages
                                  /\ DateOf(slot) \in Dates
                                  /\ OtherSlot(slot) \in Slots /\ OtherSlot(slot)[1] = slot[1]
                                  /\ OtherSlot(slot)[2] = OtherPage(slot[2])
<1>1. /\ scope.slots \in SUBSET (Periods \X Pages) /\ scope.counts \in SUBSET (Periods \X Pages)
      /\ scope.date \in [Periods -> Dates]
  BY ScopesAssumption DEF TypeOK
<1>2. \A page \in Pages : OtherPage(page) \in Pages /\ OtherPage(page) # page
  BY DEF OtherPage, Pages
<1>3. \A p \in Periods, page \in Pages : <<p, page>> \in Slots
  BY DEF Slots
<1>4. ASSUME NEW slot \in Slots
      PROVE  /\ slot[1] \in Periods /\ slot[2] \in Pages
             /\ DateOf(slot) \in Dates
             /\ OtherSlot(slot) \in Slots /\ OtherSlot(slot)[1] = slot[1]
             /\ OtherSlot(slot)[2] = OtherPage(slot[2])
  BY <1>1, <1>2, <1>3 DEF Slots, DateOf, OtherSlot
<1> QED BY <1>1, <1>4 DEF Slots

LEMMA ConstantTypes ==
    /\ NoRows \in Sheet
    /\ \A stock \in Stocks : Rows(stock) \in Sheet /\ Rows(stock).saved
    /\ NoCount \in Count
    /\ NoReport \in Report /\ ~NoReport.taken
    /\ NoClosure \in Closures /\ NoClosure.entriesOnly /\ NoClosure.locked = {}
    /\ Idle \in Op /\ Idle.step = "idle" /\ Idle.kind = "finish" /\ Idle.slots = {}
    /\ CarriesNoReport(Idle)
<1>1. NoRows \in Sheet /\ \A stock \in Stocks : Rows(stock) \in Sheet /\ Rows(stock).saved
  BY StocksAssumption DEF NoRows, Rows, Sheet
<1>0. NoCount \in Count
  BY DEF NoCount, Count, Standings
<1>2. NoReport \in Report /\ ~NoReport.taken
  <2>1. /\ [slot \in Slots |-> NoRows] \in [Slots -> Sheet]
        /\ [page \in Pages |-> {}] \in [Pages -> SUBSET Int]
        /\ [slot \in Slots |-> NoCount] \in [Slots -> Count]
    BY <1>0, <1>1
  <2> QED BY <2>1 DEF NoReport, Report
<1>3. NoClosure \in Closures /\ NoClosure.entriesOnly /\ NoClosure.locked = {}
  BY DEF NoClosure, Closures
<1>4. Idle \in Op /\ Idle.step = "idle" /\ Idle.kind = "finish" /\ Idle.slots = {}
  BY <1>2, <1>3 DEF Idle, Op, Kinds, Steps
<1>5. CarriesNoReport(Idle)
  BY <1>2 DEF CarriesNoReport, Idle
<1> QED BY <1>0, <1>1, <1>2, <1>3, <1>4, <1>5

\* What is carried into a page without rows, and what a count is measured against,
\* are stocks.
LEMMA CarriedTypes ==
    ASSUME TypeOK, NEW page, NEW date
    PROVE  CarriedInto(page, date) \in SUBSET Int
<1>1. /\ \A s \in Slots : sheet[s].stock \in Int
      /\ \A s \in Slots : count[s].value \in Int
  BY DEF TypeOK, Sheet, Count
<1>2. /\ LatestOf(RowsUpTo(page, date)) \subseteq Slots
      /\ LatestOf(AppliedUpTo(page, date)) \subseteq Slots
  BY DEF LatestOf, RowsUpTo, AppliedUpTo
<1> QED BY <1>1, <1>2 DEF CarriedInto

LEMMA CountTypes ==
    ASSUME TypeOK, NEW slot, NEW standing \in Standings, NEW value \in Int
    PROVE  NewCount(slot, standing, value) \in Count
<1>1. \A s \in Slots : sheet[s].stock \in Int
  BY DEF TypeOK, Sheet
<1>2. SystemStock(slot) \in SUBSET Int
  BY <1>1, CarriedTypes DEF SystemStock, LatestOf
<1> QED BY <1>2 DEF NewCount, Count

LEMMA ReportTypes ==
    ASSUME TypeOK, NEW date
    PROVE  LiveReport(date) \in Report /\ LiveReport(date).taken
<1> DEFINE rows == [slot \in Slots |-> IF DateOf(slot) = date THEN sheet[slot] ELSE NoRows]
           carried == [page \in Pages |->
                         IF RowsOn(page, date) = {} THEN CarriedInto(page, date) ELSE {}]
           audit == [slot \in Slots |-> IF DateOf(slot) = date THEN Shown(count[slot]) ELSE NoCount]
<1>0. \A slot \in Slots : Shown(count[slot]) \in Count
  BY DEF TypeOK, Shown, Count, Standings
<1>1. rows \in [Slots -> Sheet] /\ audit \in [Slots -> Count]
  BY <1>0, ConstantTypes DEF TypeOK
<1>2. carried \in [Pages -> SUBSET Int]
  BY CarriedTypes
<1>3. LiveReport(date) = [taken |-> TRUE, rows |-> rows, carried |-> carried, audit |-> audit]
  BY DEF LiveReport
<1> HIDE DEF rows, carried, audit
<1> QED BY <1>1, <1>2, <1>3 DEF Report

LEMMA TypesOfOps == TypeOK => OpsAreTyped
BY DEF TypeOK, OpsAreTyped, CarriesNoReport

LEMMA TypesFromParts ==
    ASSUME scope \in Scopes, sheet \in [Slots -> Sheet], count \in [Slots -> Count],
           closure \in [Periods -> Closures], snapshot \in [Dates -> Report], cut \subseteq Dates,
           OpsAreTyped
    PROVE  TypeOK
BY DEF TypeOK, OpsAreTyped, CarriesNoReport

\* A worker's operation becomes `new`, and no other worker's changes.
Becomes(w, new) ==
    /\ op' = [op EXCEPT ![w] = new]
    /\ op'[w] = new
    /\ \A v \in Workers : v # w => op'[v] = op[v]

LEMMA OpBecomes ==
    ASSUME OpsAreTyped, NEW w \in Workers, NEW new \in Op,
           op' = [op EXCEPT ![w] = new],
           new.step = "idle" => new = Idle,
           CarriesNoReport(new) \/ new.kind \in {"finish", "correct"}
    PROVE  OpsAreTyped' /\ Becomes(w, new)
<1>1. Becomes(w, new) /\ op' \in [Workers -> Op]
  BY DEF Becomes, OpsAreTyped
<1>2. ASSUME NEW v \in Workers
      PROVE  /\ CarriesNoReport(op'[v]) \/ op'[v].kind \in {"finish", "correct"}
             /\ op'[v].step = "idle" => op'[v] = Idle
  BY <1>1 DEF Becomes, OpsAreTyped, At
<1> QED BY <1>1, <1>2 DEF OpsAreTyped, At, CarriesNoReport

Started(kind, step, slots, dates) ==
    [Idle EXCEPT !.kind = kind, !.step = step, !.slots = slots, !.todo = dates]

LEMMA StartBecomes ==
    ASSUME OpsAreTyped, NEW w \in Workers, NEW kind \in Kinds, NEW step \in Steps \ {"idle"},
           NEW slots \in SUBSET Slots, NEW dates \in SUBSET Dates, Start(w, kind, step, slots, dates)
    PROVE  /\ OpsAreTyped' /\ Becomes(w, Started(kind, step, slots, dates)) /\ At(w, "idle")
           /\ op'[w].kind = kind /\ op'[w].step = step /\ op'[w].slots = slots /\ op'[w].todo = dates
           /\ CarriesNoReport(op'[w]) /\ \A v \in Workers : v # w => op'[v] = op[v]
<1> DEFINE new == Started(kind, step, slots, dates)
<1>1. new \in Op /\ new.step = step /\ new.kind = kind /\ new.slots = slots /\ new.todo = dates
      /\ new.reports = Idle.reports
  BY ConstantTypes DEF Started, Op, Idle
<1>2. CarriesNoReport(new)
  BY <1>1, ConstantTypes DEF CarriesNoReport
<1>3. op' = [op EXCEPT ![w] = new] /\ At(w, "idle")
  BY DEF Start, Started
<1>4. OpsAreTyped' /\ Becomes(w, new)
  BY <1>1, <1>2, <1>3, OpBecomes
<1> QED BY <1>1, <1>2, <1>3, <1>4 DEF Becomes, CarriesNoReport

LEMMA EndBecomes ==
    ASSUME OpsAreTyped, NEW w \in Workers, End(w)
    PROVE  OpsAreTyped' /\ Becomes(w, Idle)
BY ConstantTypes, OpBecomes DEF End

\* What is written: the pages typed, and the later rows a walk reaches.
Reaches(typed, walked, cascade) ==
    /\ sheet' \in [Slots -> Sheet] /\ count' \in [Slots -> Count]
    /\ \A s \in Slots :
        /\ sheet[s].saved => sheet'[s].saved
        /\ s \in typed => sheet'[s].saved
        /\ \/ sheet'[s] = sheet[s]
           \/ s \in typed
           \/ \E t \in walked : s \in Later(t, cascade)

LEMMA WriteReaches ==
    ASSUME TypeOK, NEW typed \in SUBSET Slots, NEW walked \in SUBSET Slots,
           NEW counted \in [Slots -> Count], NEW cascade \in BOOLEAN,
           Write(typed, walked, counted, cascade)
    PROVE  Reaches(typed, walked, cascade)
<1>1. PICK carried \in SUBSET UNION {Later(s, cascade) : s \in walked} :
        \E stock \in [typed \cup carried -> Stocks] :
            /\ sheet' = [s \in Slots |-> IF s \in typed \cup carried THEN Rows(stock[s]) ELSE sheet[s]]
            /\ count' = [s \in Slots |-> IF s \in carried /\ counted[s].standing # "none"
                                        THEN [counted[s] EXCEPT !.system = {stock[s]}]
                                        ELSE counted[s]]
  BY DEF Write
<1>2. PICK stock \in [typed \cup carried -> Stocks] :
        /\ sheet' = [s \in Slots |-> IF s \in typed \cup carried THEN Rows(stock[s]) ELSE sheet[s]]
        /\ count' = [s \in Slots |-> IF s \in carried /\ counted[s].standing # "none"
                                    THEN [counted[s] EXCEPT !.system = {stock[s]}]
                                    ELSE counted[s]]
  BY <1>1
<1>3. \A s \in typed \cup carried : Rows(stock[s]) \in Sheet /\ Rows(stock[s]).saved
  BY <1>2, ConstantTypes
<1>4. \A s \in carried : \E t \in walked : s \in Later(t, cascade)
  BY <1>1
<1>5. count' \in [Slots -> Count]
  <2>1. ASSUME NEW s \in Slots, s \in carried PROVE [counted[s] EXCEPT !.system = {stock[s]}] \in Count
    <3>1. stock[s] \in Int
      BY <1>2, <2>1, StocksAssumption
    <3>2. counted[s] \in Count
      OBVIOUS
    <3> QED BY <3>1, <3>2 DEF Count
  <2> QED BY <1>2, <2>1
<1>6. sheet' \in [Slots -> Sheet]
  BY <1>2, <1>3 DEF TypeOK
<1> QED BY <1>2, <1>3, <1>4, <1>5, <1>6 DEF Reaches

LEMMA EntryReaches ==
    ASSUME TypeOK, NEW slot \in Slots, NEW mirrored \in BOOLEAN, NEW cascade \in BOOLEAN,
           WriteEntry(slot, mirrored, cascade)
    PROVE  Reaches(Typed(slot, mirrored), Typed(slot, mirrored), cascade)
<1> DEFINE typed == Typed(slot, mirrored)
<1>1. typed \in SUBSET Slots /\ count \in [Slots -> Count]
  BY Slotted DEF Typed, TypeOK
<1>2. Write(typed, typed, count, cascade)
  BY DEF WriteEntry
<1> HIDE DEF typed
<1>3. Reaches(typed, typed, cascade)
  BY <1>1, <1>2, WriteReaches
<1> QED BY <1>3 DEF typed

LEMMA CountsReach ==
    ASSUME TypeOK, NEW walked \in SUBSET Slots, NEW counted \in [Slots -> Count],
           NEW cascade \in BOOLEAN, WriteCounts(walked, counted, cascade)
    PROVE  Reaches({}, walked, cascade)
<1>1. PICK typed \in SUBSET Slots : typed = {}
  OBVIOUS
<1>2. Write(typed, walked, counted, cascade)
  BY <1>1 DEF WriteCounts
<1>3. Reaches(typed, walked, cascade)
  BY <1>2, WriteReaches
<1> QED BY <1>1, <1>3

LEMMA WriteCountReaches ==
    ASSUME TypeOK, NEW slot \in Slots, NEW cascade \in BOOLEAN, WriteCount(slot, cascade)
    PROVE  Reaches({}, Undone({slot}), cascade)
<1>1. PICK value \in CountValues :
        WriteCounts(Undone({slot}), [count EXCEPT ![slot] = NewCount(slot, "draft", value)], cascade)
  BY DEF WriteCount
<1>2. value \in Int /\ "draft" \in Standings /\ Undone({slot}) \in SUBSET Slots
  BY StocksAssumption DEF CountValues, Standings, Undone
<1>3. NewCount(slot, "draft", value) \in Count
  BY <1>2, CountTypes
<1>4. [count EXCEPT ![slot] = NewCount(slot, "draft", value)] \in [Slots -> Count]
  BY <1>3 DEF TypeOK
<1> QED BY <1>1, <1>2, <1>4, CountsReach

\* A save of an entry or of counts writes the day's ledger only, in open pages.
WritesOpenPages == \A s \in Slots : sheet'[s] # sheet[s] => ~Locked(s) /\ sheet'[s].saved

LEMMA ReachesOpenPages ==
    ASSUME TypeOK, NEW typed \in SUBSET Slots, NEW walked \in SUBSET Slots,
           Reaches(typed, walked, FALSE), \A s \in typed : ~Locked(s)
    PROVE  WritesOpenPages
BY DEF Reaches, Later, WritesOpenPages

SavesLedger(w) ==
    /\ At(w, "idle") /\ UNCHANGED <<scope, closure, snapshot, op, cut>>
    /\ sheet' \in [Slots -> Sheet] /\ count' \in [Slots -> Count]
    /\ \A s \in Slots : sheet[s].saved => sheet'[s].saved
    /\ WritesOpenPages

LEMMA EncodeSaves ==
    ASSUME TypeOK, NEW w \in Workers, Encode(w)
    PROVE  SavesLedger(w)
<1>1. PICK slot \in scope.slots, mirrored \in BOOLEAN : SaveEntry(w, slot, mirrored)
  BY DEF Encode
<1> DEFINE typed == Typed(slot, mirrored)
<1>2. /\ slot \in Slots /\ typed \in SUBSET Slots /\ \A s \in typed : ~Locked(s)
      /\ WriteEntry(slot, mirrored, FALSE)
      /\ At(w, "idle") /\ UNCHANGED <<scope, closure, snapshot, op, cut>>
  BY <1>1, Slotted DEF SaveEntry, Typed
<1>3. PICK cascade \in BOOLEAN : cascade = FALSE
  OBVIOUS
<1>4. Reaches(typed, typed, cascade)
  BY <1>2, <1>3, EntryReaches
<1> HIDE DEF typed
<1>5. WritesOpenPages
  BY <1>2, <1>3, <1>4, ReachesOpenPages
<1> QED BY <1>2, <1>4, <1>5 DEF SavesLedger, Reaches

LEMMA CountSheetsSaves ==
    ASSUME TypeOK, NEW w \in Workers, CountSheets(w)
    PROVE  SavesLedger(w)
<1>0. /\ scope.counts \in SUBSET Slots /\ count \in [Slots -> Count]
      /\ \A s \in Slots, standing \in Standings : [count[s] EXCEPT !.standing = standing] \in Count
      /\ NoCount \in Count
  BY Slotted, ConstantTypes DEF TypeOK, Count
<1>1. ASSUME NEW walked \in SUBSET Slots, NEW counted \in [Slots -> Count],
             WriteCounts(walked, counted, FALSE),
             At(w, "idle"), UNCHANGED <<scope, closure, snapshot, op, cut>>
      PROVE  SavesLedger(w)
  <2>1. PICK cascade \in BOOLEAN : cascade = FALSE
    OBVIOUS
  <2>2. PICK typed \in SUBSET Slots : typed = {}
    OBVIOUS
  <2>3. Reaches(typed, walked, cascade)
    BY <1>1, <2>1, <2>2, CountsReach
  <2>4. WritesOpenPages
    BY <2>1, <2>2, <2>3, ReachesOpenPages
  <2> QED BY <1>1, <2>3, <2>4 DEF SavesLedger, Reaches
<1>2. ASSUME NEW slot \in scope.counts, SaveCount(w, slot) PROVE SavesLedger(w)
  <2>1. PICK value \in CountValues :
          WriteCounts(Undone({slot}), [count EXCEPT ![slot] = NewCount(slot, "draft", value)], FALSE)
    BY <1>2 DEF SaveCount, WriteCount
  <2>2. value \in Int /\ "draft" \in Standings /\ Undone({slot}) \in SUBSET Slots
    BY <1>0, StocksAssumption DEF CountValues, Standings, Undone
  <2>3. [count EXCEPT ![slot] = NewCount(slot, "draft", value)] \in [Slots -> Count]
    BY <1>0, <2>2, CountTypes
  <2> QED BY <1>1, <1>2, <2>1, <2>2, <2>3 DEF SaveCount
<1>3. ASSUME NEW slot \in scope.counts, DeleteCount(w, slot) PROVE SavesLedger(w)
  <2>1. Undone({slot}) \in SUBSET Slots /\ [count EXCEPT ![slot] = NoCount] \in [Slots -> Count]
    BY <1>0 DEF Undone
  <2> QED BY <1>1, <1>3, <2>1 DEF DeleteCount
<1>4. ASSUME NEW p \in Periods, NEW apply \in BOOLEAN, PublishCounts(w, p, apply)
      PROVE  SavesLedger(w)
  <2> DEFINE drafts == Counted(p, "draft")
             blank == IF apply THEN Counted(p, "none") ELSE {}
             standing == IF apply THEN "applied" ELSE "audit"
             walked == IF apply THEN drafts \cup blank ELSE {}
             counted == [s \in Slots |-> IF s \in drafts THEN [count[s] EXCEPT !.standing = standing]
                                         ELSE IF s \in blank THEN NewCount(s, standing, 0)
                                         ELSE count[s]]
  <2>1. standing \in Standings /\ walked \in SUBSET Slots
    BY <1>0 DEF Standings, Counted
  <2>2. counted \in [Slots -> Count]
    <3> HIDE DEF standing, drafts, blank
    <3>1. \A s \in Slots : NewCount(s, standing, 0) \in Count
      BY <2>1, CountTypes
    <3> QED BY <1>0, <2>1, <3>1
  <2>3. WriteCounts(walked, counted, FALSE) /\ At(w, "idle")
        /\ UNCHANGED <<scope, closure, snapshot, op, cut>>
    BY <1>4 DEF PublishCounts
  <2> HIDE DEF walked, counted
  <2> QED BY <1>1, <2>1, <2>2, <2>3
<1>5. ASSUME NEW p \in Periods, NEW slots \in SUBSET scope.counts, RevertCounts(w, p, slots)
      PROVE  SavesLedger(w)
  <2> DEFINE counted == [s \in Slots |-> IF s \in slots THEN [count[s] EXCEPT !.standing = "draft"]
                                         ELSE count[s]]
  <2>1. Undone(slots) \in SUBSET Slots
    BY <1>0 DEF Undone
  <2>2. counted \in [Slots -> Count]
    BY <1>0 DEF Standings
  <2>3. WriteCounts(Undone(slots), counted, FALSE) /\ At(w, "idle")
        /\ UNCHANGED <<scope, closure, snapshot, op, cut>>
    BY <1>5 DEF RevertCounts
  <2> HIDE DEF counted
  <2> QED BY <1>1, <2>1, <2>2, <2>3
<1> QED BY <1>2, <1>3, <1>4, <1>5 DEF CountSheets

LEMMA WrittenTypes ==
    ASSUME TypeOK, NEW w \in Workers, NEW p \in Periods
    PROVE  Written(w, p) \in Closures
<1>1. closure[p] \in Closures /\ op[w].read[p] \in Closures
  BY DEF TypeOK, Op
<1>2. Asked(w, p) \in SUBSET Pages /\ EntriesOnly(w) \in BOOLEAN
  BY DEF Asked, EntriesOnly
<1> QED BY <1>1, <1>2 DEF Written, Unlocked, ClosePeriod, Closures, AlreadyClosed

-----------------------------------------------------------------------------
(* Every step keeps the types *)

\* A step that changes nothing but the operations.
DayStands == UNCHANGED <<scope, sheet, count, closure, snapshot, cut>>

\* Which steps an operation goes through.
StepsFit == \A w \in Workers :
    /\ At(w, "build") => op[w].kind = "finish"
    /\ At(w, "begin") \/ At(w, "commit") => op[w].kind # "correct"
    /\ At(w, "refresh") \/ At(w, "resave") => op[w].kind = "correct"
Types == TypeOK /\ StepsFit

LEMMA BeginLockBecomes ==
    ASSUME TypeOK, NEW w \in Workers, NEW slots \in SUBSET Slots, BeginLock(w, slots)
    PROVE  /\ OpsAreTyped' /\ At(w, "idle")
           /\ op'[w].kind = "finish" /\ op'[w].slots = slots /\ op'[w].todo = Reported(slots)
           /\ op'[w].step \in {"begin", "build"}
           /\ op'[w].step = "begin" => op'[w].todo = {}
           /\ CarriesNoReport(op'[w]) /\ \A v \in Workers : v # w => op'[v] = op[v]
<1>1. Reported(slots) \in SUBSET Dates
  BY Slotted DEF Reported
<1> DEFINE step == IF Reported(slots) = {} THEN "begin" ELSE "build"
<1>2. step \in Steps \ {"idle"} /\ "finish" \in Kinds
  BY DEF Steps, Kinds
<1>3. Start(w, "finish", step, slots, Reported(slots)) /\ step \in {"begin", "build"}
      /\ (step = "begin" => Reported(slots) = {})
  BY DEF BeginLock
<1> HIDE DEF step
<1>4. OpsAreTyped
  BY TypesOfOps
<1>5. /\ OpsAreTyped' /\ At(w, "idle") /\ CarriesNoReport(op'[w])
      /\ op'[w].kind = "finish" /\ op'[w].step = step /\ op'[w].slots = slots
      /\ op'[w].todo = Reported(slots)
      /\ \A v \in Workers : v # w => op'[v] = op[v]
  BY <1>1, <1>2, <1>3, <1>4, StartBecomes
<1> QED BY <1>3, <1>5

AfterBuild(w, date) ==
    [op[w] EXCEPT !.step = IF op[w].todo = {date} THEN "begin" ELSE "build",
                  !.todo = @ \ {date},
                  !.reports[date] = LiveReport(date)]

LEMMA BuildBecomes ==
    ASSUME TypeOK, NEW w \in Workers, BuildReport(w), op[w].kind = "finish"
    PROVE  LET date == Earliest(op[w].todo) IN
           /\ OpsAreTyped' /\ Becomes(w, AfterBuild(w, date))
           /\ op'[w].kind = "finish" /\ op'[w].slots = op[w].slots
           /\ op'[w].step \in {"begin", "build"} /\ op'[w].todo = op[w].todo \ {date}
           /\ op'[w].step = "begin" => op'[w].todo = {}
           /\ \A d \in Dates : op'[w].reports[d] = IF d = date THEN LiveReport(date)
                                                           ELSE op[w].reports[d]
<1> DEFINE date == Earliest(op[w].todo)
           new == AfterBuild(w, date)
<1>1. op[w] \in Op /\ LiveReport(date) \in Report
  BY ReportTypes DEF TypeOK
<1>2. /\ new \in Op /\ new.kind = "finish" /\ new.slots = op[w].slots
      /\ new.step \in {"begin", "build"} /\ new.todo = op[w].todo \ {date}
      /\ new.step = "begin" => op[w].todo = {date}
      /\ \A d \in Dates : new.reports[d] = IF d = date THEN LiveReport(date) ELSE op[w].reports[d]
  BY <1>1 DEF Op, AfterBuild, Steps
<1>3. op' = [op EXCEPT ![w] = new]
  BY DEF BuildReport, AfterBuild
<1>4. OpsAreTyped' /\ Becomes(w, new)
  BY <1>2, <1>3, TypesOfOps, OpBecomes
<1> QED BY <1>2, <1>4 DEF Becomes

LEMMA ReadBecomes ==
    ASSUME Types, NEW w \in Workers, ReadClosure(w)
    PROVE  /\ OpsAreTyped' /\ op[w].kind # "correct" /\ At(w, "begin")
           /\ DayStands
           /\ \/ Becomes(w, Idle)
              \/ /\ Becomes(w, [op[w] EXCEPT !.step = "commit", !.read = closure])
                 /\ op'[w].step = "commit" /\ op'[w].read = closure
                 /\ op'[w].kind = op[w].kind /\ op'[w].slots = op[w].slots
                 /\ op'[w].todo = op[w].todo /\ op'[w].reports = op[w].reports
<1> DEFINE new == [op[w] EXCEPT !.step = "commit", !.read = closure]
<1>0. OpsAreTyped /\ op[w] \in Op /\ closure \in [Periods -> Closures]
  BY TypesOfOps DEF Types, TypeOK
<1>1. /\ DayStands
      /\ op[w].kind # "correct" /\ At(w, "begin")
  BY DEF ReadClosure, Types, StepsFit, DayStands, ledger
<1>2. CASE End(w)
  BY <1>0, <1>1, <1>2, EndBecomes
<1>3. CASE op' = [op EXCEPT ![w].step = "commit", ![w].read = closure]
  <2>1. /\ new \in Op /\ new.step = "commit" /\ new.read = closure
        /\ new.kind = op[w].kind /\ new.slots = op[w].slots
        /\ new.todo = op[w].todo /\ new.reports = op[w].reports
    BY <1>0 DEF Op, Steps
  <2>2. op' = [op EXCEPT ![w] = new]
    BY <1>3
  <2>3. CarriesNoReport(new) \/ new.kind \in {"finish", "correct"}
    BY <1>0, <2>1 DEF OpsAreTyped, CarriesNoReport
  <2>4. OpsAreTyped' /\ Becomes(w, new)
    BY <1>0, <2>1, <2>2, <2>3, OpBecomes
  <2> QED BY <1>1, <2>1, <2>4 DEF Becomes
<1> QED BY <1>2, <1>3 DEF ReadClosure

LEMMA PassOverBecomes ==
    ASSUME Types, NEW w \in Workers, NEW date, op[w].kind = "correct", PassOver(w, date)
    PROVE  /\ OpsAreTyped'
           /\ \A v \in Workers : v # w => op'[v] = op[v]
           /\ \/ op[w].todo = {date} /\ op'[w] = Idle
              \/ /\ op'[w].step = "refresh" /\ op'[w].todo = op[w].todo \ {date}
                 /\ op'[w].kind = "correct"
<1> DEFINE new == [op[w] EXCEPT !.step = "refresh", !.todo = @ \ {date}, !.reports[date] = NoReport]
<1>0. OpsAreTyped /\ op[w] \in Op
  BY TypesOfOps DEF Types, TypeOK
<1>1. CASE op[w].todo = {date}
  <2>1. End(w)
    BY <1>1 DEF PassOver
  <2> QED BY <1>0, <1>1, <2>1, EndBecomes DEF Becomes
<1>2. CASE op[w].todo # {date}
  <2>1. new \in Op /\ new.step = "refresh" /\ new.todo = op[w].todo \ {date} /\ new.kind = "correct"
    BY <1>0, ConstantTypes DEF Op, Steps
  <2>2. op' = [op EXCEPT ![w] = new]
    BY <1>2 DEF PassOver
  <2>3. OpsAreTyped' /\ Becomes(w, new)
    BY <1>0, <2>1, <2>2, OpBecomes
  <2> QED BY <2>1, <2>3 DEF Becomes
<1> QED BY <1>1, <1>2

LEMMA LookAtBecomes ==
    ASSUME Types, NEW w \in Workers, NEW date, op[w].kind = "correct", LookAt(w, date)
    PROVE  /\ OpsAreTyped'
           /\ op'[w].step = "resave" /\ op'[w].todo = op[w].todo /\ op'[w].kind = "correct"
           /\ date \in Dates => op'[w].reports[date] = LiveReport(date)
           /\ \A v \in Workers : v # w => op'[v] = op[v]
<1> DEFINE new == [op[w] EXCEPT !.step = "resave", !.reports[date] = LiveReport(date)]
<1>0. OpsAreTyped /\ op[w] \in Op /\ LiveReport(date) \in Report
  BY TypesOfOps, ReportTypes DEF Types, TypeOK
<1>1. /\ new \in Op /\ new.step = "resave" /\ new.todo = op[w].todo /\ new.kind = "correct"
      /\ date \in Dates => new.reports[date] = LiveReport(date)
  BY <1>0 DEF Op, Steps
<1>2. op' = [op EXCEPT ![w] = new]
  BY DEF LookAt
<1>3. OpsAreTyped' /\ Becomes(w, new)
  BY <1>0, <1>1, <1>2, OpBecomes
<1> QED BY <1>1, <1>3 DEF Becomes

LEMMA StartCorrect ==
    ASSUME OpsAreTyped, NEW w \in Workers, NEW dates \in SUBSET Dates,
           Start(w, "correct", "refresh", {}, dates)
    PROVE  /\ OpsAreTyped' /\ At(w, "idle")
           /\ op'[w].kind = "correct" /\ op'[w].step = "refresh" /\ op'[w].todo = dates
           /\ CarriesNoReport(op'[w]) /\ \A v \in Workers : v # w => op'[v] = op[v]
<1>1. "correct" \in Kinds /\ "refresh" \in Steps \ {"idle"} /\ {} \in SUBSET Slots
  BY DEF Kinds, Steps
<1>2. PICK kind \in Kinds : kind = "correct"
  BY <1>1
<1>3. PICK step \in Steps \ {"idle"} : step = "refresh"
  BY <1>1
<1>4. PICK slots \in SUBSET Slots : slots = {}
  BY <1>1
<1>5. Start(w, kind, step, slots, dates)
  BY <1>2, <1>3, <1>4
<1>6. /\ OpsAreTyped' /\ At(w, "idle")
      /\ op'[w].kind = kind /\ op'[w].step = step /\ op'[w].todo = dates
      /\ CarriesNoReport(op'[w]) /\ \A v \in Workers : v # w => op'[v] = op[v]
  BY <1>5, StartBecomes
<1> QED BY <1>2, <1>3, <1>6

\* An approval writes rows of the dates it will look at, and open pages.
Approves(w, slot, cascade) ==
    /\ UNCHANGED <<scope, closure, snapshot, cut>>
    /\ sheet' \in [Slots -> Sheet] /\ count' \in [Slots -> Count]
    /\ \A s \in Slots : sheet[s].saved => sheet'[s].saved
    /\ \A s \in Slots : sheet'[s] # sheet[s] =>
        /\ \E r \in Slots : DateOf(r) = DateOf(s) /\ sheet[r].saved
        /\ DateOf(s) \in ToRefresh(slot, cascade) \/ (~Locked(s) /\ sheet'[s].saved)
    /\ OpsAreTyped' /\ At(w, "idle")
    /\ op'[w].kind = "correct" /\ op'[w].step = "refresh" /\ op'[w].todo = ToRefresh(slot, cascade)
    /\ CarriesNoReport(op'[w]) /\ \A v \in Workers : v # w => op'[v] = op[v]

LEMMA StartRefreshes ==
    ASSUME TypeOK, NEW w \in Workers, NEW slot \in Slots, NEW cascade \in BOOLEAN,
           StartRefresh(w, slot, cascade)
    PROVE  /\ OpsAreTyped' /\ At(w, "idle") /\ ToRefresh(slot, cascade) \in SUBSET Dates
           /\ op'[w].kind = "correct" /\ op'[w].step = "refresh" /\ op'[w].todo = ToRefresh(slot, cascade)
           /\ CarriesNoReport(op'[w]) /\ \A v \in Workers : v # w => op'[v] = op[v]
<1>1. PICK dates \in SUBSET Dates : dates = ToRefresh(slot, cascade)
  BY Slotted DEF ToRefresh
<1>2. OpsAreTyped /\ Start(w, "correct", "refresh", {}, dates)
  BY <1>1, TypesOfOps DEF StartRefresh
<1>3. /\ OpsAreTyped' /\ At(w, "idle")
      /\ op'[w].kind = "correct" /\ op'[w].step = "refresh" /\ op'[w].todo = dates
      /\ CarriesNoReport(op'[w]) /\ \A v \in Workers : v # w => op'[v] = op[v]
  BY <1>2, StartCorrect
<1> QED BY <1>1, <1>3

\* Later rows of a page are of the same date or of later ones.
LEMMA LaterDates ==
    ASSUME TypeOK, NEW slot \in Slots, NEW t \in Slots, t[1] = slot[1],
           NEW cascade \in BOOLEAN, NEW s \in Later(t, cascade)
    PROVE  /\ s \in Slots /\ sheet[s].saved
           /\ DateOf(s) \in ToRefresh(slot, cascade) \/ ~Locked(s)
<1>1. s \in Slots /\ sheet[s].saved /\ s[1] > slot[1] /\ (cascade \/ ~Locked(s))
  BY DEF Later
<1>2. DateOf(slot) <= DateOf(s)
  <2>1. scope \in Scopes /\ slot[1] \in Periods /\ s[1] \in Periods
    BY <1>1, Slotted DEF TypeOK
  <2>2. slot[1] < s[1]
    BY <1>1, <2>1, PeriodsAssumption
  <2> QED BY <2>1, <2>2, ScopesAssumption DEF DateOf
<1>3. DateOf(slot) \in Nat /\ DateOf(s) \in Nat /\ DateOf(s) \in Dates
  BY <1>1, Slotted, DatesAssumption
<1>4. DateOf(s) = DateOf(slot) \/ DateOf(s) > DateOf(slot)
  BY <1>2, <1>3
<1> QED BY <1>1, <1>3, <1>4 DEF ToRefresh

LEMMA CorrectApproves ==
    ASSUME TypeOK, NEW w \in Workers, NEW slot \in scope.slots, NEW mirrored \in BOOLEAN,
           NEW cascade \in BOOLEAN, Correct(w, slot, mirrored, cascade)
    PROVE  slot \in Slots /\ Approves(w, slot, cascade)
<1> DEFINE typed == Typed(slot, mirrored)
<1>1. /\ slot \in Slots /\ sheet[slot].saved /\ WriteEntry(slot, mirrored, cascade)
      /\ StartRefresh(w, slot, cascade) /\ UNCHANGED <<scope, closure, snapshot, cut>>
  BY Slotted DEF Correct
<1>2. \A t \in typed : t \in Slots /\ t[1] = slot[1] /\ DateOf(t) = DateOf(slot)
  BY <1>1, Slotted DEF Typed, DateOf
<1>3. Reaches(typed, typed, cascade)
  BY <1>1, EntryReaches
<1> HIDE DEF typed
<1>4. ASSUME NEW s \in Slots, sheet'[s] # sheet[s]
      PROVE  /\ \E r \in Slots : DateOf(r) = DateOf(s) /\ sheet[r].saved
             /\ DateOf(s) \in ToRefresh(slot, cascade) \/ (~Locked(s) /\ sheet'[s].saved)
  <2>1. CASE s \in typed
    BY <1>1, <1>2, <2>1 DEF ToRefresh
  <2>2. CASE \E t \in typed : s \in Later(t, cascade)
    <3>1. /\ sheet[s].saved
          /\ DateOf(s) \in ToRefresh(slot, cascade) \/ ~Locked(s)
      BY <1>1, <1>2, <2>2, LaterDates
    <3> QED BY <1>3, <3>1 DEF Reaches
  <2> QED BY <1>3, <1>4, <2>1, <2>2 DEF Reaches
<1>5. /\ sheet' \in [Slots -> Sheet] /\ count' \in [Slots -> Count]
      /\ \A s \in Slots : sheet[s].saved => sheet'[s].saved
  BY <1>3 DEF Reaches
<1> QED BY <1>1, <1>4, <1>5, StartRefreshes DEF Approves

LEMMA CorrectCountApproves ==
    ASSUME TypeOK, NEW w \in Workers, NEW slot \in scope.counts, NEW cascade \in BOOLEAN,
           CorrectCount(w, slot, cascade)
    PROVE  slot \in Slots /\ Approves(w, slot, cascade)
<1>1. /\ slot \in Slots /\ WriteCount(slot, cascade)
      /\ StartRefresh(w, slot, cascade) /\ UNCHANGED <<scope, closure, snapshot, cut>>
  BY Slotted DEF CorrectCount
<1>2. Reaches({}, Undone({slot}), cascade)
  BY <1>1, WriteCountReaches
<1>3. \A t \in Undone({slot}) : t = slot
  BY DEF Undone
<1>4. ASSUME NEW s \in Slots, sheet'[s] # sheet[s]
      PROVE  /\ \E r \in Slots : DateOf(r) = DateOf(s) /\ sheet[r].saved
             /\ DateOf(s) \in ToRefresh(slot, cascade) \/ (~Locked(s) /\ sheet'[s].saved)
  <2>1. s \in Later(slot, cascade)
    BY <1>2, <1>3, <1>4 DEF Reaches
  <2>2. /\ sheet[s].saved
        /\ DateOf(s) \in ToRefresh(slot, cascade) \/ ~Locked(s)
    BY <1>1, <2>1, LaterDates
  <2> QED BY <1>2, <2>2 DEF Reaches
<1>5. /\ sheet' \in [Slots -> Sheet] /\ count' \in [Slots -> Count]
      /\ \A s \in Slots : sheet[s].saved => sheet'[s].saved
  BY <1>2 DEF Reaches
<1> QED BY <1>1, <1>4, <1>5, StartRefreshes DEF Approves

\* An operation that another step leaves alone keeps its part of the types.
LEMMA TypesKept ==
    ASSUME Types, scope' = scope, sheet' \in [Slots -> Sheet], count' \in [Slots -> Count],
           closure' \in [Periods -> Closures], snapshot' \in [Dates -> Report],
           cut' \subseteq Dates, OpsAreTyped',
           \A w \in Workers : \/ op'[w] = op[w]
                              \/ op'[w].step = "idle"
                              \/ op'[w].step = "build" /\ op'[w].kind = "finish"
                              \/ op'[w].step \in {"begin", "commit"} /\ op'[w].kind # "correct"
                              \/ op'[w].step \in {"refresh", "resave"} /\ op'[w].kind = "correct"
    PROVE  Types'
<1>1. TypeOK'
  BY DEF Types, TypeOK, OpsAreTyped, CarriesNoReport
<1>2. StepsFit'
  BY DEF Types, StepsFit, At
<1> QED BY <1>1, <1>2 DEF Types

LEMMA NextKeepsTypes ==
    ASSUME Types, [Next]_vars
    PROVE  Types'
<1>0. /\ OpsAreTyped /\ TypeOK /\ StepsFit
      /\ sheet \in [Slots -> Sheet] /\ count \in [Slots -> Count] /\ cut \subseteq Dates
      /\ closure \in [Periods -> Closures] /\ snapshot \in [Dates -> Report]
  BY TypesOfOps DEF Types, TypeOK
<1>1. ASSUME NEW w \in Workers, Encode(w) \/ CountSheets(w) PROVE Types'
  <2>1. SavesLedger(w)
    BY <1>0, <1>1, EncodeSaves, CountSheetsSaves
  <2>2. /\ sheet' \in [Slots -> Sheet] /\ count' \in [Slots -> Count]
        /\ UNCHANGED <<scope, closure, snapshot, op, cut>>
    BY <2>1 DEF SavesLedger
  <2>3. OpsAreTyped'
    BY <1>0, <2>2 DEF OpsAreTyped, At, CarriesNoReport
  <2> QED BY <1>0, <2>2, <2>3, TypesKept
<1>2. ASSUME NEW w \in Workers,
             \/ \E slot \in scope.slots, signedOff \in BOOLEAN : BeginFinish(w, slot, signedOff)
             \/ \E page \in Pages, date \in Dates : BeginThrough(w, page, date)
      PROVE Types'
  <2>1. \E slots \in SUBSET Slots : BeginLock(w, slots)
    BY <1>0, <1>2, Slotted DEF BeginFinish, BeginThrough, Backlog
  <2>2. /\ OpsAreTyped' /\ op'[w].kind = "finish" /\ op'[w].step \in {"begin", "build"}
        /\ \A v \in Workers : v # w => op'[v] = op[v]
    BY <1>0, <2>1, BeginLockBecomes
  <2>3. DayStands
    BY <1>2 DEF BeginFinish, BeginThrough, DayStands, ledger
  <2> QED BY <1>0, <2>2, <2>3, TypesKept DEF DayStands
<1>3. ASSUME NEW w \in Workers, BuildReport(w) PROVE Types'
  <2>1. op[w].kind = "finish" /\ DayStands
    BY <1>0, <1>3 DEF BuildReport, StepsFit, DayStands, ledger
  <2>2. /\ OpsAreTyped' /\ op'[w].kind = "finish" /\ op'[w].step \in {"begin", "build"}
        /\ \A v \in Workers : v # w => op'[v] = op[v]
    BY <1>0, <1>3, <2>1, BuildBecomes DEF Becomes
  <2> QED BY <1>0, <2>1, <2>2, TypesKept DEF DayStands
<1>4. ASSUME NEW w \in Workers, NEW kind \in {"close", "unlock"}, NEW slots \in SUBSET Slots,
             Start(w, kind, "begin", slots, {}), DayStands
      PROVE Types'
  <2>1. kind \in Kinds /\ "begin" \in Steps \ {"idle"} /\ {} \in SUBSET Dates
    BY DEF Kinds, Steps
  <2>2. /\ OpsAreTyped' /\ op'[w].kind = kind /\ op'[w].step = "begin"
        /\ \A v \in Workers : v # w => op'[v] = op[v]
    BY <1>0, <1>4, <2>1, StartBecomes
  <2> QED BY <1>0, <1>4, <2>2, TypesKept DEF DayStands
<1>5. ASSUME NEW w \in Workers, Administer(w) PROVE Types'
  <2>1. PICK p \in Periods : \/ BeginClose(w, p)
                             \/ \E slots \in SUBSET ({p} \X Pages \cap scope.slots) \ {{}} : BeginUnlock(w, slots)
    BY <1>5 DEF Administer
  <2>2. {p} \X Pages \in SUBSET Slots
    BY DEF Slots
  <2>3. CASE BeginClose(w, p)
    BY <1>4, <2>2, <2>3 DEF BeginClose, DayStands, ledger
  <2>4. CASE \E slots \in SUBSET ({p} \X Pages \cap scope.slots) \ {{}} : BeginUnlock(w, slots)
    BY <1>4, <2>2, <2>4 DEF BeginUnlock, DayStands, ledger
  <2> QED BY <2>1, <2>3, <2>4
<1>6. ASSUME NEW w \in Workers, ReadClosure(w) PROVE Types'
  <2>1. /\ OpsAreTyped' /\ DayStands
        /\ \A v \in Workers : v # w => op'[v] = op[v]
        /\ op'[w].step = "idle" \/ (op'[w].step = "commit" /\ op'[w].kind # "correct")
    BY <1>6, ReadBecomes, ConstantTypes DEF Becomes
  <2> QED BY <1>0, <2>1, TypesKept DEF DayStands
<1>7. ASSUME NEW w \in Workers, Commit(w) PROVE Types'
  <2>1. closure' \in [Periods -> Closures]
    BY <1>0, <1>7, WrittenTypes DEF Commit
  <2>2. snapshot' \in [Dates -> Report]
    <3>1. \A date \in Dates : op[w].reports[date] \in Report
      BY <1>0 DEF TypeOK, Op
    <3> QED BY <1>0, <1>7, <3>1 DEF Commit
  <2>3. UNCHANGED <<scope, sheet, count>> /\ cut' \subseteq Dates /\ End(w)
    BY <1>0, <1>7 DEF Commit, ledger
  <2>4. OpsAreTyped' /\ op'[w] = Idle /\ \A v \in Workers : v # w => op'[v] = op[v]
    BY <1>0, <2>3, EndBecomes DEF Becomes
  <2> QED BY <1>0, <2>1, <2>2, <2>3, <2>4, ConstantTypes, TypesKept
<1>8. ASSUME NEW w \in Workers, NEW slot, NEW cascade, Approves(w, slot, cascade)
      PROVE Types'
  BY <1>0, <1>8, TypesKept DEF Approves
<1>9. ASSUME NEW w \in Workers, Refresh(w) PROVE Types'
  <2> DEFINE date == Earliest(op[w].todo)
  <2>1. op[w].kind = "correct" /\ DayStands
    BY <1>0, <1>9 DEF Refresh, StepsFit, DayStands, ledger
  <2>2. LookAt(w, date) \/ PassOver(w, date)
    BY <1>9 DEF Refresh
  <2>3. /\ OpsAreTyped' /\ \A v \in Workers : v # w => op'[v] = op[v]
        /\ op'[w].step = "idle" \/ (op'[w].step \in {"refresh", "resave"} /\ op'[w].kind = "correct")
    <3>1. CASE LookAt(w, date)
      BY <2>1, <3>1, LookAtBecomes
    <3>2. CASE PassOver(w, date)
      BY <2>1, <3>2, PassOverBecomes, ConstantTypes
    <3> QED BY <2>2, <3>1, <3>2
  <2> QED BY <1>0, <2>1, <2>3, TypesKept DEF DayStands
<1>10. ASSUME NEW w \in Workers, Resave(w) PROVE Types'
  <2> DEFINE date == Earliest(op[w].todo)
  <2>1. op[w].kind = "correct" /\ UNCHANGED <<scope, sheet, count, closure>> /\ cut' \subseteq Dates
    BY <1>0, <1>10 DEF Resave, StepsFit, ledger
  <2>2. /\ OpsAreTyped' /\ \A v \in Workers : v # w => op'[v] = op[v]
        /\ op'[w].step = "idle" \/ (op'[w].step \in {"refresh", "resave"} /\ op'[w].kind = "correct")
    <3>1. PassOver(w, date)
      BY <1>10 DEF Resave
    <3> QED BY <2>1, <3>1, PassOverBecomes, ConstantTypes
  <2>3. snapshot' \in [Dates -> Report]
    <3>1. \A d \in Dates : op[w].reports[d] \in Report
      BY <1>0 DEF TypeOK, Op
    <3> QED BY <1>0, <1>10, <3>1 DEF Resave
  <2> QED BY <1>0, <2>1, <2>2, <2>3, TypesKept
<1>11. CASE Crash
  <2>1. OpsAreTyped' /\ \A w \in Workers : op'[w].step = "idle"
    BY <1>11, ConstantTypes DEF Crash, OpsAreTyped, CarriesNoReport
  <2>2. cut' \subseteq Dates
    <3>1. \A w \in Workers : op[w].todo \subseteq Dates
      BY <1>0 DEF TypeOK, Op
    <3> QED BY <1>0, <1>11, <3>1 DEF Crash, Refreshing
  <2> QED BY <1>0, <1>11, <2>1, <2>2, TypesKept DEF Crash, ledger
<1>12. CASE UNCHANGED vars
  <2>1. OpsAreTyped'
    BY <1>0, <1>12 DEF OpsAreTyped, At, CarriesNoReport, vars
  <2> QED BY <1>0, <1>12, <2>1, TypesKept DEF vars, ledger
<1>13. ASSUME NEW w \in Workers, Approve(w) PROVE Types'
  <2>1. CASE Refresh(w)
    BY <1>9, <2>1
  <2>2. CASE \E slot \in scope.slots, mirrored, cascade \in BOOLEAN : Correct(w, slot, mirrored, cascade)
    <3>1. PICK slot \in scope.slots, mirrored \in BOOLEAN, cascade \in BOOLEAN :
            Correct(w, slot, mirrored, cascade)
      BY <2>2
    <3> QED BY <1>0, <1>8, <3>1, CorrectApproves
  <2>3. CASE \E slot \in scope.counts, cascade \in BOOLEAN : CorrectCount(w, slot, cascade)
    <3>1. PICK slot \in scope.counts, cascade \in BOOLEAN : CorrectCount(w, slot, cascade)
      BY <2>3
    <3> QED BY <1>0, <1>8, <3>1, CorrectCountApproves
  <2> QED BY <1>13, <2>1, <2>2, <2>3 DEF Approve
<1> QED BY <1>1, <1>2, <1>3, <1>5, <1>6, <1>7, <1>10, <1>11, <1>12, <1>13
        DEF Next, Quietly, Finish

LEMMA InitTypes == Init => Types
<1> SUFFICES ASSUME Init PROVE Types
  OBVIOUS
<1>1. OpsAreTyped /\ \A w \in Workers : op[w].step = "idle"
  BY ConstantTypes DEF Init, OpsAreTyped, CarriesNoReport
<1>2. TypeOK
  BY <1>1, ConstantTypes, TypesFromParts DEF Init
<1> QED BY <1>1, <1>2 DEF Types, StepsFit, At

\* Every variable keeps its type, only a finish or a refresh holds a report, and
\* a worker holds nothing of an operation it has ended (dayFinish.service.ts,
\* snapshotRefresh.service.ts), for any number of requests served at once.
THEOREM TypeCorrect == Spec => []TypeOK
<1>1. Spec => []Types
  BY InitTypes, NextKeepsTypes, PTL DEF Spec
<1>2. Types => TypeOK
  BY DEF Types
<1> QED BY <1>1, <1>2, PTL

-----------------------------------------------------------------------------
(* Requests served one at a time *)

OneAtATime == \A v, w \in Workers : v = w

\* What the operation of a worker knows stays true while it is served: it asks to
\* lock open pages of one entry page, the reports it holds are the ledger's and
\* there is one of each date it settles, and the closures it read are current.
AsksOpenPages(w) == op[w].kind = "finish" =>
    /\ \E page \in Pages : \A s \in op[w].slots : s[2] = page
    /\ \A s \in op[w].slots : ~Locked(s)
HoldsReports(w) == op[w].kind = "finish" =>
    /\ \A date \in Dates : op[w].reports[date].taken => op[w].reports[date] = LiveReport(date)
    /\ \A s \in op[w].slots : Settles(s) =>
            DateOf(s) \in op[w].todo \/ op[w].reports[DateOf(s)].taken
    /\ At(w, "begin") \/ At(w, "commit") => op[w].todo = {}
ReadIsCurrent(w) == At(w, "commit") => op[w].read = closure
ResavesLedger(w) == At(w, "resave") =>
    LET date == Earliest(op[w].todo) IN
    date \in Dates => op[w].reports[date] = LiveReport(date)
OpKnows(w) == AsksOpenPages(w) /\ HoldsReports(w) /\ ReadIsCurrent(w) /\ ResavesLedger(w)

\* A report that is served says what the ledger says, or is about to be looked
\* at; and a day that its encoders finished has one.
ToReview(date) == \E w \in Workers : op[w].kind = "correct" /\ date \in op[w].todo
HasRows(date) == \E s \in Slots : DateOf(s) = date /\ sheet[s].saved
ReportServed(date) == EncodersLock(date) => ToReview(date) \/ ReportIsLedger(date)
ReportThere(date) == EncodersLock(date) /\ AllLocked(date) /\ HasRows(date) => snapshot[date].taken
DaysReported == \A date \in Dates : ReportServed(date) /\ ReportThere(date)

DayInv == Types /\ (\A w \in Workers : OpKnows(w)) /\ DaysReported

LEMMA IdleKnows ==
    ASSUME NEW w \in Workers, op[w] = Idle
    PROVE  OpKnows(w)
<1>1. /\ Idle.step = "idle" /\ Idle.slots = {}
      /\ \A date \in Dates : ~Idle.reports[date].taken
  BY ConstantTypes DEF CarriesNoReport
<1>2. AsksOpenPages(w)
  BY <1>1 DEF AsksOpenPages, Pages
<1>3. HoldsReports(w)
  BY <1>1 DEF HoldsReports, At
<1> QED BY <1>1, <1>2, <1>3 DEF OpKnows, ReadIsCurrent, ResavesLedger, At

LEMMA IdleKnowsNext ==
    ASSUME NEW w \in Workers, op'[w] = Idle
    PROVE  OpKnows(w)'
<1>1. /\ Idle.step = "idle" /\ Idle.slots = {}
      /\ \A date \in Dates : ~Idle.reports[date].taken
  BY ConstantTypes DEF CarriesNoReport
<1>2. AsksOpenPages(w)'
  BY <1>1 DEF AsksOpenPages, Pages
<1>3. HoldsReports(w)'
  BY <1>1 DEF HoldsReports, At
<1> QED BY <1>1, <1>2, <1>3 DEF OpKnows, ReadIsCurrent, ResavesLedger, At

LEMMA Still ==
    ASSUME scope' = scope, sheet' = sheet, count' = count, closure' = closure
    PROVE  /\ \A date \in Dates : /\ LiveReport(date)' = LiveReport(date)
                                  /\ AllLocked(date)' = AllLocked(date)
                                  /\ EncodersLock(date)' = EncodersLock(date)
                                  /\ HasRows(date)' = HasRows(date)
           /\ \A s \in Slots : /\ Locked(s)' = Locked(s) /\ Settles(s)' = Settles(s)
                               /\ DateOf(s)' = DateOf(s)
<1>1. \A s \in Slots : DateOf(s)' = DateOf(s)
  BY DEF DateOf
<1>2. ASSUME NEW date \in Dates PROVE LiveReport(date)' = LiveReport(date)
  <2>1. ASSUME NEW page \in Pages PROVE RowsOn(page, date)' = RowsOn(page, date)
    BY <1>1 DEF RowsOn
  <2>2. ASSUME NEW page \in Pages PROVE CarriedInto(page, date)' = CarriedInto(page, date)
    <3>1. /\ RowsUpTo(page, date)' = RowsUpTo(page, date)
          /\ AppliedUpTo(page, date)' = AppliedUpTo(page, date)
          /\ RowsUpTo(page, date) \subseteq Slots /\ AppliedUpTo(page, date) \subseteq Slots
      BY <1>1 DEF RowsUpTo, AppliedUpTo
    <3>2. /\ LatestOf(RowsUpTo(page, date))' = LatestOf(RowsUpTo(page, date))
          /\ LatestOf(AppliedUpTo(page, date))' = LatestOf(AppliedUpTo(page, date))
          /\ LatestOf(RowsUpTo(page, date)) \subseteq Slots
          /\ LatestOf(AppliedUpTo(page, date)) \subseteq Slots
      BY <3>1 DEF LatestOf
    <3> DEFINE counts == {c \in LatestOf(AppliedUpTo(page, date)) :
                             \A s \in RowsUpTo(page, date) : DateOf(s) <= DateOf(c)}
               rows == {s \in LatestOf(RowsUpTo(page, date)) :
                             \A c \in AppliedUpTo(page, date) : DateOf(c) < DateOf(s)}
    <3>3. counts' = counts /\ rows' = rows
      BY <1>1, <3>1, <3>2
    <3>4. {count[c].value : c \in counts}' = {count[c].value : c \in counts}
      BY <3>3
    <3>5. {sheet[s].stock : s \in rows}' = {sheet[s].stock : s \in rows}
      BY <3>3
    <3> QED BY <3>1, <3>4, <3>5 DEF CarriedInto
  <2> QED BY <1>1, <2>1, <2>2 DEF LiveReport, Shown
<1> QED BY <1>1, <1>2 DEF AllLocked, EncodersLock, HasRows, Locked, Settles, DateOf

\* Steps that leave the day as it is, and look at what they take from their list, or
\* mark it as cut.
LEMMA StillKeepsDays ==
    ASSUME DaysReported, UNCHANGED <<scope, sheet, count, closure, snapshot>>, cut \subseteq cut',
           \A date \in Dates :
                ToReview(date) => ToReview(date)' \/ ReportIsLedger(date) \/ date \in cut'
    PROVE  DaysReported'
<1> SUFFICES ASSUME NEW date \in Dates PROVE ReportServed(date)' /\ ReportThere(date)'
  BY DEF DaysReported
<1>1. /\ LiveReport(date)' = LiveReport(date) /\ AllLocked(date)' = AllLocked(date)
      /\ EncodersLock(date)' = EncodersLock(date) /\ HasRows(date)' = HasRows(date)
  BY Still
<1>2. ReportIsLedger(date) \/ date \in cut' => ReportIsLedger(date)'
  BY <1>1 DEF ReportIsLedger, Frozen
<1> QED BY <1>1, <1>2 DEF DaysReported, ReportServed, ReportThere

LEMMA NothingToReview ==
    ASSUME OneAtATime, NEW w \in Workers, op[w].kind # "correct", NEW date
    PROVE  ~ToReview(date)
BY DEF OneAtATime, ToReview

LEMMA BeginKnows ==
    ASSUME OneAtATime, DayInv, NEW w \in Workers, NEW slots \in SUBSET Slots,
           \E page \in Pages : \A s \in slots : s[2] = page,
           \A s \in slots : ~Locked(s),
           BeginLock(w, slots), DayStands
    PROVE  OpKnows(w)' /\ DaysReported'
<1>1. /\ At(w, "idle")
      /\ op'[w].kind = "finish" /\ op'[w].slots = slots /\ op'[w].todo = Reported(slots)
      /\ op'[w].step \in {"begin", "build"}
      /\ op'[w].step = "begin" => op'[w].todo = {}
      /\ CarriesNoReport(op'[w])
  BY BeginLockBecomes DEF DayInv, Types
<1>2. \A s \in Slots : /\ Locked(s)' = Locked(s) /\ Settles(s)' = Settles(s)
                       /\ DateOf(s)' = DateOf(s)
  BY Still DEF DayStands
<1>3. AsksOpenPages(w)'
  BY <1>1, <1>2 DEF AsksOpenPages
<1>4. HoldsReports(w)'
  <2>1. \A s \in slots : Settles(s) => DateOf(s) \in Reported(slots)
    BY DEF Reported
  <2> QED BY <1>1, <1>2, <2>1 DEF HoldsReports, CarriesNoReport, At
<1>5. ReadIsCurrent(w)' /\ ResavesLedger(w)'
  BY <1>1 DEF ReadIsCurrent, ResavesLedger, At
<1>6. op[w] = Idle
  BY <1>1 DEF DayInv, Types, TypeOK
<1>7. \A date \in Dates : ~ToReview(date)
  BY <1>6, ConstantTypes, NothingToReview
<1> QED BY <1>3, <1>4, <1>5, <1>7, StillKeepsDays DEF OpKnows, DayInv, DayStands

LEMMA BuildKnows ==
    ASSUME OneAtATime, DayInv, NEW w \in Workers, BuildReport(w)
    PROVE  OpKnows(w)' /\ DaysReported'
<1> DEFINE date == Earliest(op[w].todo)
<1>1. op[w].kind = "finish" /\ DayStands
  BY DEF DayInv, Types, StepsFit, BuildReport, DayStands, ledger
<1>2. /\ op'[w].kind = "finish" /\ op'[w].slots = op[w].slots
      /\ op'[w].step \in {"begin", "build"} /\ op'[w].todo = op[w].todo \ {date}
      /\ op'[w].step = "begin" => op'[w].todo = {}
      /\ \A d \in Dates : op'[w].reports[d] = IF d = date THEN LiveReport(date)
                                                      ELSE op[w].reports[d]
  BY <1>1, BuildBecomes DEF DayInv, Types
<1>3. /\ \A s \in Slots : /\ Locked(s)' = Locked(s) /\ Settles(s)' = Settles(s)
                          /\ DateOf(s)' = DateOf(s) /\ DateOf(s) \in Dates
      /\ \A d \in Dates : LiveReport(d)' = LiveReport(d)
      /\ op[w].slots \in SUBSET Slots
      /\ LiveReport(date).taken
  BY <1>1, Still, Slotted, ReportTypes DEF DayInv, Types, TypeOK, Op, DayStands
<1>4. AsksOpenPages(w) /\ HoldsReports(w)
  BY DEF DayInv, OpKnows
<1>5. AsksOpenPages(w)'
  BY <1>1, <1>2, <1>3, <1>4 DEF AsksOpenPages
<1>6. HoldsReports(w)'
  <2> HIDE DEF date
  <2>1. \A d \in Dates : op'[w].reports[d].taken => op'[w].reports[d] = LiveReport(d)
    BY <1>1, <1>2, <1>4 DEF HoldsReports
  <2>2. ASSUME NEW s \in op[w].slots, Settles(s)
        PROVE  DateOf(s) \in op'[w].todo \/ op'[w].reports[DateOf(s)].taken
    BY <1>1, <1>2, <1>3, <1>4, <2>2 DEF HoldsReports
  <2> QED BY <1>2, <1>3, <2>1, <2>2 DEF HoldsReports, At
<1>7. ReadIsCurrent(w)' /\ ResavesLedger(w)'
  BY <1>2 DEF ReadIsCurrent, ResavesLedger, At
<1>8. \A d \in Dates : ~ToReview(d)
  BY <1>1, NothingToReview
<1> QED BY <1>1, <1>5, <1>6, <1>7, <1>8, StillKeepsDays DEF OpKnows, DayInv, DayStands

LEMMA AskKnows ==
    ASSUME OneAtATime, DayInv, NEW w \in Workers, NEW kind \in {"close", "unlock"},
           NEW slots \in SUBSET Slots,
           Start(w, kind, "begin", slots, {}), DayStands
    PROVE  OpKnows(w)' /\ DaysReported'
<1>1. kind \in Kinds /\ "begin" \in Steps \ {"idle"} /\ {} \in SUBSET Dates /\ OpsAreTyped
  BY TypesOfOps DEF Kinds, Steps, DayInv, Types
<1>2. At(w, "idle") /\ op'[w].kind = kind /\ op'[w].step = "begin"
  BY <1>1, StartBecomes
<1>3. op[w] = Idle
  BY <1>1, <1>2 DEF OpsAreTyped
<1>4. \A d \in Dates : ~ToReview(d)
  BY <1>3, ConstantTypes, NothingToReview
<1> QED BY <1>2, <1>4, StillKeepsDays
        DEF OpKnows, AsksOpenPages, HoldsReports, ReadIsCurrent, ResavesLedger, At, DayInv,
            DayStands

LEMMA ReadKnows ==
    ASSUME OneAtATime, DayInv, NEW w \in Workers, ReadClosure(w)
    PROVE  OpKnows(w)' /\ DaysReported'
<1>1. /\ op[w].kind # "correct" /\ At(w, "begin")
      /\ DayStands
      /\ \/ op'[w] = Idle
         \/ /\ op'[w].step = "commit" /\ op'[w].read = closure
            /\ op'[w].kind = op[w].kind /\ op'[w].slots = op[w].slots
            /\ op'[w].todo = op[w].todo /\ op'[w].reports = op[w].reports
  BY ReadBecomes DEF DayInv, Becomes
<1>2. DaysReported'
  BY <1>1, NothingToReview, StillKeepsDays DEF DayInv, DayStands
<1>3. CASE op'[w] = Idle
  BY <1>2, <1>3, IdleKnowsNext
<1>4. CASE /\ op'[w].step = "commit" /\ op'[w].read = closure
           /\ op'[w].kind = op[w].kind /\ op'[w].slots = op[w].slots
           /\ op'[w].todo = op[w].todo /\ op'[w].reports = op[w].reports
  <2>1. /\ \A s \in Slots : /\ Locked(s)' = Locked(s) /\ Settles(s)' = Settles(s)
                            /\ DateOf(s)' = DateOf(s)
        /\ \A d \in Dates : LiveReport(d)' = LiveReport(d)
        /\ op[w].slots \in SUBSET Slots
    BY <1>1, Still DEF DayInv, Types, TypeOK, Op, DayStands
  <2>2. AsksOpenPages(w) /\ HoldsReports(w)
    BY DEF DayInv, OpKnows
  <2>3. AsksOpenPages(w)'
    BY <1>4, <2>1, <2>2 DEF AsksOpenPages
  <2>4. HoldsReports(w)'
    BY <1>1, <1>4, <2>1, <2>2 DEF HoldsReports, At
  <2>5. ReadIsCurrent(w)' /\ ResavesLedger(w)'
    BY <1>1, <1>4 DEF ReadIsCurrent, ResavesLedger, At, DayStands
  <2> QED BY <1>2, <2>3, <2>4, <2>5 DEF OpKnows
<1> QED BY <1>1, <1>3, <1>4

\* Saves: what is written to a day whose report is served was asked to be, and is
\* looked at; everything else is written to open pages.
LEMMA SaveKeepsDay ==
    ASSUME TypeOK, NEW date \in Dates, UNCHANGED <<scope, closure, snapshot, cut>>,
           \A s \in Slots : DateOf(s) = date => sheet'[s] = sheet[s]
    PROVE  /\ ReportIsLedger(date)' = ReportIsLedger(date)
           /\ AllLocked(date)' = AllLocked(date)
           /\ EncodersLock(date)' = EncodersLock(date) /\ HasRows(date)' = HasRows(date)
<1>1. \A s \in Slots : DateOf(s)' = DateOf(s) /\ Locked(s)' = Locked(s)
  BY DEF DateOf, Locked
<1>2. LiveReport(date).rows' = LiveReport(date).rows
  BY <1>1 DEF LiveReport
<1>3. AllLocked(date)' = AllLocked(date) /\ HasRows(date)' = HasRows(date)
  BY <1>1 DEF AllLocked, HasRows
<1>4. EncodersLock(date)' = EncodersLock(date)
  BY DEF EncodersLock
<1> QED BY <1>2, <1>3, <1>4 DEF ReportIsLedger, Frozen

LEMMA OpenPageThawsDay ==
    ASSUME TypeOK, UNCHANGED <<scope, closure>>, NEW date \in Dates,
           NEW s \in Slots, DateOf(s) = date, ~Locked(s), sheet'[s].saved
    PROVE  ~AllLocked(date)' /\ ReportIsLedger(date)'
<1>1. DateOf(s)' = DateOf(s) /\ Locked(s)' = Locked(s)
  BY DEF DateOf, Locked
<1> QED BY <1>1 DEF AllLocked, ReportIsLedger, Frozen

LEMMA SaveKnows ==
    ASSUME OneAtATime, DayInv, NEW w \in Workers, SavesLedger(w)
    PROVE  OpKnows(w)' /\ DaysReported'
<1>1. TypeOK /\ At(w, "idle") /\ UNCHANGED <<scope, closure, snapshot, op, cut>>
  BY DEF SavesLedger, DayInv, Types
<1>2. op'[w] = Idle
  BY <1>1 DEF TypeOK
<1>3. \A d \in Dates : ~ToReview(d)
  BY <1>1, <1>2, ConstantTypes, NothingToReview
<1>4. ASSUME NEW date \in Dates PROVE ReportServed(date)' /\ ReportThere(date)'
  <2>1. CASE \A s \in Slots : DateOf(s) = date => sheet'[s] = sheet[s]
    BY <1>1, <1>3, <2>1, SaveKeepsDay DEF DayInv, DaysReported, ReportServed, ReportThere
  <2>2. CASE \E s \in Slots : DateOf(s) = date /\ sheet'[s] # sheet[s]
    <3>1. PICK s \in Slots : DateOf(s) = date /\ sheet'[s] # sheet[s]
      BY <2>2
    <3>2. ~Locked(s) /\ sheet'[s].saved
      BY <3>1 DEF SavesLedger, WritesOpenPages
    <3> QED BY <1>1, <3>1, <3>2, OpenPageThawsDay DEF ReportServed, ReportThere
  <2> QED BY <2>1, <2>2
<1> QED BY <1>2, <1>4, IdleKnowsNext DEF DaysReported

LEMMA ApprovalKnows ==
    ASSUME OneAtATime, DayInv, NEW w \in Workers, NEW slot, NEW cascade, Approves(w, slot, cascade)
    PROVE  OpKnows(w)' /\ DaysReported'
<1>1. /\ TypeOK /\ OpsAreTyped /\ UNCHANGED <<scope, closure, snapshot, cut>>
      /\ op'[w].kind = "correct" /\ op'[w].step = "refresh" /\ op'[w].todo = ToRefresh(slot, cascade)
      /\ At(w, "idle") /\ \A s \in Slots : sheet[s].saved => sheet'[s].saved
  BY TypesOfOps DEF Approves, DayInv, Types
<1>2. \A d \in Dates : ~ToReview(d)
  BY <1>1, ConstantTypes, NothingToReview DEF OpsAreTyped
<1>3. ASSUME NEW date \in Dates PROVE ReportServed(date)' /\ ReportThere(date)'
  <2>1. CASE \A s \in Slots : DateOf(s) = date => sheet'[s] = sheet[s]
    BY <1>1, <1>2, <2>1, SaveKeepsDay DEF DayInv, DaysReported, ReportServed, ReportThere
  <2>2. CASE \E s \in Slots : DateOf(s) = date /\ sheet'[s] # sheet[s]
    <3>1. PICK s \in Slots : DateOf(s) = date /\ sheet'[s] # sheet[s]
      BY <2>2
    <3>2. /\ HasRows(date)
          /\ date \in ToRefresh(slot, cascade) \/ (~Locked(s) /\ sheet'[s].saved)
      BY <3>1 DEF Approves, HasRows
    <3>3. ReportServed(date)'
      <4>1. CASE date \in ToRefresh(slot, cascade)
        BY <1>1, <4>1 DEF ReportServed, ToReview
      <4>2. CASE ~Locked(s) /\ sheet'[s].saved
        BY <1>1, <3>1, <4>2, OpenPageThawsDay DEF ReportServed
      <4> QED BY <3>2, <4>1, <4>2
    <3>4. ReportThere(date)'
      <4>1. AllLocked(date)' => AllLocked(date)
        BY <1>1 DEF AllLocked, DateOf, Locked
      <4>2. EncodersLock(date)' = EncodersLock(date)
        BY <1>1 DEF EncodersLock
      <4> QED BY <1>1, <3>2, <4>1, <4>2 DEF DayInv, DaysReported, ReportThere
    <3> QED BY <3>3, <3>4
  <2> QED BY <2>1, <2>2
<1>4. OpKnows(w)'
  BY <1>1 DEF OpKnows, AsksOpenPages, HoldsReports, ReadIsCurrent, ResavesLedger, At
<1> QED BY <1>3, <1>4 DEF DaysReported

LEMMA RefreshKnows ==
    ASSUME OneAtATime, DayInv, NEW w \in Workers, Refresh(w)
    PROVE  OpKnows(w)' /\ DaysReported'
<1> DEFINE date == Earliest(op[w].todo)
<1>1. op[w].kind = "correct" /\ DayStands
  BY DEF Refresh, DayInv, Types, StepsFit, DayStands, ledger
<1>2. CASE LookAt(w, date)
  <2>1. /\ op'[w].step = "resave" /\ op'[w].todo = op[w].todo /\ op'[w].kind = "correct"
        /\ date \in Dates => op'[w].reports[date] = LiveReport(date)
    BY <1>1, <1>2, LookAtBecomes DEF DayInv
  <2>2. \A d \in Dates : ToReview(d) => ToReview(d)'
    BY <2>1 DEF OneAtATime, ToReview
  <2>3. \A d \in Dates : LiveReport(d)' = LiveReport(d)
    BY <1>1, Still DEF DayStands
  <2>4. ResavesLedger(w)'
    BY <2>1, <2>3 DEF ResavesLedger
  <2>5. OpKnows(w)'
    BY <2>1, <2>4 DEF OpKnows, AsksOpenPages, HoldsReports, ReadIsCurrent, At
  <2> QED BY <1>1, <2>2, <2>5, StillKeepsDays DEF DayInv, DayStands
<1>3. CASE PassOver(w, date) /\ ~(Frozen(date) /\ LiveReport(date) # snapshot[date])
  <2>1. \/ op[w].todo = {date} /\ op'[w] = Idle
        \/ /\ op'[w].step = "refresh" /\ op'[w].todo = op[w].todo \ {date}
           /\ op'[w].kind = "correct"
    BY <1>1, <1>3, PassOverBecomes DEF DayInv
  <2>2. ASSUME NEW d \in Dates, ToReview(d) PROVE ToReview(d)' \/ ReportIsLedger(d)
    <3>1. d \in op[w].todo
      BY <2>2 DEF OneAtATime, ToReview
    <3>2. CASE d = date
      BY <1>3, <3>2 DEF ReportIsLedger
    <3>3. CASE d # date
      BY <2>1, <3>1, <3>3 DEF ToReview
    <3> QED BY <3>2, <3>3
  <2>3. OpKnows(w)'
    <3>1. CASE op'[w] = Idle
      BY <3>1, IdleKnowsNext
    <3>2. CASE op'[w].step = "refresh" /\ op'[w].kind = "correct"
      BY <3>2 DEF OpKnows, AsksOpenPages, HoldsReports, ReadIsCurrent, ResavesLedger, At
    <3> QED BY <2>1, <3>1, <3>2
  <2> QED BY <1>1, <2>2, <2>3, StillKeepsDays DEF DayInv, DayStands
<1> QED BY <1>2, <1>3 DEF Refresh

LEMMA ResaveKnows ==
    ASSUME OneAtATime, DayInv, NEW w \in Workers, Resave(w)
    PROVE  OpKnows(w)' /\ DaysReported'
<1> DEFINE date == Earliest(op[w].todo)
<1>1. /\ op[w].kind = "correct" /\ UNCHANGED <<scope, sheet, count, closure>>
      /\ At(w, "resave") /\ PassOver(w, date)
      /\ snapshot' = [snapshot EXCEPT ![date] = op[w].reports[date]]
      /\ cut' = cut \ {date}
  BY DEF Resave, DayInv, Types, StepsFit, ledger
<1>2. \/ op[w].todo = {date} /\ op'[w] = Idle
      \/ /\ op'[w].step = "refresh" /\ op'[w].todo = op[w].todo \ {date}
         /\ op'[w].kind = "correct"
  BY <1>1, PassOverBecomes DEF DayInv
<1>3. OpKnows(w)'
  <2>1. CASE op'[w] = Idle
    BY <2>1, IdleKnowsNext
  <2>2. CASE op'[w].step = "refresh" /\ op'[w].kind = "correct"
    BY <2>2 DEF OpKnows, AsksOpenPages, HoldsReports, ReadIsCurrent, ResavesLedger, At
  <2> QED BY <1>2, <2>1, <2>2
<1>4. ASSUME NEW d \in Dates PROVE ReportServed(d)' /\ ReportThere(d)'
  <2>1. /\ LiveReport(d)' = LiveReport(d) /\ AllLocked(d)' = AllLocked(d)
        /\ EncodersLock(d)' = EncodersLock(d) /\ HasRows(d)' = HasRows(d)
    BY <1>1, Still
  <2>2. ReportServed(d) /\ ReportThere(d) /\ snapshot \in [Dates -> Report]
    BY DEF DayInv, DaysReported, Types, TypeOK
  <2>3. CASE d = date
    <3>1. snapshot'[d] = LiveReport(d)
      BY <1>1, <2>2, <2>3 DEF DayInv, OpKnows, ResavesLedger
    <3>2. snapshot'[d].taken
      BY <3>1, ReportTypes DEF DayInv, Types
    <3> QED BY <2>1, <3>1, <3>2 DEF ReportServed, ReportThere, ReportIsLedger
  <2>4. CASE d # date
    <3>1. snapshot'[d] = snapshot[d]
      BY <1>1, <2>2, <2>4
    <3>2. ReportIsLedger(d)' = ReportIsLedger(d)
      BY <1>1, <2>1, <2>4, <3>1 DEF ReportIsLedger, Frozen
    <3>3. ToReview(d) => ToReview(d)'
      BY <1>2, <2>4 DEF OneAtATime, ToReview
    <3> QED BY <2>1, <2>2, <3>1, <3>2, <3>3 DEF ReportServed, ReportThere
  <2> QED BY <2>3, <2>4
<1> QED BY <1>3, <1>4 DEF DaysReported

-----------------------------------------------------------------------------
(* Transactions on the closures *)

\* What a transaction writes, when the closures it read are current: a finish adds
\* its page to the locks, a close takes the day from the encoders or leaves it, and
\* an unlock only takes locks away.
LEMMA FinishWrites ==
    ASSUME TypeOK, NEW w \in Workers, op[w].kind = "finish", op[w].read = closure,
           AsksOpenPages(w), NEW page \in Pages, \A s \in op[w].slots : s[2] = page,
           NEW p \in AskedPeriods(w)
    PROVE  /\ Written(w, p).locked = closure[p].locked \cup {page}
           /\ Written(w, p).entriesOnly /\ page \notin closure[p].locked
<1>1. PICK s \in op[w].slots : p = s[1]
  BY DEF AskedPeriods
<1>2. op[w].slots \in SUBSET Slots /\ s = <<p, page>> /\ p \in Periods
  BY <1>1 DEF TypeOK, Op, Slots
<1>3. Asked(w, p) = {page}
  <2>1. \A other \in Pages : <<p, other>> \in op[w].slots => other = page
    OBVIOUS
  <2> QED BY <1>1, <1>2, <2>1 DEF Asked
<1>4. page \notin closure[p].locked /\ closure[p] \in Closures
  BY <1>1, <1>2 DEF AsksOpenPages, Locked, IsSideLocked, TypeOK
<1>5. {page} # Pages
  BY DEF Pages
<1>6. ~AlreadyClosed(closure[p], {page}, TRUE)
  BY <1>4, <1>5 DEF AlreadyClosed
<1>7. EntriesOnly(w) = TRUE
  BY DEF EntriesOnly
<1> QED BY <1>3, <1>4, <1>6, <1>7 DEF Written, ClosePeriod

LEMMA CloseWrites ==
    ASSUME TypeOK, NEW w \in Workers, op[w].kind = "close", op[w].read = closure,
           NEW p \in Periods
    PROVE  /\ Written(w, p).entriesOnly => Written(w, p) = closure[p]
           /\ closure[p].locked \subseteq Written(w, p).locked
           /\ CountsClosed(closure[p]) => CountsClosed(Written(w, p))
<1>1. closure[p] \in Closures /\ EntriesOnly(w) = FALSE
  BY DEF TypeOK, EntriesOnly
<1>2. Asked(w, p) \subseteq Pages
  BY DEF Asked
<1> QED BY <1>1, <1>2 DEF Written, ClosePeriod, CountsClosed, IsClosed, Closures, AlreadyClosed

LEMMA WrittenByUnlock ==
    ASSUME NEW w, NEW p, op[w].kind = "unlock"
    PROVE  /\ p \in AskedPeriods(w) => Written(w, p) = Unlocked(op[w].read[p], Asked(w, p))
           /\ p \notin AskedPeriods(w) => Written(w, p) = closure[p]
BY DEF Written

LEMMA UnlockWrites ==
    ASSUME TypeOK, NEW w \in Workers, op[w].kind = "unlock", op[w].read = closure,
           NEW p \in Periods
    PROVE  /\ Written(w, p).entriesOnly = closure[p].entriesOnly
           /\ Written(w, p).locked \subseteq closure[p].locked
           /\ closure[p].locked \ Written(w, p).locked \subseteq Asked(w, p)
           /\ CountsClosed(closure[p]) /\ ~CountsClosed(Written(w, p)) => Asked(w, p) # {}
<1>1. closure[p] \in Closures
  BY DEF TypeOK
<1>2. CASE p \in AskedPeriods(w)
  <2>1. Written(w, p) = Unlocked(closure[p], Asked(w, p))
    BY <1>2, WrittenByUnlock
  <2>2. Asked(w, p) # {}
    <3>1. PICK s \in op[w].slots : p = s[1]
      BY <1>2 DEF AskedPeriods
    <3>2. op[w].slots \in SUBSET Slots
      BY DEF TypeOK, Op
    <3> QED BY <3>1, <3>2 DEF Asked, Slots
  <2> QED BY <1>1, <2>1, <2>2 DEF Unlocked, Closures
<1>3. CASE p \notin AskedPeriods(w)
  <2>1. Written(w, p) = closure[p]
    BY <1>3, WrittenByUnlock
  <2> QED BY <2>1
<1> QED BY <1>2, <1>3

LEMMA CommitReads ==
    ASSUME OneAtATime, DayInv, NEW w \in Workers, Commit(w)
    PROVE  /\ TypeOK /\ op[w].read = closure /\ UNCHANGED <<scope, sheet, count>>
           /\ cut' = {date \in cut : ~op[w].reports[date].taken}
           /\ op[w].kind \in {"finish", "close", "unlock"} /\ op'[w] = Idle
           /\ closure' = [p \in Periods |-> Written(w, p)]
           /\ snapshot' = [date \in Dates |-> IF op[w].reports[date].taken THEN op[w].reports[date]
                                              ELSE snapshot[date]]
           /\ op[w].kind # "finish" => CarriesNoReport(op[w])
           /\ AsksOpenPages(w) /\ HoldsReports(w) /\ op[w].slots \in SUBSET Slots
<1>1. TypeOK /\ StepsFit /\ OpsAreTyped /\ At(w, "commit") /\ op[w] \in Op
  BY TypesOfOps DEF DayInv, Types, Commit, TypeOK
<1>2. op[w].read = closure /\ AsksOpenPages(w) /\ HoldsReports(w)
  BY <1>1 DEF DayInv, OpKnows, ReadIsCurrent
<1>3. ~Collides(w)
  BY <1>2 DEF Collides
<1>4. op[w].kind \in {"finish", "close", "unlock"} /\ op[w].slots \in SUBSET Slots
  BY <1>1 DEF StepsFit, Op, Kinds
<1>5. op'[w] = Idle
  BY <1>1, EndBecomes DEF Commit, Becomes
<1>6. op[w].kind # "finish" => CarriesNoReport(op[w])
  BY <1>1, <1>4 DEF OpsAreTyped
<1> QED BY <1>1, <1>2, <1>3, <1>4, <1>5, <1>6 DEF Commit, ledger

\* A date whose report and whose encoders' locks a transaction does not add to.
LEMMA CommitKeepsDay ==
    ASSUME OneAtATime, DayInv, NEW w \in Workers, op[w].kind # "correct",
           UNCHANGED <<scope, sheet>>, NEW date \in Dates, snapshot'[date] = snapshot[date],
           date \in cut => date \in cut',
           (EncodersLock(date) /\ AllLocked(date))' => EncodersLock(date) /\ AllLocked(date)
    PROVE  ReportServed(date)' /\ ReportThere(date)'
<1>1. LiveReport(date).rows' = LiveReport(date).rows /\ HasRows(date)' = HasRows(date)
  BY DEF LiveReport, HasRows, DateOf
<1>2. ~ToReview(date) /\ ReportServed(date) /\ ReportThere(date)
  BY NothingToReview DEF DayInv, DaysReported
<1> QED BY <1>1, <1>2 DEF ReportServed, ReportThere, ReportIsLedger, Frozen

\* A date that a finish settles no report of: a page of it stays open, or the
\* finish is not about it.
LEMMA FinishLeavesDay ==
    ASSUME OneAtATime, DayInv, NEW w \in Workers, Commit(w), op[w].kind = "finish",
           NEW date \in Dates, ~op[w].reports[date].taken
    PROVE  (EncodersLock(date) /\ AllLocked(date))' => EncodersLock(date) /\ AllLocked(date)
<1>1. /\ TypeOK /\ op[w].read = closure /\ UNCHANGED <<scope, sheet>>
      /\ closure' = [p \in Periods |-> Written(w, p)]
      /\ AsksOpenPages(w) /\ HoldsReports(w) /\ op[w].slots \in SUBSET Slots
  BY CommitReads
<1>2. PICK page \in Pages : \A s \in op[w].slots : s[2] = page
  BY <1>1 DEF AsksOpenPages
<1>3. \A s \in Slots : DateOf(s)' = DateOf(s)
  BY <1>1 DEF DateOf
<1>4. CASE \E s \in op[w].slots : DateOf(s) = date
  <2>1. PICK s \in op[w].slots : DateOf(s) = date
    BY <1>4
  <2>2. s \in Slots /\ ~Settles(s)
    <3>1. op[w].todo = {}
      BY <1>1 DEF HoldsReports, Commit
    <3> QED BY <1>1, <2>1, <3>1 DEF HoldsReports
  <2> DEFINE other == OtherSlot(s)
  <2>3. other \in Slots /\ ~Locked(other) /\ sheet[other].saved
    BY <1>1, <2>2, Slotted DEF Settles
  <2>4. other[1] = s[1] /\ other[2] # page /\ DateOf(other) = date
    BY <1>1, <1>2, <2>1, <2>2, Slotted DEF DateOf, OtherPage, Pages
  <2>5. s[1] \in AskedPeriods(w) /\ s[1] \in Periods
    BY <1>1, <2>2, Slotted DEF AskedPeriods
  <2>6. closure'[s[1]].locked = closure[s[1]].locked \cup {page}
    BY <1>1, <1>2, <2>5, FinishWrites
  <2>7. ~Locked(other)'
    BY <2>3, <2>4, <2>6 DEF Locked, IsSideLocked
  <2> QED BY <1>1, <1>3, <2>3, <2>4, <2>7 DEF AllLocked
<1>5. CASE \A s \in op[w].slots : DateOf(s) # date
  <2>1. ASSUME NEW p \in Periods, scope.date[p] = date PROVE closure'[p] = closure[p]
    <3>1. p \notin AskedPeriods(w)
      BY <1>5, <2>1 DEF AskedPeriods, DateOf
    <3> QED BY <1>1, <3>1 DEF Written
  <2>2. EncodersLock(date)' = EncodersLock(date)
    BY <1>1, <2>1 DEF EncodersLock
  <2>3. \A s \in Slots : DateOf(s) = date => Locked(s)' = Locked(s)
    BY <1>1, <2>1, Slotted DEF DateOf, Locked
  <2> QED BY <1>1, <1>3, <2>2, <2>3 DEF AllLocked
<1> QED BY <1>4, <1>5

\* What a transaction leaves of a date it saves no report of.
LEMMA CommitLeavesDay ==
    ASSUME OneAtATime, DayInv, NEW w \in Workers, Commit(w), NEW date \in Dates,
           ~op[w].reports[date].taken
    PROVE  /\ snapshot'[date] = snapshot[date] /\ (date \in cut => date \in cut')
           /\ (EncodersLock(date) /\ AllLocked(date))' => EncodersLock(date) /\ AllLocked(date)
<1>1. /\ TypeOK /\ op[w].read = closure /\ UNCHANGED <<scope, sheet>>
      /\ cut' = {d \in cut : ~op[w].reports[d].taken}
      /\ op[w].kind \in {"finish", "close", "unlock"}
      /\ closure' = [p \in Periods |-> Written(w, p)]
      /\ snapshot' = [d \in Dates |-> IF op[w].reports[d].taken THEN op[w].reports[d]
                                      ELSE snapshot[d]]
  BY CommitReads
<1>2. snapshot'[date] = snapshot[date] /\ (date \in cut => date \in cut')
  BY <1>1
<1>3. \A s \in Slots : s[1] \in Periods /\ DateOf(s)' = DateOf(s)
  BY <1>1, Slotted DEF DateOf
<1>4. CASE op[w].kind = "close"
  <2>1. EncodersLock(date)' => \A p \in Periods : scope.date[p] = date => closure'[p] = closure[p]
    BY <1>1, <1>4, CloseWrites DEF EncodersLock
  <2> QED BY <1>1, <1>2, <1>3, <2>1 DEF EncodersLock, AllLocked, Locked, DateOf
<1>5. CASE op[w].kind = "unlock"
  <2>1. \A p \in Periods : /\ closure'[p].entriesOnly = closure[p].entriesOnly
                            /\ closure'[p].locked \subseteq closure[p].locked
    BY <1>1, <1>5, UnlockWrites
  <2> QED BY <1>1, <1>2, <1>3, <2>1 DEF EncodersLock, AllLocked, Locked, IsSideLocked
<1> QED BY <1>1, <1>2, <1>4, <1>5, FinishLeavesDay

LEMMA CommitKnows ==
    ASSUME OneAtATime, DayInv, NEW w \in Workers, Commit(w)
    PROVE  OpKnows(w)' /\ DaysReported'
<1>1. /\ TypeOK /\ UNCHANGED <<scope, sheet, count>>
      /\ op[w].kind \in {"finish", "close", "unlock"} /\ op'[w] = Idle
      /\ snapshot' = [d \in Dates |-> IF op[w].reports[d].taken THEN op[w].reports[d]
                                      ELSE snapshot[d]]
      /\ op[w].kind # "finish" => CarriesNoReport(op[w])
      /\ HoldsReports(w)
  BY CommitReads
<1>2. ASSUME NEW date \in Dates PROVE ReportServed(date)' /\ ReportThere(date)'
  <2>1. CASE op[w].reports[date].taken
    <3>1. snapshot'[date] = LiveReport(date) /\ snapshot'[date].taken
      BY <1>1, <2>1 DEF HoldsReports, CarriesNoReport
    <3>2. LiveReport(date).rows' = LiveReport(date).rows
      BY <1>1 DEF LiveReport, DateOf
    <3> QED BY <3>1, <3>2 DEF ReportServed, ReportThere, ReportIsLedger
  <2>2. CASE ~op[w].reports[date].taken
    BY <1>1, <2>2, CommitLeavesDay, CommitKeepsDay
  <2> QED BY <2>1, <2>2
<1> QED BY <1>1, <1>2, IdleKnowsNext DEF DaysReported

LEMMA NextKeepsDay ==
    ASSUME OneAtATime, DayInv, [Next]_vars
    PROVE  DayInv'
<1>1. Types'
  BY NextKeepsTypes DEF DayInv
<1>2. ASSUME NEW w \in Workers, OpKnows(w)', DaysReported' PROVE DayInv'
  BY <1>1, <1>2 DEF OneAtATime, DayInv
<1>3. ASSUME NEW w \in Workers, Encode(w) \/ CountSheets(w) PROVE DayInv'
  <2>1. SavesLedger(w)
    BY <1>3, EncodeSaves, CountSheetsSaves DEF DayInv, Types
  <2> QED BY <1>2, <2>1, SaveKnows
<1>4. ASSUME NEW w \in Workers, NEW slot \in scope.slots, NEW signedOff \in BOOLEAN,
             BeginFinish(w, slot, signedOff)
      PROVE DayInv'
  <2>1. /\ ~Locked(slot) /\ BeginLock(w, {slot}) /\ slot \in Slots /\ slot[2] \in Pages
        /\ DayStands
    BY <1>4, Slotted DEF BeginFinish, DayInv, Types, DayStands, ledger
  <2>2. {slot} \in SUBSET Slots /\ \A s \in {slot} : s[2] = slot[2] /\ ~Locked(s)
    BY <2>1
  <2> QED BY <1>2, <2>1, <2>2, BeginKnows
<1>5. ASSUME NEW w \in Workers, NEW page \in Pages, NEW date \in Dates, BeginThrough(w, page, date)
      PROVE DayInv'
  <2>1. /\ Backlog(page, date) \in SUBSET Slots
        /\ \A s \in Backlog(page, date) : s[2] = page /\ ~Locked(s)
    BY DEF Backlog
  <2>2. BeginLock(w, Backlog(page, date)) /\ DayStands
    BY <1>5 DEF BeginThrough, DayStands, ledger
  <2> QED BY <1>2, <2>1, <2>2, BeginKnows
<1>6. ASSUME NEW w \in Workers, BuildReport(w) PROVE DayInv'
  BY <1>2, <1>6, BuildKnows
<1>7. ASSUME NEW w \in Workers, Administer(w) PROVE DayInv'
  <2>1. PICK p \in Periods : \/ BeginClose(w, p)
                             \/ \E slots \in SUBSET ({p} \X Pages \cap scope.slots) \ {{}} : BeginUnlock(w, slots)
    BY <1>7 DEF Administer
  <2>2. {p} \X Pages \in SUBSET Slots
    BY DEF Slots
  <2>3. CASE BeginClose(w, p)
    BY <1>2, <2>2, <2>3, AskKnows DEF BeginClose, DayStands, ledger
  <2>4. CASE \E slots \in SUBSET ({p} \X Pages \cap scope.slots) \ {{}} : BeginUnlock(w, slots)
    BY <1>2, <2>2, <2>4, AskKnows DEF BeginUnlock, DayStands, ledger
  <2> QED BY <2>1, <2>3, <2>4
<1>8. ASSUME NEW w \in Workers, Approve(w) PROVE DayInv'
  <2>1. CASE Refresh(w)
    BY <1>2, <2>1, RefreshKnows
  <2>2. CASE \E slot \in scope.slots, mirrored, cascade \in BOOLEAN : Correct(w, slot, mirrored, cascade)
    <3>1. PICK slot \in scope.slots, mirrored \in BOOLEAN, cascade \in BOOLEAN :
            Correct(w, slot, mirrored, cascade)
      BY <2>2
    <3>2. Approves(w, slot, cascade)
      BY <3>1, CorrectApproves DEF DayInv, Types
    <3> QED BY <1>2, <3>2, ApprovalKnows
  <2>3. CASE \E slot \in scope.counts, cascade \in BOOLEAN : CorrectCount(w, slot, cascade)
    <3>1. PICK slot \in scope.counts, cascade \in BOOLEAN : CorrectCount(w, slot, cascade)
      BY <2>3
    <3>2. Approves(w, slot, cascade)
      BY <3>1, CorrectCountApproves DEF DayInv, Types
    <3> QED BY <1>2, <3>2, ApprovalKnows
  <2> QED BY <1>8, <2>1, <2>2, <2>3 DEF Approve
<1>9. ASSUME NEW w \in Workers, ReadClosure(w) PROVE DayInv'
  BY <1>2, <1>9, ReadKnows
<1>10. ASSUME NEW w \in Workers, Commit(w) PROVE DayInv'
  BY <1>2, <1>10, CommitKnows
<1>11. ASSUME NEW w \in Workers, Resave(w) PROVE DayInv'
  BY <1>2, <1>11, ResaveKnows
<1>12. CASE Crash
  <2>1. /\ UNCHANGED <<scope, sheet, count, closure, snapshot>> /\ cut \subseteq cut'
        /\ \A w \in Workers : op'[w] = Idle
        /\ \A date : ToReview(date) => date \in cut'
    BY <1>12 DEF Crash, ledger, ToReview, Refreshing
  <2>2. DaysReported'
    BY <2>1, StillKeepsDays DEF DayInv
  <2> QED BY <1>1, <2>1, <2>2, IdleKnowsNext DEF DayInv
<1>13. CASE UNCHANGED vars
  <2>1. UNCHANGED <<scope, sheet, count, closure, snapshot, op, cut>>
    BY <1>13 DEF vars, ledger
  <2>2. DaysReported'
    BY <2>1, StillKeepsDays DEF DayInv, ToReview
  <2>3. /\ \A s \in Slots : /\ Locked(s)' = Locked(s) /\ Settles(s)' = Settles(s)
                            /\ DateOf(s)' = DateOf(s)
        /\ \A date \in Dates : LiveReport(date)' = LiveReport(date)
    BY <2>1, Still
  <2>4. ASSUME NEW w \in Workers PROVE OpKnows(w)'
    <3>1. OpKnows(w) /\ op[w].slots \in SUBSET Slots
      BY DEF DayInv, Types, TypeOK, Op
    <3> QED BY <2>1, <2>3, <3>1 DEF OpKnows, AsksOpenPages, HoldsReports, ReadIsCurrent,
               ResavesLedger, At
  <2> QED BY <1>1, <2>2, <2>4 DEF DayInv
<1> QED BY <1>3, <1>4, <1>5, <1>6, <1>7, <1>8, <1>9, <1>10, <1>11, <1>12, <1>13
        DEF Next, Quietly, Finish

LEMMA InitDay == Init => DayInv
<1> SUFFICES ASSUME Init PROVE DayInv
  OBVIOUS
<1>1. Types
  BY InitTypes
<1>2. \A w \in Workers : OpKnows(w)
  BY IdleKnows DEF Init
<1>3. ASSUME NEW date \in Dates PROVE ReportServed(date) /\ ReportThere(date)
  <2>1. ~snapshot[date].taken /\ ~HasRows(date)
    BY ConstantTypes DEF Init, HasRows, NoRows
  <2> QED BY <2>1 DEF ReportServed, ReportThere, ReportIsLedger, Frozen
<1> QED BY <1>1, <1>2, <1>3 DEF DayInv, DaysReported

LEMMA DayInvariant ==
    ASSUME OneAtATime
    PROVE  Spec => []DayInv
BY InitDay, NextKeepsDay, PTL DEF Spec

-----------------------------------------------------------------------------
(* What is promised of requests served one at a time *)

\* While the encoders' locks are in force, the rows of a report served in place of
\* the live one are the ledger's, after any saves, counts, finishes of one page or of
\* a range, closes, unlocks, corrections and restarts (dayFinish.service.ts,
\* finishThrough.service.ts, snapshotRefresh.service.ts), over any periods and dates,
\* but for a date whose refresh a restart cut (`cut`).
THEOREM ServedReportIsLedger ==
    ASSUME OneAtATime
    PROVE  Spec => []FinishedReportIsLedger
<1>1. DayInv => FinishedReportIsLedger
  BY ConstantTypes DEF DayInv, DaysReported, ReportServed, ToReview, FinishedReportIsLedger,
     Quiet, Types, TypeOK
<1> QED BY <1>1, DayInvariant, PTL

\* A date whose pages with rows are all finished by their encoders has a report
\* (finishDay: "Finishing the second page therefore freezes the report").
THEOREM FinishLeavesReport ==
    ASSUME OneAtATime
    PROVE  Spec => []FinishedDayHasReport
<1>1. DayInv => FinishedDayHasReport
  BY DEF DayInv, DaysReported, ReportThere, HasRows, FinishedDayHasReport
<1> QED BY <1>1, DayInvariant, PTL

\* A page's lock is lifted by an unlock of that page only, and counts refused by
\* an admin's full close stay refused until the period is unlocked
\* (dayLock.service.ts, closePeriod and unlockDay).
THEOREM UnlockLiftsLocks ==
    ASSUME OneAtATime
    PROVE  Spec => LocksLiftedByUnlock
<1> DEFINE Asking(p) == {page \in Pages : \E w \in Workers :
                            op[w].kind = "unlock" /\ <<p, page>> \in op[w].slots}
           Lifts(p) == /\ closure[p].locked \ closure'[p].locked \subseteq Asking(p)
                       /\ CountsClosed(closure[p]) /\ ~CountsClosed(closure'[p]) => Asking(p) # {}
<1>1. ASSUME DayInv, NEW w \in Workers, Commit(w), NEW p \in Periods
      PROVE  Lifts(p)
  <2>1. /\ TypeOK /\ op[w].read = closure /\ AsksOpenPages(w) /\ op[w].slots \in SUBSET Slots
        /\ op[w].kind \in {"finish", "close", "unlock"} /\ closure'[p] = Written(w, p)
    BY <1>1, CommitReads
  <2>2. CASE op[w].kind = "finish"
    <3>1. PICK page \in Pages : \A s \in op[w].slots : s[2] = page
      BY <2>1, <2>2 DEF AsksOpenPages
    <3>2. CASE p \in AskedPeriods(w)
      <4>1. closure'[p].locked = closure[p].locked \cup {page} /\ page \notin closure[p].locked
        BY <2>1, <2>2, <3>1, <3>2, FinishWrites
      <4>2. ~CountsClosed(closure[p])
        BY <3>1, <4>1 DEF CountsClosed, IsClosed
      <4> QED BY <4>1, <4>2
    <3>3. CASE p \notin AskedPeriods(w)
      <4>1. closure'[p] = closure[p]
        BY <2>1, <3>3 DEF Written
      <4> QED BY <4>1
    <3> QED BY <3>2, <3>3
  <2>3. CASE op[w].kind = "close"
    <3>1. closure[p].locked \subseteq closure'[p].locked
      BY <2>1, <2>3, CloseWrites
    <3>2. CountsClosed(closure[p]) => CountsClosed(closure'[p])
      BY <2>1, <2>3, CloseWrites
    <3> QED BY <3>1, <3>2
  <2>4. CASE op[w].kind = "unlock"
    <3>1. closure[p].locked \ closure'[p].locked \subseteq Asked(w, p)
      BY <2>1, <2>4, UnlockWrites
    <3>2. CountsClosed(closure[p]) /\ ~CountsClosed(closure'[p]) => Asked(w, p) # {}
      BY <2>1, <2>4, UnlockWrites
    <3>3. Asked(w, p) \subseteq Asking(p)
      BY <2>4 DEF Asked
    <3> QED BY <3>1, <3>2, <3>3
  <2> QED BY <2>1, <2>2, <2>3, <2>4
<1>2. ASSUME UNCHANGED closure, NEW p \in Periods PROVE Lifts(p)
  BY <1>2
<1>3. [Next]_vars => UNCHANGED closure \/ \E w \in Workers : Commit(w)
  <2>1. \A w \in Workers : Encode(w) \/ CountSheets(w) => UNCHANGED closure
    BY Zenon DEF Encode, SaveEntry, CountSheets, SaveCount, DeleteCount, PublishCounts, RevertCounts
  <2>2. \A w \in Workers : Finish(w) => UNCHANGED closure
    BY Zenon DEF Finish, BeginFinish, BeginThrough, BuildReport
  <2>3. \A w \in Workers : Administer(w) => UNCHANGED closure
    BY DEF Administer, BeginClose, BeginUnlock
  <2>4. \A w \in Workers : Approve(w) \/ ReadClosure(w) \/ Resave(w) => UNCHANGED closure
    BY Zenon DEF Approve, Correct, CorrectCount, Refresh, ReadClosure, Resave
  <2>5. Crash \/ UNCHANGED vars => UNCHANGED closure
    BY DEF Crash, vars
  <2> QED BY <2>1, <2>2, <2>3, <2>4, <2>5 DEF Next, Quietly
<1>4. DayInv /\ [Next]_vars => [\A p \in Periods : Lifts(p)]_vars
  BY <1>1, <1>2, <1>3
<1> QED BY <1>4, DayInvariant, PTL DEF Spec, LocksLiftedByUnlock


=============================================================================
