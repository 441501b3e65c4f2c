-------------------------- MODULE DriveReportsProofs --------------------------
(***************************************************************************)
(* Theorems about DriveReports: its types and one file a date, for any     *)
(* number of requests and of uploads at once, and that Drive holds the     *)
(* report that is served when one request is served at a time.             *)
(***************************************************************************)
EXTENDS DriveReports, DayFinishProofs, FiniteSetTheorems

-----------------------------------------------------------------------------
(* The least of a set, and sequences *)

LEMMA EarliestIsOne ==
    ASSUME NEW S \in SUBSET Nat, S # {}
    PROVE  Earliest(S) \in S
<1>0. S \subseteq Nat /\ IsWellFoundedOn(OpToRel(<, Nat), Nat)
  BY NatLessThanWellFounded
<1>1. PICK p \in S : \A q \in S : ~(<<q, p>> \in OpToRel(<, Nat))
  BY <1>0, WFMin
<1>2. \A q \in S : ~(q < p)
  BY <1>1 DEF OpToRel
<1>3. \A q \in S : p <= q
  BY <1>2
<1> QED BY <1>3 DEF Earliest

LEMMA Appended ==
    ASSUME NEW S, NEW s \in Seq(S), NEW e \in S
    PROVE  /\ Append(s, e) \in Seq(S) /\ Len(Append(s, e)) = Len(s) + 1
           /\ \A i \in 1..Len(s) : Append(s, e)[i] = s[i]
           /\ Append(s, e)[Len(s) + 1] = e
OBVIOUS

LEMMA Popped ==
    ASSUME NEW S, NEW s \in Seq(S), Len(s) > 0
    PROVE  /\ Tail(s) \in Seq(S) /\ Len(Tail(s)) = Len(s) - 1
           /\ \A i \in 1..(Len(s) - 1) : Tail(s)[i] = s[i + 1]
OBVIOUS

-----------------------------------------------------------------------------
(* The rows of a date that is reported *)

\* An operation with dates to build or to look at has one; the dates a finish
\* settles, and those it holds a report of, have rows.
WorkFits(w) ==
    /\ op[w].step \in {"build", "refresh", "resave"} => op[w].todo # {}
    /\ \A date \in Dates : op[w].reports[date].taken => HasRows(date)
    /\ op[w].kind = "finish" => \A date \in op[w].todo : HasRows(date)
RowsFit ==
    /\ \A date \in Dates : snapshot[date].taken => HasRows(date)
    /\ \A w \in Workers : WorkFits(w)
RowsInv == Types /\ RowsFit

LEMMA RowsStay ==
    ASSUME TypeOK, scope' = scope, \A s \in Slots : sheet[s].saved => sheet'[s].saved
    PROVE  \A date : HasRows(date) => HasRows(date)'
BY DEF HasRows, DateOf

\* A step of one operation that saves no report.
LEMMA OneWorkFits ==
    ASSUME RowsInv, NEW w \in Workers, \A v \in Workers : v # w => op'[v] = op[v],
           UNCHANGED <<scope, snapshot>>, \A s \in Slots : sheet[s].saved => sheet'[s].saved,
           WorkFits(w)'
    PROVE  RowsFit'
<1>1. \A date : HasRows(date) => HasRows(date)'
  BY RowsStay DEF RowsInv, Types
<1>2. ASSUME NEW v \in Workers PROVE WorkFits(v)'
  <2>1. CASE v # w
    <3>1. op'[v] = op[v] /\ WorkFits(v)
      BY <2>1 DEF RowsInv, RowsFit
    <3> QED BY <1>1, <3>1 DEF WorkFits
  <2> QED BY <2>1
<1> QED BY <1>1, <1>2 DEF RowsInv, RowsFit

LEMMA IdleWorkFits ==
    ASSUME NEW w \in Workers, op'[w] = Idle
    PROVE  WorkFits(w)'
BY ConstantTypes DEF WorkFits, CarriesNoReport, Idle

LEMMA SaveRows ==
    ASSUME RowsInv, NEW w \in Workers, SavesLedger(w)
    PROVE  RowsFit'
<1>1. /\ TypeOK /\ UNCHANGED <<scope, closure, snapshot, op>>
      /\ \A s \in Slots : sheet[s].saved => sheet'[s].saved
  BY DEF SavesLedger, RowsInv, Types
<1>2. \A date : HasRows(date) => HasRows(date)'
  BY <1>1, RowsStay
<1>3. WorkFits(w)'
  BY <1>1, <1>2 DEF RowsInv, RowsFit, WorkFits
<1> QED BY <1>1, <1>3, OneWorkFits

LEMMA BeginRows ==
    ASSUME RowsInv, NEW w \in Workers, NEW slots \in SUBSET Slots, BeginLock(w, slots),
           \A s \in slots : sheet[s].saved, DayStands
    PROVE  RowsFit'
<1>1. /\ op'[w].kind = "finish" /\ op'[w].todo = Reported(slots)
      /\ op'[w].step = IF Reported(slots) = {} THEN "begin" ELSE "build"
      /\ CarriesNoReport(op'[w]) /\ \A v \in Workers : v # w => op'[v] = op[v]
  <2>1. BeginLock(w, slots) => Start(w, "finish", IF Reported(slots) = {} THEN "begin" ELSE "build",
                                     slots, Reported(slots))
    BY DEF BeginLock
  <2>2. Start(w, "finish", IF Reported(slots) = {} THEN "begin" ELSE "build", slots, Reported(slots))
            /\ op \in [Workers -> Op]
        => op'[w].step = IF Reported(slots) = {} THEN "begin" ELSE "build"
    BY DEF Start, Idle
  <2> QED BY <2>1, <2>2, BeginLockBecomes DEF RowsInv, Types, TypeOK
<1>2. \A date \in Reported(slots) : HasRows(date)'
  BY DEF Reported, HasRows, DateOf, DayStands
<1>3. WorkFits(w)'
  BY <1>1, <1>2 DEF WorkFits, CarriesNoReport
<1> QED BY <1>1, <1>3, OneWorkFits DEF DayStands

LEMMA BuildRows ==
    ASSUME RowsInv, NEW w \in Workers, BuildReport(w)
    PROVE  RowsFit'
<1> DEFINE date == Earliest(op[w].todo)
<1>1. /\ op[w].kind = "finish" /\ At(w, "build") /\ DayStands
      /\ WorkFits(w) /\ op[w].todo \in SUBSET Dates /\ TypeOK
  BY DEF RowsInv, RowsFit, Types, StepsFit, BuildReport, TypeOK, Op, DayStands, ledger
<1>2. /\ op'[w].kind = "finish" /\ op'[w].todo = op[w].todo \ {date}
      /\ op'[w].step \in {"begin", "build"}
      /\ \A d \in Dates : op'[w].reports[d] = IF d = date THEN LiveReport(date)
                                                      ELSE op[w].reports[d]
      /\ \A v \in Workers : v # w => op'[v] = op[v]
  BY <1>1, BuildBecomes DEF Becomes
<1>3. op'[w].step = "build" => op[w].todo # {date}
  BY <1>1 DEF BuildReport, TypeOK, Op
<1>4. date \in op[w].todo
  BY <1>1, EarliestIsOne, DatesAssumption DEF WorkFits, At
<1>5. HasRows(date) /\ \A d : HasRows(d)' = HasRows(d)
  BY <1>1, <1>4 DEF WorkFits, HasRows, DateOf, DayStands
<1>6. op'[w].step = "build" => op'[w].todo # {}
  BY <1>2, <1>3, <1>4
<1> HIDE DEF date
<1>7. WorkFits(w)'
  BY <1>1, <1>2, <1>5, <1>6 DEF WorkFits
<1> QED BY <1>1, <1>2, <1>7, OneWorkFits DEF DayStands

LEMMA AskRows ==
    ASSUME RowsInv, NEW w \in Workers, NEW kind \in {"close", "unlock"}, NEW slots \in SUBSET Slots,
           Start(w, kind, "begin", slots, {}), DayStands
    PROVE  RowsFit'
<1>1. kind \in Kinds /\ "begin" \in Steps \ {"idle"} /\ {} \in SUBSET Dates /\ OpsAreTyped
  BY TypesOfOps DEF Kinds, Steps, RowsInv, Types
<1>2. /\ op'[w].kind = kind /\ op'[w].step = "begin" /\ CarriesNoReport(op'[w])
      /\ \A v \in Workers : v # w => op'[v] = op[v]
  BY <1>1, StartBecomes
<1>3. WorkFits(w)'
  BY <1>2 DEF WorkFits, CarriesNoReport
<1> QED BY <1>2, <1>3, OneWorkFits DEF DayStands

LEMMA ReadRows ==
    ASSUME RowsInv, NEW w \in Workers, ReadClosure(w)
    PROVE  RowsFit'
<1>1. /\ DayStands /\ \A v \in Workers : v # w => op'[v] = op[v]
      /\ \/ op'[w] = Idle
         \/ /\ op'[w].step = "commit" /\ op'[w].kind = op[w].kind
            /\ op'[w].todo = op[w].todo /\ op'[w].reports = op[w].reports
  BY ReadBecomes DEF RowsInv, Becomes
<1>2. WorkFits(w) /\ \A d : HasRows(d)' = HasRows(d)
  BY <1>1 DEF RowsInv, RowsFit, HasRows, DateOf, DayStands
<1>3. WorkFits(w)'
  BY <1>1, <1>2, IdleWorkFits DEF WorkFits
<1> QED BY <1>1, <1>3, OneWorkFits DEF DayStands

LEMMA ApprovalRows ==
    ASSUME RowsInv, NEW w \in Workers, NEW slot, NEW cascade, Approves(w, slot, cascade)
    PROVE  RowsFit'
<1>1. /\ op'[w].kind = "correct" /\ op'[w].todo = ToRefresh(slot, cascade)
      /\ CarriesNoReport(op'[w]) /\ \A v \in Workers : v # w => op'[v] = op[v]
      /\ UNCHANGED <<scope, closure, snapshot>>
      /\ \A s \in Slots : sheet[s].saved => sheet'[s].saved
  BY DEF Approves
<1>2. WorkFits(w)'
  BY <1>1 DEF WorkFits, CarriesNoReport, ToRefresh
<1> QED BY <1>1, <1>2, OneWorkFits

\* What a refresh does with the date it looks at, or has saved.
LEMMA PassOverRows ==
    ASSUME RowsInv, NEW w \in Workers, op[w].kind = "correct", op[w].todo # {},
           PassOver(w, Earliest(op[w].todo)), \A d \in Dates : HasRows(d) => HasRows(d)'
    PROVE  WorkFits(w)' /\ \A v \in Workers : v # w => op'[v] = op[v]
<1> DEFINE date == Earliest(op[w].todo)
           new == [op[w] EXCEPT !.step = "refresh", !.todo = @ \ {date}, !.reports[date] = NoReport]
<1>1. op[w] \in Op /\ op \in [Workers -> Op] /\ WorkFits(w) /\ OpsAreTyped
  BY TypesOfOps DEF RowsInv, RowsFit, Types, TypeOK
<1>2. date \in op[w].todo
  BY <1>1, EarliestIsOne, DatesAssumption DEF Op
<1>3. CASE op[w].todo = {date}
  <2>1. End(w)
    BY <1>3 DEF PassOver
  <2>2. op'[w] = Idle /\ \A v \in Workers : v # w => op'[v] = op[v]
    BY <1>1, <2>1, EndBecomes DEF Becomes
  <2> QED BY <2>2, IdleWorkFits
<1>4. CASE op[w].todo # {date}
  <2>1. op' = [op EXCEPT ![w] = new]
    BY <1>4 DEF PassOver
  <2>2. /\ new.kind = "correct" /\ new.todo # {}
        /\ \A d \in Dates : new.reports[d].taken => op[w].reports[d].taken
    BY <1>1, <1>2, <1>4, ConstantTypes DEF Op
  <2>3. op'[w] = new /\ \A v \in Workers : v # w => op'[v] = op[v]
    BY <1>1, <2>1
  <2> HIDE DEF new
  <2>4. WorkFits(w)'
    BY <1>1, <2>2, <2>3 DEF WorkFits
  <2> QED BY <2>3, <2>4
<1> QED BY <1>3, <1>4

LEMMA RefreshRows ==
    ASSUME RowsInv, NEW w \in Workers, Refresh(w)
    PROVE  RowsFit'
<1> DEFINE date == Earliest(op[w].todo)
<1>1. /\ op[w].kind = "correct" /\ DayStands
      /\ op[w] \in Op /\ WorkFits(w) /\ op[w].todo # {}
  BY DEF Refresh, RowsInv, RowsFit, Types, StepsFit, WorkFits, At, TypeOK, DayStands, ledger
<1>2. UNCHANGED <<scope, sheet, snapshot>> /\ \A d : HasRows(d)' = HasRows(d)
  BY <1>1 DEF HasRows, DateOf, DayStands
<1>3. CASE Frozen(date) /\ LookAt(w, date)
  <2>1. date \in Dates
    BY <1>1, EarliestIsOne, DatesAssumption DEF Op
  <2>2. HasRows(date)
    BY <1>3, <2>1 DEF RowsInv, RowsFit, Frozen
  <2> DEFINE new == [op[w] EXCEPT !.step = "resave", !.reports[date] = LiveReport(date)]
  <2>3. /\ new.kind = "correct" /\ new.todo = op[w].todo
        /\ \A d \in Dates : d # date => new.reports[d] = op[w].reports[d]
    BY <1>1 DEF Op
  <2>4. op'[w] = new /\ \A v \in Workers : v # w => op'[v] = op[v]
    BY <1>3 DEF LookAt, RowsInv, Types, TypeOK
  <2> HIDE DEF new, date
  <2>5. WorkFits(w)'
    BY <1>1, <1>2, <2>2, <2>3, <2>4 DEF WorkFits
  <2> QED BY <1>1, <1>2, <2>4, <2>5, OneWorkFits
<1>4. CASE PassOver(w, date)
  BY <1>1, <1>2, <1>4, PassOverRows, OneWorkFits
<1> QED BY <1>3, <1>4 DEF Refresh

LEMMA SavingRows ==
    ASSUME RowsInv, NEW w \in Workers, Commit(w) \/ Resave(w)
    PROVE  RowsFit'
<1>1. /\ UNCHANGED <<scope, sheet>> /\ WorkFits(w) /\ TypeOK
      /\ \A d : HasRows(d)' = HasRows(d)
  BY DEF Commit, Resave, RowsInv, RowsFit, Types, HasRows, DateOf, ledger
<1>2. \A d \in Dates : snapshot'[d].taken => HasRows(d)
  <2>1. CASE Commit(w)
    BY <1>1, <2>1 DEF Commit, RowsInv, RowsFit, WorkFits
  <2>2. CASE Resave(w)
    <3>1. \A d \in Dates : snapshot'[d] \in {snapshot[d], op[w].reports[d]}
      BY <1>1, <2>2 DEF Resave, TypeOK
    <3> QED BY <1>1, <3>1 DEF RowsInv, RowsFit, WorkFits
  <2> QED BY <2>1, <2>2
<1>3. WorkFits(w)' /\ \A v \in Workers : v # w => op'[v] = op[v]
  <2>1. CASE Commit(w)
    <3>1. OpsAreTyped /\ End(w)
      BY <1>1, <2>1, TypesOfOps DEF Commit
    <3>2. op'[w] = Idle /\ \A v \in Workers : v # w => op'[v] = op[v]
      BY <3>1, EndBecomes DEF Becomes
    <3> QED BY <3>2, IdleWorkFits
  <2>2. CASE Resave(w)
    <3>1. /\ op[w].kind = "correct" /\ op[w].todo # {}
          /\ PassOver(w, Earliest(op[w].todo))
      BY <1>1, <2>2 DEF Resave, RowsInv, Types, StepsFit, WorkFits, At
    <3> QED BY <1>1, <3>1, PassOverRows
  <2> QED BY <2>1, <2>2
<1>4. ASSUME NEW v \in Workers PROVE WorkFits(v)'
  <2>1. CASE v # w
    <3>1. op'[v] = op[v] /\ WorkFits(v)
      BY <1>3, <2>1 DEF RowsInv, RowsFit
    <3> QED BY <1>1, <3>1 DEF WorkFits
  <2> QED BY <1>3, <2>1
<1> QED BY <1>1, <1>2, <1>4 DEF RowsFit

LEMMA ApprovalIsOne ==
    ASSUME TypeOK, NEW w \in Workers, Approve(w)
    PROVE  Refresh(w) \/ \E slot, cascade : Approves(w, slot, cascade)
<1>1. CASE \E slot \in scope.slots, mirrored, cascade \in BOOLEAN : Correct(w, slot, mirrored, cascade)
  <2>1. PICK slot \in scope.slots, mirrored \in BOOLEAN, cascade \in BOOLEAN :
          Correct(w, slot, mirrored, cascade)
    BY <1>1
  <2> QED BY <2>1, CorrectApproves
<1>2. CASE \E slot \in scope.counts, cascade \in BOOLEAN : CorrectCount(w, slot, cascade)
  <2>1. PICK slot \in scope.counts, cascade \in BOOLEAN : CorrectCount(w, slot, cascade)
    BY <1>2
  <2> QED BY <2>1, CorrectCountApproves
<1> QED BY <1>1, <1>2 DEF Approve

LEMMA NextKeepsRows ==
    ASSUME RowsInv, [Next]_vars
    PROVE  RowsInv'
<1>1. Types'
  BY NextKeepsTypes DEF RowsInv
<1>2. ASSUME NEW w \in Workers, Quietly(w) PROVE RowsFit'
  <2>0. TypeOK
    BY DEF RowsInv, Types
  <2>1. ASSUME NEW slot \in scope.slots, NEW signedOff \in BOOLEAN, BeginFinish(w, slot, signedOff)
        PROVE RowsFit'
    <3>1. {slot} \in SUBSET Slots /\ \A s \in {slot} : sheet[s].saved
      BY <2>0, <2>1, Slotted DEF BeginFinish
    <3> QED BY <2>1, <3>1, BeginRows DEF BeginFinish, DayStands, ledger
  <2>2. ASSUME NEW page \in Pages, NEW date \in Dates, BeginThrough(w, page, date)
        PROVE RowsFit'
    <3>1. Backlog(page, date) \in SUBSET Slots /\ \A s \in Backlog(page, date) : sheet[s].saved
      BY DEF Backlog
    <3> QED BY <2>2, <3>1, BeginRows DEF BeginThrough, DayStands, ledger
  <2>3. CASE Administer(w)
    <3>1. PICK p \in Periods :
            \/ BeginClose(w, p)
            \/ \E slots \in SUBSET ({p} \X Pages \cap scope.slots) \ {{}} : BeginUnlock(w, slots)
      BY <2>3 DEF Administer
    <3>2. {p} \X Pages \in SUBSET Slots
      BY DEF Slots
    <3>3. CASE BeginClose(w, p)
      BY <3>2, <3>3, AskRows DEF BeginClose, DayStands, ledger
    <3>4. CASE \E slots \in SUBSET ({p} \X Pages \cap scope.slots) \ {{}} : BeginUnlock(w, slots)
      BY <3>2, <3>4, AskRows DEF BeginUnlock, DayStands, ledger
    <3> QED BY <3>1, <3>3, <3>4
  <2>4. CASE Approve(w)
    <3>1. CASE Refresh(w)
      BY <3>1, RefreshRows
    <3>2. CASE \E slot, cascade : Approves(w, slot, cascade)
      BY <3>2, ApprovalRows
    <3> QED BY <2>0, <2>4, <3>1, <3>2, ApprovalIsOne DEF Approve
  <2>5. CASE Encode(w) \/ CountSheets(w)
    BY <2>0, <2>5, EncodeSaves, CountSheetsSaves, SaveRows
  <2> QED BY <1>2, <2>1, <2>2, <2>3, <2>4, <2>5, BuildRows, ReadRows DEF Quietly, Finish
<1>3. CASE Crash
  <2>1. /\ UNCHANGED <<scope, sheet, snapshot>> /\ \A w \in Workers : op'[w] = Idle
    BY <1>3 DEF Crash, ledger
  <2>2. \A d : HasRows(d)' = HasRows(d)
    BY <2>1 DEF HasRows, DateOf
  <2>3. \A w \in Workers : WorkFits(w)'
    BY <2>1, IdleWorkFits
  <2>4. \A date \in Dates : snapshot'[date].taken => HasRows(date)'
    BY <2>1, <2>2 DEF RowsInv, RowsFit
  <2> QED BY <1>1, <2>3, <2>4 DEF RowsFit, RowsInv
<1>4. CASE UNCHANGED vars
  <2>1. \A w \in Workers : WorkFits(w)'
    BY <1>4 DEF vars, ledger, RowsInv, RowsFit, WorkFits, HasRows, DateOf
  <2>2. \A date \in Dates : snapshot'[date].taken => HasRows(date)'
    BY <1>4 DEF vars, ledger, RowsInv, RowsFit, HasRows, DateOf
  <2> QED BY <1>1, <2>1, <2>2 DEF RowsFit, RowsInv
<1> QED BY <1>1, <1>2, <1>3, <1>4, SavingRows DEF Next, RowsInv

LEMMA InitRows == Init => RowsInv
<1> SUFFICES ASSUME Init PROVE RowsInv
  OBVIOUS
<1>1. \A w \in Workers : WorkFits(w)
  BY ConstantTypes DEF Init, WorkFits, CarriesNoReport, Idle
<1>2. \A date \in Dates : ~snapshot[date].taken
  BY ConstantTypes DEF Init
<1> QED BY <1>1, <1>2, InitTypes DEF RowsInv, RowsFit

-----------------------------------------------------------------------------
(* What the steps of an upload do *)

DriveTypes ==
    /\ files \in [Dates -> SUBSET Files]
    /\ queue \in [Dates -> Seq(Uploads)]
    /\ upload \in [Uploads -> UploadRecords]
    /\ unsure \in [Dates -> {"no", "failed", "crossed"}]
    /\ started \in Nat /\ faults \in Nat
DriveTyped == RowsInv /\ DriveTypes

\* An upload that another's step leaves under way, and at most no longer alone.
Continues(r, s) ==
    /\ s.kind = r.kind /\ s.step = r.step /\ s.date = r.date /\ s.rest = r.rest
    /\ s.says = r.says /\ s.old = r.old /\ s.keeps = r.keeps /\ (s.alone => r.alone)
Others(u) == \A v \in Uploads : v # u => Continues(upload[v], upload'[v])
Waits(r) == r.step = "build" /\ ~r.keeps

LEMMA NewUploads ==
    /\ \A kind \in UploadKinds, date \in Dates, rest \in SUBSET Dates :
        LET new == NewUpload(kind, date, rest) IN
        new \in UploadRecords /\ new.kind = kind /\ new.date = date /\ Waits(new)
    /\ NoUpload \in UploadRecords /\ NoUpload.kind = "none" /\ Waits(NoUpload)
<1>1. NoContent \in Contents
  BY ConstantTypes DEF NoContent, Contents
<1>2. ASSUME NEW kind \in UploadKinds, NEW date \in Dates, NEW rest \in SUBSET Dates
      PROVE  LET new == NewUpload(kind, date, rest) IN
             new \in UploadRecords /\ new.kind = kind /\ new.date = date /\ Waits(new)
  BY <1>1 DEF NewUpload, UploadRecords, UploadSteps, Waits
<1>3. Earliest(Dates) \in Dates /\ "none" \in UploadKinds /\ {} \in SUBSET Dates
  BY EarliestIsOne, DatesAssumption, SomeDatesAssumption DEF UploadKinds
<1> QED BY <1>2, <1>3 DEF NoUpload

LEMMA ServedTypes ==
    ASSUME TypeOK, NEW date \in Dates
    PROVE  Served(date) \in Contents
BY ReportTypes DEF Served, Contents, TypeOK

\* The upload ends; those beside it go on.
Left(u, done) ==
    /\ upload' \in [Uploads -> UploadRecords] /\ Others(u) /\ Waits(upload'[u])
    /\ upload'[u].kind = "none" \/ (upload'[u].kind = "backup" /\ upload[u].kind = "backup")
    /\ \A v \in Uploads : v # u =>
        (upload'[v].alone <=> upload[v].alone /\ (done \/ ~(Crossing(u, v) /\ Built(v, upload[u].date))))

LEMMA LeaveLeaves ==
    ASSUME DriveTyped, NEW u \in Uploads, NEW done \in BOOLEAN, Leave(u, done)
    PROVE  Left(u, done)
<1> DEFINE date == upload[u].date
           Apart(v) == done \/ ~(Crossing(u, v) /\ Built(v, date))
<1>1. upload \in [Uploads -> UploadRecords] /\ upload[u] \in UploadRecords
  BY DEF DriveTyped, DriveTypes
<1>2. /\ Then(u, done) \in UploadRecords /\ Waits(Then(u, done))
      /\ \/ Then(u, done).kind = "none"
         \/ Then(u, done).kind = "backup" /\ upload[u].kind = "backup"
  <2>1. CASE upload[u].kind = "backup" /\ done /\ upload[u].rest # {}
    <3>1. upload[u].rest \in SUBSET Dates
      BY <1>1 DEF UploadRecords
    <3>2. Earliest(upload[u].rest) \in Dates /\ "backup" \in UploadKinds /\ {} \in SUBSET Dates
      BY <2>1, <3>1, EarliestIsOne, DatesAssumption DEF UploadKinds
    <3>3. Then(u, done) = NewUpload("backup", Earliest(upload[u].rest), {})
      BY <2>1 DEF Then
    <3>4. LET new == NewUpload("backup", Earliest(upload[u].rest), {}) IN
          new \in UploadRecords /\ new.kind = "backup" /\ Waits(new)
      BY <3>2, NewUploads
    <3> QED BY <2>1, <3>3, <3>4
  <2>2. CASE ~(upload[u].kind = "backup" /\ done /\ upload[u].rest # {})
    BY <2>2, NewUploads DEF Then
  <2> QED BY <2>1, <2>2
<1>3. upload' = [v \in Uploads |-> IF v = u THEN Then(u, done)
                                  ELSE [upload[v] EXCEPT !.alone = @ /\ Apart(v)]]
  BY DEF Leave
<1>4. \A v \in Uploads : Apart(v) \in BOOLEAN
  BY DEF Crossing, Built
<1> HIDE DEF Apart
<1>5. ASSUME NEW v \in Uploads, v # u
      PROVE  /\ upload'[v] \in UploadRecords /\ Continues(upload[v], upload'[v])
             /\ upload'[v].alone <=> upload[v].alone /\ Apart(v)
  <2>1. upload[v] \in UploadRecords /\ upload'[v] = [upload[v] EXCEPT !.alone = @ /\ Apart(v)]
    BY <1>1, <1>3, <1>5
  <2> QED BY <1>4, <2>1 DEF UploadRecords, Continues
<1>6. upload'[u] = Then(u, done)
  BY <1>3
<1>7. upload' \in [Uploads -> UploadRecords]
  BY <1>2, <1>3, <1>5
<1> QED BY <1>2, <1>5, <1>6, <1>7 DEF Left, Others, Apart

\* The upload goes on to its next step.
Beside(u) == {v \in Uploads : Crossing(u, v) /\ Built(v, upload[u].date)}
Advances(u, step) ==
    /\ upload' \in [Uploads -> UploadRecords] /\ Others(u)
    /\ upload'[u].kind = upload[u].kind /\ upload'[u].step = step
    /\ upload'[u].date = upload[u].date /\ upload[u].kind # "none"

LEMMA BuildAdvances ==
    ASSUME DriveTyped, NEW u \in Uploads, Build(u), upload[u].date \in Entered
    PROVE  /\ Advances(u, "list") /\ upload'[u].says = Served(upload[u].date)
           /\ upload'[u].keeps = upload[u].keeps /\ (upload'[u].alone <=> Beside(u) = {})
           /\ \A v \in Uploads : v # u => (upload'[v].alone <=> upload[v].alone /\ v \notin Beside(u))
           /\ unsure' = IF Beside(u) = {} THEN unsure ELSE [unsure EXCEPT ![upload[u].date] = "crossed"]
           /\ UNCHANGED <<files, queue, started, faults, vars>>
           /\ UploadAt(u, "build") /\ Turn(u)
<1> DEFINE date == upload[u].date
<1>1. /\ UNCHANGED <<files, queue, started, faults, vars>>
      /\ unsure' = IF Beside(u) = {} THEN unsure ELSE [unsure EXCEPT ![upload[u].date] = "crossed"]
      /\ UploadAt(u, "build") /\ Turn(u)
      /\ upload' = [v \in Uploads |->
                        IF v = u
                        THEN [upload[u] EXCEPT !.step = "list", !.says = Served(date),
                                               !.alone = (Beside(u) = {})]
                        ELSE [upload[v] EXCEPT !.alone = @ /\ v \notin Beside(u)]]
  BY DEF Build, Beside
<1>2. upload \in [Uploads -> UploadRecords] /\ upload[u] \in UploadRecords
  BY DEF DriveTyped, DriveTypes
<1>3. Served(date) \in Contents
  BY <1>2, ServedTypes DEF DriveTyped, RowsInv, Types, UploadRecords
<1>4. /\ upload'[u] \in UploadRecords /\ upload'[u].kind = upload[u].kind
      /\ upload'[u].step = "list" /\ upload'[u].date = date /\ upload'[u].says = Served(date)
      /\ upload'[u].keeps = upload[u].keeps /\ (upload'[u].alone <=> Beside(u) = {})
  <2>1. upload'[u] = [upload[u] EXCEPT !.step = "list", !.says = Served(date),
                                       !.alone = (Beside(u) = {})]
    BY <1>1
  <2> DEFINE apart == Beside(u) = {}
             served == Served(date)
  <2>2. apart \in BOOLEAN /\ served \in Contents
    BY <1>3
  <2>3. upload'[u] = [upload[u] EXCEPT !.step = "list", !.says = served, !.alone = apart]
    BY <2>1
  <2> HIDE DEF apart, served
  <2>4. /\ upload'[u] \in UploadRecords /\ upload'[u].kind = upload[u].kind
        /\ upload'[u].step = "list" /\ upload'[u].date = date /\ upload'[u].says = served
        /\ upload'[u].keeps = upload[u].keeps /\ (upload'[u].alone <=> apart)
    BY <1>2, <2>2, <2>3 DEF UploadRecords, UploadSteps
  <2> QED BY <2>4 DEF apart, served
<1>5. ASSUME NEW v \in Uploads, v # u
      PROVE  /\ upload'[v] \in UploadRecords /\ Continues(upload[v], upload'[v])
             /\ upload'[v].alone <=> upload[v].alone /\ v \notin Beside(u)
  <2>1. upload[v] \in UploadRecords /\ upload'[v] = [upload[v] EXCEPT !.alone = @ /\ v \notin Beside(u)]
    BY <1>1, <1>2, <1>5
  <2> QED BY <2>1 DEF UploadRecords, Continues
<1>6. upload' \in [Uploads -> UploadRecords]
  <2>1. upload' = [v \in Uploads |-> upload'[v]]
    BY <1>1
  <2> QED BY <1>4, <1>5, <2>1
<1> QED BY <1>1, <1>4, <1>5, <1>6 DEF Advances, Others, UploadAt

LEMMA ListAdvances ==
    ASSUME DriveTyped, NEW u \in Uploads, List(u)
    PROVE  /\ Advances(u, "trash") /\ UploadAt(u, "list") /\ upload'[u].says = upload[u].says
           /\ \A v \in Uploads : upload'[v].alone = upload[v].alone
           /\ UNCHANGED <<files, queue, unsure, started, faults, vars>>
           /\ \/ upload'[u].keeps = upload[u].keeps /\ upload'[u].old = files[upload[u].date]
              \/ \E f \in files[upload[u].date] :
                    /\ f.says = upload[u].says /\ upload'[u].keeps
                    /\ upload'[u].old = files[upload[u].date] \ {f}
<1> DEFINE date == upload[u].date
<1>1. upload \in [Uploads -> UploadRecords] /\ upload[u] \in UploadRecords
  BY DEF DriveTyped, DriveTypes
<1>2. files[date] \in SUBSET Files
  BY <1>1 DEF DriveTyped, DriveTypes, UploadRecords
<1>3. ASSUME NEW old \in SUBSET files[date], NEW keeps \in BOOLEAN,
             upload' = [upload EXCEPT ![u] = [@ EXCEPT !.step = "trash", !.old = old, !.keeps = keeps]]
      PROVE  /\ Advances(u, "trash") /\ upload'[u].says = upload[u].says
             /\ \A v \in Uploads : upload'[v].alone = upload[v].alone
             /\ upload'[u].keeps = keeps /\ upload'[u].old = old
  <2>1. [upload[u] EXCEPT !.step = "trash", !.old = old, !.keeps = keeps] \in UploadRecords
    BY <1>1, <1>2 DEF UploadRecords, UploadSteps
  <2>2. /\ upload'[u] = [upload[u] EXCEPT !.step = "trash", !.old = old, !.keeps = keeps]
        /\ \A v \in Uploads : v # u => upload'[v] = upload[v]
        /\ upload' \in [Uploads -> UploadRecords]
    BY <1>1, <1>3, <2>1
  <2> QED BY <1>1, <2>2 DEF Advances, Others, Continues, UploadRecords, List, UploadAt
<1>4. CASE upload' = [upload EXCEPT ![u].step = "trash", ![u].old = files[date]]
  <2>1. upload' = [upload EXCEPT ![u] = [@ EXCEPT !.step = "trash", !.old = files[date],
                                                  !.keeps = upload[u].keeps]]
    <3>1. [upload[u] EXCEPT !.step = "trash", !.old = files[date]]
            = [upload[u] EXCEPT !.step = "trash", !.old = files[date], !.keeps = upload[u].keeps]
      BY <1>1 DEF UploadRecords
    <3> QED BY <1>1, <1>4, <3>1
  <2>2. upload[u].keeps \in BOOLEAN
    BY <1>1 DEF UploadRecords
  <2> QED BY <1>3, <2>1, <2>2 DEF List
<1>5. ASSUME NEW f \in {g \in files[date] : g.says = upload[u].says},
             upload' = [upload EXCEPT ![u].step = "trash", ![u].old = files[date] \ {f}, ![u].keeps = TRUE]
      PROVE  /\ Advances(u, "trash") /\ upload'[u].says = upload[u].says
             /\ \A v \in Uploads : upload'[v].alone = upload[v].alone
             /\ upload'[u].keeps /\ upload'[u].old = files[date] \ {f}
  <2> DEFINE old == files[date] \ {f}
  <2>1. upload' = [upload EXCEPT ![u] = [@ EXCEPT !.step = "trash", !.old = old, !.keeps = TRUE]]
    BY <1>1, <1>5
  <2>2. old \in SUBSET files[date]
    OBVIOUS
  <2> HIDE DEF old
  <2>3. /\ Advances(u, "trash") /\ upload'[u].says = upload[u].says
        /\ \A v \in Uploads : upload'[v].alone = upload[v].alone
        /\ upload'[u].keeps = TRUE /\ upload'[u].old = old
    BY <1>3, <2>1, <2>2
  <2> QED BY <2>3 DEF old
<1> QED BY <1>4, <1>5 DEF List

LEMMA TrashAdvances ==
    ASSUME DriveTyped, NEW u \in Uploads, Trash(u)
    PROVE  /\ Advances(u, "trash") /\ UploadAt(u, "trash") /\ upload'[u].says = upload[u].says
           /\ \A v \in Uploads : upload'[v].alone = upload[v].alone
           /\ UNCHANGED <<queue, unsure, started, faults, vars>> /\ upload'[u].keeps = upload[u].keeps
           /\ files' \in [Dates -> SUBSET Files]
           /\ \A d \in Dates : d # upload[u].date => files'[d] = files[d]
           /\ \E f \in upload[u].old : /\ files'[upload[u].date] = files[upload[u].date] \ {f}
                                       /\ upload'[u].old = upload[u].old \ {f}
<1> DEFINE date == upload[u].date
<1>1. upload \in [Uploads -> UploadRecords] /\ upload[u] \in UploadRecords
      /\ files \in [Dates -> SUBSET Files]
  BY DEF DriveTyped, DriveTypes
<1>2. PICK f \in upload[u].old : /\ files' = [files EXCEPT ![date] = @ \ {f}]
                                /\ upload' = [upload EXCEPT ![u].old = @ \ {f}]
  BY DEF Trash
<1>3. [upload[u] EXCEPT !.old = @ \ {f}] \in UploadRecords
  BY <1>1 DEF UploadRecords
<1>4. /\ upload'[u] = [upload[u] EXCEPT !.old = @ \ {f}]
      /\ \A v \in Uploads : v # u => upload'[v] = upload[v]
      /\ upload' \in [Uploads -> UploadRecords]
  BY <1>1, <1>2, <1>3
<1>5. /\ files' \in [Dates -> SUBSET Files] /\ files'[date] = files[date] \ {f}
      /\ \A d \in Dates : d # date => files'[d] = files[d]
  BY <1>1, <1>2 DEF UploadRecords
<1>6. Advances(u, "trash") /\ upload'[u].says = upload[u].says /\ upload'[u].keeps = upload[u].keeps
      /\ upload'[u].old = upload[u].old \ {f} /\ \A v \in Uploads : upload'[v].alone = upload[v].alone
  BY <1>1, <1>4 DEF Advances, Others, Continues, UploadRecords, Trash, UploadAt
<1> QED BY <1>5, <1>6 DEF Trash

\* The file an upload puts is of its date, and says what it carries.
LEMMA PutPuts ==
    ASSUME DriveTyped, NEW u \in Uploads, Fresh # {}, Put(u)
    PROVE  /\ files' \in [Dates -> SUBSET Files]
           /\ \A d \in Dates : d # upload[u].date => files'[d] = files[d]
           /\ \E f \in Files : f.says = upload[u].says /\ files'[upload[u].date] = files[upload[u].date] \cup {f}
<1> DEFINE new == [id |-> Earliest(Fresh), says |-> upload[u].says]
<1>1. upload[u] \in UploadRecords /\ files \in [Dates -> SUBSET Files]
  BY DEF DriveTyped, DriveTypes
<1>2. Fresh \subseteq FileIds
  BY DEF Fresh
<1>3. Earliest(Fresh) \in FileIds
  BY <1>2, EarliestIsOne, FileIdsAssumption
<1>4. new \in Files /\ new.says = upload[u].says
  BY <1>1, <1>3 DEF Files, UploadRecords
<1> HIDE DEF new
<1>5. files' = [files EXCEPT ![upload[u].date] = @ \cup {new}]
  BY DEF Put, new
<1> QED BY <1>1, <1>4, <1>5 DEF UploadRecords

\* An upload that ends has put its file, kept the one it found, or neither.
Puts(u) ==
    /\ files' \in [Dates -> SUBSET Files]
    /\ \A d \in Dates : d # upload[u].date => files'[d] = files[d]
    /\ \E f \in Files : f.says = upload[u].says /\ files'[upload[u].date] = files[upload[u].date] \cup {f}

LEMMA DoneEnds ==
    ASSUME DriveTyped, NEW u \in Uploads, Done(u)
    PROVE  /\ Left(u, TRUE) /\ UploadAt(u, "trash") /\ upload[u].old = {} /\ Settle(u)
           /\ IF upload[u].keeps THEN files' = files ELSE Puts(u)
           /\ UNCHANGED <<started, faults, vars>>
           /\ queue' = IF upload[u].kind = "asked" THEN [queue EXCEPT ![upload[u].date] = Tail(@)] ELSE queue
BY LeaveLeaves, PutPuts DEF Done, Leave, Puts

LEMMA FailEnds ==
    ASSUME DriveTyped, NEW u \in Uploads, Fail(u)
    PROVE  /\ Left(u, FALSE) /\ upload[u].kind # "none" /\ Turn(u)
           /\ unsure' = [unsure EXCEPT ![upload[u].date] = Doubt(upload[u].date)]
           /\ \/ files' = files
              \/ UploadAt(u, "trash") /\ upload[u].old = {} /\ ~upload[u].keeps /\ Puts(u)
           /\ faults' \in Nat /\ UNCHANGED <<started, vars>>
           /\ queue' = IF upload[u].kind = "asked" THEN [queue EXCEPT ![upload[u].date] = Tail(@)] ELSE queue
<1>1. Leave(u, FALSE) /\ Left(u, FALSE)
  BY LeaveLeaves DEF Fail
<1>2. queue' = IF upload[u].kind = "asked" THEN [queue EXCEPT ![upload[u].date] = Tail(@)] ELSE queue
  BY <1>1 DEF Leave
<1>3. \/ files' = files
      \/ UploadAt(u, "trash") /\ upload[u].old = {} /\ ~upload[u].keeps /\ Puts(u)
  BY PutPuts DEF Fail, Puts
<1>4. faults' \in Nat
  BY DEF Fail, DriveTyped, DriveTypes
<1> QED BY <1>1, <1>2, <1>3, <1>4 DEF Fail

\* Each date of a request gets an upload of its own, the last of its queue.
Asks(dates) == \E ids \in [dates -> Free] :
    /\ \A d, e \in dates : ids[d] = ids[e] => d = e
    /\ \A d \in dates : ids[d] \in Uploads /\ upload'[ids[d]] = NewUpload("asked", d, {})
    /\ \A u \in Uploads : (\A d \in dates : ids[d] # u) => upload'[u] = upload[u]
    /\ queue' = [d \in Dates |-> IF d \in dates THEN Append(queue[d], ids[d]) ELSE queue[d]]

LEMMA NotifyAsks ==
    ASSUME DriveTyped, NEW dates \in SUBSET Dates, scope.drive, Notify(dates)
    PROVE  /\ Asks(dates) /\ upload' \in [Uploads -> UploadRecords] /\ started' \in Nat
           /\ UNCHANGED <<files, unsure, faults>>
<1>1. PICK ids \in [dates -> Free] :
            /\ \A d, e \in dates : ids[d] = ids[e] => d = e
            /\ started' = started + Cardinality(dates)
            /\ upload' = [u \in Uploads |->
                            IF \E d \in dates : ids[d] = u
                            THEN NewUpload("asked", CHOOSE d \in dates : ids[d] = u, {})
                            ELSE upload[u]]
            /\ queue' = [d \in Dates |-> IF d \in dates THEN Append(queue[d], ids[d]) ELSE queue[d]]
            /\ UNCHANGED <<files, unsure, faults>>
  BY DEF Notify
<1>2. Cardinality(dates) \in Nat
  BY FS_Subset, FS_CardinalityType, SomeDatesAssumption
<1>3. ASSUME NEW d \in dates
      PROVE  ids[d] \in Uploads /\ upload'[ids[d]] = NewUpload("asked", d, {})
  <2>1. ids[d] \in Uploads
    BY DEF Free
  <2>2. \A e \in dates : ids[e] = ids[d] => e = d
    BY <1>1
  <2>3. (CHOOSE e \in dates : ids[e] = ids[d]) = d
    BY <2>2
  <2> QED BY <1>1, <2>1, <2>3
<1>4. \A u \in Uploads : (\A d \in dates : ids[d] # u) => upload'[u] = upload[u]
  BY <1>1
<1>5. upload' \in [Uploads -> UploadRecords]
  <2>1. \A d \in dates : NewUpload("asked", d, {}) \in UploadRecords
    BY NewUploads DEF UploadKinds
  <2>2. \A u \in Uploads : upload'[u] \in UploadRecords
    BY <1>3, <1>4, <2>1 DEF DriveTyped, DriveTypes
  <2>3. upload' = [u \in Uploads |-> upload'[u]]
    BY <1>1
  <2> QED BY <2>2, <2>3
<1>6. started' \in Nat
  BY <1>1, <1>2 DEF DriveTyped, DriveTypes
<1>7. Asks(dates)
  BY <1>1, <1>3, <1>4 DEF Asks
<1> QED BY <1>1, <1>5, <1>6, <1>7

LEMMA BackupBegins ==
    ASSUME DriveTyped, NEW u \in Uploads, SaveDailyReports(u)
    PROVE  /\ upload' \in [Uploads -> UploadRecords] /\ started' \in Nat
           /\ upload[u].kind = "none" /\ upload'[u].kind = "backup" /\ Waits(upload'[u])
           /\ \A v \in Uploads : upload[v].kind # "backup" /\ (v # u => upload'[v] = upload[v])
           /\ UNCHANGED <<files, queue, unsure, faults, vars>>
<1>1. PICK latest \in Entered :
        upload' = [upload EXCEPT ![u] = NewUpload("backup", latest, {latest - 1} \cap Dates)]
  BY DEF SaveDailyReports
<1>2. latest \in Dates /\ "backup" \in UploadKinds /\ {latest - 1} \cap Dates \in SUBSET Dates
  BY Slotted DEF Entered, DriveTyped, RowsInv, Types, UploadKinds
<1>3. LET new == NewUpload("backup", latest, {latest - 1} \cap Dates) IN
      new \in UploadRecords /\ new.kind = "backup" /\ Waits(new)
  BY <1>2, NewUploads
<1>4. upload \in [Uploads -> UploadRecords] /\ started \in Nat
  BY DEF DriveTyped, DriveTypes
<1>5. started' \in Nat /\ upload[u].kind = "none" /\ UNCHANGED <<files, queue, unsure, faults, vars>>
      /\ \A v \in Uploads : upload[v].kind # "backup"
  BY <1>4 DEF SaveDailyReports, Free
<1> DEFINE new == NewUpload("backup", latest, {latest - 1} \cap Dates)
<1>6. new \in UploadRecords /\ new.kind = "backup" /\ Waits(new)
  BY <1>3
<1> HIDE DEF new
<1>7. upload' = [upload EXCEPT ![u] = new]
  BY <1>1 DEF new
<1> QED BY <1>4, <1>5, <1>6, <1>7

LEMMA RestartForgets ==
    ASSUME DriveTyped, Restart
    PROVE  /\ upload' \in [Uploads -> UploadRecords] /\ faults' \in Nat
           /\ queue' \in [Dates -> Seq(Uploads)] /\ \A d \in Dates : Len(queue'[d]) = 0
           /\ \A u \in Uploads : upload'[u].kind = "none" /\ Waits(upload'[u])
           /\ \A d \in Dates : \/ unsure'[d] = unsure[d]
                                \/ unsure'[d] = Doubt(d)
           /\ \A u \in Uploads : upload[u].kind # "none" => unsure'[upload[u].date] = Doubt(upload[u].date)
           /\ unsure' \in [Dates -> {"no", "failed", "crossed"}]
           /\ Crash /\ UNCHANGED <<files, started>>
<1>1. upload \in [Uploads -> UploadRecords] /\ unsure \in [Dates -> {"no", "failed", "crossed"}]
      /\ faults \in Nat
  BY DEF DriveTyped, DriveTypes
<1>2. /\ upload' \in [Uploads -> UploadRecords]
      /\ \A u \in Uploads : upload'[u].kind = "none" /\ Waits(upload'[u])
  BY NewUploads DEF Restart
<1>3. queue' \in [Dates -> Seq(Uploads)] /\ \A d \in Dates : Len(queue'[d]) = 0
  BY DEF Restart
<1>4. /\ \A d \in Dates : unsure'[d] \in {unsure[d], Doubt(d)}
      /\ unsure' \in [Dates -> {"no", "failed", "crossed"}]
  BY <1>1 DEF Restart, Doubt
<1>5. ASSUME NEW u \in Uploads, upload[u].kind # "none"
      PROVE  unsure'[upload[u].date] = Doubt(upload[u].date)
  <2>1. upload[u].date \in Dates
    BY <1>1 DEF UploadRecords
  <2>2. \E v \in Uploads : upload[v].kind # "none" /\ upload[u].date \in upload[v].rest \cup {upload[v].date}
    BY <1>5
  <2> QED BY <2>1, <2>2 DEF Restart
<1> QED BY <1>1, <1>2, <1>3, <1>4, <1>5 DEF Restart

-----------------------------------------------------------------------------
(* The queues *)

\* The uploads asked for of a date are in its queue, once each; only the first of
\* them is past its beginning.  One backup runs at a time.
QueuesFit ==
    /\ \A d \in Dates : \A i \in 1..Len(queue[d]) :
        upload[queue[d][i]].kind = "asked" /\ upload[queue[d][i]].date = d
    /\ \A d \in Dates : \A i, j \in 1..Len(queue[d]) : queue[d][i] = queue[d][j] => i = j
    /\ \A u \in Uploads : upload[u].kind = "asked" =>
        \E i \in 1..Len(queue[upload[u].date]) : queue[upload[u].date][i] = u
    /\ \A u \in Uploads : upload[u].kind = "asked" /\ upload[u].step # "build" =>
        Head(queue[upload[u].date]) = u
OneBackup == \A u, v \in Uploads : upload[u].kind = "backup" /\ upload[v].kind = "backup" => u = v
QueueInv == DriveTyped /\ QueuesFit /\ OneBackup

LEMMA QueuesKept ==
    ASSUME QueueInv, queue' = queue,
           \A u \in Uploads :
                /\ upload'[u].kind = "asked" <=> upload[u].kind = "asked"
                /\ upload[u].kind = "asked" => upload'[u].date = upload[u].date
                /\ upload[u].kind = "asked" /\ upload'[u].step # "build" =>
                        upload[u].step # "build" \/ Head(queue[upload[u].date]) = u
    PROVE  QueuesFit'
<1>1. \A d \in Dates : \A i \in 1..Len(queue[d]) : queue[d][i] \in Uploads
  BY DEF QueueInv, DriveTyped, DriveTypes
<1> QED BY <1>1 DEF QueueInv, QueuesFit

LEMMA QueuePopped ==
    ASSUME QueueInv, NEW u \in Uploads, upload[u].kind = "asked", Head(queue[upload[u].date]) = u,
           queue' = [queue EXCEPT ![upload[u].date] = Tail(@)],
           upload'[u].kind = "none", Others(u)
    PROVE  QueuesFit' /\ queue' \in [Dates -> Seq(Uploads)]
<1> DEFINE date == upload[u].date
           q == queue[date]
<1>1. /\ date \in Dates /\ q \in Seq(Uploads) /\ queue \in [Dates -> Seq(Uploads)]
      /\ \A v \in Uploads : upload[v].date \in Dates
  BY DEF QueueInv, DriveTyped, DriveTypes, UploadRecords
<1>2. Len(q) > 0 /\ q[1] = u
  <2>1. \E i \in 1..Len(q) : q[i] = u
    BY DEF QueueInv, QueuesFit
  <2>2. Len(q) > 0
    BY <1>1, <2>1
  <2>3. Head(q) = q[1]
    BY <1>1, <2>2
  <2> QED BY <2>2, <2>3
<1>3. /\ queue'[date] \in Seq(Uploads) /\ Len(queue'[date]) = Len(q) - 1
      /\ \A i \in 1..(Len(q) - 1) : queue'[date][i] = q[i + 1]
      /\ \A d \in Dates : d # date => queue'[d] = queue[d]
      /\ queue' \in [Dates -> Seq(Uploads)]
  <2>1. queue'[date] = Tail(q) /\ \A d \in Dates : d # date => queue'[d] = queue[d]
    BY <1>1
  <2>2. Tail(q) \in Seq(Uploads) /\ Len(Tail(q)) = Len(q) - 1
        /\ \A i \in 1..(Len(q) - 1) : Tail(q)[i] = q[i + 1]
    BY <1>1, <1>2, Popped
  <2>3. queue' \in [Dates -> Seq(Uploads)]
    BY <1>1, <2>2
  <2> QED BY <2>1, <2>2, <2>3
<1>4. /\ \A d \in Dates : \A i \in 1..Len(queue[d]) :
            /\ queue[d][i] \in Uploads
            /\ upload[queue[d][i]].kind = "asked" /\ upload[queue[d][i]].date = d
      /\ \A d \in Dates : \A i, j \in 1..Len(queue[d]) : queue[d][i] = queue[d][j] => i = j
  <2>1. ASSUME NEW d \in Dates, NEW i \in 1..Len(queue[d]) PROVE queue[d][i] \in Uploads
    <3>1. queue[d] \in Seq(Uploads)
      BY <1>1
    <3> QED BY <3>1
  <2>2. QueuesFit
    BY DEF QueueInv
  <2> QED BY <2>1, <2>2 DEF QueuesFit
<1>5. \A i \in 1..(Len(q) - 1) : i + 1 \in 1..Len(q) /\ q[i + 1] # u
  <2>1. Len(q) \in Nat /\ \A i \in 1..(Len(q) - 1) : i + 1 \in 1..Len(q) /\ 1 \in 1..Len(q) /\ i + 1 # 1
    BY <1>1
  <2> QED BY <1>1, <1>2, <1>4, <2>1
<1>6. \A d \in Dates : \A i \in 1..Len(queue'[d]) :
        queue'[d][i] \in Uploads /\ queue'[d][i] # u
            /\ upload[queue'[d][i]].kind = "asked" /\ upload[queue'[d][i]].date = d
  <2>1. ASSUME NEW i \in 1..Len(queue'[date])
        PROVE  queue'[date][i] \in Uploads /\ queue'[date][i] # u
                /\ upload[queue'[date][i]].kind = "asked" /\ upload[queue'[date][i]].date = date
    <3>1. queue'[date][i] = q[i + 1] /\ i + 1 \in 1..Len(q) /\ q[i + 1] # u
      BY <1>3, <1>5, <2>1
    <3> QED BY <1>1, <1>4, <3>1
  <2>2. ASSUME NEW d \in Dates, d # date, NEW i \in 1..Len(queue[d])
        PROVE  queue[d][i] # u
    BY <1>4, <2>2
  <2> QED BY <1>3, <1>4, <2>1, <2>2
<1>7. \A d \in Dates : \A i, j \in 1..Len(queue'[d]) : queue'[d][i] = queue'[d][j] => i = j
  <2>1. ASSUME NEW i \in 1..(Len(q) - 1), NEW j \in 1..(Len(q) - 1), q[i + 1] = q[j + 1]
        PROVE  i = j
    <3>1. i + 1 = j + 1
      BY <1>1, <1>4, <1>5, <2>1
    <3> QED BY <1>1, <3>1
  <2> QED BY <1>3, <1>4, <2>1
<1>8. ASSUME NEW v \in Uploads, upload'[v].kind = "asked"
      PROVE  /\ upload'[v].date = upload[v].date /\ upload'[v].step = upload[v].step
             /\ v # u /\ upload[v].kind = "asked"
             /\ \E i \in 1..Len(queue'[upload[v].date]) : queue'[upload[v].date][i] = v
             /\ upload[v].date = date => upload[v].step = "build"
  <2>1. v # u
    BY <1>8
  <2>2. /\ upload'[v].date = upload[v].date /\ upload'[v].step = upload[v].step
        /\ upload[v].kind = "asked"
    BY <1>8, <2>1 DEF Others, Continues
  <2>3. PICK i \in 1..Len(queue[upload[v].date]) : queue[upload[v].date][i] = v
    BY <2>2 DEF QueueInv, QueuesFit
  <2>4. CASE upload[v].date = date
    <3>1. i # 1
      BY <1>2, <2>1, <2>3, <2>4
    <3>2. i - 1 \in 1..(Len(q) - 1) /\ (i - 1) + 1 = i
      BY <1>1, <2>3, <2>4, <3>1
    <3>3. queue'[date][i - 1] = v
      BY <1>3, <2>3, <2>4, <3>2
    <3>4. upload[v].step = "build"
      BY <2>1, <2>2, <2>4 DEF QueueInv, QueuesFit
    <3> QED BY <1>3, <2>1, <2>2, <2>4, <3>2, <3>3, <3>4
  <2>5. CASE upload[v].date # date
    BY <1>1, <1>3, <2>1, <2>2, <2>3, <2>5
  <2> QED BY <2>4, <2>5
<1>9. QueuesFit'
  <2>1. \A d \in Dates : \A i \in 1..Len(queue'[d]) :
            upload'[queue'[d][i]].kind = "asked" /\ upload'[queue'[d][i]].date = d
    <3>1. \A v \in Uploads : v # u => upload'[v].kind = upload[v].kind /\ upload'[v].date = upload[v].date
      BY DEF Others, Continues
    <3>2. ASSUME NEW d \in Dates, NEW i \in 1..Len(queue'[d])
          PROVE  upload'[queue'[d][i]].kind = "asked" /\ upload'[queue'[d][i]].date = d
      <4> DEFINE v == queue'[d][i]
      <4>1. v \in Uploads /\ v # u /\ upload[v].kind = "asked" /\ upload[v].date = d
        BY <1>6, <3>2
      <4> HIDE DEF v
      <4>2. upload'[v].kind = "asked" /\ upload'[v].date = d
        BY <3>1, <4>1
      <4> QED BY <4>2 DEF v
    <3> QED BY <3>2
  <2>2. \A v \in Uploads : upload'[v].kind = "asked" =>
            \E i \in 1..Len(queue'[upload'[v].date]) : queue'[upload'[v].date][i] = v
    BY <1>8
  <2>3. ASSUME NEW v \in Uploads, upload'[v].kind = "asked", upload'[v].step # "build"
        PROVE  Head(queue'[upload'[v].date]) = v
    <3>1. /\ upload[v].kind = "asked" /\ upload[v].step # "build" /\ upload[v].date # date
          /\ upload'[v].date = upload[v].date
      BY <1>8, <2>3
    <3>2. Head(queue[upload[v].date]) = v
      BY <3>1 DEF QueueInv, QueuesFit
    <3> QED BY <1>1, <1>3, <3>1, <3>2
  <2> QED BY <1>7, <2>1, <2>2, <2>3 DEF QueuesFit
<1> QED BY <1>3, <1>9

LEMMA QueuesExtended ==
    ASSUME QueueInv, NEW dates \in SUBSET Dates, Asks(dates)
    PROVE  QueuesFit' /\ queue' \in [Dates -> Seq(Uploads)]
<1>1. PICK ids \in [dates -> Free] :
        /\ \A d, e \in dates : ids[d] = ids[e] => d = e
        /\ \A d \in dates : ids[d] \in Uploads /\ upload'[ids[d]] = NewUpload("asked", d, {})
        /\ \A u \in Uploads : (\A d \in dates : ids[d] # u) => upload'[u] = upload[u]
        /\ queue' = [d \in Dates |-> IF d \in dates THEN Append(queue[d], ids[d]) ELSE queue[d]]
  BY DEF Asks
<1>2. /\ queue \in [Dates -> Seq(Uploads)] /\ \A u \in Uploads : upload[u].date \in Dates
      /\ \A d \in dates : upload[ids[d]].kind = "none"
  BY DEF QueueInv, DriveTyped, DriveTypes, UploadRecords, Free
<1>3. ASSUME NEW d \in dates
      PROVE  /\ queue'[d] \in Seq(Uploads) /\ Len(queue'[d]) = Len(queue[d]) + 1
             /\ \A i \in 1..Len(queue[d]) : queue'[d][i] = queue[d][i]
             /\ queue'[d][Len(queue[d]) + 1] = ids[d]
  <2>1. queue'[d] = Append(queue[d], ids[d]) /\ queue[d] \in Seq(Uploads) /\ ids[d] \in Uploads
    BY <1>1, <1>2
  <2> QED BY <2>1, Appended
<1>4. \A d \in Dates : d \notin dates => queue'[d] = queue[d]
  BY <1>1
<1>5. queue' \in [Dates -> Seq(Uploads)]
  BY <1>1, <1>2, <1>3
<1>6. \A d \in dates : LET u == ids[d] IN
        upload'[u].kind = "asked" /\ upload'[u].date = d /\ upload'[u].step = "build"
  <2>1. ASSUME NEW d \in dates PROVE LET new == NewUpload("asked", d, {}) IN
            new.kind = "asked" /\ new.date = d /\ new.step = "build"
    BY DEF NewUpload
  <2> QED BY <1>1, <2>1
<1>7. \A d \in Dates : \A i \in 1..Len(queue[d]) :
        /\ queue[d][i] \in Uploads /\ \A e \in dates : ids[e] # queue[d][i]
        /\ upload'[queue[d][i]] = upload[queue[d][i]]
        /\ upload[queue[d][i]].kind = "asked" /\ upload[queue[d][i]].date = d
  <2>1. ASSUME NEW d \in Dates, NEW i \in 1..Len(queue[d])
        PROVE  queue[d][i] \in Uploads /\ upload[queue[d][i]].kind = "asked" /\ upload[queue[d][i]].date = d
    BY <1>2 DEF QueueInv, QueuesFit
  <2> QED BY <1>1, <1>2, <2>1
<1>8. ASSUME NEW d \in Dates, NEW i \in 1..Len(queue'[d])
      PROVE  \/ i \in 1..Len(queue[d]) /\ queue'[d][i] = queue[d][i]
             \/ d \in dates /\ i = Len(queue[d]) + 1 /\ queue'[d][i] = ids[d]
  <2>1. Len(queue[d]) \in Nat
    BY <1>2
  <2> QED BY <1>3, <1>4, <2>1
<1>9. QueuesFit'
  <2>1. \A d \in Dates : \A i \in 1..Len(queue'[d]) :
            upload'[queue'[d][i]].kind = "asked" /\ upload'[queue'[d][i]].date = d
    BY <1>6, <1>7, <1>8
  <2>2. ASSUME NEW d \in Dates, NEW i \in 1..Len(queue'[d]), NEW j \in 1..Len(queue'[d]),
               queue'[d][i] = queue'[d][j]
        PROVE  i = j
    <3>1. /\ \/ i \in 1..Len(queue[d]) /\ queue'[d][i] = queue[d][i]
             \/ d \in dates /\ i = Len(queue[d]) + 1 /\ queue'[d][i] = ids[d]
          /\ \/ j \in 1..Len(queue[d]) /\ queue'[d][j] = queue[d][j]
             \/ d \in dates /\ j = Len(queue[d]) + 1 /\ queue'[d][j] = ids[d]
      BY <1>8
    <3>2. \A k, l \in 1..Len(queue[d]) : queue[d][k] = queue[d][l] => k = l
      BY DEF QueueInv, QueuesFit
    <3> QED BY <1>7, <2>2, <3>1, <3>2
  <2>3. ASSUME NEW v \in Uploads, upload'[v].kind = "asked"
        PROVE  /\ \E i \in 1..Len(queue'[upload'[v].date]) : queue'[upload'[v].date][i] = v
               /\ upload'[v].step # "build" => Head(queue'[upload'[v].date]) = v
    <3>1. CASE \E d \in dates : ids[d] = v
      <4>1. PICK d \in dates : ids[d] = v
        BY <3>1
      <4>2. Len(queue[d]) \in Nat
        BY <1>2
      <4>3. Len(queue[d]) + 1 \in 1..Len(queue'[d]) /\ queue'[d][Len(queue[d]) + 1] = v
        BY <1>3, <4>1, <4>2
      <4>4. upload'[v].date = d /\ upload'[v].step = "build"
        BY <1>6, <4>1
      <4> QED BY <4>3, <4>4
    <3>2. CASE \A d \in dates : ids[d] # v
      <4> DEFINE d == upload[v].date
      <4>1. upload'[v] = upload[v] /\ upload[v].kind = "asked" /\ d \in Dates
        BY <1>1, <1>2, <2>3, <3>2
      <4>2. PICK i \in 1..Len(queue[d]) : queue[d][i] = v
        BY <4>1 DEF QueueInv, QueuesFit
      <4>3. Len(queue[d]) \in Nat /\ queue'[d] \in Seq(Uploads) /\ queue[d] \in Seq(Uploads)
        BY <1>2, <1>5, <4>1
      <4>4. i \in 1..Len(queue'[d]) /\ queue'[d][i] = queue[d][i] /\ queue'[d][1] = queue[d][1]
        <5>1. CASE d \in dates
          <6>1. 1 \in 1..Len(queue[d]) /\ i \in 1..(Len(queue[d]) + 1)
            BY <4>2, <4>3
          <6> QED BY <1>3, <4>2, <5>1, <6>1
        <5>2. CASE d \notin dates
          BY <1>4, <4>1, <4>2, <5>2
        <5> QED BY <5>1, <5>2
      <4>5. Head(queue'[d]) = queue'[d][1] /\ Head(queue[d]) = queue[d][1]
        BY <4>2, <4>3, <4>4
      <4>6. upload[v].step # "build" => Head(queue[d]) = v
        BY <4>1 DEF QueueInv, QueuesFit
      <4> QED BY <4>1, <4>2, <4>4, <4>5, <4>6
    <3> QED BY <3>1, <3>2
  <2> QED BY <2>1, <2>2, <2>3 DEF QueuesFit
<1> QED BY <1>5, <1>9

LEMMA AdvanceKeepsQueues ==
    ASSUME QueueInv, NEW u \in Uploads, NEW step, Advances(u, step), queue' = queue,
           upload[u].step # "build" \/ Turn(u)
    PROVE  QueuesFit' /\ OneBackup'
<1>1. \A v \in Uploads : /\ upload'[v].kind = upload[v].kind /\ upload'[v].date = upload[v].date
                         /\ v # u => upload'[v].step = upload[v].step
  BY DEF Advances, Others, Continues
<1>2. upload[u].kind = "asked" => upload[u].step # "build" \/ Head(queue[upload[u].date]) = u
  BY DEF Turn
<1>3. OneBackup'
  BY <1>1 DEF QueueInv, OneBackup
<1> QED BY <1>1, <1>2, <1>3, QueuesKept

LEMMA LeaveKeepsQueues ==
    ASSUME QueueInv, NEW u \in Uploads, NEW done, Left(u, done),
           upload[u].kind # "none", upload[u].step # "build" \/ Turn(u),
           queue' = IF upload[u].kind = "asked" THEN [queue EXCEPT ![upload[u].date] = Tail(@)] ELSE queue
    PROVE  QueuesFit' /\ OneBackup' /\ queue' \in [Dates -> Seq(Uploads)]
<1>1. /\ \A v \in Uploads : v # u => /\ upload'[v].kind = upload[v].kind /\ upload'[v].date = upload[v].date
                                      /\ upload'[v].step = upload[v].step
      /\ upload'[u].kind = "none" \/ (upload'[u].kind = "backup" /\ upload[u].kind = "backup")
      /\ Others(u) /\ queue \in [Dates -> Seq(Uploads)]
  BY DEF Left, Others, Continues, QueueInv, DriveTyped, DriveTypes
<1>2. OneBackup'
  BY <1>1 DEF QueueInv, OneBackup
<1>3. CASE upload[u].kind = "asked"
  <2>1. Head(queue[upload[u].date]) = u
    BY <1>3 DEF Turn, QueueInv, QueuesFit
  <2> QED BY <1>1, <1>2, <1>3, <2>1, QueuePopped
<1>4. CASE upload[u].kind # "asked"
  BY <1>1, <1>2, <1>4, QueuesKept
<1> QED BY <1>3, <1>4

-----------------------------------------------------------------------------
(* Every step keeps the types and the queues *)

LEMMA DriveStepsAreDaySteps == [DriveNext]_allVars => [Next]_vars
<1>1. Restart => Crash
  BY DEF Restart
<1>2. \A u \in Uploads : SaveDailyReports(u) \/ Progress(u) \/ Fail(u) => UNCHANGED vars
  BY DEF SaveDailyReports, Progress, Build, List, Trash, Done, Fail
<1>3. \A date \in Dates : Generate(date) => UNCHANGED vars
  BY DEF Generate
<1>4. UNCHANGED allVars => UNCHANGED vars
  BY DEF allVars
<1> QED BY <1>1, <1>2, <1>3, <1>4 DEF DriveNext, Next

\* What a step is to the uploads.
DriveStep ==
    \/ UNCHANGED driveVars
    \/ \E dates \in SUBSET Dates : scope.drive /\ Notify(dates)
    \/ \E u \in Uploads : SaveDailyReports(u) \/ Progress(u) \/ Fail(u)
    \/ Restart

LEMMA DriveStepsAre ==
    ASSUME RowsInv, [DriveNext]_allVars
    PROVE  DriveStep
<1>1. ASSUME NEW dates \in SUBSET Dates, Notify(dates) PROVE DriveStep
  BY <1>1 DEF Notify, DriveStep
<1>2. ASSUME NEW w \in Workers, Resave(w) PROVE {Earliest(op[w].todo)} \in SUBSET Dates
  <2>1. op[w].todo \in SUBSET Dates /\ op[w].todo # {}
    BY <1>2 DEF Resave, At, RowsInv, RowsFit, WorkFits, Types, TypeOK, Op
  <2> QED BY <2>1, EarliestIsOne, DatesAssumption
<1>3. \A w \in Workers : Saved(w) \in SUBSET Dates
  BY DEF Saved
<1>4. \A date \in Dates : Generate(date) => Notify({date}) /\ {date} \in SUBSET Dates
  BY DEF Generate
<1>5. UNCHANGED allVars => UNCHANGED driveVars
  BY DEF allVars
<1> QED BY <1>1, <1>2, <1>3, <1>4, <1>5 DEF DriveNext, DriveStep

LEMMA StepKeepsQueues ==
    ASSUME QueueInv, DriveStep
    PROVE  DriveTypes' /\ QueuesFit' /\ OneBackup'
<1>0. /\ DriveTyped /\ files \in [Dates -> SUBSET Files] /\ queue \in [Dates -> Seq(Uploads)]
      /\ unsure \in [Dates -> {"no", "failed", "crossed"}] /\ started \in Nat /\ faults \in Nat
      /\ upload \in [Uploads -> UploadRecords]
  BY DEF QueueInv, DriveTyped, DriveTypes
<1>1. CASE UNCHANGED driveVars
  BY <1>1 DEF driveVars, QueueInv, DriveTyped, DriveTypes, QueuesFit, OneBackup
<1>2. ASSUME NEW dates \in SUBSET Dates, scope.drive, Notify(dates)
      PROVE  DriveTypes' /\ QueuesFit' /\ OneBackup'
  <2>1. /\ Asks(dates) /\ upload' \in [Uploads -> UploadRecords] /\ started' \in Nat
        /\ UNCHANGED <<files, unsure, faults>>
    BY <1>0, <1>2, NotifyAsks
  <2>2. QueuesFit' /\ queue' \in [Dates -> Seq(Uploads)]
    BY <2>1, QueuesExtended
  <2>3. \A v \in Uploads : upload'[v].kind = "backup" => upload[v].kind = "backup"
    <3>1. PICK ids \in [dates -> Free] :
            /\ \A d \in dates : ids[d] \in Uploads /\ upload'[ids[d]] = NewUpload("asked", d, {})
            /\ \A u \in Uploads : (\A d \in dates : ids[d] # u) => upload'[u] = upload[u]
      BY <2>1 DEF Asks
    <3>2. \A d : NewUpload("asked", d, {}).kind = "asked"
      BY DEF NewUpload
    <3> QED BY <3>1, <3>2
  <2> QED BY <1>0, <2>1, <2>2, <2>3 DEF DriveTypes, QueueInv, OneBackup
<1>3. ASSUME NEW u \in Uploads, SaveDailyReports(u)
      PROVE  DriveTypes' /\ QueuesFit' /\ OneBackup'
  <2>1. /\ upload' \in [Uploads -> UploadRecords] /\ started' \in Nat
        /\ upload[u].kind = "none" /\ upload'[u].kind = "backup"
        /\ \A v \in Uploads : upload[v].kind # "backup" /\ (v # u => upload'[v] = upload[v])
        /\ UNCHANGED <<files, queue, unsure, faults, vars>>
    BY <1>0, <1>3, BackupBegins
  <2>2. QueuesFit'
    BY <2>1, QueuesKept
  <2> QED BY <1>0, <2>1, <2>2 DEF DriveTypes, OneBackup
<1>4. ASSUME NEW u \in Uploads, Build(u) PROVE DriveTypes' /\ QueuesFit' /\ OneBackup'
  <2>1. CASE upload[u].date \in Entered
    <3>1. /\ Advances(u, "list") /\ Turn(u) /\ UNCHANGED <<files, queue, started, faults>>
          /\ unsure' = IF Beside(u) = {} THEN unsure ELSE [unsure EXCEPT ![upload[u].date] = "crossed"]
      BY <1>0, <1>4, <2>1, BuildAdvances
    <3>2. unsure' \in [Dates -> {"no", "failed", "crossed"}]
      BY <1>0, <3>1
    <3> QED BY <1>0, <3>1, <3>2, AdvanceKeepsQueues DEF DriveTypes, Advances
  <2>2. CASE upload[u].date \notin Entered
    <3>1. Leave(u, TRUE) /\ UNCHANGED <<files, unsure, started, faults>> /\ Turn(u) /\ upload[u].kind # "none"
      BY <1>4, <2>2 DEF Build, UploadAt
    <3>2. Left(u, TRUE)
      BY <1>0, <3>1, LeaveLeaves
    <3>3. queue' = IF upload[u].kind = "asked" THEN [queue EXCEPT ![upload[u].date] = Tail(@)] ELSE queue
      BY <3>1 DEF Leave
    <3>4. QueuesFit' /\ OneBackup' /\ queue' \in [Dates -> Seq(Uploads)]
      BY <3>1, <3>2, <3>3, LeaveKeepsQueues
    <3> QED BY <1>0, <3>1, <3>2, <3>4 DEF DriveTypes, Left
  <2> QED BY <2>1, <2>2
<1>5. ASSUME NEW u \in Uploads, List(u) PROVE DriveTypes' /\ QueuesFit' /\ OneBackup'
  <2>1. /\ Advances(u, "trash") /\ upload[u].step # "build"
        /\ UNCHANGED <<files, queue, unsure, started, faults>>
    BY <1>0, <1>5, ListAdvances DEF UploadAt
  <2> QED BY <1>0, <2>1, AdvanceKeepsQueues DEF DriveTypes, Advances
<1>6. ASSUME NEW u \in Uploads, Trash(u) PROVE DriveTypes' /\ QueuesFit' /\ OneBackup'
  <2>1. /\ Advances(u, "trash") /\ upload[u].step # "build" /\ files' \in [Dates -> SUBSET Files]
        /\ UNCHANGED <<queue, unsure, started, faults>>
    BY <1>0, <1>6, TrashAdvances DEF UploadAt
  <2> QED BY <1>0, <2>1, AdvanceKeepsQueues DEF DriveTypes, Advances
<1>7. ASSUME NEW u \in Uploads, Done(u) PROVE DriveTypes' /\ QueuesFit' /\ OneBackup'
  <2>1. /\ Left(u, TRUE) /\ upload[u].kind # "none" /\ upload[u].step # "build" /\ Settle(u)
        /\ files' \in [Dates -> SUBSET Files] /\ UNCHANGED <<started, faults>>
        /\ queue' = IF upload[u].kind = "asked" THEN [queue EXCEPT ![upload[u].date] = Tail(@)] ELSE queue
    BY <1>0, <1>7, DoneEnds DEF UploadAt, Puts
  <2>2. QueuesFit' /\ OneBackup' /\ queue' \in [Dates -> Seq(Uploads)]
    BY <2>1, LeaveKeepsQueues
  <2>3. unsure' \in [Dates -> {"no", "failed", "crossed"}]
    BY <1>0, <2>1 DEF Settle
  <2> QED BY <1>0, <2>1, <2>2, <2>3 DEF DriveTypes, Left
<1>8. ASSUME NEW u \in Uploads, Fail(u) PROVE DriveTypes' /\ QueuesFit' /\ OneBackup'
  <2>1. /\ Left(u, FALSE) /\ upload[u].kind # "none" /\ Turn(u)
        /\ unsure' = [unsure EXCEPT ![upload[u].date] = Doubt(upload[u].date)]
        /\ files' \in [Dates -> SUBSET Files] /\ faults' \in Nat /\ UNCHANGED started
        /\ queue' = IF upload[u].kind = "asked" THEN [queue EXCEPT ![upload[u].date] = Tail(@)] ELSE queue
    BY <1>0, <1>8, FailEnds DEF Puts
  <2>2. QueuesFit' /\ OneBackup' /\ queue' \in [Dates -> Seq(Uploads)]
    BY <2>1, LeaveKeepsQueues
  <2>3. unsure' \in [Dates -> {"no", "failed", "crossed"}]
    BY <1>0, <2>1 DEF Doubt
  <2> QED BY <1>0, <2>1, <2>2, <2>3 DEF DriveTypes, Left
<1>9. CASE Restart
  <2>1. /\ upload' \in [Uploads -> UploadRecords] /\ faults' \in Nat
        /\ queue' \in [Dates -> Seq(Uploads)] /\ \A d \in Dates : Len(queue'[d]) = 0
        /\ \A u \in Uploads : upload'[u].kind = "none"
        /\ unsure' \in [Dates -> {"no", "failed", "crossed"}] /\ UNCHANGED <<files, started>>
    BY <1>0, <1>9, RestartForgets
  <2>2. QueuesFit'
    BY <2>1 DEF QueuesFit
  <2> QED BY <1>0, <2>1, <2>2 DEF DriveTypes, OneBackup
<1> QED BY <1>1, <1>2, <1>3, <1>4, <1>5, <1>6, <1>7, <1>8, <1>9 DEF DriveStep, Progress

LEMMA NextKeepsQueues ==
    ASSUME QueueInv, [DriveNext]_allVars
    PROVE  QueueInv'
BY DriveStepsAreDaySteps, NextKeepsRows, DriveStepsAre, StepKeepsQueues DEF QueueInv, DriveTyped

LEMMA InitQueues == DriveInit => QueueInv
<1> SUFFICES ASSUME DriveInit PROVE QueueInv
  OBVIOUS
<1>1. RowsInv
  BY InitRows DEF DriveInit
<1>2. DriveTypes
  BY NewUploads DEF DriveInit, DriveTypes
<1>3. QueuesFit /\ OneBackup
  BY NewUploads DEF DriveInit, QueuesFit, OneBackup
<1> QED BY <1>1, <1>2, <1>3 DEF QueueInv, DriveTyped

\* Every variable keeps its type, and an upload that was asked for is in a queue
\* exactly while it has not ended (drive.service.ts, inDayOrder), for any number
\* of requests and of uploads at once.
THEOREM DriveTypeCorrect == DriveSpec => []DriveTypeOK
<1>1. DriveInit /\ [][DriveNext]_allVars => []QueueInv
  BY InitQueues, NextKeepsQueues, PTL
<1>2. QueueInv => DriveTypeOK
  <2> SUFFICES ASSUME QueueInv PROVE DriveTypeOK
    OBVIOUS
  <2>1. ASSUME NEW u \in Uploads
        PROVE  (upload[u].kind = "asked") = \E date \in Dates : \E i \in DOMAIN queue[date] : queue[date][i] = u
    <3>1. \A d \in Dates : DOMAIN queue[d] = 1..Len(queue[d])
      BY DEF QueueInv, DriveTyped, DriveTypes
    <3>2. upload[u].date \in Dates
      BY DEF QueueInv, DriveTyped, DriveTypes, UploadRecords
    <3>3. upload[u].kind = "asked" => \E date \in Dates : \E i \in DOMAIN queue[date] : queue[date][i] = u
      BY <3>1, <3>2 DEF QueueInv, QueuesFit
    <3>4. ASSUME NEW date \in Dates, NEW i \in DOMAIN queue[date], queue[date][i] = u
          PROVE  upload[u].kind = "asked"
      BY <3>1, <3>4 DEF QueueInv, QueuesFit
    <3> QED BY <3>3, <3>4
  <2> QED BY <2>1 DEF DriveTypeOK, QueueInv, DriveTyped, DriveTypes, RowsInv, Types
<1> QED BY <1>1, <1>2, PTL DEF DriveSpec

-----------------------------------------------------------------------------
(* One file of a date *)

\* Uploads past their beginning run beside each other only where it is known that
\* they crossed.  Any other one knows the files of its date: once listed, they are
\* those it is to trash and the one it keeps; and while none crossed, there is at
\* most one.
Sure(u) == upload[u].alone \/ unsure[upload[u].date] # "crossed"
Holds(u) ==
    LET there == files[upload[u].date] IN
    IF upload[u].keeps
    THEN \E f \in there \ upload[u].old : there = upload[u].old \cup {f} /\ f.says = upload[u].says
    ELSE there = upload[u].old
BesideIsKnown == \A u, v \in Uploads : \A d \in Dates :
    Built(u, d) /\ Built(v, d) /\ u # v => ~upload[u].alone /\ unsure[d] = "crossed"
ListHolds == \A u \in Uploads : UploadAt(u, "trash") /\ Sure(u) => Holds(u)
SingleFiles == \A d \in Dates : unsure[d] # "crossed" => \A f, g \in files[d] : f = g
DoubtIsKnown == \A u \in Uploads : \A d \in Dates : Built(u, d) /\ ~upload[u].alone => unsure[d] # "no"
LooksFirst == \A u \in Uploads : upload[u].step \in {"build", "list"} => ~upload[u].keeps
FilesFit == BesideIsKnown /\ ListHolds /\ SingleFiles /\ DoubtIsKnown /\ LooksFirst
FilesInv == QueueInv /\ FilesFit

\* Steps that leave the files, and doubt at most more.
LEMMA FilesKept ==
    ASSUME FilesInv, files' = files,
           \A v \in Uploads : Waits(upload'[v]) \/ Continues(upload[v], upload'[v]),
           \A d \in Dates : /\ unsure[d] = "crossed" => unsure'[d] = "crossed"
                            /\ unsure[d] # "no" => unsure'[d] # "no",
           \A v \in Uploads : \A d \in Dates :
                /\ Built(v, d) /\ Continues(upload[v], upload'[v])
                /\ upload[v].alone /\ ~upload'[v].alone
                => unsure'[d] # "no"
    PROVE  FilesFit'
<1>1. \A v \in Uploads : upload[v].date \in Dates
  BY DEF FilesInv, QueueInv, DriveTyped, DriveTypes, UploadRecords
<1>2. \A v \in Uploads : \A d \in Dates : Built(v, d)' => Built(v, d) /\ Continues(upload[v], upload'[v])
  BY DEF Built, Waits, Continues
<1>3. BesideIsKnown'
  BY <1>2 DEF FilesInv, FilesFit, BesideIsKnown, Continues
<1>4. ListHolds'
  <2>1. ASSUME NEW v \in Uploads, UploadAt(v, "trash")', Sure(v)' PROVE Holds(v)'
    <3>1. Continues(upload[v], upload'[v])
      BY <2>1 DEF UploadAt, Waits
    <3>2. UploadAt(v, "trash") /\ Sure(v)
      BY <1>1, <2>1, <3>1 DEF Continues, Sure, UploadAt
    <3>3. Holds(v)
      BY <3>2 DEF FilesInv, FilesFit, ListHolds
    <3> QED BY <3>1, <3>3 DEF Continues, Holds
  <2> QED BY <2>1 DEF ListHolds
<1>5. SingleFiles'
  BY DEF FilesInv, FilesFit, SingleFiles
<1>6. DoubtIsKnown'
  BY <1>2 DEF FilesInv, FilesFit, DoubtIsKnown
<1>7. LooksFirst'
  BY DEF FilesInv, FilesFit, LooksFirst, Waits, Continues
<1> QED BY <1>3, <1>4, <1>5, <1>6, <1>7 DEF FilesFit

\* Two uploads of a date that are past their beginning: one is a backup's.
LEMMA BesideCross ==
    ASSUME QueueInv, NEW u \in Uploads, NEW v \in Uploads, u # v,
           upload[u].kind # "none", upload[u].step # "build" \/ Turn(u), Built(v, upload[u].date)
    PROVE  v \in Beside(u)
<1>1. upload[u].kind \in UploadKinds /\ upload[v].kind \in UploadKinds
  BY DEF QueueInv, DriveTyped, DriveTypes, UploadRecords
<1>2. ~(upload[u].kind = "backup" /\ upload[v].kind = "backup")
  BY DEF QueueInv, OneBackup
<1>3. ~(upload[u].kind = "asked" /\ upload[v].kind = "asked")
  BY DEF QueueInv, QueuesFit, Built, Turn
<1>4. upload[v].kind # "none"
  BY DEF Built
<1> QED BY <1>1, <1>2, <1>3, <1>4 DEF Beside, Crossing, UploadKinds

LEMMA BuildKeepsFiles ==
    ASSUME FilesInv, NEW u \in Uploads, Build(u), upload[u].date \in Entered
    PROVE  FilesFit'
<1> DEFINE date == upload[u].date
<1>1. /\ Advances(u, "list") /\ upload'[u].keeps = upload[u].keeps
      /\ upload'[u].alone <=> Beside(u) = {}
      /\ \A v \in Uploads : v # u => (upload'[v].alone <=> upload[v].alone /\ v \notin Beside(u))
      /\ unsure' = IF Beside(u) = {} THEN unsure ELSE [unsure EXCEPT ![date] = "crossed"]
      /\ files' = files /\ UploadAt(u, "build") /\ Turn(u)
  BY BuildAdvances DEF FilesInv, QueueInv
<1>2. /\ date \in Dates /\ \A v \in Uploads : upload[v].date \in Dates
      /\ unsure \in [Dates -> {"no", "failed", "crossed"}]
  BY DEF FilesInv, QueueInv, DriveTyped, DriveTypes, UploadRecords
<1>3. /\ \A d \in Dates : unsure'[d] = IF d = date /\ Beside(u) # {} THEN "crossed" ELSE unsure[d]
      /\ \A v \in Uploads : v # u => Continues(upload[v], upload'[v])
      /\ upload'[u].date = date /\ upload'[u].step = "list"
  BY <1>1, <1>2 DEF Advances, Others
<1>4. ASSUME NEW v \in Uploads, v # u, NEW d \in Dates, d = date, Built(v, d)'
      PROVE  v \in Beside(u) /\ ~upload'[v].alone /\ ~upload'[u].alone /\ unsure'[date] = "crossed"
  <2>1. Built(v, date)
    BY <1>3, <1>4 DEF Built, Continues
  <2>2. v \in Beside(u)
    BY <1>1, <1>4, <2>1, BesideCross DEF FilesInv, UploadAt
  <2> QED BY <1>1, <1>2, <1>3, <1>4, <2>2
<1>5. \A v \in Uploads : \A d \in Dates : v # u /\ Built(v, d)' => Built(v, d)
  BY <1>3 DEF Built, Continues
<1>6. BesideIsKnown'
  <2> SUFFICES ASSUME NEW v \in Uploads, NEW x \in Uploads, NEW d \in Dates,
                      Built(v, d)', Built(x, d)', v # x
               PROVE  ~upload'[v].alone /\ unsure'[d] = "crossed"
    BY DEF BesideIsKnown
  <2>1. CASE v = u \/ x = u
    <3>1. d = date
      BY <1>3, <2>1 DEF Built
    <3> QED BY <1>4, <2>1, <3>1
  <2>2. CASE v # u /\ x # u
    <3>1. ~upload[v].alone /\ unsure[d] = "crossed"
      BY <1>5, <2>2 DEF FilesInv, FilesFit, BesideIsKnown
    <3> QED BY <1>1, <1>3, <2>2, <3>1
  <2> QED BY <2>1, <2>2
<1>7. ListHolds'
  <2>1. ASSUME NEW v \in Uploads, UploadAt(v, "trash")', Sure(v)' PROVE Holds(v)'
    <3>1. v # u
      BY <1>3, <2>1 DEF UploadAt
    <3>2. Continues(upload[v], upload'[v])
      BY <1>3, <3>1
    <3>3. UploadAt(v, "trash") /\ Sure(v)
      BY <1>2, <1>3, <2>1, <3>2 DEF Continues, Sure, UploadAt
    <3>4. Holds(v)
      BY <3>3 DEF FilesInv, FilesFit, ListHolds
    <3> QED BY <1>1, <3>2, <3>4 DEF Continues, Holds
  <2> QED BY <2>1 DEF ListHolds
<1>8. SingleFiles'
  BY <1>1, <1>3 DEF FilesInv, FilesFit, SingleFiles
<1>9. DoubtIsKnown'
  <2> SUFFICES ASSUME NEW v \in Uploads, NEW d \in Dates, Built(v, d)', ~upload'[v].alone
               PROVE  unsure'[d] # "no"
    BY DEF DoubtIsKnown
  <2>1. CASE v = u
    <3>1. d = date
      BY <1>3, <2>1 DEF Built
    <3> QED BY <1>1, <1>3, <2>1, <3>1
  <2>2. CASE v # u /\ d = date
    BY <1>4, <2>2
  <2>3. CASE v # u /\ d # date
    <3>1. Built(v, d) /\ v \notin Beside(u)
      BY <1>5, <2>3 DEF Beside, Built
    <3> QED BY <1>1, <1>3, <2>3, <3>1 DEF FilesInv, FilesFit, DoubtIsKnown
  <2> QED BY <2>1, <2>2, <2>3
<1>10. LooksFirst'
  <2>1. ASSUME NEW v \in Uploads, upload'[v].step \in {"build", "list"} PROVE ~upload'[v].keeps
    <3>1. CASE v = u
      BY <1>1, <3>1 DEF FilesInv, FilesFit, LooksFirst, UploadAt
    <3>2. CASE v # u
      BY <1>3, <2>1, <3>2 DEF FilesInv, FilesFit, LooksFirst, Continues
    <3> QED BY <3>1, <3>2
  <2> QED BY <2>1 DEF LooksFirst
<1> QED BY <1>6, <1>7, <1>8, <1>9, <1>10 DEF FilesFit

\* A step of an upload past its beginning, after which it holds the files it
\* lists: a list of them, and each one it trashes.
LEMMA AdvanceKeepsFiles ==
    ASSUME FilesInv, NEW u \in Uploads, Advances(u, "trash"), UNCHANGED unsure,
           upload[u].step # "build",
           \A v \in Uploads : upload'[v].alone = upload[v].alone,
           \A d \in Dates : /\ files'[d] \subseteq files[d]
                            /\ d # upload[u].date => files'[d] = files[d],
           Sure(u) => Holds(u)',
           files' = files \/ upload[u].step = "trash"
    PROVE  FilesFit'
<1> DEFINE date == upload[u].date
<1>1. /\ upload'[u].kind = upload[u].kind /\ upload[u].kind # "none" /\ upload'[u].step = "trash"
      /\ upload'[u].date = date
      /\ \A v \in Uploads : v # u => Continues(upload[v], upload'[v])
  BY DEF Advances, Others
<1>2. \A v \in Uploads : \A d \in Dates : Built(v, d)' <=> Built(v, d)
  <2>1. ASSUME NEW v \in Uploads, NEW d \in Dates PROVE Built(v, d)' <=> Built(v, d)
    <3>1. CASE v = u
      BY <1>1, <3>1 DEF Built
    <3>2. CASE v # u
      BY <1>1, <3>2 DEF Built, Continues
    <3> QED BY <3>1, <3>2
  <2> QED BY <2>1
<1>3. BesideIsKnown'
  BY <1>2 DEF FilesInv, FilesFit, BesideIsKnown
<1>4. ASSUME NEW v \in Uploads, UploadAt(v, "trash")', Sure(v)' PROVE Holds(v)'
  <2>1. upload[v].date \in Dates
    BY DEF FilesInv, QueueInv, DriveTyped, DriveTypes, UploadRecords
  <2>2. CASE v = u
    BY <1>1, <1>4, <2>2 DEF Sure
  <2>3. CASE v # u
    <3>1. Continues(upload[v], upload'[v]) /\ UploadAt(v, "trash") /\ Sure(v)
      BY <1>1, <1>4, <2>3 DEF Continues, UploadAt, Sure
    <3>2. Holds(v)
      BY <3>1 DEF FilesInv, FilesFit, ListHolds
    <3>3. files'[upload[v].date] = files[upload[v].date]
      <4>1. CASE upload[v].date = date
        <5>1. Built(v, date) /\ Built(u, date)
          BY <1>1, <3>1, <4>1 DEF Built, UploadAt
        <5>2. ~Sure(v)
          BY <2>1, <2>3, <4>1, <5>1 DEF FilesInv, FilesFit, BesideIsKnown, Sure
        <5> QED BY <3>1, <5>2
      <4>2. CASE upload[v].date # date
        BY <2>1, <4>2
      <4> QED BY <4>1, <4>2
    <3> QED BY <3>1, <3>2, <3>3 DEF Continues, Holds
  <2> QED BY <2>2, <2>3
<1>5. SingleFiles'
  <2>1. ASSUME NEW d \in Dates, unsure[d] # "crossed", NEW f \in files'[d], NEW g \in files'[d]
        PROVE  f = g
    <3>1. f \in files[d] /\ g \in files[d]
      BY <2>1
    <3> QED BY <2>1, <3>1 DEF FilesInv, FilesFit, SingleFiles
  <2> QED BY <2>1 DEF SingleFiles
<1>6. DoubtIsKnown'
  BY <1>2 DEF FilesInv, FilesFit, DoubtIsKnown
<1>7. LooksFirst'
  <2>1. ASSUME NEW v \in Uploads, upload'[v].step \in {"build", "list"} PROVE ~upload'[v].keeps
    <3>1. v # u
      BY <1>1, <2>1
    <3> QED BY <1>1, <2>1, <3>1 DEF FilesInv, FilesFit, LooksFirst, Continues
  <2> QED BY <2>1 DEF LooksFirst
<1> QED BY <1>3, <1>4, <1>5, <1>6, <1>7 DEF FilesFit, ListHolds

LEMMA ListKeepsFiles ==
    ASSUME FilesInv, NEW u \in Uploads, List(u)
    PROVE  FilesFit'
<1> DEFINE date == upload[u].date
<1>1. /\ Advances(u, "trash") /\ UploadAt(u, "list") /\ upload'[u].says = upload[u].says
      /\ \A v \in Uploads : upload'[v].alone = upload[v].alone
      /\ UNCHANGED <<files, unsure>>
      /\ \/ upload'[u].keeps = upload[u].keeps /\ upload'[u].old = files[date]
         \/ \E f \in files[date] :
               f.says = upload[u].says /\ upload'[u].keeps /\ upload'[u].old = files[date] \ {f}
  BY ListAdvances DEF FilesInv, QueueInv
<1>2. ~upload[u].keeps /\ upload'[u].date = date
  BY <1>1 DEF FilesInv, FilesFit, LooksFirst, UploadAt, Advances
<1>3. Holds(u)'
  <2>1. CASE upload'[u].keeps = upload[u].keeps /\ upload'[u].old = files[date]
    BY <1>1, <1>2, <2>1 DEF Holds
  <2>2. ASSUME NEW f \in files[date], f.says = upload[u].says, upload'[u].keeps,
               upload'[u].old = files[date] \ {f}
        PROVE  Holds(u)'
    <3>1. f \in files[date] \ upload'[u].old /\ files[date] = upload'[u].old \cup {f}
      BY <2>2
    <3> QED BY <1>1, <1>2, <2>2, <3>1 DEF Holds
  <2> QED BY <1>1, <2>1, <2>2
<1> QED BY <1>1, <1>3, AdvanceKeepsFiles DEF UploadAt

LEMMA TrashKeepsFiles ==
    ASSUME FilesInv, NEW u \in Uploads, Trash(u)
    PROVE  FilesFit'
<1> DEFINE date == upload[u].date
<1>1. /\ Advances(u, "trash") /\ UploadAt(u, "trash") /\ upload'[u].says = upload[u].says
      /\ \A v \in Uploads : upload'[v].alone = upload[v].alone
      /\ UNCHANGED unsure /\ upload'[u].keeps = upload[u].keeps
      /\ \A d \in Dates : d # date => files'[d] = files[d]
      /\ \E f \in upload[u].old : /\ files'[date] = files[date] \ {f}
                                  /\ upload'[u].old = upload[u].old \ {f}
  BY TrashAdvances DEF FilesInv, QueueInv
<1>2. PICK f \in upload[u].old : files'[date] = files[date] \ {f} /\ upload'[u].old = upload[u].old \ {f}
  BY <1>1
<1>3. upload'[u].date = date
  BY <1>1 DEF Advances
<1>4. ASSUME Sure(u) PROVE Holds(u)'
  <2>1. Holds(u)
    BY <1>1, <1>4 DEF FilesInv, FilesFit, ListHolds
  <2>2. CASE ~upload[u].keeps
    <3>1. files'[date] = upload'[u].old
      BY <1>2, <2>1, <2>2 DEF Holds
    <3> QED BY <1>1, <1>3, <2>2, <3>1 DEF Holds
  <2>3. CASE upload[u].keeps
    <3>1. PICK g \in files[date] \ upload[u].old :
            files[date] = upload[u].old \cup {g} /\ g.says = upload[u].says
      BY <2>1, <2>3 DEF Holds
    <3>2. /\ g \in files'[date] \ upload'[u].old
          /\ files'[date] = upload'[u].old \cup {g}
      BY <1>2, <3>1
    <3> QED BY <1>1, <1>3, <2>3, <3>1, <3>2 DEF Holds
  <2> QED BY <2>2, <2>3
<1>5. \A d \in Dates : files'[d] \subseteq files[d]
  <2>1. ASSUME NEW d \in Dates PROVE files'[d] \subseteq files[d]
    BY <1>1, <1>2
  <2> QED BY <2>1
<1> QED BY <1>1, <1>4, <1>5, AdvanceKeepsFiles DEF UploadAt

\* An upload ends with its file in place, or without it: a failure to put it may
\* have put it.
LEMMA EndKeepsFiles ==
    ASSUME FilesInv, NEW u \in Uploads, NEW done \in BOOLEAN, Left(u, done),
           UploadAt(u, "trash"), upload[u].old = {},
           files' = files \/ (~upload[u].keeps /\ Puts(u)),
           \A d \in Dates : d # upload[u].date => unsure'[d] = unsure[d],
           unsure'[upload[u].date] # "crossed" => Sure(u),
           ~Sure(u) => unsure'[upload[u].date] = "crossed"
    PROVE  FilesFit'
<1> DEFINE date == upload[u].date
<1>1. /\ \A v \in Uploads : v # u => Continues(upload[v], upload'[v])
      /\ Waits(upload'[u]) /\ date \in Dates
      /\ \A v \in Uploads : upload[v].date \in Dates
      /\ \A v \in Uploads : v # u /\ ~Built(v, date) => (upload'[v].alone <=> upload[v].alone)
  BY DEF Left, Others, FilesInv, QueueInv, DriveTyped, DriveTypes, UploadRecords
<1>2. \A v \in Uploads : \A d \in Dates : Built(v, d)' => v # u /\ Built(v, d)
  <2>1. ASSUME NEW v \in Uploads, NEW d \in Dates, Built(v, d)' PROVE v # u /\ Built(v, d)
    <3>1. v # u
      BY <1>1, <2>1 DEF Built, Waits
    <3> QED BY <1>1, <2>1, <3>1 DEF Built, Continues
  <2> QED BY <2>1
<1>3. ASSUME NEW v \in Uploads, v # u, Built(v, date)
      PROVE  ~upload[v].alone /\ ~upload'[v].alone /\ unsure'[date] = "crossed"
  <2>1. Built(u, date)
    BY DEF UploadAt, Built
  <2>2. ~upload[v].alone /\ ~upload[u].alone /\ unsure[date] = "crossed"
    BY <1>1, <1>3, <2>1 DEF FilesInv, FilesFit, BesideIsKnown
  <2> QED BY <1>1, <1>3, <2>2 DEF Continues, Sure
<1>4. BesideIsKnown'
  <2> SUFFICES ASSUME NEW v \in Uploads, NEW x \in Uploads, NEW d \in Dates,
                      Built(v, d)', Built(x, d)', v # x
               PROVE  ~upload'[v].alone /\ unsure'[d] = "crossed"
    BY DEF BesideIsKnown
  <2>1. v # u /\ Built(v, d) /\ Built(x, d)
    BY <1>2
  <2>2. ~upload[v].alone /\ unsure[d] = "crossed"
    BY <2>1 DEF FilesInv, FilesFit, BesideIsKnown
  <2> QED BY <1>1, <1>3, <2>1, <2>2 DEF Continues
<1>5. ListHolds'
  <2>1. ASSUME NEW v \in Uploads, UploadAt(v, "trash")', Sure(v)' PROVE Holds(v)'
    <3>1. v # u
      BY <1>1, <2>1 DEF UploadAt, Waits
    <3>2. Continues(upload[v], upload'[v]) /\ UploadAt(v, "trash")
      BY <1>1, <2>1, <3>1 DEF Continues, UploadAt
    <3>3. upload[v].date # date
      <4>1. Built(v, upload[v].date)
        BY <3>2 DEF UploadAt, Built
      <4> QED BY <1>3, <2>1, <3>1, <3>2, <4>1 DEF Continues, Sure
    <3>4. files'[upload[v].date] = files[upload[v].date] /\ Sure(v)
      BY <1>1, <2>1, <3>2, <3>3 DEF Puts, Sure, Continues
    <3>5. Holds(v)
      BY <3>2, <3>4 DEF FilesInv, FilesFit, ListHolds
    <3> QED BY <3>2, <3>4, <3>5 DEF Continues, Holds
  <2> QED BY <2>1 DEF ListHolds
<1>6. SingleFiles'
  <2> SUFFICES ASSUME NEW d \in Dates, unsure'[d] # "crossed"
               PROVE  \A f, g \in files'[d] : f = g
    BY DEF SingleFiles
  <2>1. CASE d # date
    <3>1. files'[d] = files[d] /\ unsure'[d] = unsure[d]
      BY <2>1 DEF Puts
    <3> QED BY <3>1 DEF FilesInv, FilesFit, SingleFiles
  <2>2. CASE d = date
    <3>1. Holds(u)
      BY <2>2 DEF FilesInv, FilesFit, ListHolds
    <3>2. CASE upload[u].keeps
      <4>1. \E f : files[date] = {f}
        BY <3>1, <3>2 DEF Holds
      <4> QED BY <2>2, <3>2, <4>1
    <3>3. CASE ~upload[u].keeps
      <4>1. files[date] = {}
        BY <3>1, <3>3 DEF Holds
      <4>2. files'[date] = {} \/ \E f : files'[date] = {f}
        BY <4>1 DEF Puts
      <4> QED BY <2>2, <4>2
    <3> QED BY <3>2, <3>3
  <2> QED BY <2>1, <2>2
<1>7. DoubtIsKnown'
  <2> SUFFICES ASSUME NEW v \in Uploads, NEW d \in Dates, Built(v, d)', ~upload'[v].alone
               PROVE  unsure'[d] # "no"
    BY DEF DoubtIsKnown
  <2>1. v # u /\ Built(v, d)
    BY <1>2
  <2>2. CASE d = date
    BY <1>3, <2>1, <2>2
  <2>3. CASE d # date
    <3>1. ~upload[v].alone
      BY <1>1, <2>1, <2>3 DEF Built
    <3> QED BY <2>1, <2>3, <3>1 DEF FilesInv, FilesFit, DoubtIsKnown
  <2> QED BY <2>2, <2>3
<1>8. LooksFirst'
  <2>1. ASSUME NEW v \in Uploads, upload'[v].step \in {"build", "list"} PROVE ~upload'[v].keeps
    <3>1. CASE v = u
      BY <1>1, <3>1 DEF Waits
    <3>2. CASE v # u
      BY <1>1, <2>1, <3>2 DEF FilesInv, FilesFit, LooksFirst, Continues
    <3> QED BY <3>1, <3>2
  <2> QED BY <2>1 DEF LooksFirst
<1> QED BY <1>4, <1>5, <1>6, <1>7, <1>8 DEF FilesFit

LEMMA DoneKeepsFiles ==
    ASSUME FilesInv, NEW u \in Uploads, Done(u)
    PROVE  FilesFit'
<1> DEFINE date == upload[u].date
<1>1. /\ Left(u, TRUE) /\ UploadAt(u, "trash") /\ upload[u].old = {} /\ Settle(u)
      /\ files' = files \/ (~upload[u].keeps /\ Puts(u))
  BY DoneEnds DEF FilesInv, QueueInv
<1>2. date \in Dates /\ unsure \in [Dates -> {"no", "failed", "crossed"}]
  BY DEF FilesInv, QueueInv, DriveTyped, DriveTypes, UploadRecords
<1>3. /\ \A d \in Dates : d # date => unsure'[d] = unsure[d]
      /\ unsure'[date] = IF upload[u].alone THEN "no" ELSE unsure[date]
  BY <1>1, <1>2 DEF Settle
<1> QED BY <1>1, <1>3, EndKeepsFiles DEF Sure

LEMMA FailKeepsFiles ==
    ASSUME FilesInv, NEW u \in Uploads, Fail(u)
    PROVE  FilesFit'
<1> DEFINE date == upload[u].date
<1>1. /\ Left(u, FALSE) /\ upload[u].kind # "none" /\ Turn(u)
      /\ unsure' = [unsure EXCEPT ![date] = Doubt(date)]
      /\ \/ files' = files
         \/ UploadAt(u, "trash") /\ upload[u].old = {} /\ ~upload[u].keeps /\ Puts(u)
  BY FailEnds DEF FilesInv, QueueInv
<1>2. date \in Dates /\ unsure \in [Dates -> {"no", "failed", "crossed"}]
  BY DEF FilesInv, QueueInv, DriveTyped, DriveTypes, UploadRecords
<1>3. /\ \A d \in Dates : d # date => unsure'[d] = unsure[d]
      /\ unsure'[date] # "no" /\ (unsure'[date] = "crossed" <=> unsure[date] = "crossed")
  BY <1>1, <1>2 DEF Doubt
<1>4. CASE files' = files
  <2>1. \A v \in Uploads : Waits(upload'[v]) \/ Continues(upload[v], upload'[v])
    BY <1>1 DEF Left, Others
  <2>2. ASSUME NEW v \in Uploads, NEW d \in Dates, Built(v, d), upload[v].alone, ~upload'[v].alone
        PROVE  unsure'[d] # "no"
    <3>1. CASE v = u
      BY <1>3, <2>2, <3>1 DEF Built
    <3>2. CASE v # u
      <4>1. Built(v, date)
        BY <1>1, <2>2, <3>2 DEF Left
      <4> QED BY <1>3, <2>2, <4>1 DEF Built
    <3> QED BY <3>1, <3>2
  <2>3. \A d \in Dates : /\ unsure[d] = "crossed" => unsure'[d] = "crossed"
                         /\ unsure[d] # "no" => unsure'[d] # "no"
    BY <1>3
  <2> QED BY <1>4, <2>1, <2>2, <2>3, FilesKept
<1>5. CASE UploadAt(u, "trash") /\ upload[u].old = {} /\ ~upload[u].keeps /\ Puts(u)
  <2>1. FALSE \in BOOLEAN /\ (unsure'[date] # "crossed" => Sure(u)) /\ (~Sure(u) => unsure'[date] = "crossed")
    BY <1>3 DEF Sure
  <2> QED BY <1>1, <1>3, <1>5, <2>1, EndKeepsFiles
<1> QED BY <1>1, <1>4, <1>5

LEMMA StepKeepsFiles ==
    ASSUME FilesInv, DriveStep
    PROVE  FilesFit'
<1>0. /\ QueueInv /\ DriveTyped /\ unsure \in [Dates -> {"no", "failed", "crossed"}]
      /\ \A v \in Uploads : Continues(upload[v], upload[v])
  BY DEF FilesInv, QueueInv, DriveTyped, DriveTypes, Continues
<1>1. ASSUME UNCHANGED <<files, unsure>>,
             \A v \in Uploads : Waits(upload'[v]) \/ upload'[v] = upload[v]
      PROVE  FilesFit'
  <2>1. \A v \in Uploads : Waits(upload'[v]) \/ Continues(upload[v], upload'[v])
    BY <1>0, <1>1
  <2>2. ASSUME NEW v \in Uploads, Continues(upload[v], upload'[v]), upload[v].alone, Built(v, upload[v].date)
        PROVE  upload'[v].alone
    BY <1>1, <2>2 DEF Continues, Built, Waits
  <2> QED BY <1>1, <2>1, <2>2, FilesKept DEF Built
<1>2. ASSUME NEW dates \in SUBSET Dates, scope.drive, Notify(dates) PROVE FilesFit'
  <2>1. Asks(dates) /\ UNCHANGED <<files, unsure>>
    BY <1>0, <1>2, NotifyAsks
  <2>2. PICK ids \in [dates -> Free] :
            /\ \A d \in dates : ids[d] \in Uploads /\ upload'[ids[d]] = NewUpload("asked", d, {})
            /\ \A u \in Uploads : (\A d \in dates : ids[d] # u) => upload'[u] = upload[u]
    BY <2>1 DEF Asks
  <2>3. \A d : Waits(NewUpload("asked", d, {}))
    BY DEF Waits, NewUpload
  <2>4. \A v \in Uploads : Waits(upload'[v]) \/ upload'[v] = upload[v]
    BY <2>2, <2>3
  <2> QED BY <1>1, <2>1, <2>4
<1>3. ASSUME NEW u \in Uploads, SaveDailyReports(u) PROVE FilesFit'
  BY <1>0, <1>1, <1>3, BackupBegins
<1>4. ASSUME NEW u \in Uploads, Build(u) PROVE FilesFit'
  <2>1. CASE upload[u].date \notin Entered
    <3>1. Leave(u, TRUE) /\ UNCHANGED <<files, unsure>>
      BY <1>4, <2>1 DEF Build
    <3>2. /\ \A v \in Uploads : v # u => Continues(upload[v], upload'[v])
          /\ Waits(upload'[u])
          /\ \A v \in Uploads : v # u => (upload'[v].alone <=> upload[v].alone)
      BY <1>0, <3>1, LeaveLeaves DEF Left, Others
    <3>3. \A v \in Uploads : Waits(upload'[v]) \/ Continues(upload[v], upload'[v])
      BY <3>2
    <3>4. ASSUME NEW v \in Uploads, NEW d \in Dates, Built(v, d), Continues(upload[v], upload'[v]),
                 upload[v].alone, ~upload'[v].alone
          PROVE  unsure'[d] # "no"
      BY <3>2, <3>4 DEF Built, Continues, Waits
    <3> QED BY <3>1, <3>3, <3>4, FilesKept
  <2> QED BY <1>4, <2>1, BuildKeepsFiles
<1>5. CASE Restart
  <2>1. /\ \A v \in Uploads : upload'[v].kind = "none" /\ Waits(upload'[v])
        /\ \A d \in Dates : unsure'[d] = unsure[d] \/ unsure'[d] = Doubt(d)
        /\ files' = files
    BY <1>0, <1>5, RestartForgets
  <2>2. \A d \in Dates : /\ unsure[d] = "crossed" => unsure'[d] = "crossed"
                         /\ unsure[d] # "no" => unsure'[d] # "no"
    BY <2>1 DEF Doubt
  <2>3. \A v \in Uploads, d \in Dates : Built(v, d) => ~Continues(upload[v], upload'[v])
    BY <2>1 DEF Built, Continues
  <2> QED BY <2>1, <2>2, <2>3, FilesKept
<1>6. CASE UNCHANGED driveVars
  BY <1>1, <1>6 DEF driveVars
<1> QED BY <1>2, <1>3, <1>4, <1>5, <1>6, ListKeepsFiles, TrashKeepsFiles, DoneKeepsFiles, FailKeepsFiles
        DEF DriveStep, Progress

LEMMA NextKeepsFiles ==
    ASSUME FilesInv, [DriveNext]_allVars
    PROVE  FilesInv'
BY NextKeepsQueues, DriveStepsAre, StepKeepsFiles DEF FilesInv, QueueInv, DriveTyped

LEMMA InitFiles == DriveInit => FilesInv
<1> SUFFICES ASSUME DriveInit PROVE FilesInv
  OBVIOUS
<1>1. \A u \in Uploads : upload[u].kind = "none" /\ Waits(upload[u])
  BY NewUploads DEF DriveInit
<1>2. \A d \in Dates : files[d] = {}
  BY DEF DriveInit
<1>3. FilesFit
  BY <1>1, <1>2 DEF FilesFit, BesideIsKnown, ListHolds, SingleFiles, DoubtIsKnown, LooksFirst,
     Built, UploadAt, Waits
<1> QED BY <1>3, InitQueues DEF FilesInv

\* Drive keeps at most one file of a date, whatever fails, is restarted or is
\* repeated, unless an upload after a backup ran beside another one
\* (drive.service.ts, uploadDailyReport; docs/GOOGLE_DRIVE.md: "there is never
\* more than one file per date"), for any number of requests and uploads at once.
THEOREM OneFile == DriveSpec => []OneFileADay
<1>1. DriveInit /\ [][DriveNext]_allVars => []FilesInv
  BY InitFiles, NextKeepsFiles, PTL
<1>2. FilesInv => OneFileADay
  <2> SUFFICES ASSUME FilesInv, NEW date \in Dates, unsure[date] # "crossed"
               PROVE  Cardinality(files[date]) <= 1
    BY DEF OneFileADay
  <2>1. files[date] = {} \/ \E f : files[date] = {f}
    BY DEF FilesInv, FilesFit, SingleFiles
  <2> QED BY <2>1, FS_EmptySet, FS_Singleton
<1> QED BY <1>1, <1>2, PTL DEF DriveSpec

-----------------------------------------------------------------------------
(* Drive holds the report that is served *)

Finished(d) == EncodersLock(d) /\ Frozen(d)

\* What a step saves is the only report of a finished date it changes.
Upholds(d) == Finished(d)' => Finished(d) /\ snapshot'[d] = snapshot[d]

LEMMA StillUpholds ==
    ASSUME UNCHANGED <<scope, sheet, closure>>, NEW d \in Dates, snapshot'[d] = snapshot[d]
    PROVE  Upholds(d)
<1>1. \A s \in Slots : Locked(s)' = Locked(s) /\ DateOf(s)' = DateOf(s)
  BY DEF Locked, DateOf
<1>2. AllLocked(d)' = AllLocked(d) /\ EncodersLock(d)' = EncodersLock(d)
  BY <1>1 DEF AllLocked, EncodersLock
<1> QED BY <1>2 DEF Upholds, Finished, Frozen

\* Saving entries, or a correction, opens no locked page and saves no report.
LEMMA WriteUpholds ==
    ASSUME TypeOK, UNCHANGED <<scope, closure, snapshot>>, NEW d \in Dates,
           \A s \in Slots : sheet[s].saved => sheet'[s].saved
    PROVE  Upholds(d)
<1>1. \A s \in Slots : Locked(s)' = Locked(s) /\ DateOf(s)' = DateOf(s)
  BY DEF Locked, DateOf
<1>2. AllLocked(d)' => AllLocked(d)
  BY <1>1 DEF AllLocked
<1>3. EncodersLock(d)' = EncodersLock(d)
  BY DEF EncodersLock
<1> QED BY <1>2, <1>3 DEF Upholds, Finished, Frozen

LEMMA QuietlyUpholds ==
    ASSUME Types, NEW w \in Workers, Quietly(w), NEW d \in Dates
    PROVE  Upholds(d)
<1>0. TypeOK
  BY DEF Types
<1>1. CASE Encode(w) \/ CountSheets(w)
  <2>1. SavesLedger(w)
    BY <1>0, <1>1, EncodeSaves, CountSheetsSaves
  <2> QED BY <1>0, <2>1, WriteUpholds DEF SavesLedger
<1>2. ASSUME NEW slot, NEW cascade, Approves(w, slot, cascade) PROVE Upholds(d)
  BY <1>0, <1>2, WriteUpholds DEF Approves
<1>3. Finish(w) => UNCHANGED <<scope, ledger, closure, snapshot>>
  BY Zenon DEF Finish, BeginFinish, BeginThrough, BuildReport
<1>4. Administer(w) => UNCHANGED <<scope, ledger, closure, snapshot>>
  BY Zenon DEF Administer, BeginClose, BeginUnlock
<1>5. Refresh(w) \/ ReadClosure(w) => UNCHANGED <<scope, ledger, closure, snapshot>>
  BY Zenon DEF Refresh, ReadClosure
<1>6. UNCHANGED <<scope, ledger, closure, snapshot>> => Upholds(d)
  BY StillUpholds DEF ledger
<1> QED BY <1>0, <1>1, <1>2, <1>3, <1>4, <1>5, <1>6, ApprovalIsOne DEF Quietly

\* The dates a step saves a report of.
LEMMA CommitUpholds ==
    ASSUME OneAtATime, DayInv, NEW w \in Workers, Commit(w), NEW d \in Dates, d \notin Saved(w)
    PROVE  Upholds(d)
<1>1. op[w].read = closure
  BY CommitReads
<1>2. ~op[w].reports[d].taken
  BY <1>1 DEF Saved, Collides
<1>3. /\ snapshot'[d] = snapshot[d]
      /\ (EncodersLock(d) /\ AllLocked(d))' => EncodersLock(d) /\ AllLocked(d)
  BY <1>2, CommitLeavesDay
<1> QED BY <1>3 DEF Upholds, Finished, Frozen

LEMMA ResaveUpholds ==
    ASSUME Types, NEW w \in Workers, Resave(w), NEW d \in Dates, d # Earliest(op[w].todo)
    PROVE  Upholds(d)
<1>1. UNCHANGED <<scope, sheet, closure>> /\ snapshot'[d] = snapshot[d]
  BY DEF Resave, Types, TypeOK, ledger
<1> QED BY <1>1, StillUpholds

\* What is served of a finished date is about to be built by an upload that was
\* asked for, is carried by one, or is what Drive holds; or it is known that Drive
\* may not hold it.
Coming(d) == \E u \in Uploads :
    upload[u].kind = "asked" /\ upload[u].date = d /\ upload[u].step = "build"
Carrying(d) == \E u \in Uploads : Built(u, d) /\ upload[u].says = Served(d)
Holding(d) ==
    /\ \A u \in Uploads : Built(u, d) => ~upload[u].alone
    /\ unsure[d] # "no" \/ {f.says : f \in files[d]} = {Served(d)}
Delivered(d) == Coming(d) \/ Carrying(d) \/ Holding(d)
DeliveredInv ==
    /\ FilesInv /\ DayInv
    /\ scope.drive => \A d \in Dates : Finished(d) => Delivered(d)

LEMMA UpheldIsServed ==
    ASSUME NEW d, Finished(d)', Upholds(d)
    PROVE  Finished(d) /\ Served(d)' = Served(d)
BY DEF Upholds, Finished, Served

\* Steps that leave the uploads of a date under way, and its files.
LEMMA DeliveredKept ==
    ASSUME NEW d \in Dates, Delivered(d), Served(d)' = Served(d),
           \A v \in Uploads : \/ Continues(upload[v], upload'[v])
                              \/ /\ upload[v].kind = "none" \/ upload[v].date # d
                                 /\ Waits(upload'[v]) \/ upload'[v].date # d,
           files'[d] = files[d], unsure'[d] = unsure[d]
    PROVE  Delivered(d)'
<1>1. \A v \in Uploads : Built(v, d)' => Built(v, d) /\ Continues(upload[v], upload'[v])
  BY DEF Built, Waits, Continues
<1>2. Coming(d) => Coming(d)'
  BY DEF Coming, Continues
<1>3. Carrying(d) => Carrying(d)'
  BY DEF Carrying, Built, Continues
<1>4. Holding(d) => Holding(d)'
  BY <1>1 DEF Holding, Continues
<1> QED BY <1>2, <1>3, <1>4 DEF Delivered

\* Requests: a report that is saved is asked to be uploaded.
LEMMA AskedIsComing ==
    ASSUME NEW dates \in SUBSET Dates, Asks(dates), NEW d \in dates
    PROVE  Coming(d)'
<1>1. PICK ids \in [dates -> Free] :
        \A e \in dates : ids[e] \in Uploads /\ upload'[ids[e]] = NewUpload("asked", e, {})
  BY DEF Asks
<1>2. LET new == NewUpload("asked", d, {}) IN
      new.kind = "asked" /\ new.date = d /\ new.step = "build"
  BY DEF NewUpload
<1> QED BY <1>1, <1>2 DEF Coming

LEMMA NotifyDelivers ==
    ASSUME FilesInv, scope.drive, NEW dates \in SUBSET Dates, Notify(dates),
           NEW d \in Dates, Finished(d) => Delivered(d), Finished(d)', d \notin dates => Upholds(d)
    PROVE  Delivered(d)'
<1>1. Asks(dates) /\ UNCHANGED <<files, unsure>>
  BY NotifyAsks DEF FilesInv, QueueInv
<1>2. CASE d \in dates
  BY <1>1, <1>2, AskedIsComing DEF Delivered
<1>3. CASE d \notin dates
  <2>1. Delivered(d) /\ Served(d)' = Served(d)
    BY <1>3, UpheldIsServed
  <2>2. PICK ids \in [dates -> Free] :
            /\ \A e \in dates : ids[e] \in Uploads /\ upload'[ids[e]] = NewUpload("asked", e, {})
            /\ \A u \in Uploads : (\A e \in dates : ids[e] # u) => upload'[u] = upload[u]
    BY <1>1 DEF Asks
  <2>3. ASSUME NEW v \in Uploads
        PROVE  \/ Continues(upload[v], upload'[v])
               \/ upload[v].kind = "none" /\ Waits(upload'[v])
    <3>1. CASE \A e \in dates : ids[e] # v
      BY <2>2, <3>1 DEF Continues
    <3>2. CASE \E e \in dates : ids[e] = v
      <4>1. PICK e \in dates : ids[e] = v
        BY <3>2
      <4>2. Waits(NewUpload("asked", e, {}))
        BY DEF Waits, NewUpload
      <4> QED BY <2>2, <4>1, <4>2 DEF Free
    <3> QED BY <3>1, <3>2
  <2> QED BY <1>1, <2>1, <2>3, DeliveredKept
<1> QED BY <1>2, <1>3

LEMMA UnchangedServes ==
    ASSUME UNCHANGED <<scope, sheet, count, closure, snapshot>>, NEW d \in Dates
    PROVE  Finished(d)' = Finished(d) /\ Served(d)' = Served(d)
BY Still DEF Finished, Served, Frozen

\* The steps of an upload.  One that is built carries the report that is served.
LEMMA BuildDelivers ==
    ASSUME FilesInv, NEW u \in Uploads, Build(u), NEW d \in Dates, Finished(d), Delivered(d)
    PROVE  Delivered(d)'
<1> DEFINE date == upload[u].date
<1>1. /\ DriveTyped /\ Served(d)' = Served(d) /\ files' = files
      /\ unsure \in [Dates -> {"no", "failed", "crossed"}] /\ date \in Dates
      /\ upload[u].kind # "none"
  BY UnchangedServes DEF Build, vars, ledger, FilesInv, QueueInv, DriveTyped, DriveTypes, UploadRecords, UploadAt
<1>2. CASE date \in Entered
  <2>1. /\ Advances(u, "list") /\ upload'[u].says = Served(date)
        /\ unsure' = IF Beside(u) = {} THEN unsure ELSE [unsure EXCEPT ![date] = "crossed"]
    BY <1>1, <1>2, BuildAdvances
  <2>2. /\ upload'[u].kind = upload[u].kind /\ upload'[u].step = "list" /\ upload'[u].date = date
        /\ \A v \in Uploads : v # u => Continues(upload[v], upload'[v])
    BY <2>1 DEF Advances, Others
  <2>3. CASE d = date
    <3>1. Built(u, d)' /\ upload'[u].says = Served(d)'
      BY <1>1, <2>1, <2>2, <2>3 DEF Built
    <3> QED BY <3>1 DEF Delivered, Carrying
  <2>4. CASE d # date
    <3>1. unsure'[d] = unsure[d]
      BY <1>1, <2>1, <2>4
    <3> QED BY <1>1, <2>2, <2>4, <3>1, DeliveredKept
  <2> QED BY <2>3, <2>4
<1>3. CASE date \notin Entered
  <2>1. Leave(u, TRUE) /\ UNCHANGED unsure
    BY <1>3 DEF Build
  <2>2. Waits(upload'[u]) /\ \A v \in Uploads : v # u => Continues(upload[v], upload'[v])
    BY <1>1, <2>1, LeaveLeaves DEF Left, Others
  <2>3. d # date
    <3>1. HasRows(d)
      BY <1>1 DEF Finished, Frozen, DriveTyped, RowsInv, RowsFit
    <3>2. d \in Entered
      BY <3>1 DEF HasRows, Entered
    <3> QED BY <1>3, <3>2
  <2> QED BY <1>1, <2>1, <2>2, <2>3, DeliveredKept
<1> QED BY <1>2, <1>3

LEMMA AdvanceDelivers ==
    ASSUME FilesInv, NEW u \in Uploads, List(u) \/ Trash(u), NEW d \in Dates, Delivered(d)
    PROVE  Delivered(d)'
<1> DEFINE date == upload[u].date
<1>1. /\ Advances(u, "trash") /\ upload[u].step # "build" /\ upload'[u].says = upload[u].says
      /\ \A v \in Uploads : upload'[v].alone = upload[v].alone
      /\ UNCHANGED <<unsure, vars>> /\ (d # date => files'[d] = files[d])
  BY ListAdvances, TrashAdvances DEF FilesInv, QueueInv, UploadAt
<1>2. /\ upload'[u].kind = upload[u].kind /\ upload'[u].step = "trash" /\ upload'[u].date = date
      /\ upload[u].kind # "none"
      /\ \A v \in Uploads : v # u => Continues(upload[v], upload'[v])
  BY <1>1 DEF Advances, Others
<1>3. Served(d)' = Served(d)
  BY <1>1, UnchangedServes DEF vars, ledger
<1>4. CASE d # date
  BY <1>1, <1>2, <1>3, <1>4, DeliveredKept
<1>5. CASE d = date
  <2>1. \A v \in Uploads : Built(v, d)' <=> Built(v, d)
    <3>1. ASSUME NEW v \in Uploads PROVE Built(v, d)' <=> Built(v, d)
      <4>1. CASE v = u
        BY <1>1, <1>2, <4>1 DEF Built
      <4>2. CASE v # u
        BY <1>2, <4>2 DEF Built, Continues
      <4> QED BY <4>1, <4>2
    <3> QED BY <3>1
  <2>2. Coming(d) => Coming(d)'
    BY <1>1, <1>2 DEF Coming, Continues
  <2>3. Carrying(d) => Carrying(d)'
    <3>1. \A v \in Uploads : upload'[v].says = upload[v].says
      BY <1>1, <1>2 DEF Continues
    <3> QED BY <1>3, <2>1, <3>1 DEF Carrying
  <2>4. Holding(d) => Holding(d)'
    <3>1. Built(u, d)
      BY <1>1, <1>2, <1>5 DEF Built
    <3>2. Holding(d) => unsure[d] # "no"
      BY <3>1 DEF Holding, FilesInv, FilesFit, DoubtIsKnown
    <3> QED BY <1>1, <2>1, <3>2 DEF Holding
  <2> QED BY <2>2, <2>3, <2>4 DEF Delivered
<1> QED BY <1>4, <1>5

\* What an upload that ran by itself puts, or keeps, is then all Drive holds.
LEMMA DoneDelivers ==
    ASSUME FilesInv, NEW u \in Uploads, Done(u), NEW d \in Dates, Delivered(d)
    PROVE  Delivered(d)'
<1> DEFINE date == upload[u].date
<1>1. /\ Left(u, TRUE) /\ UploadAt(u, "trash") /\ upload[u].old = {} /\ Settle(u)
      /\ IF upload[u].keeps THEN files' = files ELSE Puts(u)
      /\ UNCHANGED vars
  BY DoneEnds DEF FilesInv, QueueInv
<1>2. /\ date \in Dates /\ unsure \in [Dates -> {"no", "failed", "crossed"}]
  BY DEF FilesInv, QueueInv, DriveTyped, DriveTypes, UploadRecords
<1>3. /\ \A v \in Uploads : v # u => Continues(upload[v], upload'[v])
      /\ Waits(upload'[u]) /\ upload'[u].kind # "asked"
  BY <1>1 DEF Left, Others
<1>4. unsure' = IF upload[u].alone THEN [unsure EXCEPT ![date] = "no"] ELSE unsure
  BY <1>1 DEF Settle
<1>5. Served(d)' = Served(d)
  BY <1>1, UnchangedServes DEF vars, ledger
<1>6. CASE d # date
  <2>1. files'[d] = files[d] /\ unsure'[d] = unsure[d]
    BY <1>1, <1>2, <1>4, <1>6 DEF Puts
  <2> QED BY <1>3, <1>5, <1>6, <2>1, DeliveredKept
<1>7. CASE d = date
  <2>1. Built(u, d)
    BY <1>1, <1>7 DEF Built, UploadAt
  <2>2. \A v \in Uploads : Built(v, d)' => v # u /\ Built(v, d)
    BY <1>3 DEF Built, Waits, Continues
  <2>3. ASSUME NEW v \in Uploads, Built(v, d)'
        PROVE  ~upload'[v].alone /\ ~upload[u].alone /\ unsure[d] = "crossed"
    <3>1. v # u /\ Built(v, d)
      BY <2>2, <2>3
    <3>2. ~upload[v].alone /\ ~upload[u].alone /\ unsure[d] = "crossed"
      BY <2>1, <3>1 DEF FilesInv, FilesFit, BesideIsKnown
    <3> QED BY <1>3, <3>1, <3>2 DEF Continues
  <2>4. Coming(d) => Coming(d)'
    BY <1>1, <1>3 DEF Coming, UploadAt, Continues
  <2>5. ASSUME NEW v \in Uploads, v # u, Built(v, d), upload[v].says = Served(d)
        PROVE  Carrying(d)'
    BY <1>3, <1>5, <2>5 DEF Carrying, Built, Continues
  <2>6. CASE ~upload[u].alone
    <3>1. unsure'[d] # "no"
      BY <1>4, <2>1, <2>6 DEF FilesInv, FilesFit, DoubtIsKnown
    <3> QED BY <2>3, <3>1 DEF Delivered, Holding
  <2>7. CASE upload[u].alone /\ upload[u].says = Served(d)
    <3>1. Holds(u)
      BY <1>1, <2>7 DEF FilesInv, FilesFit, ListHolds, Sure
    <3>2. \E f : f.says = Served(d) /\ files'[d] = {f}
      <4>1. CASE upload[u].keeps
        <5>1. \E f \in files[date] \ upload[u].old : files[date] = upload[u].old \cup {f} /\ f.says = upload[u].says
          BY <3>1, <4>1 DEF Holds
        <5>2. \E f : files[date] = {f} /\ f.says = upload[u].says
          BY <1>1, <5>1
        <5> QED BY <1>1, <1>7, <2>7, <4>1, <5>2
      <4>2. CASE ~upload[u].keeps
        <5>1. files[date] = {} /\ Puts(u)
          BY <1>1, <3>1, <4>2 DEF Holds
        <5> QED BY <1>7, <2>7, <5>1 DEF Puts
      <4> QED BY <4>1, <4>2
    <3>3. {f.says : f \in files'[d]} = {Served(d)}
      BY <3>2
    <3>4. Holding(d)'
      BY <1>5, <2>3, <2>7, <3>3 DEF Holding
    <3> QED BY <3>4 DEF Delivered
  <2>8. CASE upload[u].alone /\ upload[u].says # Served(d)
    <3>1. ~Holding(d)
      BY <2>1, <2>8 DEF Holding
    <3>2. Carrying(d) => Carrying(d)'
      BY <2>5, <2>8 DEF Carrying
    <3> QED BY <2>4, <3>1, <3>2 DEF Delivered
  <2> QED BY <2>6, <2>7, <2>8
<1> QED BY <1>6, <1>7

\* A failed upload leaves its date in doubt, and none beside it alone.
LEMMA FailDelivers ==
    ASSUME FilesInv, NEW u \in Uploads, Fail(u), NEW d \in Dates, Delivered(d)
    PROVE  Delivered(d)'
<1> DEFINE date == upload[u].date
<1>1. /\ Left(u, FALSE) /\ upload[u].kind # "none" /\ Turn(u) /\ UNCHANGED vars
      /\ unsure' = [unsure EXCEPT ![date] = Doubt(date)]
      /\ files' = files \/ Puts(u)
  BY FailEnds DEF FilesInv, QueueInv
<1>2. /\ date \in Dates /\ unsure \in [Dates -> {"no", "failed", "crossed"}]
  BY DEF FilesInv, QueueInv, DriveTyped, DriveTypes, UploadRecords
<1>3. /\ \A v \in Uploads : v # u => Continues(upload[v], upload'[v])
      /\ Waits(upload'[u])
  BY <1>1 DEF Left, Others
<1>4. CASE d # date
  <2>1. files'[d] = files[d] /\ unsure'[d] = unsure[d] /\ Served(d)' = Served(d)
    BY <1>1, <1>2, <1>4, UnchangedServes DEF Puts, vars, ledger
  <2> QED BY <1>3, <1>4, <2>1, DeliveredKept
<1>5. CASE d = date
  <2>1. unsure'[d] # "no"
    BY <1>1, <1>2, <1>5 DEF Doubt
  <2>2. ASSUME NEW v \in Uploads, Built(v, d)' PROVE ~upload'[v].alone
    <3>1. v # u /\ Built(v, date)
      BY <1>3, <1>5, <2>2 DEF Built, Waits, Continues
    <3>2. v \in Beside(u)
      BY <1>1, <3>1, BesideCross DEF FilesInv
    <3> QED BY <1>1, <3>1, <3>2 DEF Left, Beside
  <2> QED BY <2>1, <2>2 DEF Delivered, Holding
<1> QED BY <1>4, <1>5

LEMMA RestartDelivers ==
    ASSUME FilesInv, Restart, NEW d \in Dates, Delivered(d)
    PROVE  Delivered(d)'
<1>1. /\ \A u \in Uploads : upload'[u].kind = "none"
      /\ unsure'[d] = unsure[d] \/ unsure'[d] = Doubt(d)
      /\ \A u \in Uploads : upload[u].kind # "none" => unsure'[upload[u].date] = Doubt(upload[u].date)
      /\ Crash /\ files' = files
  BY RestartForgets DEF FilesInv, QueueInv
<1>2. \A u \in Uploads : ~Built(u, d)'
  BY <1>1 DEF Built
<1>3. Doubt(d) # "no"
  BY DEF Doubt
<1>4. Served(d)' = Served(d)
  BY <1>1, UnchangedServes DEF Crash, ledger
<1>5. Coming(d) \/ Carrying(d) => unsure'[d] # "no"
  BY <1>1, <1>3 DEF Coming, Carrying, Built
<1>6. Holding(d)'
  BY <1>1, <1>2, <1>3, <1>4, <1>5 DEF Delivered, Holding
<1> QED BY <1>6 DEF Delivered

-----------------------------------------------------------------------------
(* Every step keeps what is delivered *)

LEMMA ScopeStays == [Next]_vars => scope' = scope
<1>1. \A w \in Workers : Encode(w) \/ CountSheets(w) => scope' = scope
  BY Zenon DEF Encode, SaveEntry, CountSheets, SaveCount, DeleteCount, PublishCounts, RevertCounts
<1>2. \A w \in Workers : Finish(w) \/ Administer(w) => scope' = scope
  BY Zenon DEF Finish, BeginFinish, BeginThrough, BuildReport, Administer, BeginClose, BeginUnlock
<1>3. \A w \in Workers : Approve(w) \/ ReadClosure(w) => scope' = scope
  BY Zenon DEF Approve, Correct, CorrectCount, Refresh, ReadClosure
<1>4. \A w \in Workers : Commit(w) \/ Resave(w) => scope' = scope
  BY Zenon DEF Commit, Resave
<1> QED BY <1>1, <1>2, <1>3, <1>4 DEF Next, Quietly, Crash, vars

\* The steps of an upload, and a restart, leave what is served.
LEMMA UploadDelivers ==
    ASSUME FilesInv, NEW u \in Uploads, SaveDailyReports(u) \/ Progress(u) \/ Fail(u),
           NEW d \in Dates, Finished(d) => Delivered(d), Finished(d)'
    PROVE  Delivered(d)'
<1>1. UNCHANGED <<scope, sheet, count, closure, snapshot>>
  BY DEF SaveDailyReports, Progress, Build, List, Trash, Done, Fail, vars, ledger
<1>2. Finished(d) /\ Delivered(d) /\ Served(d)' = Served(d)
  BY <1>1, UnchangedServes
<1>3. CASE SaveDailyReports(u)
  <2>1. /\ upload[u].kind = "none" /\ Waits(upload'[u])
        /\ \A v \in Uploads : v # u => upload'[v] = upload[v]
        /\ UNCHANGED <<files, unsure>>
    BY <1>3, BackupBegins DEF FilesInv, QueueInv
  <2>2. \A v \in Uploads : v # u => Continues(upload[v], upload'[v])
    BY <2>1 DEF Continues
  <2> QED BY <1>2, <2>1, <2>2, DeliveredKept
<1> QED BY <1>2, <1>3, BuildDelivers, AdvanceDelivers, DoneDelivers, FailDelivers DEF Progress

\* A step that asks for nothing.
LEMMA UpheldDelivers ==
    ASSUME NEW d \in Dates, UNCHANGED driveVars, Upholds(d), Finished(d) => Delivered(d), Finished(d)'
    PROVE  Delivered(d)'
<1>1. Delivered(d) /\ Served(d)' = Served(d)
  BY UpheldIsServed
<1>2. \A v \in Uploads : Continues(upload[v], upload'[v])
  BY DEF driveVars, Continues
<1> QED BY <1>1, <1>2, DeliveredKept DEF driveVars

LEMMA StepDelivers ==
    ASSUME OneAtATime, FilesInv, DayInv, [DriveNext]_allVars, scope.drive,
           NEW d \in Dates, Finished(d) => Delivered(d), Finished(d)'
    PROVE  Delivered(d)'
<1>0. Types
  BY DEF DayInv
<1>1. ASSUME NEW w \in Workers, Quietly(w), UNCHANGED driveVars PROVE Delivered(d)'
  BY <1>0, <1>1, QuietlyUpholds, UpheldDelivers
<1>2. ASSUME NEW w \in Workers, Commit(w), Notify(Saved(w)) PROVE Delivered(d)'
  <2>1. d \notin Saved(w) => Upholds(d)
    BY <1>2, CommitUpholds
  <2>2. Saved(w) \in SUBSET Dates
    BY DEF Saved
  <2> QED BY <1>2, <2>1, <2>2, NotifyDelivers
<1>3. ASSUME NEW w \in Workers, Resave(w), Notify({Earliest(op[w].todo)}) PROVE Delivered(d)'
  <2>1. op[w].todo \in SUBSET Dates /\ op[w].todo # {}
    BY <1>3 DEF Resave, At, FilesInv, QueueInv, DriveTyped, RowsInv, RowsFit, WorkFits, Types, TypeOK, Op
  <2>2. {Earliest(op[w].todo)} \in SUBSET Dates
    BY <2>1, EarliestIsOne, DatesAssumption
  <2>3. d \notin {Earliest(op[w].todo)} => Upholds(d)
    BY <1>0, <1>3, ResaveUpholds
  <2> QED BY <1>3, <2>2, <2>3, NotifyDelivers
<1>4. ASSUME NEW date \in Dates, Generate(date) PROVE Delivered(d)'
  <2>1. Notify({date}) /\ {date} \in SUBSET Dates /\ Upholds(d)
    BY <1>4, StillUpholds DEF Generate, vars, ledger
  <2> QED BY <2>1, NotifyDelivers
<1>5. CASE Restart
  <2>1. UNCHANGED <<scope, sheet, count, closure, snapshot>>
    BY <1>5 DEF Restart, Crash, ledger
  <2> QED BY <1>5, <2>1, UnchangedServes, RestartDelivers
<1>6. CASE UNCHANGED allVars
  <2>1. UNCHANGED driveVars /\ Upholds(d)
    BY <1>6, StillUpholds DEF allVars, vars, ledger
  <2> QED BY <2>1, UpheldDelivers
<1> QED BY <1>1, <1>2, <1>3, <1>4, <1>5, <1>6, UploadDelivers DEF DriveNext

LEMMA NextKeepsDelivered ==
    ASSUME OneAtATime, DeliveredInv, [DriveNext]_allVars
    PROVE  DeliveredInv'
<1>1. FilesInv'
  BY NextKeepsFiles DEF DeliveredInv
<1>2. DayInv' /\ scope' = scope
  BY DriveStepsAreDaySteps, NextKeepsDay, ScopeStays DEF DeliveredInv
<1>3. ASSUME scope'.drive, NEW d \in Dates, Finished(d)' PROVE Delivered(d)'
  BY <1>2, <1>3, StepDelivers DEF DeliveredInv
<1> QED BY <1>1, <1>2, <1>3 DEF DeliveredInv

LEMMA InitDelivered == DriveInit => DeliveredInv
<1> SUFFICES ASSUME DriveInit PROVE DeliveredInv
  OBVIOUS
<1>1. FilesInv /\ DayInv
  BY InitFiles, InitDay DEF DriveInit
<1>2. \A d \in Dates : ~snapshot[d].taken
  BY DEF DriveInit, Init, NoReport
<1> QED BY <1>1, <1>2 DEF DeliveredInv, Finished, Frozen

\* Once the uploads of a date finished by its encoders have ended, and none of
\* them failed or crossed a backup's, Drive holds the one report that is served of
\* it, after any sequence of finishes, corrections, unlocks, backups, failures and
\* restarts (drive.service.ts, notifyDailyReportSaved and inDayOrder), while one
\* request is served at a time, for any number of uploads at once.
THEOREM DriveHasReport ==
    ASSUME OneAtATime
    PROVE  DriveSpec => []DriveHoldsReport
<1>1. DriveInit /\ [][DriveNext]_allVars => []DeliveredInv
  BY InitDelivered, NextKeepsDelivered, PTL
<1>2. DeliveredInv => DriveHoldsReport
  <2> SUFFICES ASSUME DeliveredInv, scope.drive, NEW date \in Dates,
                      EncodersLock(date) /\ Frozen(date), unsure[date] = "no",
                      \A u \in Uploads : upload[u].date # date \/ upload[u].kind = "none"
               PROVE  {f.says : f \in files[date]} = {Served(date)}
    BY DEF DriveHoldsReport
  <2>1. ~Coming(date) /\ ~Carrying(date)
    BY DEF Coming, Carrying, Built
  <2> QED BY <2>1 DEF DeliveredInv, Delivered, Holding, Finished
<1> QED BY <1>1, <1>2, PTL DEF DriveSpec
=============================================================================
