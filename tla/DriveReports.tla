------------------------------ MODULE DriveReports ------------------------------
(***************************************************************************)
(* The Daily Reports kept in Google Drive (drive.service.ts): one PDF a    *)
(* date, uploaded when a finish or a correction saved its report, when     *)
(* somebody generates it, and again after a backup.                        *)
(*                                                                         *)
(* An upload builds the report as it is served at that moment, lists the   *)
(* date's files, trashes the ones it replaces and puts the new one; any of *)
(* these calls may fail.  Uploads of a date that were asked for wait for   *)
(* each other (inDayOrder); those after a backup do not.                   *)
(***************************************************************************)
EXTENDS DayFinish, Sequences, FiniteSets

CONSTANTS
    Uploads,    \* uploads under way at once
    FileIds,
    MaxUploads, \* uploads in all
    MaxFaults   \* calls that fail, and restarts

ASSUME BoundsAssumption == MaxUploads \in Nat /\ MaxFaults \in Nat
ASSUME FileIdsAssumption == FileIds \subseteq Nat
ASSUME SomeDatesAssumption == Dates # {} /\ IsFiniteSet(Dates)

VARIABLES
    files,     \* files[date]: the files of its name in the month's folder
    queue,     \* queue[date]: the uploads asked for, in order; its head may run
    upload,    \* upload[u]: an upload under way
    unsure,    \* unsure[date]: why Drive may not hold the last report, see Settle
    started,   \* uploads so far
    faults     \* failed calls and restarts so far

driveVars == <<files, queue, upload, unsure, started, faults>>
allVars == <<vars, driveVars>>

\* What a file says: the figures, and whether they are a finished day's.
Contents == [frozen: BOOLEAN, report: Report]
Files == [id: FileIds, says: Contents]
Served(date) == IF Frozen(date) THEN [frozen |-> TRUE, report |-> snapshot[date]]
                ELSE [frozen |-> FALSE, report |-> LiveReport(date)]
NoContent == [frozen |-> FALSE, report |-> NoReport]

\* `rest`: the dates a backup's upload goes on to.  `old`: the files to trash.
\* `keeps`: Drive already holds this file.  `alone`: no other upload of the date
\* has run beside it.
UploadKinds == {"none", "asked", "backup"}
UploadSteps == {"build", "list", "trash"}
UploadRecords == [kind: UploadKinds, step: UploadSteps, date: Dates, rest: SUBSET Dates,
                  says: Contents, old: SUBSET Files, keeps: BOOLEAN, alone: BOOLEAN]
NewUpload(kind, date, rest) ==
    [kind |-> kind, step |-> "build", date |-> date, rest |-> rest, says |-> NoContent,
     old |-> {}, keeps |-> FALSE, alone |-> TRUE]
NoUpload == NewUpload("none", Earliest(Dates), {})

Free == {u \in Uploads : upload[u].kind = "none"}
UploadAt(u, step) == upload[u].kind # "none" /\ upload[u].step = step
Built(u, date) == upload[u].kind # "none" /\ upload[u].step # "build" /\ upload[u].date = date

\* Uploads of one date that nothing keeps apart: one of them is a backup's.
Crossing(u, v) == u # v /\ "backup" \in {upload[u].kind, upload[v].kind}

DriveInit ==
    /\ Init
    /\ files = [date \in Dates |-> {}]
    /\ queue = [date \in Dates |-> <<>>]
    /\ upload = [u \in Uploads |-> NoUpload]
    /\ unsure = [date \in Dates |-> "no"]
    /\ started = 0
    /\ faults = 0

-----------------------------------------------------------------------------
(* Asking for uploads *)

\* Bounds the uploads: each operation under way may still ask for one.
Room == started + Cardinality({w \in Workers : ~At(w, "idle")}) < MaxUploads

\* notifyDailyReportSaved of each date, when Drive is connected
Notify(dates) ==
    IF ~scope.drive
    THEN UNCHANGED driveVars
    ELSE \E ids \in [dates -> Free] :
            /\ \A d, e \in dates : ids[d] = ids[e] => d = e
            /\ started' = started + Cardinality(dates)
            /\ upload' = [u \in Uploads |->
                            IF \E d \in dates : ids[d] = u
                            THEN NewUpload("asked", CHOOSE d \in dates : ids[d] = u, {})
                            ELSE upload[u]]
            /\ queue' = [d \in Dates |-> IF d \in dates THEN Append(queue[d], ids[d]) ELSE queue[d]]
            /\ UNCHANGED <<files, unsure, faults>>

\* saveGeneratedReport, the Generate button of a date
Generate(date) == scope.drive /\ Room /\ Notify({date}) /\ UNCHANGED vars

\* saveDailyReports, after a backup: the latest date with rows, then the day
\* before it.  One backup runs at a time.
Entered == {DateOf(slot) : slot \in {s \in Slots : sheet[s].saved}}
SaveDailyReports(u) ==
    /\ scope.drive
    /\ u \in Free /\ Room
    /\ started' = started + 1
    /\ \A v \in Uploads : upload[v].kind # "backup"
    /\ \E latest \in Entered :
        /\ \A date \in Entered : date <= latest
        /\ upload' = [upload EXCEPT ![u] = NewUpload("backup", latest, {latest - 1} \cap Dates)]
    /\ UNCHANGED <<files, queue, unsure, faults, vars>>

-----------------------------------------------------------------------------
(* An upload *)

\* Mutant of Turn: the uploads of a date do not wait for each other.
TurnOfAnyone(u) == upload[u].kind # "none"

\* inDayOrder
Turn(u) ==
    \/ upload[u].kind = "asked" /\ Head(queue[upload[u].date]) = u
    \/ upload[u].kind = "backup"

\* A backup goes on to the day before, unless this upload failed.
Then(u, done) ==
    IF upload[u].kind = "backup" /\ done /\ upload[u].rest # {}
    THEN NewUpload("backup", Earliest(upload[u].rest), {})
    ELSE NoUpload

\* Mutant of Leave: an upload that failed keeps its place.
LeaveOnSuccess(u, done) ==
    LET date == upload[u].date IN
    /\ upload' = [upload EXCEPT ![u] = Then(u, done)]
    /\ queue' = IF upload[u].kind = "asked" /\ done THEN [queue EXCEPT ![date] = Tail(@)] ELSE queue

\* The upload ends, done or failed: the next one of the date may start.  One that
\* runs beside a failing one does not make the failure good.
Leave(u, done) ==
    LET date == upload[u].date IN
    /\ upload' = [v \in Uploads |->
                    IF v = u THEN Then(u, done)
                    ELSE [upload[v] EXCEPT !.alone = @ /\ (done \/ ~(Crossing(u, v) /\ Built(v, date)))]]
    /\ queue' = IF upload[u].kind = "asked" THEN [queue EXCEPT ![date] = Tail(@)] ELSE queue

\* uploadDailyReport, its first part: the report as it is served now.  A date
\* without rows has none.
Build(u) ==
    LET date == upload[u].date
        beside == {v \in Uploads : Crossing(u, v) /\ Built(v, date)}
    IN
    /\ UploadAt(u, "build") /\ Turn(u)
    /\ IF date \in Entered
       THEN /\ upload' = [v \in Uploads |->
                            IF v = u
                            THEN [upload[u] EXCEPT !.step = "list", !.says = Served(date),
                                                   !.alone = (beside = {})]
                            ELSE [upload[v] EXCEPT !.alone = @ /\ v \notin beside]]
            /\ unsure' = IF beside = {} THEN unsure ELSE [unsure EXCEPT ![date] = "crossed"]
            /\ UNCHANGED queue
       ELSE Leave(u, TRUE) /\ UNCHANGED unsure
    /\ UNCHANGED <<files, started, faults, vars>>

\* Mutant of List: a file that says the same is looked for, no other is trashed.
ListSame(u) ==
    LET date == upload[u].date
        same == {f \in files[date] : f.says = upload[u].says}
    IN
    /\ UploadAt(u, "list")
    /\ upload' = [upload EXCEPT ![u].step = "trash", ![u].keeps = same # {}]
    /\ UNCHANGED <<files, queue, unsure, started, faults, vars>>

\* The files of the name; one that says the same, byte for byte, is kept.  Two
\* frozen copies of the same figures may still differ in when they were saved.
List(u) ==
    LET date == upload[u].date
        same == {f \in files[date] : f.says = upload[u].says}
    IN
    /\ UploadAt(u, "list")
    /\ \/ /\ same = {} \/ upload[u].says.frozen
          /\ upload' = [upload EXCEPT ![u].step = "trash", ![u].old = files[date]]
       \/ \E f \in same :
            upload' = [upload EXCEPT ![u].step = "trash", ![u].old = files[date] \ {f},
                                     ![u].keeps = TRUE]
    /\ UNCHANGED <<files, queue, unsure, started, faults, vars>>

Trash(u) ==
    /\ UploadAt(u, "trash")
    /\ \E f \in upload[u].old :
        /\ files' = [files EXCEPT ![upload[u].date] = @ \ {f}]
        /\ upload' = [upload EXCEPT ![u].old = @ \ {f}]
    /\ UNCHANGED <<queue, unsure, started, faults, vars>>

\* A file id nobody holds: Drive never gives one out twice.
Fresh == {id \in FileIds : /\ \A date \in Dates : \A f \in files[date] : f.id # id
                           /\ \A u \in Uploads : \A f \in upload[u].old : f.id # id}
Put(u) ==
    files' = [files EXCEPT ![upload[u].date] =
                  @ \cup {[id |-> Earliest(Fresh), says |-> upload[u].says]}]

\* What Drive holds of the date is known again once an upload of it ran by itself.
Settle(u) == unsure' = IF upload[u].alone THEN [unsure EXCEPT ![upload[u].date] = "no"] ELSE unsure
Doubt(date) == IF unsure[date] = "crossed" THEN "crossed" ELSE "failed"

Done(u) ==
    /\ UploadAt(u, "trash") /\ upload[u].old = {}
    /\ IF upload[u].keeps THEN UNCHANGED files ELSE Fresh # {} /\ Put(u)
    /\ Settle(u)
    /\ Leave(u, TRUE)
    /\ UNCHANGED <<started, faults, vars>>

\* A call fails, at any point; the last one may have stored the file all the same.
Fail(u) ==
    /\ upload[u].kind # "none" /\ Turn(u)
    /\ faults < MaxFaults
    /\ faults' = faults + 1
    /\ \/ UNCHANGED files
       \/ UploadAt(u, "trash") /\ upload[u].old = {} /\ ~upload[u].keeps /\ Fresh # {} /\ Put(u)
    /\ unsure' = [unsure EXCEPT ![upload[u].date] = Doubt(upload[u].date)]
    /\ Leave(u, FALSE)
    /\ UNCHANGED <<started, vars>>

\* The server is restarted, and forgets its uploads and requests.  Only restarts of
\* runs with uploads are bounded: the others add no state of their own.
Restart ==
    /\ Crash
    /\ ~Quiet \/ \E u \in Uploads : upload[u].kind # "none"
    /\ IF scope.drive THEN faults < MaxFaults /\ faults' = faults + 1 ELSE UNCHANGED faults
    /\ upload' = [u \in Uploads |-> NoUpload]
    /\ queue' = [date \in Dates |-> <<>>]
    /\ unsure' = [date \in Dates |->
                    IF \E u \in Uploads : upload[u].kind # "none" /\ date \in upload[u].rest \cup {upload[u].date}
                    THEN Doubt(date) ELSE unsure[date]]
    /\ UNCHANGED <<files, started>>

-----------------------------------------------------------------------------
Saved(w) == IF Collides(w) THEN {} ELSE {date \in Dates : op[w].reports[date].taken}

\* The operations that may end with a report to upload.
Reports(w) == At(w, "idle") /\ op'[w].kind \in {"finish", "correct"} /\ op'[w].step # "idle"

Progress(u) == Build(u) \/ List(u) \/ Trash(u) \/ Done(u)

DriveNext ==
    \/ \E w \in Workers :
        \/ Quietly(w) /\ (scope.drive /\ Reports(w) => Room) /\ UNCHANGED driveVars
        \/ Commit(w) /\ Notify(Saved(w))
        \/ Resave(w) /\ Notify({Earliest(op[w].todo)})
    \/ \E date \in Dates : Generate(date)
    \/ \E u \in Uploads : SaveDailyReports(u) \/ Progress(u) \/ Fail(u)
    \/ Restart

\* The calls to Google end, answered, refused or timed out.
DriveSpec == DriveInit /\ [][DriveNext]_allVars /\ \A u \in Uploads : WF_allVars(Progress(u))

-----------------------------------------------------------------------------
(* Properties *)

DriveTypeOK ==
    /\ TypeOK
    /\ files \in [Dates -> SUBSET Files]
    /\ queue \in [Dates -> Seq(Uploads)]
    /\ upload \in [Uploads -> UploadRecords]
    /\ unsure \in [Dates -> {"no", "failed", "crossed"}]
    /\ started \in Nat /\ faults \in Nat
    /\ \A u \in Uploads : (upload[u].kind = "asked") =
            \E date \in Dates : \E i \in DOMAIN queue[date] : queue[date][i] = u

\* Drive keeps one file of a date, whatever fails or is repeated, unless an
\* upload after a backup ran beside another one (docs/GOOGLE_DRIVE.md: "there is
\* never more than one file per date").
OneFileADay ==
    \A date \in Dates : unsure[date] # "crossed" => Cardinality(files[date]) <= 1

\* Once the uploads of a finished date have ended, Drive holds the report that
\* is served: no older one overwrites it, and a failure is made good by the next.
DriveHoldsReport ==
    scope.drive /\ Quiet => \A date \in Dates :
        /\ EncodersLock(date) /\ Frozen(date)
        /\ queue[date] = <<>> /\ unsure[date] = "no"
        /\ \A u \in Uploads : upload[u].date # date \/ upload[u].kind = "none"
        => {f.says : f \in files[date]} = {Served(date)}

\* An upload that was asked for ends, whatever became of those before it.
UploadsEnd == \A u \in Uploads : []<>(upload[u].kind = "none")
=============================================================================
