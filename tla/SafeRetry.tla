------------------------------- MODULE SafeRetry -------------------------------
(***************************************************************************)
(* Making one save safe to retry: the tab's retry key (client/src/api/     *)
(* http.ts) and the server's record of it (server/src/middleware/          *)
(* idempotency.ts).                                                        *)
(*                                                                         *)
(* The person sends the same save again until an answer settles it.  Each  *)
(* send is an attempt; its connection, the handler it starts and the       *)
(* write that settles its key go on independently of each other, so a      *)
(* retry meets an earlier attempt anywhere between its arrival and its     *)
(* settling.  A key is named after the attempt that made it.               *)
(***************************************************************************)
EXTENDS Naturals, FiniteSets

CONSTANTS
    MaxAttempts,   \* attempts one save may take in the model
    MaxFaults      \* faults (see Fault) in one behaviour

ASSUME BoundsAssumption == MaxAttempts \in Nat \ {0} /\ MaxFaults \in Nat

Attempts == 1..MaxAttempts
NoKey == 0

VARIABLES
    retryKey,   \* the tab's entry in retryKeys for this save
    keyOf,      \* keyOf[i]: the Idempotency-Key attempt i carried
    seen,       \* seen[i]: what the tab knows of attempt i
    run,        \* run[i]: where the server is with it
    owns,       \* owns[i]: it created the key's row and will settle it
    answer,     \* answer[i]: the response it came to
    gone,       \* gone[i]: "cut" once the client closed its connection, "noticed" once the server saw it
    row,        \* row[k]: the idempotencyKey row
    ran,        \* attempts whose handler was started
    commits,    \* attempts whose save was committed
    freed,      \* keys whose row was deleted
    risks,      \* times a key or its row was given up while a run may have saved
    faults      \* faults so far

client == <<retryKey, keyOf, seen>>
history == <<ran, commits, freed, risks>>
vars == <<client, run, owns, answer, gone, row, history, faults>>

TypeOK ==
    /\ retryKey \in Attempts \cup {NoKey}
    /\ keyOf \in [Attempts -> Attempts \cup {NoKey}]
    /\ seen \in [Attempts -> {"unsent", "waiting", "ok", "refused", "busy", "failed"}]
    /\ run \in [Attempts -> {"none", "arrived", "lookup", "handler", "saved", "answering", "finished", "over"}]
    /\ owns \in [Attempts -> BOOLEAN]
    /\ answer \in [Attempts -> {"none", "ok", "refused", "busy", "broken"}]
    /\ gone \in [Attempts -> {"open", "cut", "noticed"}]
    /\ row \in [Attempts -> {"free", "held", "done"}]
    /\ ran \in SUBSET Attempts
    /\ commits \in SUBSET Attempts
    /\ freed \in SUBSET Attempts
    /\ risks \in Nat
    /\ faults \in 0..MaxFaults

Init ==
    /\ retryKey = NoKey
    /\ keyOf = [i \in Attempts |-> NoKey]
    /\ seen = [i \in Attempts |-> "unsent"]
    /\ run = [i \in Attempts |-> "none"]
    /\ owns = [i \in Attempts |-> FALSE]
    /\ answer = [i \in Attempts |-> "none"]
    /\ gone = [i \in Attempts |-> "open"]
    /\ row = [k \in Attempts |-> "free"]
    /\ ran = {}
    /\ commits = {}
    /\ freed = {}
    /\ risks = 0
    /\ faults = 0

Decided == \E i \in Attempts: seen[i] \in {"ok", "refused"}

Fault == faults < MaxFaults /\ faults' = faults + 1

Risk == risks' = risks + 1

-----------------------------------------------------------------------------
(* The tab: send() *)

Unsent == {i \in Attempts: seen[i] = "unsent"}

\* The identical retry reuses the key that was kept for it.
Send ==
    \E i \in Unsent:
        LET key == IF retryKey = NoKey THEN i ELSE retryKey IN
        /\ \A j \in Unsent: i <= j
        /\ retryKey' = key
        /\ keyOf' = [keyOf EXCEPT ![i] = key]
        /\ seen' = [seen EXCEPT ![i] = "waiting"]
        /\ run' = [run EXCEPT ![i] = "arrived"]
        /\ UNCHANGED <<owns, answer, gone, row, history>>

\* Save is pressed (again) once nothing is pending and nothing settled it.
Retry ==
    /\ ~Decided
    /\ \A i \in Attempts: seen[i] # "waiting"
    /\ Send
    /\ UNCHANGED faults

\* A double click: a second request while the first is waiting.
DoubleClick ==
    /\ Fault
    /\ ~Decided
    /\ \E i \in Attempts: seen[i] = "waiting"
    /\ Send

\* Mutant of KeyAfter: a 409 keeps the key, as a 5xx does.
KeyAfterKeepingBusy(status) ==
    IF status \in {"broken", "busy"} THEN retryKey ELSE NoKey

\* A success and every 4xx (the 409 too) forget the key; a 5xx keeps it.
KeyAfter(status) == IF status = "broken" THEN retryKey ELSE NoKey

\* The response reaches the tab.
Receive(i) ==
    /\ seen[i] = "waiting"
    /\ gone[i] = "open"
    /\ run[i] \in {"finished", "over"}
    /\ answer[i] # "none"
    /\ seen' = [seen EXCEPT ![i] = IF answer[i] = "broken" THEN "failed" ELSE answer[i]]
    /\ retryKey' = KeyAfter(answer[i])
    /\ IF answer[i] = "busy" THEN Risk ELSE UNCHANGED risks
    /\ UNCHANGED <<keyOf, run, owns, answer, gone, row, ran, commits, freed, faults>>

\* The tab's abort after WRITE_TIMEOUT_MS, or the connection drops: the key is
\* kept and the connection is closed under whatever the server is doing.
LoseConnection(i) ==
    /\ Fault
    /\ seen[i] = "waiting"
    /\ seen' = [seen EXCEPT ![i] = "failed"]
    /\ gone' = [gone EXCEPT ![i] = "cut"]
    /\ UNCHANGED <<retryKey, keyOf, run, owns, answer, row, history>>

\* retryKeys lives in the page's memory only.
ReloadPage ==
    /\ Fault
    /\ retryKey # NoKey
    /\ retryKey' = NoKey
    /\ seen' = [i \in Attempts |-> IF seen[i] = "waiting" THEN "failed" ELSE seen[i]]
    /\ gone' = [i \in Attempts |-> IF seen[i] = "waiting" THEN "cut" ELSE gone[i]]
    /\ Risk
    /\ UNCHANGED <<keyOf, run, owns, answer, row, ran, commits, freed>>

-----------------------------------------------------------------------------
(* The server: the idempotency middleware around the save's handler *)

\* Mutant of Taken: a row that no answer was recorded in yet is not a claim.
TakenOnceAnswered(key) == row[key] = "done"

Taken(key) == row[key] # "free"

\* prisma.idempotencyKey.create: the unique key lets one attempt through.
Claim(i) ==
    /\ run[i] = "arrived"
    /\ ~Taken(keyOf[i])
    /\ run' = [run EXCEPT ![i] = "handler"]
    /\ owns' = [owns EXCEPT ![i] = TRUE]
    /\ row' = [row EXCEPT ![keyOf[i]] = "held"]
    /\ ran' = ran \cup {i}
    /\ UNCHANGED <<client, answer, gone, commits, freed, risks, faults>>

FindTaken(i) ==
    /\ run[i] = "arrived"
    /\ Taken(keyOf[i])
    /\ run' = [run EXCEPT ![i] = "lookup"]
    /\ UNCHANGED <<client, owns, answer, gone, row, history, faults>>

\* Mutant of Recorded: an unanswered row is replayed as a success.
RecordedAlways(key) == "ok"

\* Mutant of Recorded: the row's own state is passed on as the answer.
RecordedRaw(key) == row[key]

Recorded(key) == IF row[key] = "done" THEN "ok" ELSE "busy"

\* The row is read by a query of its own.  Deleted in between, the save runs
\* without a claim; otherwise the answer is the recorded one, or 409.
LookUp(i) ==
    /\ run[i] = "lookup"
    /\ IF row[keyOf[i]] = "free"
       THEN /\ run' = [run EXCEPT ![i] = "handler"]
            /\ ran' = ran \cup {i}
            /\ Risk
            /\ UNCHANGED answer
       ELSE /\ run' = [run EXCEPT ![i] = "answering"]
            /\ answer' = [answer EXCEPT ![i] = Recorded(keyOf[i])]
            /\ UNCHANGED <<ran, risks>>
    /\ UNCHANGED <<client, owns, gone, row, commits, freed, faults>>

\* The handler's transaction commits, or it is refused with a 4xx.
Commit(i) ==
    /\ run[i] = "handler"
    /\ run' = [run EXCEPT ![i] = "saved"]
    /\ commits' = commits \cup {i}
    /\ UNCHANGED <<client, owns, answer, gone, row, ran, freed, risks, faults>>

AnswerWith(i, from, status) ==
    /\ run[i] = from
    /\ run' = [run EXCEPT ![i] = "answering"]
    /\ answer' = [answer EXCEPT ![i] = status]
    /\ UNCHANGED <<client, owns, gone, row, history>>

Refuse(i) == AnswerWith(i, "handler", "refused") /\ UNCHANGED faults

Succeed(i) == AnswerWith(i, "saved", "ok") /\ UNCHANGED faults

\* A 5xx, before the commit or after it.
Break(i) == Fault /\ \E from \in {"handler", "saved"}: AnswerWith(i, from, "broken")

\* "finish": the response was written to a connection not known to be closed.
Finish(i) ==
    /\ run[i] = "answering"
    /\ gone[i] # "noticed"
    /\ run' = [run EXCEPT ![i] = IF owns[i] THEN "finished" ELSE "over"]
    /\ UNCHANGED <<client, owns, answer, gone, row, history, faults>>

Delete(key) ==
    /\ row' = [row EXCEPT ![key] = "free"]
    /\ freed' = freed \cup {key}

\* Mutant of Remembered: a failure is remembered as a result.
RememberedAlways(status) == TRUE

\* Only an answer below 400 is worth remembering.
Remembered(status) == status = "ok"

\* The write started by "finish": record the answer, or delete the row.
Settle(i) ==
    /\ run[i] = "finished"
    /\ run' = [run EXCEPT ![i] = "over"]
    /\ owns' = [owns EXCEPT ![i] = FALSE]
    /\ IF Remembered(answer[i])
       THEN row' = [row EXCEPT ![keyOf[i]] = "done"] /\ UNCHANGED <<freed, risks>>
       ELSE /\ Delete(keyOf[i])
            /\ IF answer[i] = "broken" THEN Risk ELSE UNCHANGED risks
    /\ UNCHANGED <<client, answer, gone, ran, commits, faults>>

\* "close" before "finish": the row is deleted while the handler runs on.  A
\* close that came before the claim finds no listener, and the row stays.
NoticeClose(i) ==
    /\ gone[i] = "cut"
    /\ run[i] \in {"arrived", "lookup", "handler", "saved", "answering"}
    /\ gone' = [gone EXCEPT ![i] = "noticed"]
    /\ owns' = [owns EXCEPT ![i] = FALSE]
    /\ IF owns[i]
       THEN Delete(keyOf[i]) /\ Risk
       ELSE UNCHANGED <<row, freed, risks>>
    /\ UNCHANGED <<client, run, answer, ran, commits, faults>>

\* The response of a connection that is gone is dropped, without "finish".
Discard(i) ==
    /\ run[i] = "answering"
    /\ gone[i] = "noticed"
    /\ run' = [run EXCEPT ![i] = "over"]
    /\ owns' = [owns EXCEPT ![i] = FALSE]
    /\ UNCHANGED <<client, answer, gone, row, history, faults>>

\* The process dies and is restarted: what was committed stays, the handlers
\* and the unsettled keys' owners are lost.
Crash ==
    /\ Fault
    /\ \E i \in Attempts: run[i] \notin {"none", "over"}
    /\ run' = [i \in Attempts |-> IF run[i] = "none" THEN "none" ELSE "over"]
    /\ owns' = [i \in Attempts |-> FALSE]
    /\ seen' = [i \in Attempts |-> IF seen[i] = "waiting" THEN "failed" ELSE seen[i]]
    /\ gone' = [i \in Attempts |-> IF seen[i] = "waiting" THEN "cut" ELSE gone[i]]
    /\ UNCHANGED <<retryKey, keyOf, answer, row, history>>

\* purgeExpiredIdempotencyKeys, a day later: no request is that old.
Purge(key) ==
    /\ Fault
    /\ row[key] # "free"
    /\ \A i \in Attempts: keyOf[i] = key => run[i] = "over"
    /\ Delete(key)
    /\ Risk
    /\ UNCHANGED <<client, run, owns, answer, gone, ran, commits>>

-----------------------------------------------------------------------------
Serve(i) ==
    \/ Claim(i) \/ FindTaken(i) \/ LookUp(i)
    \/ Commit(i) \/ Refuse(i) \/ Succeed(i)
    \/ Finish(i) \/ Settle(i) \/ NoticeClose(i) \/ Discard(i)

Next ==
    \/ Retry \/ DoubleClick \/ ReloadPage \/ Crash
    \/ \E i \in Attempts: Receive(i) \/ LoseConnection(i) \/ Serve(i) \/ Break(i)
    \/ \E key \in Attempts: Purge(key)

\* Node runs every handler and callback it has started, an answer on an open
\* connection arrives, and the person keeps pressing Save.
Fairness ==
    /\ WF_vars(Retry)
    /\ \A i \in Attempts: WF_vars(Serve(i)) /\ WF_vars(Receive(i))

Spec == Init /\ [][Next]_vars

FairSpec == Spec /\ Fairness

-----------------------------------------------------------------------------
(* Properties *)

\* A key lets the save run once: a second run of it means its row was deleted
\* in between (idempotency.ts, create / "finish" / "close" / purge).
RunsOncePerKey ==
    \A i, j \in commits: i # j /\ keyOf[i] = keyOf[j] => keyOf[i] \in freed

\* "Saved" is never shown, replayed or not, for a save that is not stored.
SavedIsStored ==
    \A i \in Attempts: seen[i] = "ok" => \E j \in commits: keyOf[j] = keyOf[i]

Once == INSTANCE SaveOnce WITH
    saves <- Cardinality(commits),
    told <- IF \E i \in Attempts: seen[i] = "ok" THEN "saved"
            ELSE IF Decided THEN "refused" ELSE "nothing"

\* The save runs once, plus once for each way a key is given up: a connection
\* closed early, a 5xx, a 409, a reload, a purge, a row deleted under a lookup.
ImplementsSaveOnce == Once!Spec

\* However attempts die, pressing Save again comes to an answer: a claim left
\* by a crash costs one 409, not a day until the purge.
SaveIsAnswered == <>Decided
=============================================================================
