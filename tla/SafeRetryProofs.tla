---------------------------- MODULE SafeRetryProofs ----------------------------
(***************************************************************************)
(* Theorems about SafeRetry, for any number of attempts and of faults: a   *)
(* key lets the save run once, what is reported saved is stored, and the   *)
(* whole of it implements SaveOnce.                                        *)
(***************************************************************************)
EXTENDS SafeRetry, FiniteSetTheorems, TLAPS

-----------------------------------------------------------------------------
(* The inductive invariant *)

\* Where an attempt is says what it has done.
AttemptsAreInOrder ==
    \A i \in Attempts:
        /\ run[i] = "none" <=> seen[i] = "unsent"
        /\ run[i] = "none" => i \notin ran /\ answer[i] = "none" /\ ~owns[i]
        /\ run[i] # "none" => keyOf[i] \in Attempts
        /\ run[i] \in {"arrived", "lookup"} => i \notin ran /\ answer[i] = "none" /\ ~owns[i]
        /\ run[i] = "handler" => i \in ran \ commits /\ answer[i] = "none"
        /\ run[i] = "saved" => i \in commits /\ answer[i] = "none"
        /\ run[i] \in {"answering", "finished"} => answer[i] # "none"
        /\ run[i] = "finished" => owns[i]
        /\ owns[i] => answer[i] # "busy"
        /\ i \in commits => i \in ran /\ answer[i] # "refused"

\* The row of a key that a run was started under stays, unless it was deleted:
\* another attempt finds it, at its claim and at its lookup.
RowsOutliveRuns ==
    \A i \in Attempts:
        /\ run[i] = "lookup" \/ i \in ran => row[keyOf[i]] # "free" \/ keyOf[i] \in freed
        /\ \A j \in Attempts:
              i \in ran /\ j \in ran /\ i # j /\ keyOf[i] = keyOf[j] => keyOf[i] \in freed

StoredUnder(key) == \E j \in commits: keyOf[j] = key

\* An ok, on its way, recorded or shown, has a stored save behind it.
OksAreStored ==
    /\ \A i \in Attempts: answer[i] = "ok" \/ seen[i] = "ok" => StoredUnder(keyOf[i])
    /\ \A key \in Attempts: row[key] = "done" => StoredUnder(key)

\* What may still become a save of its own, or has: a run that saved, is being
\* handled or was refused and not settled yet (i), a key in use whose row is
\* free (-key), and the tab's freedom to make a new key (0).
UnderWay(i) == i \in commits \/ run[i] = "handler" \/ (owns[i] /\ answer[i] = "refused")

InUse(key) == \E i \in Attempts: keyOf[i] = key

FreeInUse(key) == row[key] = "free" /\ InUse(key)

MayMakeKey == retryKey = NoKey /\ ~Decided

Slots == (0 - MaxAttempts)..MaxAttempts

Chances ==
    {x \in Slots:
        \/ x \in Attempts /\ UnderWay(x)
        \/ 0 - x \in Attempts /\ FreeInUse(0 - x)
        \/ x = 0 /\ MayMakeKey}

\* Every chance beyond the first was paid for with a risk.
ChancesArePaid ==
    /\ retryKey # NoKey => InUse(retryKey)
    /\ Cardinality(Chances) <= 1 + risks

Inv == TypeOK /\ AttemptsAreInOrder /\ RowsOutliveRuns /\ OksAreStored /\ ChancesArePaid

-----------------------------------------------------------------------------

LEMMA TypesStay ==
    ASSUME TypeOK, AttemptsAreInOrder, [Next]_vars
    PROVE  TypeOK'
<1>0. TypeOK /\ BoundsAssumption
  BY BoundsAssumption
<1>1. CASE Retry
  BY <1>0, <1>1 DEF Retry, Send, Unsent, Decided, history, TypeOK, AttemptsAreInOrder, Attempts, NoKey
<1>2. CASE DoubleClick
  BY <1>0, <1>2 DEF DoubleClick, Send, Unsent, Decided, Fault, history, TypeOK, AttemptsAreInOrder, Attempts, NoKey
<1>3. CASE ReloadPage
  BY <1>0, <1>3 DEF ReloadPage, Fault, Risk, history, TypeOK, AttemptsAreInOrder, Attempts, NoKey
<1>4. CASE Crash
  BY <1>0, <1>4 DEF Crash, Fault, history, TypeOK, AttemptsAreInOrder, Attempts, NoKey
<1>5. ASSUME NEW i \in Attempts, Receive(i) PROVE TypeOK'
  BY <1>0, <1>5 DEF Receive, KeyAfter, Risk, history, TypeOK, AttemptsAreInOrder, Attempts, NoKey
<1>6. ASSUME NEW i \in Attempts, LoseConnection(i) PROVE TypeOK'
  BY <1>0, <1>6 DEF LoseConnection, Fault, history, TypeOK, AttemptsAreInOrder, Attempts, NoKey
<1>7. ASSUME NEW i \in Attempts, Claim(i) PROVE TypeOK'
  BY <1>0, <1>7 DEF Claim, Taken, client, history, TypeOK, AttemptsAreInOrder, Attempts, NoKey
<1>8. ASSUME NEW i \in Attempts, FindTaken(i) PROVE TypeOK'
  BY <1>0, <1>8 DEF FindTaken, Taken, client, history, TypeOK, AttemptsAreInOrder, Attempts, NoKey
<1>9. ASSUME NEW i \in Attempts, LookUp(i) PROVE TypeOK'
  <2>1. keyOf[i] \in Attempts /\ row[keyOf[i]] \in {"free", "held", "done"}
    BY <1>0, <1>9 DEF LookUp, TypeOK, AttemptsAreInOrder
  <2>2. CASE row[keyOf[i]] = "free"
    BY <1>0, <1>9, <2>2 DEF LookUp, Risk, client, TypeOK
  <2>3. CASE row[keyOf[i]] # "free"
    <3>1. Recorded(keyOf[i]) \in {"ok", "busy"}
      BY DEF Recorded
    <3> QED BY <1>0, <1>9, <2>3, <3>1 DEF LookUp, client, TypeOK
  <2> QED BY <2>2, <2>3
<1>10. ASSUME NEW i \in Attempts, Commit(i) PROVE TypeOK'
  BY <1>0, <1>10 DEF Commit, client, history, TypeOK, AttemptsAreInOrder, Attempts, NoKey
<1>11. ASSUME NEW i \in Attempts, Refuse(i) PROVE TypeOK'
  BY <1>0, <1>11 DEF Refuse, AnswerWith, client, history, TypeOK, AttemptsAreInOrder, Attempts, NoKey
<1>12. ASSUME NEW i \in Attempts, Succeed(i) PROVE TypeOK'
  BY <1>0, <1>12 DEF Succeed, AnswerWith, client, history, TypeOK, AttemptsAreInOrder, Attempts, NoKey
<1>13. ASSUME NEW i \in Attempts, Finish(i) PROVE TypeOK'
  BY <1>0, <1>13 DEF Finish, client, history, TypeOK, AttemptsAreInOrder, Attempts, NoKey
<1>14. ASSUME NEW i \in Attempts, Settle(i) PROVE TypeOK'
  <2>1. keyOf[i] \in Attempts
    BY <1>0, <1>14 DEF Settle, TypeOK, AttemptsAreInOrder
  <2>2. CASE Remembered(answer[i])
    BY <1>0, <1>14, <2>1, <2>2 DEF Settle, client, TypeOK
  <2>3. CASE ~Remembered(answer[i])
    <3>1. risks' \in Nat /\ row' = [row EXCEPT ![keyOf[i]] = "free"] /\ freed' = freed \cup {keyOf[i]}
      BY <1>0, <1>14, <2>3 DEF Settle, Delete, Risk, TypeOK
    <3> QED BY <1>0, <1>14, <2>1, <3>1 DEF Settle, client, TypeOK
  <2> QED BY <2>2, <2>3
<1>15. ASSUME NEW i \in Attempts, NoticeClose(i) PROVE TypeOK'
  <2>1. keyOf[i] \in Attempts
    BY <1>0, <1>15 DEF NoticeClose, TypeOK, AttemptsAreInOrder
  <2>2. CASE owns[i]
    <3>1. risks' \in Nat /\ row' = [row EXCEPT ![keyOf[i]] = "free"] /\ freed' = freed \cup {keyOf[i]}
      BY <1>0, <1>15, <2>2 DEF NoticeClose, Delete, Risk, TypeOK
    <3> QED BY <1>0, <1>15, <2>1, <3>1 DEF NoticeClose, client, TypeOK
  <2>3. CASE ~owns[i]
    BY <1>0, <1>15, <2>3 DEF NoticeClose, client, TypeOK
  <2> QED BY <2>2, <2>3
<1>16. ASSUME NEW i \in Attempts, Discard(i) PROVE TypeOK'
  BY <1>0, <1>16 DEF Discard, client, history, TypeOK, AttemptsAreInOrder, Attempts, NoKey
<1>17. ASSUME NEW i \in Attempts, Break(i) PROVE TypeOK'
  BY <1>0, <1>17 DEF Break, AnswerWith, Fault, client, history, TypeOK, AttemptsAreInOrder, Attempts, NoKey
<1>18. ASSUME NEW key \in Attempts, Purge(key) PROVE TypeOK'
  BY <1>0, <1>18 DEF Purge, Delete, Fault, Risk, client, TypeOK, AttemptsAreInOrder, Attempts, NoKey
<1>19. CASE UNCHANGED vars
  BY <1>0, <1>19 DEF vars, client, history, TypeOK, AttemptsAreInOrder, Attempts, NoKey
<1> QED BY <1>1, <1>2, <1>3, <1>4, <1>5, <1>6, <1>7, <1>8, <1>9, <1>10, <1>11, <1>12, <1>13, <1>14, <1>15, <1>16, <1>17, <1>18, <1>19 DEF Next, Serve

LEMMA OrderStays ==
    ASSUME TypeOK, AttemptsAreInOrder, [Next]_vars
    PROVE  AttemptsAreInOrder'
<1>0. TypeOK /\ BoundsAssumption
  BY BoundsAssumption
<1>1. CASE Retry
  BY <1>0, <1>1 DEF Retry, Send, Unsent, Decided, history, TypeOK, AttemptsAreInOrder, Attempts, NoKey
<1>2. CASE DoubleClick
  BY <1>0, <1>2 DEF DoubleClick, Send, Unsent, Decided, Fault, history, TypeOK, AttemptsAreInOrder, Attempts, NoKey
<1>3. CASE ReloadPage
  BY <1>0, <1>3 DEF ReloadPage, Fault, Risk, history, TypeOK, AttemptsAreInOrder, Attempts, NoKey
<1>4. CASE Crash
  BY <1>0, <1>4 DEF Crash, Fault, history, TypeOK, AttemptsAreInOrder, Attempts, NoKey
<1>5. ASSUME NEW i \in Attempts, Receive(i) PROVE AttemptsAreInOrder'
  BY <1>0, <1>5 DEF Receive, KeyAfter, Risk, history, TypeOK, AttemptsAreInOrder, Attempts, NoKey
<1>6. ASSUME NEW i \in Attempts, LoseConnection(i) PROVE AttemptsAreInOrder'
  BY <1>0, <1>6 DEF LoseConnection, Fault, history, TypeOK, AttemptsAreInOrder, Attempts, NoKey
<1>7. ASSUME NEW i \in Attempts, Claim(i) PROVE AttemptsAreInOrder'
  BY <1>0, <1>7 DEF Claim, Taken, client, history, TypeOK, AttemptsAreInOrder, Attempts, NoKey
<1>8. ASSUME NEW i \in Attempts, FindTaken(i) PROVE AttemptsAreInOrder'
  BY <1>0, <1>8 DEF FindTaken, Taken, client, history, TypeOK, AttemptsAreInOrder, Attempts, NoKey
<1>9. ASSUME NEW i \in Attempts, LookUp(i) PROVE AttemptsAreInOrder'
  BY <1>0, <1>9 DEF LookUp, Risk, Recorded, client, history, TypeOK, AttemptsAreInOrder, Attempts, NoKey
<1>10. ASSUME NEW i \in Attempts, Commit(i) PROVE AttemptsAreInOrder'
  BY <1>0, <1>10 DEF Commit, client, history, TypeOK, AttemptsAreInOrder, Attempts, NoKey
<1>11. ASSUME NEW i \in Attempts, Refuse(i) PROVE AttemptsAreInOrder'
  BY <1>0, <1>11 DEF Refuse, AnswerWith, client, history, TypeOK, AttemptsAreInOrder, Attempts, NoKey
<1>12. ASSUME NEW i \in Attempts, Succeed(i) PROVE AttemptsAreInOrder'
  BY <1>0, <1>12 DEF Succeed, AnswerWith, client, history, TypeOK, AttemptsAreInOrder, Attempts, NoKey
<1>13. ASSUME NEW i \in Attempts, Finish(i) PROVE AttemptsAreInOrder'
  BY <1>0, <1>13 DEF Finish, client, history, TypeOK, AttemptsAreInOrder, Attempts, NoKey
<1>14. ASSUME NEW i \in Attempts, Settle(i) PROVE AttemptsAreInOrder'
  BY <1>0, <1>14 DEF Settle, Remembered, Delete, Risk, client, history, TypeOK, AttemptsAreInOrder, Attempts, NoKey
<1>15. ASSUME NEW i \in Attempts, NoticeClose(i) PROVE AttemptsAreInOrder'
  BY <1>0, <1>15 DEF NoticeClose, Delete, Risk, client, history, TypeOK, AttemptsAreInOrder, Attempts, NoKey
<1>16. ASSUME NEW i \in Attempts, Discard(i) PROVE AttemptsAreInOrder'
  BY <1>0, <1>16 DEF Discard, client, history, TypeOK, AttemptsAreInOrder, Attempts, NoKey
<1>17. ASSUME NEW i \in Attempts, Break(i) PROVE AttemptsAreInOrder'
  BY <1>0, <1>17 DEF Break, AnswerWith, Fault, client, history, TypeOK, AttemptsAreInOrder, Attempts, NoKey
<1>18. ASSUME NEW key \in Attempts, Purge(key) PROVE AttemptsAreInOrder'
  BY <1>0, <1>18 DEF Purge, Delete, Fault, Risk, client, TypeOK, AttemptsAreInOrder, Attempts, NoKey
<1>19. CASE UNCHANGED vars
  BY <1>0, <1>19 DEF vars, client, history, TypeOK, AttemptsAreInOrder, Attempts, NoKey
<1> QED BY <1>1, <1>2, <1>3, <1>4, <1>5, <1>6, <1>7, <1>8, <1>9, <1>10, <1>11, <1>12, <1>13, <1>14, <1>15, <1>16, <1>17, <1>18, <1>19 DEF Next, Serve

LEMMA RowsStay ==
    ASSUME TypeOK, AttemptsAreInOrder, RowsOutliveRuns, [Next]_vars
    PROVE  RowsOutliveRuns'
<1>0. TypeOK /\ BoundsAssumption
  BY BoundsAssumption
<1>1. CASE Retry
  BY <1>0, <1>1 DEF Retry, Send, Unsent, Decided, history, TypeOK, AttemptsAreInOrder, RowsOutliveRuns, Attempts, NoKey
<1>2. CASE DoubleClick
  BY <1>0, <1>2 DEF DoubleClick, Send, Unsent, Decided, Fault, history, TypeOK, AttemptsAreInOrder, RowsOutliveRuns, Attempts, NoKey
<1>3. CASE ReloadPage
  BY <1>0, <1>3 DEF ReloadPage, Fault, Risk, history, TypeOK, AttemptsAreInOrder, RowsOutliveRuns, Attempts, NoKey
<1>4. CASE Crash
  BY <1>0, <1>4 DEF Crash, Fault, history, TypeOK, AttemptsAreInOrder, RowsOutliveRuns, Attempts, NoKey
<1>5. ASSUME NEW i \in Attempts, Receive(i) PROVE RowsOutliveRuns'
  BY <1>0, <1>5 DEF Receive, KeyAfter, Risk, history, TypeOK, AttemptsAreInOrder, RowsOutliveRuns, Attempts, NoKey
<1>6. ASSUME NEW i \in Attempts, LoseConnection(i) PROVE RowsOutliveRuns'
  BY <1>0, <1>6 DEF LoseConnection, Fault, history, TypeOK, AttemptsAreInOrder, RowsOutliveRuns, Attempts, NoKey
<1>7. ASSUME NEW i \in Attempts, Claim(i) PROVE RowsOutliveRuns'
  BY <1>0, <1>7 DEF Claim, Taken, client, history, TypeOK, AttemptsAreInOrder, RowsOutliveRuns, Attempts, NoKey
<1>8. ASSUME NEW i \in Attempts, FindTaken(i) PROVE RowsOutliveRuns'
  BY <1>0, <1>8 DEF FindTaken, Taken, client, history, TypeOK, AttemptsAreInOrder, RowsOutliveRuns, Attempts, NoKey
<1>9. ASSUME NEW i \in Attempts, LookUp(i) PROVE RowsOutliveRuns'
  BY <1>0, <1>9 DEF LookUp, Risk, Recorded, client, history, TypeOK, AttemptsAreInOrder, RowsOutliveRuns, Attempts, NoKey
<1>10. ASSUME NEW i \in Attempts, Commit(i) PROVE RowsOutliveRuns'
  BY <1>0, <1>10 DEF Commit, client, history, TypeOK, AttemptsAreInOrder, RowsOutliveRuns, Attempts, NoKey
<1>11. ASSUME NEW i \in Attempts, Refuse(i) PROVE RowsOutliveRuns'
  BY <1>0, <1>11 DEF Refuse, AnswerWith, client, history, TypeOK, AttemptsAreInOrder, RowsOutliveRuns, Attempts, NoKey
<1>12. ASSUME NEW i \in Attempts, Succeed(i) PROVE RowsOutliveRuns'
  BY <1>0, <1>12 DEF Succeed, AnswerWith, client, history, TypeOK, AttemptsAreInOrder, RowsOutliveRuns, Attempts, NoKey
<1>13. ASSUME NEW i \in Attempts, Finish(i) PROVE RowsOutliveRuns'
  BY <1>0, <1>13 DEF Finish, client, history, TypeOK, AttemptsAreInOrder, RowsOutliveRuns, Attempts, NoKey
<1>14. ASSUME NEW i \in Attempts, Settle(i) PROVE RowsOutliveRuns'
  BY <1>0, <1>14 DEF Settle, Remembered, Delete, Risk, client, history, TypeOK, AttemptsAreInOrder, RowsOutliveRuns, Attempts, NoKey
<1>15. ASSUME NEW i \in Attempts, NoticeClose(i) PROVE RowsOutliveRuns'
  BY <1>0, <1>15 DEF NoticeClose, Delete, Risk, client, history, TypeOK, AttemptsAreInOrder, RowsOutliveRuns, Attempts, NoKey
<1>16. ASSUME NEW i \in Attempts, Discard(i) PROVE RowsOutliveRuns'
  BY <1>0, <1>16 DEF Discard, client, history, TypeOK, AttemptsAreInOrder, RowsOutliveRuns, Attempts, NoKey
<1>17. ASSUME NEW i \in Attempts, Break(i) PROVE RowsOutliveRuns'
  BY <1>0, <1>17 DEF Break, AnswerWith, Fault, client, history, TypeOK, AttemptsAreInOrder, RowsOutliveRuns, Attempts, NoKey
<1>18. ASSUME NEW key \in Attempts, Purge(key) PROVE RowsOutliveRuns'
  BY <1>0, <1>18 DEF Purge, Delete, Fault, Risk, client, TypeOK, AttemptsAreInOrder, RowsOutliveRuns, Attempts, NoKey
<1>19. CASE UNCHANGED vars
  BY <1>0, <1>19 DEF vars, client, history, TypeOK, AttemptsAreInOrder, RowsOutliveRuns, Attempts, NoKey
<1> QED BY <1>1, <1>2, <1>3, <1>4, <1>5, <1>6, <1>7, <1>8, <1>9, <1>10, <1>11, <1>12, <1>13, <1>14, <1>15, <1>16, <1>17, <1>18, <1>19 DEF Next, Serve

LEMMA StoredStays ==
    ASSUME TypeOK, AttemptsAreInOrder, OksAreStored, [Next]_vars
    PROVE  OksAreStored'
<1>0. TypeOK /\ BoundsAssumption
  BY BoundsAssumption
<1>1. CASE Retry
  BY <1>0, <1>1 DEF Retry, Send, Unsent, Decided, history, TypeOK, AttemptsAreInOrder, OksAreStored, StoredUnder, Attempts, NoKey
<1>2. CASE DoubleClick
  BY <1>0, <1>2 DEF DoubleClick, Send, Unsent, Decided, Fault, history, TypeOK, AttemptsAreInOrder, OksAreStored, StoredUnder, Attempts, NoKey
<1>3. CASE ReloadPage
  BY <1>0, <1>3 DEF ReloadPage, Fault, Risk, history, TypeOK, AttemptsAreInOrder, OksAreStored, StoredUnder, Attempts, NoKey
<1>4. CASE Crash
  BY <1>0, <1>4 DEF Crash, Fault, history, TypeOK, AttemptsAreInOrder, OksAreStored, StoredUnder, Attempts, NoKey
<1>5. ASSUME NEW i \in Attempts, Receive(i) PROVE OksAreStored'
  BY <1>0, <1>5 DEF Receive, KeyAfter, Risk, history, TypeOK, AttemptsAreInOrder, OksAreStored, StoredUnder, Attempts, NoKey
<1>6. ASSUME NEW i \in Attempts, LoseConnection(i) PROVE OksAreStored'
  BY <1>0, <1>6 DEF LoseConnection, Fault, history, TypeOK, AttemptsAreInOrder, OksAreStored, StoredUnder, Attempts, NoKey
<1>7. ASSUME NEW i \in Attempts, Claim(i) PROVE OksAreStored'
  BY <1>0, <1>7 DEF Claim, Taken, client, history, TypeOK, AttemptsAreInOrder, OksAreStored, StoredUnder, Attempts, NoKey
<1>8. ASSUME NEW i \in Attempts, FindTaken(i) PROVE OksAreStored'
  BY <1>0, <1>8 DEF FindTaken, Taken, client, history, TypeOK, AttemptsAreInOrder, OksAreStored, StoredUnder, Attempts, NoKey
<1>9. ASSUME NEW i \in Attempts, LookUp(i) PROVE OksAreStored'
  BY <1>0, <1>9 DEF LookUp, Risk, Recorded, client, history, TypeOK, AttemptsAreInOrder, OksAreStored, StoredUnder, Attempts, NoKey
<1>10. ASSUME NEW i \in Attempts, Commit(i) PROVE OksAreStored'
  BY <1>0, <1>10 DEF Commit, client, history, TypeOK, AttemptsAreInOrder, OksAreStored, StoredUnder, Attempts, NoKey
<1>11. ASSUME NEW i \in Attempts, Refuse(i) PROVE OksAreStored'
  BY <1>0, <1>11 DEF Refuse, AnswerWith, client, history, TypeOK, AttemptsAreInOrder, OksAreStored, StoredUnder, Attempts, NoKey
<1>12. ASSUME NEW i \in Attempts, Succeed(i) PROVE OksAreStored'
  BY <1>0, <1>12 DEF Succeed, AnswerWith, client, history, TypeOK, AttemptsAreInOrder, OksAreStored, StoredUnder, Attempts, NoKey
<1>13. ASSUME NEW i \in Attempts, Finish(i) PROVE OksAreStored'
  BY <1>0, <1>13 DEF Finish, client, history, TypeOK, AttemptsAreInOrder, OksAreStored, StoredUnder, Attempts, NoKey
<1>14. ASSUME NEW i \in Attempts, Settle(i) PROVE OksAreStored'
  BY <1>0, <1>14 DEF Settle, Remembered, Delete, Risk, client, history, TypeOK, AttemptsAreInOrder, OksAreStored, StoredUnder, Attempts, NoKey
<1>15. ASSUME NEW i \in Attempts, NoticeClose(i) PROVE OksAreStored'
  BY <1>0, <1>15 DEF NoticeClose, Delete, Risk, client, history, TypeOK, AttemptsAreInOrder, OksAreStored, StoredUnder, Attempts, NoKey
<1>16. ASSUME NEW i \in Attempts, Discard(i) PROVE OksAreStored'
  BY <1>0, <1>16 DEF Discard, client, history, TypeOK, AttemptsAreInOrder, OksAreStored, StoredUnder, Attempts, NoKey
<1>17. ASSUME NEW i \in Attempts, Break(i) PROVE OksAreStored'
  BY <1>0, <1>17 DEF Break, AnswerWith, Fault, client, history, TypeOK, AttemptsAreInOrder, OksAreStored, StoredUnder, Attempts, NoKey
<1>18. ASSUME NEW key \in Attempts, Purge(key) PROVE OksAreStored'
  BY <1>0, <1>18 DEF Purge, Delete, Fault, Risk, client, TypeOK, AttemptsAreInOrder, OksAreStored, StoredUnder, Attempts, NoKey
<1>19. CASE UNCHANGED vars
  BY <1>0, <1>19 DEF vars, client, history, TypeOK, AttemptsAreInOrder, OksAreStored, StoredUnder, Attempts, NoKey
<1> QED BY <1>1, <1>2, <1>3, <1>4, <1>5, <1>6, <1>7, <1>8, <1>9, <1>10, <1>11, <1>12, <1>13, <1>14, <1>15, <1>16, <1>17, <1>18, <1>19 DEF Next, Serve
-----------------------------------------------------------------------------
(* Counting chances *)

LEMMA SubsetIsNoLarger ==
    ASSUME NEW S, IsFiniteSet(S), NEW T, T \subseteq S
    PROVE  IsFiniteSet(T) /\ Cardinality(T) <= Cardinality(S) /\ Cardinality(T) \in Nat
BY FS_Subset, FS_CardinalityType

LEMMA AddedIsOneLarger ==
    ASSUME NEW S, IsFiniteSet(S), NEW y
    PROVE  IsFiniteSet(S \cup {y}) /\ Cardinality(S \cup {y}) <= Cardinality(S) + 1
<1>1. Cardinality(S) \in Nat
  BY FS_CardinalityType
<1>2. IsFiniteSet(S \cup {y})
  BY FS_AddElement
<1>3. Cardinality(S \cup {y}) = IF y \in S THEN Cardinality(S) ELSE Cardinality(S) + 1
  BY FS_AddElement
<1>4. CASE y \in S
  BY <1>1, <1>2, <1>3, <1>4
<1>5. CASE y \notin S
  BY <1>1, <1>2, <1>3, <1>5
<1> QED BY <1>4, <1>5

LEMMA SwapIsNoLarger ==
    ASSUME NEW S, IsFiniteSet(S), NEW x \in S, NEW y, NEW T, T \subseteq (S \ {x}) \cup {y}
    PROVE  Cardinality(T) <= Cardinality(S)
<1> DEFINE R == S \ {x}
<1>1. IsFiniteSet(R) /\ Cardinality(R) = Cardinality(S) - 1
  BY FS_RemoveElement
<1>2. Cardinality(R) \in Nat /\ Cardinality(S) \in Nat
  BY <1>1, FS_CardinalityType
<1>3. IsFiniteSet(R \cup {y}) /\ Cardinality(R \cup {y}) <= Cardinality(R) + 1
  BY <1>1, AddedIsOneLarger
<1>4. Cardinality(T) <= Cardinality(R \cup {y}) /\ Cardinality(T) \in Nat
  BY <1>3, SubsetIsNoLarger
<1>5. Cardinality(R \cup {y}) \in Nat
  BY <1>3, FS_CardinalityType
<1> QED BY <1>1, <1>2, <1>3, <1>4, <1>5

LEMMA AddIsOneLarger ==
    ASSUME NEW S, IsFiniteSet(S), NEW y, NEW T, T \subseteq S \cup {y}
    PROVE  Cardinality(T) <= Cardinality(S) + 1
<1>1. IsFiniteSet(S \cup {y}) /\ Cardinality(S \cup {y}) <= Cardinality(S) + 1
  BY AddedIsOneLarger
<1>2. Cardinality(S \cup {y}) \in Nat /\ Cardinality(S) \in Nat
  BY <1>1, FS_CardinalityType
<1>3. Cardinality(T) <= Cardinality(S \cup {y}) /\ Cardinality(T) \in Nat
  BY <1>1, SubsetIsNoLarger
<1> QED BY <1>1, <1>2, <1>3

LEMMA ChancesAreFinite == IsFiniteSet(Chances) /\ Cardinality(Chances) \in Nat
<1>1. IsFiniteSet(Slots)
  BY BoundsAssumption, FS_Interval DEF Slots
<1> QED BY <1>1, SubsetIsNoLarger DEF Chances

LEMMA AttemptsAreSlots ==
    \A i \in Attempts: i \in Slots /\ 0 - i \in Slots /\ i # 0 /\ 0 - i # i
BY BoundsAssumption DEF Attempts, Slots

NothingNew ==
    /\ \A i \in Attempts: UnderWay(i)' => UnderWay(i)
    /\ \A key \in Attempts: FreeInUse(key)' => FreeInUse(key)
    /\ MayMakeKey' => MayMakeKey

LEMMA NoNewChance == NothingNew => Chances' \subseteq Chances
BY DEF Chances, NothingNew

\* Most steps add no chance.
QuietSteps(i) ==
    LoseConnection(i) \/ FindTaken(i) \/ Commit(i) \/ Refuse(i) \/ Succeed(i)
    \/ Finish(i) \/ Discard(i) \/ Break(i) \/ Crash

LEMMA QuietStepsAddNone ==
    ASSUME TypeOK, AttemptsAreInOrder, NEW i \in Attempts, QuietSteps(i)
    PROVE  Chances' \subseteq Chances /\ risks' = risks
<1>0. TypeOK /\ AttemptsAreInOrder
  OBVIOUS
<1>1. ASSUME LoseConnection(i) PROVE NothingNew /\ risks' = risks
  BY <1>0, <1>1 DEF LoseConnection, Fault, TypeOK, AttemptsAreInOrder, client, history, UnderWay, FreeInUse, MayMakeKey, InUse, Decided, Attempts, NothingNew
<1>2. ASSUME FindTaken(i) PROVE NothingNew /\ risks' = risks
  BY <1>0, <1>2 DEF FindTaken, TypeOK, AttemptsAreInOrder, client, history, UnderWay, FreeInUse, MayMakeKey, InUse, Decided, Attempts, NothingNew
<1>3. ASSUME Commit(i) PROVE NothingNew /\ risks' = risks
  BY <1>0, <1>3 DEF Commit, TypeOK, AttemptsAreInOrder, client, history, UnderWay, FreeInUse, MayMakeKey, InUse, Decided, Attempts, NothingNew
<1>4. ASSUME Refuse(i) PROVE NothingNew /\ risks' = risks
  BY <1>0, <1>4 DEF Refuse, AnswerWith, TypeOK, AttemptsAreInOrder, client, history, UnderWay, FreeInUse, MayMakeKey, InUse, Decided, Attempts, NothingNew
<1>5. ASSUME Succeed(i) PROVE NothingNew /\ risks' = risks
  BY <1>0, <1>5 DEF Succeed, AnswerWith, TypeOK, AttemptsAreInOrder, client, history, UnderWay, FreeInUse, MayMakeKey, InUse, Decided, Attempts, NothingNew
<1>6. ASSUME Finish(i) PROVE NothingNew /\ risks' = risks
  BY <1>0, <1>6 DEF Finish, TypeOK, AttemptsAreInOrder, client, history, UnderWay, FreeInUse, MayMakeKey, InUse, Decided, Attempts, NothingNew
<1>7. ASSUME Discard(i) PROVE NothingNew /\ risks' = risks
  BY <1>0, <1>7 DEF Discard, TypeOK, AttemptsAreInOrder, client, history, UnderWay, FreeInUse, MayMakeKey, InUse, Decided, Attempts, NothingNew
<1>8. ASSUME Break(i) PROVE NothingNew /\ risks' = risks
  BY <1>0, <1>8 DEF Break, AnswerWith, Fault, TypeOK, AttemptsAreInOrder, client, history, UnderWay, FreeInUse, MayMakeKey, InUse, Decided, Attempts, NothingNew
<1>9. ASSUME Crash PROVE NothingNew /\ risks' = risks
  BY <1>0, <1>9 DEF Crash, Fault, TypeOK, AttemptsAreInOrder, client, history, UnderWay, FreeInUse, MayMakeKey, InUse, Decided, Attempts, NothingNew
<1>20. NothingNew /\ risks' = risks
  BY <1>1, <1>2, <1>3, <1>4, <1>5, <1>6, <1>7, <1>8, <1>9 DEF QuietSteps
<1> QED BY <1>20, NoNewChance
\* One new chance at a slot y, and the others.
OnlyNewIs(y) ==
    /\ \A i \in Attempts: UnderWay(i)' => UnderWay(i) \/ i = y
    /\ \A key \in Attempts: FreeInUse(key)' => FreeInUse(key) \/ 0 - key = y
    /\ MayMakeKey' => MayMakeKey \/ y = 0

LEMMA OneNewChance ==
    ASSUME NEW y, OnlyNewIs(y)
    PROVE  Chances' \subseteq Chances \cup {y}
<1>1. \A x \in Slots: 0 - (0 - x) = x
  BY BoundsAssumption DEF Slots
<1> QED BY <1>1 DEF Chances, OnlyNewIs

\* What a step does to the chances: none is new, one is paid for with a risk, or
\* one takes the place of another.
Fewer == Chances' \subseteq Chances /\ risks' \in {risks, risks + 1}
Paid == risks' = risks + 1 /\ \E y \in Slots: Chances' \subseteq Chances \cup {y}
Swapped == risks' = risks /\ \E x \in Chances, y \in Slots: Chances' \subseteq (Chances \ {x}) \cup {y}

\* A send uses the tab's freedom to make a key, or a key that is in use.
LEMMA SendSwaps ==
    ASSUME TypeOK, AttemptsAreInOrder, ChancesArePaid, ~Decided, Send
    PROVE  Fewer \/ Swapped
<1>0. TypeOK /\ AttemptsAreInOrder /\ ~Decided
  OBVIOUS
<1>1. PICK i \in Unsent:
         LET key == IF retryKey = NoKey THEN i ELSE retryKey IN
         /\ retryKey' = key
         /\ keyOf' = [keyOf EXCEPT ![i] = key]
         /\ seen' = [seen EXCEPT ![i] = "waiting"]
         /\ run' = [run EXCEPT ![i] = "arrived"]
         /\ UNCHANGED <<owns, answer, gone, row, history>>
  BY DEF Send
<1>2. i \in Attempts /\ run[i] = "none" /\ risks' = risks
  BY <1>0, <1>1 DEF Unsent, AttemptsAreInOrder, history
<1>3. \A j \in Attempts: UnderWay(j)' => UnderWay(j)
  BY <1>0, <1>1, <1>2 DEF client, history, UnderWay, FreeInUse, MayMakeKey, InUse, Decided, Attempts, TypeOK, AttemptsAreInOrder
<1>4. ~MayMakeKey'
  BY <1>0, <1>1, <1>2 DEF MayMakeKey, NoKey, Attempts, TypeOK
<1>5. CASE retryKey = NoKey
  <2>1. \A key \in Attempts: FreeInUse(key)' => FreeInUse(key) \/ key = i
    BY <1>0, <1>1, <1>2, <1>5 DEF client, history, UnderWay, FreeInUse, MayMakeKey, InUse, Decided, Attempts, TypeOK, AttemptsAreInOrder
  <2>2. 0 - i \in Slots /\ 0 \in Slots /\ \A key \in Attempts: key = i => 0 - key = 0 - i
    BY <1>2, BoundsAssumption DEF Attempts, Slots
  <2>3. Chances' \subseteq Chances \cup {0 - i}
    BY <1>3, <1>4, <2>1, <2>2, OneNewChance DEF OnlyNewIs
  <2>4. 0 \in Chances
    BY <1>0, <1>5, <2>2 DEF Chances, MayMakeKey
  <2>5. 0 \notin Chances'
    BY <1>4 DEF Chances, Attempts
  <2> QED BY <1>2, <2>2, <2>3, <2>4, <2>5 DEF Swapped
<1>6. CASE retryKey # NoKey
  <2>1. InUse(retryKey)
    BY <1>6 DEF ChancesArePaid
  <2>2. \A key \in Attempts: FreeInUse(key)' => FreeInUse(key)
    BY <1>0, <1>1, <1>2, <1>6, <2>1 DEF client, history, UnderWay, FreeInUse, MayMakeKey, InUse, Decided, Attempts, TypeOK, AttemptsAreInOrder
  <2> QED BY <1>2, <1>3, <1>4, <2>2, NoNewChance DEF NothingNew, Fewer
<1> QED BY <1>5, <1>6

\* A claim takes the key's place.
LEMMA ClaimSwaps ==
    ASSUME TypeOK, AttemptsAreInOrder, NEW i \in Attempts, Claim(i)
    PROVE  Swapped
<1>0. TypeOK /\ AttemptsAreInOrder /\ Claim(i)
  OBVIOUS
<1>k. PICK key \in Attempts: key = keyOf[i]
  BY <1>0 DEF Claim, AttemptsAreInOrder
<1>1. key \in Attempts /\ row[key] = "free" /\ row'[key] = "held" /\ risks' = risks
  BY <1>0, <1>k DEF Claim, Taken, TypeOK, AttemptsAreInOrder
<1>2. OnlyNewIs(i)
  BY <1>0 DEF OnlyNewIs, Claim, Taken, client, history, UnderWay, FreeInUse, MayMakeKey, InUse, Decided, Attempts, TypeOK, AttemptsAreInOrder
<1>3. FreeInUse(key) /\ ~FreeInUse(key)'
  BY <1>1, <1>k DEF FreeInUse, InUse
<1>4. i \in Slots /\ 0 - key \in Slots /\ 0 - (0 - key) = key /\ 0 - key \notin Attempts /\ 0 - key # 0
  BY <1>1, BoundsAssumption DEF Attempts, Slots
<1>5. 0 - key \in Chances /\ 0 - key \notin Chances'
  BY <1>1, <1>3, <1>4 DEF Chances
<1>6. Chances' \subseteq Chances \cup {i}
  BY <1>2, OneNewChance
<1> QED BY <1>1, <1>4, <1>5, <1>6 DEF Swapped

\* A lookup that finds the row gone runs the save without a claim.
LEMMA LookUpPays ==
    ASSUME TypeOK, AttemptsAreInOrder, NEW i \in Attempts, LookUp(i)
    PROVE  Fewer \/ Paid
<1>0. TypeOK /\ AttemptsAreInOrder /\ LookUp(i)
  OBVIOUS
<1>1. CASE row[keyOf[i]] = "free"
  <2>1. OnlyNewIs(i) /\ risks' = risks + 1
    BY <1>0, <1>1 DEF OnlyNewIs, LookUp, Risk, client, history, UnderWay, FreeInUse, MayMakeKey, InUse, Decided, Attempts, TypeOK, AttemptsAreInOrder
  <2> QED BY <2>1, OneNewChance, AttemptsAreSlots DEF Paid
<1>2. CASE row[keyOf[i]] # "free"
  <2>1. NothingNew /\ risks' = risks
    BY <1>0, <1>2 DEF NothingNew, LookUp, client, history, UnderWay, FreeInUse, MayMakeKey, InUse, Decided, Attempts, TypeOK, AttemptsAreInOrder
  <2> QED BY <2>1, NoNewChance DEF Fewer
<1> QED BY <1>1, <1>2

\* Deleting a row frees its key for one run more.
LEMMA DeletedKeyIsNew ==
    ASSUME TypeOK, NEW key \in Attempts, Delete(key), UNCHANGED client,
           \A i \in Attempts: UnderWay(i)' => UnderWay(i)
    PROVE  Chances' \subseteq Chances \cup {0 - key} /\ 0 - key \in Slots
<1>1. OnlyNewIs(0 - key)
  BY DEF OnlyNewIs, Delete, FreeInUse, InUse, MayMakeKey, Decided, client, TypeOK
<1> QED BY <1>1, OneNewChance, AttemptsAreSlots

\* A refused run's chance goes back to its key; a broken one's is a risk.
LEMMA SettleSwapsOrPays ==
    ASSUME TypeOK, AttemptsAreInOrder, NEW i \in Attempts, Settle(i)
    PROVE  Fewer \/ Paid \/ Swapped
<1>0. TypeOK /\ AttemptsAreInOrder /\ Settle(i)
  OBVIOUS
<1>1. keyOf[i] \in Attempts /\ owns[i] /\ answer[i] \in {"ok", "refused", "broken"} /\ UNCHANGED client
  BY <1>0 DEF Settle, TypeOK, AttemptsAreInOrder
<1>2. \A j \in Attempts: UnderWay(j)' => UnderWay(j)
  BY <1>0 DEF Settle, client, history, UnderWay, FreeInUse, MayMakeKey, InUse, Decided, Attempts, TypeOK, AttemptsAreInOrder
<1>3. CASE answer[i] = "ok"
  <2>1. NothingNew /\ risks' = risks
    BY <1>0, <1>2, <1>3 DEF NothingNew, Settle, Remembered, client, history, UnderWay, FreeInUse, MayMakeKey, InUse, Decided, Attempts, TypeOK, AttemptsAreInOrder
  <2> QED BY <2>1, NoNewChance DEF Fewer
<1>4. CASE answer[i] = "broken"
  <2>1. Delete(keyOf[i]) /\ risks' = risks + 1
    BY <1>0, <1>4 DEF Settle, Remembered, Risk
  <2> QED BY <1>0, <1>1, <1>2, <2>1, DeletedKeyIsNew DEF Paid
<1>5. CASE answer[i] = "refused"
  <2>1. Delete(keyOf[i]) /\ risks' = risks /\ ~owns'[i] /\ run'[i] = "over" /\ UNCHANGED commits
    BY <1>0, <1>5 DEF Settle, Remembered, TypeOK
  <2>2. Chances' \subseteq Chances \cup {0 - keyOf[i]} /\ 0 - keyOf[i] \in Slots
    BY <1>0, <1>1, <1>2, <2>1, DeletedKeyIsNew
  <2>3. i \notin commits
    BY <1>0, <1>5 DEF AttemptsAreInOrder
  <2>4. i \in Chances /\ i \in Slots
    BY <1>1, <1>5, AttemptsAreSlots DEF Chances, UnderWay
  <2>5. ~UnderWay(i)'
    BY <2>1, <2>3 DEF UnderWay
  <2>6. 0 - i \notin Attempts /\ i # 0
    BY DEF Attempts
  <2>7. i \notin Chances'
    BY <2>5, <2>6 DEF Chances
  <2> QED BY <2>1, <2>2, <2>4, <2>7 DEF Swapped
<1> QED BY <1>1, <1>3, <1>4, <1>5

LEMMA NoticeClosePays ==
    ASSUME TypeOK, AttemptsAreInOrder, NEW i \in Attempts, NoticeClose(i)
    PROVE  Fewer \/ Paid
<1>0. TypeOK /\ AttemptsAreInOrder /\ NoticeClose(i)
  OBVIOUS
<1>1. \A j \in Attempts: UnderWay(j)' => UnderWay(j)
  BY <1>0 DEF NoticeClose, client, history, UnderWay, FreeInUse, MayMakeKey, InUse, Decided, Attempts, TypeOK, AttemptsAreInOrder
<1>2. CASE owns[i]
  <2>1. keyOf[i] \in Attempts /\ Delete(keyOf[i]) /\ risks' = risks + 1 /\ UNCHANGED client
    BY <1>0, <1>2 DEF NoticeClose, Risk, AttemptsAreInOrder
  <2> QED BY <1>0, <1>1, <2>1, DeletedKeyIsNew DEF Paid
<1>3. CASE ~owns[i]
  <2>1. NothingNew /\ risks' = risks
    BY <1>0, <1>1, <1>3 DEF NothingNew, NoticeClose, client, history, UnderWay, FreeInUse, MayMakeKey, InUse, Decided, Attempts, TypeOK, AttemptsAreInOrder
  <2> QED BY <2>1, NoNewChance DEF Fewer
<1> QED BY <1>2, <1>3

LEMMA PurgePays ==
    ASSUME TypeOK, NEW key \in Attempts, Purge(key)
    PROVE  Paid
<1>1. Delete(key) /\ risks' = risks + 1 /\ UNCHANGED client
      /\ \A j \in Attempts: UnderWay(j)' => UnderWay(j)
  BY DEF Purge, Risk, UnderWay
<1> QED BY <1>1, DeletedKeyIsNew DEF Paid

\* An answer that settles the save leaves no key to make; a 409 pays for one.
LEMMA ReceivePays ==
    ASSUME TypeOK, AttemptsAreInOrder, NEW i \in Attempts, Receive(i)
    PROVE  Fewer \/ Paid
<1>0. TypeOK /\ AttemptsAreInOrder /\ Receive(i)
  OBVIOUS
<1>1. /\ \A j \in Attempts: UnderWay(j)' => UnderWay(j)
      /\ \A key \in Attempts: FreeInUse(key)' => FreeInUse(key)
  BY <1>0 DEF Receive, client, history, UnderWay, FreeInUse, MayMakeKey, InUse, Decided, Attempts, TypeOK, AttemptsAreInOrder
<1>2. CASE answer[i] = "busy"
  <2>1. OnlyNewIs(0) /\ risks' = risks + 1
    BY <1>0, <1>1, <1>2 DEF OnlyNewIs, Receive, Risk
  <2>2. 0 \in Slots
    BY BoundsAssumption DEF Slots
  <2> QED BY <2>1, <2>2, OneNewChance DEF Paid
<1>3. CASE answer[i] # "busy"
  <2>1. MayMakeKey' => MayMakeKey
    BY <1>0, <1>3 DEF Receive, KeyAfter, client, history, UnderWay, FreeInUse, MayMakeKey, InUse, Decided, Attempts, TypeOK, AttemptsAreInOrder
  <2>2. risks' = risks
    BY <1>0, <1>3 DEF Receive
  <2> QED BY <1>1, <2>1, <2>2, NoNewChance DEF NothingNew, Fewer
<1> QED BY <1>2, <1>3

LEMMA ReloadPays ==
    ASSUME TypeOK, ReloadPage
    PROVE  Paid
<1>1. OnlyNewIs(0) /\ risks' = risks + 1
  BY DEF OnlyNewIs, ReloadPage, Risk, UnderWay, FreeInUse, InUse, MayMakeKey
<1>2. 0 \in Slots
  BY BoundsAssumption DEF Slots
<1> QED BY <1>1, <1>2, OneNewChance DEF Paid

LEMMA StepPays ==
    ASSUME TypeOK, AttemptsAreInOrder, ChancesArePaid, [Next]_vars
    PROVE  Fewer \/ Paid \/ Swapped
<1>1. CASE Retry
  BY <1>1, SendSwaps DEF Retry
<1>2. CASE DoubleClick
  BY <1>2, SendSwaps DEF DoubleClick
<1>3. CASE ReloadPage
  BY <1>3, ReloadPays
<1>4. CASE Crash
  <2>1. 1 \in Attempts
    BY BoundsAssumption DEF Attempts
  <2> QED BY <1>4, <2>1, QuietStepsAddNone DEF QuietSteps, Fewer
<1>5. ASSUME NEW i \in Attempts, Receive(i) \/ LoseConnection(i) \/ Serve(i) \/ Break(i)
      PROVE  Fewer \/ Paid \/ Swapped
  <2>1. CASE QuietSteps(i)
    BY <2>1, QuietStepsAddNone DEF Fewer
  <2>2. CASE Receive(i)
    BY <2>2, ReceivePays
  <2>3. CASE Claim(i)
    BY <2>3, ClaimSwaps
  <2>4. CASE LookUp(i)
    BY <2>4, LookUpPays
  <2>5. CASE Settle(i)
    BY <2>5, SettleSwapsOrPays
  <2>6. CASE NoticeClose(i)
    BY <2>6, NoticeClosePays
  <2> QED BY <1>5, <2>1, <2>2, <2>3, <2>4, <2>5, <2>6 DEF Serve, QuietSteps
<1>6. ASSUME NEW key \in Attempts, Purge(key) PROVE Fewer \/ Paid \/ Swapped
  BY <1>6, PurgePays
<1>7. CASE UNCHANGED vars
  <2>1. NothingNew /\ risks' = risks
    BY <1>7 DEF vars, NothingNew, client, history, UnderWay, FreeInUse, InUse, MayMakeKey, Decided
  <2> QED BY <2>1, NoNewChance DEF Fewer
<1> QED BY <1>1, <1>2, <1>3, <1>4, <1>5, <1>6, <1>7 DEF Next

LEMMA KeysStayInUse ==
    ASSUME TypeOK, AttemptsAreInOrder, ChancesArePaid, [Next]_vars
    PROVE  retryKey' # NoKey => InUse(retryKey)'
<1>0. TypeOK /\ AttemptsAreInOrder /\ (retryKey # NoKey => InUse(retryKey))
  BY DEF ChancesArePaid
<1>1. CASE Send
  BY <1>0, <1>1 DEF Send, Unsent, InUse, TypeOK, Attempts, NoKey
<1>2. CASE retryKey' \in {NoKey, retryKey} /\ keyOf' = keyOf
  BY <1>0, <1>2 DEF InUse
<1>3. ASSUME NEW i \in Attempts, Receive(i) PROVE retryKey' \in {NoKey, retryKey} /\ keyOf' = keyOf
  BY <1>3 DEF Receive, KeyAfter
<1>4. ASSUME NEW i \in Attempts, LoseConnection(i) \/ Serve(i) \/ Break(i)
      PROVE  retryKey' = retryKey /\ keyOf' = keyOf
  BY <1>4 DEF LoseConnection, Serve, Break, Claim, FindTaken, LookUp, Commit, Refuse, Succeed, AnswerWith,
              Finish, Settle, NoticeClose, Discard, client
<1> QED
  BY <1>1, <1>2, <1>3, <1>4 DEF Next, Retry, DoubleClick, ReloadPage, Crash, Purge, vars, client

LEMMA ChancesStayPaid ==
    ASSUME TypeOK, AttemptsAreInOrder, ChancesArePaid, [Next]_vars
    PROVE  ChancesArePaid'
<1>1. risks \in Nat /\ Cardinality(Chances) \in Nat /\ Cardinality(Chances) <= 1 + risks /\ IsFiniteSet(Chances)
  BY ChancesAreFinite DEF TypeOK, ChancesArePaid
<1> DEFINE next == Chances'
<1>2. IsFiniteSet(next) /\ Cardinality(next) \in Nat
  <2>1. next \subseteq Slots
    BY DEF Chances, Slots
  <2>2. IsFiniteSet(Slots)
    BY BoundsAssumption, FS_Interval DEF Slots
  <2> QED BY <2>1, <2>2, SubsetIsNoLarger
<1>3. Cardinality(next) <= 1 + risks' /\ risks' \in Nat
  <2>1. CASE Fewer
    <3>1. Cardinality(next) <= Cardinality(Chances)
      BY <1>1, <2>1, SubsetIsNoLarger DEF Fewer
    <3> QED BY <1>1, <1>2, <2>1, <3>1 DEF Fewer
  <2>2. CASE Paid
    <3>1. Cardinality(next) <= Cardinality(Chances) + 1
      BY <1>1, <2>2, AddIsOneLarger DEF Paid
    <3> QED BY <1>1, <1>2, <2>2, <3>1 DEF Paid
  <2>3. CASE Swapped
    <3>1. Cardinality(next) <= Cardinality(Chances)
      BY <1>1, <2>3, SwapIsNoLarger DEF Swapped
    <3> QED BY <1>1, <1>2, <2>3, <3>1 DEF Swapped
  <2> QED BY <2>1, <2>2, <2>3, StepPays
<1>4. Cardinality(Chances)' <= 1 + risks'
  BY <1>3
<1> QED BY <1>4, KeysStayInUse DEF ChancesArePaid

-----------------------------------------------------------------------------
(* The theorems *)

LEMMA InitHolds == Init => Inv
<1> SUFFICES ASSUME Init PROVE Inv
  OBVIOUS
<1>1. TypeOK /\ AttemptsAreInOrder
  BY BoundsAssumption DEF Init, TypeOK, AttemptsAreInOrder, Attempts, NoKey
<1>2. RowsOutliveRuns /\ OksAreStored
  BY DEF Init, RowsOutliveRuns, OksAreStored, StoredUnder
<1>3. Chances \subseteq {0}
  BY DEF Init, Chances, UnderWay, FreeInUse, InUse, Attempts, NoKey
<1>4. Cardinality(Chances) <= 1
  <2>1. IsFiniteSet({0}) /\ Cardinality({0}) = 1
    BY FS_Singleton
  <2> QED BY <1>3, <2>1, SubsetIsNoLarger
<1> QED BY <1>1, <1>2, <1>4 DEF Init, ChancesArePaid, Inv

LEMMA StepKeeps == Inv /\ [Next]_vars => Inv'
BY TypesStay, OrderStays, RowsStay, StoredStays, ChancesStayPaid DEF Inv

LEMMA AlwaysInv == Spec => []Inv
BY InitHolds, StepKeeps, PTL DEF Spec

\* Every variable of the tab, the requests and the rows keeps its type
\* (client/src/api/http.ts, middleware/idempotency.ts).
THEOREM TypeCorrect == Spec => []TypeOK
<1>1. Inv => TypeOK
  BY DEF Inv
<1> QED BY <1>1, AlwaysInv, PTL

\* A key lets the save run once: two runs of it mean its row was deleted in
\* between (idempotency.ts: the unique key, "finish", "close", the purge).
THEOREM OncePerKey == Spec => []RunsOncePerKey
<1>1. Inv => RunsOncePerKey
  BY DEF Inv, TypeOK, AttemptsAreInOrder, RowsOutliveRuns, RunsOncePerKey
<1> QED BY <1>1, AlwaysInv, PTL

\* "Saved" is shown only for a save that is stored (idempotency.ts replays the
\* recorded answer of an earlier attempt as this one's).
THEOREM SavedIsStoredAlways == Spec => []SavedIsStored
<1>1. Inv => SavedIsStored
  BY DEF Inv, OksAreStored, StoredUnder, SavedIsStored
<1> QED BY <1>1, AlwaysInv, PTL

-----------------------------------------------------------------------------
(* The refinement *)

LEMMA CommitsAreCounted ==
    ASSUME Inv
    PROVE  /\ IsFiniteSet(commits) /\ Cardinality(commits) \in Nat
           /\ \A i \in Attempts: run[i] = "handler" => Cardinality(commits) < 1 + risks
<1>1. commits \subseteq Attempts /\ risks \in Nat
  BY DEF Inv, TypeOK
<1>2. IsFiniteSet(Chances) /\ Cardinality(Chances) \in Nat /\ Cardinality(Chances) <= 1 + risks
  BY ChancesAreFinite DEF Inv, ChancesArePaid
<1>3. commits \subseteq Chances
  BY <1>1, AttemptsAreSlots DEF Chances, UnderWay
<1>4. IsFiniteSet(commits) /\ Cardinality(commits) \in Nat
  BY <1>2, <1>3, SubsetIsNoLarger
<1>5. ASSUME NEW i \in Attempts, run[i] = "handler" PROVE Cardinality(commits) < 1 + risks
  <2>1. i \notin commits
    BY <1>5 DEF Inv, AttemptsAreInOrder
  <2>2. Cardinality(commits \cup {i}) = Cardinality(commits) + 1
    BY <1>4, <2>1, FS_AddElement
  <2>3. commits \cup {i} \subseteq Chances
    BY <1>3, <1>5, AttemptsAreSlots DEF Chances, UnderWay
  <2>4. Cardinality(commits \cup {i}) <= Cardinality(Chances)
    BY <1>2, <2>3, SubsetIsNoLarger
  <2> QED BY <1>1, <1>2, <1>4, <2>2, <2>4
<1> QED BY <1>4, <1>5

Told == IF \E i \in Attempts: seen[i] = "ok" THEN "saved"
        ELSE IF Decided THEN "refused" ELSE "nothing"

\* What a step shows the person.
LEMMA StepTells ==
    ASSUME Inv, [Next]_vars
    PROVE  \/ Told' = Told
           \/ UNCHANGED <<commits, risks>> /\ Told # "saved" /\ Told' = "saved" /\ commits # {}
           \/ UNCHANGED <<commits, risks>> /\ Told = "nothing" /\ Told' = "refused"
<1>1. CASE \A i \in Attempts: seen'[i] \in {"ok", "refused"} \/ seen[i] \in {"ok", "refused"} => seen'[i] = seen[i]
  BY <1>1 DEF Told, Decided
<1>2. ASSUME NEW i \in Attempts, Receive(i), answer[i] \in {"ok", "refused"}
      PROVE  \/ Told' = Told
             \/ UNCHANGED <<commits, risks>> /\ Told # "saved" /\ Told' = "saved" /\ commits # {}
             \/ UNCHANGED <<commits, risks>> /\ Told = "nothing" /\ Told' = "refused"
  <2>1. answer[i] = "ok" => commits # {}
    BY DEF Inv, OksAreStored, StoredUnder
  <2>2. UNCHANGED <<commits, risks>> /\ seen' = [seen EXCEPT ![i] = answer[i]] /\ seen[i] = "waiting"
    BY <1>2 DEF Receive
  <2>3. \A j \in Attempts: seen'[j] = IF j = i THEN answer[i] ELSE seen[j]
    BY <2>2 DEF Inv, TypeOK
  <2> QED BY <1>2, <2>1, <2>2, <2>3 DEF Told, Decided
<1>3. seen \in [Attempts -> {"unsent", "waiting", "ok", "refused", "busy", "failed"}]
  BY DEF Inv, TypeOK
<1>4. ASSUME NEW i \in Attempts, Receive(i), answer[i] \notin {"ok", "refused"}
      PROVE  \A j \in Attempts: seen'[j] \in {"ok", "refused"} \/ seen[j] \in {"ok", "refused"} => seen'[j] = seen[j]
  <2>1. answer[i] \in {"busy", "broken"} /\ seen[i] = "waiting"
    BY <1>4 DEF Receive, Inv, TypeOK
  <2>2. \A j \in Attempts: seen'[j] = IF j = i THEN IF answer[i] = "broken" THEN "failed" ELSE "busy" ELSE seen[j]
    BY <1>3, <1>4, <2>1 DEF Receive
  <2> QED BY <2>1, <2>2
<1>5. ASSUME NEW i \in Attempts, LoseConnection(i) \/ Serve(i) \/ Break(i)
      PROVE  \A j \in Attempts: seen'[j] \in {"ok", "refused"} \/ seen[j] \in {"ok", "refused"} => seen'[j] = seen[j]
  BY <1>3, <1>5 DEF LoseConnection, Serve, Break, Claim, FindTaken, LookUp, Commit, Refuse, Succeed, AnswerWith,
              Finish, Settle, NoticeClose, Discard, client
<1>6. CASE Retry \/ DoubleClick \/ ReloadPage \/ Crash
  BY <1>1, <1>3, <1>6 DEF Retry, DoubleClick, Send, Unsent, ReloadPage, Crash
<1>7. CASE (\E key \in Attempts: Purge(key)) \/ UNCHANGED vars
  BY <1>1, <1>7 DEF Purge, vars, client
<1> QED BY <1>1, <1>2, <1>4, <1>5, <1>6, <1>7 DEF Next

\* What a step saves, and what it risks.
LEMMA StepSaves ==
    ASSUME Inv, [Next]_vars
    PROVE  \/ UNCHANGED <<commits, risks>>
           \/ \E i \in Attempts: run[i] = "handler" /\ commits' = commits \cup {i} /\ risks' = risks /\ Told' = Told
           \/ risks' = risks + 1 /\ commits' = commits /\ Told' = Told
<1>1. CASE Retry \/ DoubleClick
  BY <1>1 DEF Retry, DoubleClick, Send, history
<1>2. CASE Crash
  BY <1>2 DEF Crash, history
<1>3. CASE ReloadPage
  BY <1>3, StepTells DEF ReloadPage, Risk, Inv, TypeOK
<1>4. ASSUME NEW i \in Attempts, LoseConnection(i) \/ Break(i) \/ Claim(i) \/ FindTaken(i)
                                  \/ Refuse(i) \/ Succeed(i) \/ Finish(i) \/ Discard(i)
      PROVE  UNCHANGED <<commits, risks>>
  BY <1>4 DEF LoseConnection, Break, Claim, FindTaken, Refuse, Succeed, AnswerWith, Finish, Discard, history
<1>5. ASSUME NEW i \in Attempts, Receive(i) \/ LookUp(i) \/ Settle(i) \/ NoticeClose(i)
      PROVE  commits' = commits /\ risks' \in {risks, risks + 1}
  BY <1>5 DEF Receive, LookUp, Settle, NoticeClose, Risk
<1>6. ASSUME NEW key \in Attempts, Purge(key) PROVE commits' = commits /\ risks' = risks + 1
  BY <1>6 DEF Purge, Risk
<1>7. ASSUME NEW i \in Attempts, Commit(i)
      PROVE  run[i] = "handler" /\ commits' = commits \cup {i} /\ risks' = risks /\ Told' = Told
  BY <1>7 DEF Commit, client, Told, Decided
<1>8. risks \in Nat /\ (risks' = risks + 1 => risks' # risks)
  BY DEF Inv, TypeOK
<1> QED
  BY <1>1, <1>2, <1>3, <1>4, <1>5, <1>6, <1>7, <1>8, StepTells DEF Next, Serve, vars, history

\* Safe retries keep the promise of SaveOnce: the save runs once, and once more
\* at most for every time a key or its row was given up (http.ts's retryKeys,
\* idempotency.ts).
THEOREM RetriesImplementSaveOnce == Spec => ImplementsSaveOnce
<1>1. Init => Once!Init
  <2>1. Init => Cardinality(commits) = 0
    BY FS_EmptySet DEF Init
  <2> QED BY <2>1 DEF Init, Once!Init, Decided
<1>2. Inv /\ [Next]_vars => [Once!Next]_(Once!vars)
  <2> SUFFICES ASSUME Inv, [Next]_vars PROVE [Once!Next]_(Once!vars)
    OBVIOUS
  <2>1. IsFiniteSet(commits) /\ Cardinality(commits) \in Nat /\ risks \in Nat
    BY CommitsAreCounted DEF Inv, TypeOK
  <2>2. commits # {} => Cardinality(commits) > 0
    BY <2>1, FS_EmptySet
  <2>3. CASE UNCHANGED <<commits, risks>>
    BY <2>2, <2>3, StepTells DEF Told, Once!Next, Once!TellSaved, Once!TellRefused, Once!vars
  <2>4. CASE \E i \in Attempts: run[i] = "handler" /\ commits' = commits \cup {i} /\ risks' = risks /\ Told' = Told
    <3>1. PICK i \in Attempts: run[i] = "handler" /\ commits' = commits \cup {i} /\ risks' = risks /\ Told' = Told
      BY <2>4
    <3>2. i \notin commits
      BY <3>1 DEF Inv, AttemptsAreInOrder
    <3>3. Cardinality(commits') = Cardinality(commits) + 1
      BY <2>1, <3>1, <3>2, FS_AddElement
    <3>4. Cardinality(commits) < 1 + risks
      BY <3>1, CommitsAreCounted
    <3> QED BY <3>1, <3>3, <3>4 DEF Told, Once!Next, Once!Save
  <2>5. CASE risks' = risks + 1 /\ commits' = commits /\ Told' = Told
    BY <2>5 DEF Told, Once!Next, Once!Risk
  <2> QED BY <2>3, <2>4, <2>5, StepSaves
<1> QED BY <1>1, <1>2, AlwaysInv, PTL DEF Spec, Once!Spec, ImplementsSaveOnce
===============================================================================
