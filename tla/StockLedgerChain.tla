---------------------------- MODULE StockLedgerChain ----------------------------
(***************************************************************************)
(* What the rows of StockLedger owe to each other and to the locks, and    *)
(* what the reading pages (StockReports) make of them, for every value of  *)
(* the constants.                                                          *)
(*                                                                         *)
(* The chain of openings is consistent: a saved row opens at what carries  *)
(* into it unless its opening was imported, was left to an admin, or is    *)
(* the next row of a carry-forward in progress.  A step changes what       *)
(* carries into at most one saved row of a page: the first after the row   *)
(* written, or the first of a later date than the count changed            *)
(* (RowReachesNextRowOnly, CountReachesNextRowOnly).  The step leaves a    *)
(* walk at exactly that row.                                               *)
(*                                                                         *)
(* A row that is finished changes by an approval only, and an imported     *)
(* opening by another import only.  The reading pages agree with the       *)
(* ledger and with each other, except where the chain is excused.          *)
(***************************************************************************)
EXTENDS StockReports, StockLedgerProofs

\* Why a row needs no carry-forward.
Explained(page, p) ==
    \/ Follows(page, p)
    \/ rows[page][p].manual
    \/ HeldOpening(page, p) \in requests
    \/ p \in declined[page]

LEMMA ChainIsExplained ==
    ChainFollows <=> \A page \in Pages : \A p \in saved[page] :
                        Explained(page, p) \/ NextOnWalk(page, p)
BY DEF ChainFollows, Explained

\* What carries into the row, at its first save and now.
Gated(S, R, C, p) == CarryOf(S, R, C, p, R[p].missed)
Ungated(S, R, C, p) == CarryOf(S, R, C, p, {})

LEMMA FollowsIsAboutCarry ==
    ASSUME NEW page \in Pages, NEW p \in Periods
    PROVE  /\ Follows(page, p) <=>
                rows[page][p].opening \in
                    {Gated(saved[page], rows[page], counts[page], p),
                     Ungated(saved[page], rows[page], counts[page], p)}
           /\ Follows(page, p)' <=>
                rows'[page][p].opening \in
                    {Gated(saved'[page], rows'[page], counts'[page], p),
                     Ungated(saved'[page], rows'[page], counts'[page], p)}
BY CarryIsCarryOf, CarryIsCarryOfNext DEF Follows, Gated, Ungated

\* A row that keeps its opening, its flag and its carry stays explained.
LEMMA StaysExplained ==
    ASSUME NEW page \in Pages, NEW p \in Periods, Explained(page, p),
           Gated(saved'[page], rows'[page], counts'[page], p)
                = Gated(saved[page], rows[page], counts[page], p),
           Ungated(saved'[page], rows'[page], counts'[page], p)
                = Ungated(saved[page], rows[page], counts[page], p),
           rows'[page][p].opening = rows[page][p].opening,
           rows[page][p].manual => rows'[page][p].manual,
           HeldOpening(page, p) \in requests => HeldOpening(page, p) \in requests',
           p \in declined[page] => p \in declined'[page]
    PROVE  Explained(page, p)'
BY FollowsIsAboutCarry DEF Explained, HeldOpening

LEMMA IdleWalksNothing ==
    ASSUME Idle, NEW page \in Pages, NEW p
    PROVE  ~NextOnWalk(page, p)
BY DEF Idle, NextOnWalk

\* The first saved row after the cursor is the next one on the walk.
LEMMA FirstIsNextOnWalk ==
    ASSUME NEW page \in Pages, NEW q \in saved'[page],
           saved'[page] \in SUBSET Nat, walk'[page].on, walk'[page].cursor \in Nat,
           walk'[page].cursor < q,
           \A r \in saved'[page] : ~(walk'[page].cursor < r /\ r < q)
    PROVE  NextOnWalk(page, q)'
<1>1. RowsAfter(page, walk[page].cursor)' = {r \in saved'[page] : r > walk'[page].cursor}
  BY DEF RowsAfter
<1>2. q \in RowsAfter(page, walk[page].cursor)'
  BY <1>1
<1>3. \A r \in RowsAfter(page, walk[page].cursor)' : q <= r
  BY <1>1
<1> QED BY <1>2, <1>3 DEF NextOnWalk

-----------------------------------------------------------------------------
(* Saves and approvals of a figure *)

\* The row of period p on a page after it was written, or left alone.
WrittenAt(page, p) ==
    /\ \A r \in Periods \ {p} : rows'[page][r] = rows[page][r]
    /\ walk'[page].on /\ walk'[page].cursor = p
    /\ \/ saved'[page] = saved[page] /\ rows'[page] = rows[page]
       \/ /\ saved'[page] = saved[page] \cup {p}
          /\ rows'[page][p].missed = rows[page][p].missed
          /\ \/ rows'[page][p].manual
             \/ /\ rows'[page][p].opening = OpeningOf(page, p)
                /\ rows[page][p].manual => rows'[page][p].manual

LEMMA EntryWritesAt ==
    ASSUME TypeOK, NEW page \in Pages, NEW p \in Periods, NEW opening \in Int,
           NEW typed \in BOOLEAN, NEW figs, IsFigures(figs), NEW cascade \in BOOLEAN,
           typed \/ opening = OpeningOf(page, p),
           WriteEntry(page, p, opening, typed, figs, cascade), NEW q \in Pages
    PROVE  WrittenAt(q, p)
<1>1. /\ \A r \in Periods \ {p} : rows'[q][r] = rows[q][r]
      /\ walk'[q].on /\ walk'[q].cursor = p
      /\ saved'[page] = saved[page] \cup {p}
  BY WrittenElsewhere
<1>2. CASE q = page
  <2>1. /\ rows'[page][p].opening = opening
        /\ rows'[page][p].manual = (rows[page][p].manual \/ typed)
        /\ rows'[page][p].missed = rows[page][p].missed
    BY WrittenRow
  <2> QED BY <1>1, <1>2, <2>1 DEF WrittenAt
<1>3. CASE q = OtherPage(page)
  BY <1>1, <1>3, MirroredRow DEF WrittenAt
<1> QED BY <1>2, <1>3, PagesAreTwo

\* Such a step leaves every row explained but the next one, which is walked.
LEMMA WrittenPageIsExplained ==
    ASSUME TypeOK, Idle, ChainFollows, NEW page \in Pages, NEW p \in Periods,
           WrittenAt(page, p), KeepsHeldOpenings, UNCHANGED <<counts, declined>>,
           NEW q \in saved'[page]
    PROVE  Explained(page, q)' \/ NextOnWalk(page, q)'
<1> DEFINE S == saved[page]
           R == rows[page]
           R2 == rows'[page]
           C == counts[page]
<1>0. S \in SUBSET Periods /\ p \in Nat /\ Periods \subseteq Nat
  BY PeriodsAssumption DEF TypeOK
<1>1. q \in Periods /\ q \in Nat /\ saved'[page] \in SUBSET Periods
  BY <1>0 DEF WrittenAt
<1>2. CASE q > p /\ \A r \in saved'[page] : ~(p < r /\ r < q)
  BY <1>0, <1>1, <1>2, FirstIsNextOnWalk DEF WrittenAt
<1>3. CASE q <= p \/ \E r \in saved'[page] : p < r /\ r < q
  <2>1. q <= p \/ \E r \in S : p < r /\ r < q
    BY <1>0, <1>3 DEF WrittenAt
  <2>2. CASE saved'[page] = saved[page] /\ rows'[page] = rows[page]
    <3>1. Explained(page, q)
      BY <2>2, ChainIsExplained, IdleWalksNothing
    <3> QED BY <1>1, <2>2, <3>1, StaysExplained DEF KeepsHeldOpenings
  <2>3. CASE saved'[page] = saved[page] \cup {p} /\ R2[p].missed = R[p].missed
    <3>1. \A r \in Periods \ {p} : R2[r] = R[r] /\ R2[r].remaining = R[r].remaining
      BY DEF WrittenAt
    <3>2. ASSUME NEW hidden
          PROVE  CarryOf(S \cup {p}, R2, C, q, hidden) = CarryOf(S, R, C, q, hidden)
      <4>1. \A r \in Periods \ {p} : R2[r].remaining = R[r].remaining
        BY <3>1
      <4>2. S \in SUBSET Periods /\ p \in Periods /\ q \in Periods
        BY <1>0, <1>1
      <4> HIDE DEF S, R, R2, C
      <4> QED BY ONLY <2>1, <4>1, <4>2, RowReachesNextRowOnly
    <3>3. R2[q].missed = R[q].missed
      BY <1>1, <2>3, <3>1
    <3>4. /\ Gated(saved'[page], rows'[page], counts'[page], q) = Gated(S, R, C, q)
          /\ Ungated(saved'[page], rows'[page], counts'[page], q) = Ungated(S, R, C, q)
      BY <2>3, <3>2, <3>3 DEF Gated, Ungated
    <3>5. CASE q # p
      <4>1. q \in saved[page]
        BY <2>3, <3>5
      <4>2. Explained(page, q)
        BY <4>1, ChainIsExplained, IdleWalksNothing
      <4>3. rows'[page][q] = rows[page][q]
        BY <1>1, <3>1, <3>5
      <4> QED BY <1>1, <3>4, <4>2, <4>3, StaysExplained DEF KeepsHeldOpenings
    <3>6. CASE q = p /\ rows'[page][p].manual
      BY <3>6 DEF Explained
    <3>7. CASE /\ q = p /\ rows'[page][p].opening = OpeningOf(page, p)
               /\ rows[page][p].manual => rows'[page][p].manual
      <4>1. CASE p \in saved[page]
        <5>1. Explained(page, p)
          BY <4>1, ChainIsExplained, IdleWalksNothing
        <5>2. rows'[page][p].opening = rows[page][p].opening
          BY <3>7, <4>1 DEF OpeningOf
        <5> QED BY <3>4, <3>7, <5>1, <5>2, StaysExplained DEF KeepsHeldOpenings
      <4>2. CASE p \notin saved[page]
        <5>1. rows'[page][p].opening = Ungated(S, R, C, p)
          BY <3>7, <4>2, CarryIsCarryOf DEF OpeningOf, Ungated
        <5>2. Follows(page, p)'
          BY <3>4, <3>7, <5>1, FollowsIsAboutCarry
        <5> QED BY <3>7, <5>2 DEF Explained
      <4> QED BY <4>1, <4>2
    <3> QED BY <2>2, <3>5, <3>6, <3>7 DEF WrittenAt
  <2> QED BY <2>2, <2>3 DEF WrittenAt
<1> QED BY <1>0, <1>1, <1>2, <1>3

-----------------------------------------------------------------------------
(* Counts *)

LEMMA CountPageIsExplained ==
    ASSUME TypeOK, Idle, ChainFollows, NEW c \in Periods, CountChange(c),
           KeepsHeldOpenings, UNCHANGED declined,
           NEW page \in Pages, NEW q \in saved'[page]
    PROVE  Explained(page, q)' \/ NextOnWalk(page, q)'
<1> DEFINE S == saved[page]
           R == rows[page]
           R2 == rows'[page]
           C == counts[page]
           C2 == counts'[page]
<1>1. /\ S \in SUBSET Periods /\ saved'[page] = S /\ q \in Periods /\ q \in Nat /\ c \in Nat
      /\ Periods \subseteq Nat /\ S \in SUBSET Nat
  BY PeriodsAssumption DEF TypeOK, CountChange
<1>2. \A r \in Periods : /\ R2[r].remaining = R[r].remaining
                         /\ R2[r].opening = R[r].opening
                         /\ R2[r].manual = R[r].manual
                         /\ R2[r].missed \ {c} = R[r].missed \ {c}
  BY DEF CountChange, RowsMayMiss, SameFigures
<1>3. \A d \in Periods \ {c} : C2[d] = C[d]
  BY DEF CountChange, CountsChangeAt
<1>4. Explained(page, q)
  BY <1>1, ChainIsExplained, IdleWalksNothing
<1>5. ASSUME \A hidden, hidden2 : hidden \ {c} = hidden2 \ {c} =>
                CarryOf(S, R2, C2, q, hidden2) = CarryOf(S, R, C, q, hidden)
      PROVE  Explained(page, q)'
  <2>1. /\ Gated(saved'[page], R2, C2, q) = Gated(S, R, C, q)
        /\ Ungated(saved'[page], R2, C2, q) = Ungated(S, R, C, q)
    BY <1>1, <1>2, <1>5 DEF Gated, Ungated
  <2> QED BY <1>1, <1>2, <1>4, <2>1, StaysExplained DEF KeepsHeldOpenings
<1>6. CASE walk'[page].on /\ walk'[page].cursor = NightOf(Day(c))
  <2>1. CASE Day(q) <= Day(c) \/ \E r \in S : Day(c) < Day(r) /\ r < q
    <3>1. ASSUME NEW hidden, NEW hidden2, hidden \ {c} = hidden2 \ {c}
          PROVE  CarryOf(S, R2, C2, q, hidden2) = CarryOf(S, R, C, q, hidden)
      <4>1. \A r \in Periods : R2[r].remaining = R[r].remaining
        BY <1>2
      <4>2. S \in SUBSET Periods /\ c \in Periods /\ q \in Periods
        BY <1>1
      <4> HIDE DEF S, R, R2, C, C2
      <4> QED BY ONLY <1>3, <2>1, <3>1, <4>1, <4>2, CountReachesNextRowOnly
    <3> QED BY <1>5, <3>1
  <2>2. CASE ~(Day(q) <= Day(c)) /\ \A r \in S : ~(Day(c) < Day(r) /\ r < q)
    <3>1. NightOf(Day(c)) < q
      BY <1>1, <2>2, AfterNightIsLaterDay, DayIsNat
    <3>2. \A r \in S : ~(NightOf(Day(c)) < r /\ r < q)
      BY <1>1, <2>2, AfterNightIsLaterDay
    <3>3. NightOf(Day(c)) \in Nat
      BY <1>1, DayIsNat
    <3> QED BY <1>1, <1>6, <3>1, <3>2, <3>3, FirstIsNextOnWalk
  <2> QED BY <2>1, <2>2
<1>7. CASE rows'[page] = rows[page] /\ counts'[page] = counts[page]
  <2>1. /\ Gated(saved'[page], R2, C2, q) = Gated(S, R, C, q)
        /\ Ungated(saved'[page], R2, C2, q) = Ungated(S, R, C, q)
    BY <1>1, <1>7
  <2> QED BY <1>1, <1>2, <1>4, <2>1, StaysExplained DEF KeepsHeldOpenings
<1>8. CASE counts[page][c].standing # "applied" /\ counts'[page][c].standing # "applied"
  <2>1. ASSUME NEW hidden, NEW hidden2, hidden \ {c} = hidden2 \ {c}
        PROVE  CarryOf(S, R2, C2, q, hidden2) = CarryOf(S, R, C, q, hidden)
    <3>1. \A r \in Periods : R2[r].remaining = R[r].remaining
      BY <1>2
    <3>2. S \in SUBSET Periods /\ c \in Periods /\ q \in Periods
      BY <1>1
    <3>3. c \notin InForce(S, C, q, hidden) /\ c \notin InForce(S, C2, q, hidden2)
      BY <1>8 DEF InForce
    <3> HIDE DEF S, R, R2, C, C2
    <3> QED BY ONLY <1>3, <2>1, <3>1, <3>2, <3>3, CarryIgnoresCount
  <2> QED BY <1>5, <2>1
<1> QED BY <1>6, <1>7, <1>8 DEF CountChange, WalksOrKeeps

-----------------------------------------------------------------------------
(* Walk steps *)

\* Only the row a walk is at depends on the walk.
LEMMA WalkIsAtNextRow ==
    ASSUME TypeOK, NEW page \in Pages, NEW q \in saved[page], NextOnWalk(page, q)
    PROVE  RowsAfter(page, walk[page].cursor) # {} /\ q = NextRow(page)
<1>1. q \in RowsAfter(page, walk[page].cursor)
      /\ \A r \in RowsAfter(page, walk[page].cursor) : q <= r
  BY DEF NextOnWalk
<1>2. /\ NextRow(page) \in RowsAfter(page, walk[page].cursor)
      /\ \A r \in RowsAfter(page, walk[page].cursor) : NextRow(page) <= r
  BY <1>1, NextRowIsFirst DEF RowsAfter
<1>3. q \in Nat /\ NextRow(page) \in Nat
  BY <1>2, PeriodsAssumption DEF TypeOK, RowsAfter
<1>4. q <= NextRow(page) /\ NextRow(page) <= q
  BY <1>1, <1>2
<1> QED BY <1>1, <1>3, <1>4

\* Steps that rewrite no row keep every other row as it was.
LEMMA StopOrHoldKeepsChain ==
    ASSUME TypeOK, ChainFollows, NEW w \in Pages,
           EndOfChain(w) \/ StopAtRow(w) \/ HoldRow(w)
    PROVE  ChainFollows'
<1>1. /\ UNCHANGED <<saved, rows, counts>>
      /\ walk' = [walk EXCEPT ![w] = NoWalk]
      /\ requests \subseteq requests'
  BY DEF EndOfChain, StopAtRow, HoldRow
<1>2. ASSUME NEW page \in Pages, NEW q \in saved[page]
      PROVE  Explained(page, q)' \/ NextOnWalk(page, q)'
  <2>1. q \in Periods /\ (Explained(page, q) \/ NextOnWalk(page, q))
    BY ChainIsExplained DEF TypeOK
  <2>2. Follows(page, q)' <=> Follows(page, q)
    BY <1>1, <2>1, FollowsIsAboutCarry
  <2>3. CASE page # w
    <3>1. NextOnWalk(page, q) => NextOnWalk(page, q)'
      BY <1>1, <2>3 DEF NextOnWalk, RowsAfter, TypeOK
    <3>2. declined'[page] = declined[page]
      BY <2>3 DEF EndOfChain, StopAtRow, HoldRow, TypeOK
    <3> QED BY <1>1, <2>1, <2>2, <3>1, <3>2 DEF Explained, HeldOpening
  <2>4. CASE page = w /\ EndOfChain(w)
    <3>1. ~NextOnWalk(page, q)
      BY <2>4, WalkIsAtNextRow DEF EndOfChain
    <3>2. declined' = declined
      BY <2>4 DEF EndOfChain
    <3> QED BY <1>1, <2>1, <2>2, <3>1, <3>2 DEF Explained, HeldOpening
  <2>5. CASE page = w /\ ~EndOfChain(w) /\ q # NextRow(w)
    <3>1. ~NextOnWalk(page, q)
      BY <2>5, WalkIsAtNextRow
    <3>2. q \in declined[page] => q \in declined'[page]
      BY <2>5 DEF StopAtRow, HoldRow, TypeOK
    <3> QED BY <1>1, <2>1, <2>2, <3>1, <3>2 DEF Explained, HeldOpening
  <2>6. CASE page = w /\ q = NextRow(w) /\ StopAtRow(w)
    <3>1. CASE rows[page][q].manual
      BY <1>1, <3>1 DEF Explained
    <3>2. CASE Settled(w, q)
      BY <2>2, <2>6, <3>2 DEF Settled, WalkCarry, Follows, Explained
    <3> QED BY <2>6, <3>1, <3>2 DEF StopAtRow
  <2>7. CASE page = w /\ q = NextRow(w) /\ HoldRow(w)
    <3>1. HeldOpening(page, q) \in requests'
      BY <2>7 DEF HoldRow
    <3> QED BY <3>1 DEF Explained, HeldOpening
  <2> QED BY <2>3, <2>4, <2>5, <2>6, <2>7
<1>3. \A page \in Pages : \A q \in saved'[page] : Explained(page, q)' \/ NextOnWalk(page, q)'
  BY <1>1, <1>2
<1> QED BY <1>3 DEF ChainFollows, Explained

\* Rewriting a row explains it, and passes the walk on to the row after it.
LEMMA RewriteKeepsChain ==
    ASSUME TypeOK, ChainFollows, NEW w \in Pages, RewriteRow(w),
           NEW page \in Pages, NEW q \in saved[page]
    PROVE  Explained(page, q)' \/ NextOnWalk(page, q)'
<1> DEFINE n == NextRow(w)
           S == saved[w]
           R == rows[w]
           R2 == rows'[w]
           C == counts[w]
<1>1. /\ UNCHANGED <<saved, counts, requests>>
      /\ walk' = [walk EXCEPT ![w].cursor = n]
      /\ declined' = [declined EXCEPT ![w] = declined[w] \ {n}]
      /\ RowsAfter(w, walk[w].cursor) # {} /\ walk[w].on
  BY DEF RewriteRow, Walking
<1>2. /\ \A r \in Pages, d \in Periods : ~(r = w /\ d = n) => rows'[r][d] = rows[r][d]
      /\ R2[n].opening = WalkCarry(w, n) /\ R2[n].missed = R[n].missed
      /\ rows' \in [Pages -> [Periods -> Row]]
  BY RewrittenRow
<1>3. n \in S /\ n \in Periods /\ n > walk[w].cursor
  BY <1>1, NextRowIsFirst
<1>4. /\ q \in Periods /\ q \in Nat /\ S \in SUBSET Periods /\ Periods \subseteq Nat
      /\ Explained(page, q) \/ NextOnWalk(page, q)
  BY ChainIsExplained, PeriodsAssumption DEF TypeOK
<1>5. CASE page # w
  <2>1. rows'[page] = rows[page]
    <3>1. \A d \in Periods : rows'[page][d] = rows[page][d]
      BY <1>2, <1>5
    <3>2. rows'[page] \in [Periods -> Row] /\ rows[page] \in [Periods -> Row]
      BY <1>2 DEF TypeOK
    <3> QED BY <3>1, <3>2
  <2>2. walk'[page] = walk[page] /\ declined'[page] = declined[page]
    BY <1>1, <1>5 DEF TypeOK
  <2>3. Follows(page, q)' <=> Follows(page, q)
    BY <1>1, <1>4, <2>1, FollowsIsAboutCarry
  <2>4. NextOnWalk(page, q) => NextOnWalk(page, q)'
    BY <1>1, <2>2 DEF NextOnWalk, RowsAfter
  <2> QED BY <1>1, <1>4, <2>1, <2>2, <2>3, <2>4 DEF Explained, HeldOpening
<1>6. CASE page = w /\ (q <= n \/ \E r \in S : n < r /\ r < q)
  <2>1. ASSUME NEW hidden
        PROVE  CarryOf(S, R2, C, q, hidden) = CarryOf(S, R, C, q, hidden)
    <3>1. \A r \in Periods \ {n} : R2[r].remaining = R[r].remaining
      BY <1>2
    <3>2. S \cup {n} = S
      BY <1>3
    <3>3. S \in SUBSET Periods /\ n \in Periods /\ q \in Periods
      BY <1>3, <1>4
    <3>4. q <= n \/ \E r \in S : n < r /\ r < q
      BY <1>6
    <3> HIDE DEF S, R, R2, C, n
    <3>5. CarryOf(S \cup {n}, R2, C, q, hidden) = CarryOf(S, R, C, q, hidden)
      BY ONLY <3>1, <3>3, <3>4, RowReachesNextRowOnly
    <3> QED BY <3>2, <3>5
  <2>2. R2[q].missed = R[q].missed
    BY <1>2, <1>4
  <2>3. /\ Gated(saved'[w], rows'[w], counts'[w], q) = Gated(S, R, C, q)
        /\ Ungated(saved'[w], rows'[w], counts'[w], q) = Ungated(S, R, C, q)
    BY <1>1, <2>1, <2>2 DEF Gated, Ungated
  <2>4. CASE q = n
    <3>1. WalkCarry(w, n) \in {Gated(S, R, C, n), Ungated(S, R, C, n)}
      BY <1>3, CarryIsCarryOf DEF WalkCarry, Gated, Ungated
    <3>2. rows'[w][q].opening \in {Gated(S, R, C, q), Ungated(S, R, C, q)}
      BY <1>2, <2>4, <3>1
    <3>3. Follows(w, q)'
      BY <1>4, <2>3, <3>2, FollowsIsAboutCarry
    <3> QED BY <1>6, <3>3 DEF Explained
  <2>5. CASE q # n
    <3>1. Explained(page, q)
      BY <1>4, <1>6, <2>5, WalkIsAtNextRow
    <3>2. rows'[page][q] = rows[page][q]
      BY <1>2, <1>4, <1>6, <2>5
    <3>3. q \in declined[page] => q \in declined'[page]
      BY <1>1, <1>6, <2>5 DEF TypeOK
    <3> QED BY <1>1, <1>4, <1>6, <2>3, <3>1, <3>2, <3>3, StaysExplained
  <2> QED BY <2>4, <2>5
<1>7. CASE page = w /\ q > n /\ \A r \in S : ~(n < r /\ r < q)
  <2>1. walk'[w].on /\ walk'[w].cursor = n
    BY <1>1 DEF TypeOK, Walk
  <2> QED BY <1>1, <1>3, <1>4, <1>7, <2>1, FirstIsNextOnWalk
<1>8. n \in Nat
  BY <1>3, <1>4
<1> HIDE DEF n
<1> QED BY <1>4, <1>5, <1>6, <1>7, <1>8

-----------------------------------------------------------------------------
(* Decisions on a held opening *)

LEMMA DecisionKeepsChain ==
    ASSUME TypeOK, ChainFollows, OpeningDecision,
           NEW page \in Pages, NEW q \in saved[page]
    PROVE  Explained(page, q)' \/ NextOnWalk(page, q)'
<1>1. PICK r \in requests :
        (r.field = "opening" /\ Reject(r)) \/ \E cascade \in BOOLEAN : ApproveOpening(r, cascade)
  BY DEF OpeningDecision
<1>2. Idle /\ requests' = requests \ {r} /\ UNCHANGED <<saved, rows, counts>>
  BY <1>1 DEF Reject, ApproveOpening
<1>3. q \in Periods /\ q \in Nat /\ Explained(page, q) /\ saved[page] \in SUBSET Nat
  BY <1>2, ChainIsExplained, IdleWalksNothing, PeriodsAssumption DEF TypeOK
<1>4. Follows(page, q)' <=> Follows(page, q)
  BY <1>2, <1>3, FollowsIsAboutCarry
<1>5. \A d \in declined[page] : d \in declined'[page]
  BY <1>1 DEF Reject, ApproveOpening, TypeOK
<1>6. CASE HeldOpening(page, q) # r
  BY <1>2, <1>3, <1>4, <1>5, <1>6 DEF Explained, HeldOpening
<1>7. CASE HeldOpening(page, q) = r
  <2>1. r.page = page /\ r.period = q /\ r.field = "opening"
    BY <1>7 DEF HeldOpening
  <2>2. CASE Reject(r)
    BY <2>1, <2>2 DEF Reject, Explained, TypeOK
  <2>3. ASSUME NEW cascade \in BOOLEAN, ApproveOpening(r, cascade)
        PROVE  NextOnWalk(page, q)'
    <3>1. walk'[page].on /\ walk'[page].cursor = q - 1
      BY <2>1, <2>3 DEF ApproveOpening, TypeOK, WalkFrom, NoWalk
    <3>2. q \in Nat \ {0}
      BY <1>3, PeriodsAssumption
    <3>3. q - 1 \in Nat /\ q - 1 < q
      BY <3>2
    <3>4. \A d \in saved[page] : ~(q - 1 < d /\ d < q)
      BY <1>3
    <3> QED BY <1>2, <1>3, <3>1, <3>3, <3>4, FirstIsNextOnWalk
  <2> QED BY <1>1, <2>2, <2>3
<1> QED BY <1>6, <1>7

-----------------------------------------------------------------------------

LEMMA StepKeepsChain ==
    ASSUME TypeOK, ChainFollows, [Next]_vars
    PROVE  ChainFollows'
<1> DEFINE Goal == \A page \in Pages : \A q \in saved'[page] :
                        Explained(page, q)' \/ NextOnWalk(page, q)'
<1>1. Goal => ChainFollows'
  BY DEF ChainFollows, Explained
<1>2. ASSUME NEW w \in Pages, WalkStep(w) PROVE ChainFollows'
  <2>1. CASE RewriteRow(w)
    <3>1. saved' = saved
      BY <2>1 DEF RewriteRow
    <3>2. Goal
      BY <2>1, <3>1, RewriteKeepsChain
    <3> QED BY <1>1, <3>2
  <2>2. CASE EndOfChain(w) \/ StopAtRow(w) \/ HoldRow(w)
    BY <2>2, StopOrHoldKeepsChain
  <2> QED BY <1>2, <2>1, <2>2 DEF WalkStep
<1>3. CASE EntryStep
  <2>1. PICK p \in Periods : \A page \in Pages : WrittenAt(page, p)
    BY <1>3, EntryWritesAt DEF EntryStep
  <2>2. Idle /\ KeepsHeldOpenings /\ UNCHANGED <<counts, declined>>
    BY <1>3 DEF EntryStep
  <2>3. Goal
    BY <2>1, <2>2, WrittenPageIsExplained
  <2> QED BY <1>1, <2>3
<1>4. CASE CountStep
  <2>1. PICK c \in Periods : CountChange(c)
    BY <1>4 DEF CountStep
  <2>2. Idle /\ KeepsHeldOpenings /\ UNCHANGED declined
    BY <1>4 DEF CountStep
  <2>3. Goal
    BY <2>1, <2>2, CountPageIsExplained
  <2> QED BY <1>1, <2>3
<1>5. CASE QuietStep
  <2>1. UNCHANGED <<saved, rows, counts, declined, walk>> /\ KeepsHeldOpenings
    BY <1>5 DEF QuietStep
  <2>2. ASSUME NEW page \in Pages, NEW q \in saved[page]
        PROVE  Explained(page, q)' \/ NextOnWalk(page, q)'
    <3>1. q \in Periods /\ (Explained(page, q) \/ NextOnWalk(page, q))
      BY ChainIsExplained DEF TypeOK
    <3>2. Follows(page, q)' <=> Follows(page, q)
      BY <2>1, <3>1, FollowsIsAboutCarry
    <3>3. NextOnWalk(page, q)' <=> NextOnWalk(page, q)
      BY <2>1 DEF NextOnWalk, RowsAfter
    <3> QED BY <2>1, <3>1, <3>2, <3>3 DEF Explained, KeepsHeldOpenings, HeldOpening
  <2> QED BY <1>1, <2>1, <2>2
<1>6. CASE OpeningDecision
  <2>1. saved' = saved
    BY <1>6 DEF OpeningDecision, Reject, ApproveOpening
  <2>2. Goal
    BY <1>6, <2>1, DecisionKeepsChain
  <2> QED BY <1>1, <2>2
<1> QED BY <1>2, <1>3, <1>4, <1>5, <1>6, StepKinds

\* No saved row silently keeps a stale opening: after every save, publish,
\* revert, finish, unlock and decision, for any number of periods, a row opens
\* at what carries into it, or at an imported figure, or an admin has been asked
\* or has refused to change it, or the carry-forward in progress reaches it next.
THEOREM ChainIsConsistent == Spec => []ChainFollows
<1>1. Init => ChainFollows
  BY DEF Init, ChainFollows
<1>2. TypeOK /\ ChainFollows /\ [Next]_vars => ChainFollows'
  BY StepKeepsChain
<1> QED BY <1>1, <1>2, TypeCorrect, PTL DEF Spec

-----------------------------------------------------------------------------
(* Applied counts *)

\* What the property rests on: ledger_recount and ledger_held_audit violate it
\* with a second counted sheet, and with a finished page after the counted date.
OneSheetCounted == \A c, d \in CountPeriods : c = d
CountedDaysStayOpen == \A c \in CountPeriods, p \in FinishPeriods : Day(p) <= Day(c)

\* A row over which a count is in force opens at what carries into it now,
\* whatever it missed, or at an imported figure, or the publish is about to reach
\* it.
CountOpens(page, p) ==
    \/ InForce(saved[page], counts[page], p, {}) = {}
    \/ rows[page][p].opening = Ungated(saved[page], rows[page], counts[page], p)
    \/ rows[page][p].manual
PublishAhead(page, p) == NextOnWalk(page, p) /\ walk[page].reach
CountsReach == \A page \in Pages : \A p \in saved[page] : CountOpens(page, p) \/ PublishAhead(page, p)
AppliedAreCounted ==
    \A page \in Pages : \A c \in Periods : counts[page][c].standing = "applied" => c \in CountPeriods
LocksAreAllowed == \A p \in Periods : closures[p].locked # {} => p \in FinishPeriods
CountsInv == TypeOK /\ CountsReach /\ AppliedAreCounted /\ LocksAreAllowed

\* The count of a sheet is applied by a publish only, which walks past the gate.
LEMMA CountsMove ==
    ASSUME TypeOK, [Next]_vars, NEW page \in Pages, NEW c \in Periods,
           counts'[page][c] # counts[page][c]
    PROVE  \/ counts'[page][c].standing # "applied"
           \/ /\ c \in CountPeriods /\ walk'[page].on /\ walk'[page].reach
              /\ walk'[page].cursor = NightOf(Day(c))
<1>1. ASSUME NEW pages, NEW d, NEW count, NEW cascade, Unapply(pages, d, count, cascade),
             \A q \in pages : count[q].standing # "applied"
      PROVE  counts'[page][c].standing # "applied"
  <2>1. counts'[page] = IF page \in pages THEN [counts[page] EXCEPT ![d] = count[page]] ELSE counts[page]
    BY <1>1 DEF Unapply
  <2>2. page \in pages /\ c = d
    BY <2>1 DEF TypeOK
  <2> QED BY <1>1, <2>1, <2>2 DEF TypeOK
<1>2. ASSUME NEW q \in Pages, NEW d \in CountPeriods, CountSheet(q, d)
      PROVE  counts'[page][c].standing # "applied"
  <2>1. CASE \E value \in CountValues : SaveCount(q, d, value)
    <3>1. PICK value \in CountValues, cascade \in BOOLEAN :
            Unapply({q}, d, [x \in {q} |-> Draft(value)], cascade)
      BY <2>1 DEF SaveCount
    <3> DEFINE count == [x \in {q} |-> Draft(value)]
    <3>2. \A x \in {q} : count[x].standing # "applied"
      BY DEF Draft
    <3>3. Unapply({q}, d, count, cascade)
      BY <3>1
    <3> HIDE DEF count
    <3> QED BY <1>1, <3>2, <3>3
  <2>2. CASE DeleteCount(q, d)
    <3> DEFINE count == [x \in {q} |-> NoCount]
    <3>1. PICK cascade \in BOOLEAN : Unapply({q}, d, count, cascade)
      BY <2>2 DEF DeleteCount
    <3>2. \A x \in {q} : count[x].standing # "applied"
      BY DEF NoCount
    <3> HIDE DEF count
    <3> QED BY <1>1, <3>1, <3>2
  <2> QED BY <1>2, <2>1, <2>2 DEF CountSheet, RequestCount
<1>3. ASSUME NEW d \in CountPeriods, NEW batch \in SUBSET Pages, Revert(d, batch)
      PROVE  counts'[page][c].standing # "applied"
  <2> DEFINE reverted == {q \in Pages : counts[q][d].batch = batch}
             count == [q \in Pages |-> Draft(counts[q][d].value)]
  <2>1. PICK cascade \in BOOLEAN : Unapply(reverted, d, count, cascade)
    BY <1>3 DEF Revert
  <2>2. \A q \in reverted : count[q].standing # "applied"
    BY DEF Draft
  <2> HIDE DEF reverted, count
  <2> QED BY <1>1, <2>1, <2>2
<1>4. ASSUME NEW r \in requests, NEW cascade \in BOOLEAN, ApproveCount(r, cascade)
      PROVE  counts'[page][c].standing # "applied"
  <2> DEFINE count == [q \in {r.page} |-> Draft(r.value)]
  <2>1. Unapply({r.page}, r.period, count, cascade)
    BY <1>4 DEF ApproveCount
  <2>2. \A q \in {r.page} : count[q].standing # "applied"
    BY DEF Draft
  <2> HIDE DEF count
  <2> QED BY <1>1, <2>1, <2>2
<1>5. ASSUME NEW d \in CountPeriods, NEW apply \in BOOLEAN, Publish(d, apply)
      PROVE  \/ counts'[page][c].standing # "applied"
             \/ /\ c \in CountPeriods /\ walk'[page].on /\ walk'[page].reach
                /\ walk'[page].cursor = NightOf(Day(c))
  <2> DEFINE released == Drafts(d) \cup (IF apply THEN Uncounted(d) ELSE {})
             standing == IF apply THEN "applied" ELSE "audit"
  <2>1. counts'[page] = IF page \in released
            THEN [counts[page] EXCEPT ![d] = Released(counts[page][d], standing, released)]
            ELSE counts[page]
    BY <1>5 DEF Publish
  <2>2. page \in released /\ c = d
    BY <2>1 DEF TypeOK
  <2>3. counts'[page][c].standing = standing
    BY <2>1, <2>2 DEF TypeOK, Released, Count
  <2>4. CASE ~apply
    BY <2>3, <2>4
  <2>5. CASE apply
    <3>1. walk'[page] = [FromNextDay(d, FALSE) EXCEPT !.reach = TRUE]
      BY <1>5, <2>2, <2>5 DEF Publish
    <3>2. FromNextDay(d, FALSE) \in Walk /\ FromNextDay(d, FALSE).on
          /\ FromNextDay(d, FALSE).cursor = NightOf(Day(d))
      BY FromNextDayIsWalk, SubPeriodsAssumption
    <3> QED BY <2>2, <3>1, <3>2 DEF Walk
  <2> QED BY <2>4, <2>5
<1>6. \A q \in Pages : WalkStep(q) => counts' = counts
  BY DEF WalkStep, EndOfChain, StopAtRow, HoldRow, RewriteRow
<1>7. \A e \in Entries : Enter(e.page, e.period, e.figs) \/ Propose(e.page, e.period, e.figs)
                            => counts' = counts
  BY DEF Enter, SaveEntry, Propose, RequestFigure
<1>8. \A p \in FinishPeriods :
        /\ \A q \in Pages : FinishPage(q, p) => counts' = counts
        /\ CloseDay(p) => counts' = counts
        /\ \A scope \in SUBSET Pages : UnlockDay(p, scope) => counts' = counts
  BY DEF FinishPage, CloseDay, UnlockDay
<1>9. \A r \in requests : /\ Reject(r) => counts' = counts
                          /\ \A cascade \in BOOLEAN : ApproveFigure(r, cascade) \/ ApproveOpening(r, cascade)
                                => counts' = counts
  BY DEF Reject, ApproveFigure, ApproveOpening
<1> QED BY <1>2, <1>3, <1>4, <1>5, <1>6, <1>7, <1>8, <1>9 DEF Next, vars, Approve

\* A page is locked by finishing or closing only.
LEMMA LocksMove ==
    ASSUME TypeOK, LocksAreAllowed, [Next]_vars
    PROVE  LocksAreAllowed'
<1>1. ASSUME NEW p \in FinishPeriods,
             \/ \E page \in Pages : FinishPage(page, p)
             \/ CloseDay(p)
             \/ \E scope \in SUBSET Pages : UnlockDay(p, scope)
      PROVE  LocksAreAllowed'
  <2>1. \A q \in Periods : q # p => closures'[q] = closures[q]
    BY <1>1 DEF FinishPage, CloseDay, UnlockDay, TypeOK
  <2> QED BY <2>1 DEF LocksAreAllowed
<1>2. \A q \in Pages : WalkStep(q) => closures' = closures
  BY DEF WalkStep, EndOfChain, StopAtRow, HoldRow, RewriteRow
<1>3. \A e \in Entries : Enter(e.page, e.period, e.figs) \/ Propose(e.page, e.period, e.figs)
                            => closures' = closures
  BY DEF Enter, SaveEntry, Propose, RequestFigure
<1>4. \A c \in CountPeriods :
        /\ \A page \in Pages : CountSheet(page, c) => closures' = closures
        /\ \A apply \in BOOLEAN : Publish(c, apply) => closures' = closures
        /\ \A batch \in SUBSET Pages : Revert(c, batch) => closures' = closures
  BY DEF CountSheet, SaveCount, RequestCount, DeleteCount, Publish, Revert
<1>5. \A r \in requests : Approve(r) \/ Reject(r) => closures' = closures
  BY DEF Approve, ApproveFigure, ApproveOpening, ApproveCount, Reject
<1>6. closures' = closures => LocksAreAllowed'
  BY DEF LocksAreAllowed
<1> QED BY <1>1, <1>2, <1>3, <1>4, <1>5, <1>6 DEF Next, vars

\* A save, or an approval of a figure: a new row opens at what carries into it now.
LEMMA WrittenPageReaches ==
    ASSUME OneSheetCounted, CountsInv, Idle, NEW page \in Pages, NEW p \in Periods,
           WrittenAt(page, p), UNCHANGED counts, NEW q \in saved'[page]
    PROVE  CountOpens(page, q)'
<1> DEFINE S == saved[page]
           S2 == saved'[page]
           R == rows[page]
           R2 == rows'[page]
           C == counts[page]
<1>1. S \subseteq S2 /\ q \in Periods
  BY DEF WrittenAt, CountsInv, TypeOK
<1>2. ASSUME InForce(S2, C, q, {}) # {}
      PROVE  InForce(S, C, q, {}) # {} /\ Ungated(S2, R2, C, q) = Ungated(S, R, C, q)
  <2>1. \A c \in Periods : C[c].standing = "applied" => c \in CountPeriods
    BY DEF CountsInv, AppliedAreCounted
  <2> HIDE DEF S, S2, R, R2, C
  <2>2. InForce(S2, C, q, {}) \subseteq InForce(S, C, q, {})
    BY ONLY <1>1 DEF InForce, Before
  <2>3. \A c, d \in InForce(S, C, q, {}) : c = d
    BY <2>1 DEF InForce, OneSheetCounted
  <2>4. InForce(S2, C, q, {}) = InForce(S, C, q, {})
    BY ONLY <1>2, <2>2, <2>3
  <2> QED BY ONLY <1>2, <2>4 DEF Ungated, CarryOf
<1>3. \A r \in S : CountOpens(page, r)
  BY IdleWalksNothing DEF CountsInv, CountsReach, PublishAhead
<1>4. ASSUME R2[q].opening = R[q].opening, R[q].manual => R2[q].manual, q \in S
      PROVE  CountOpens(page, q)'
  BY <1>2, <1>3, <1>4 DEF CountOpens
<1>5. CASE saved'[page] = saved[page] /\ rows'[page] = rows[page]
  BY <1>4, <1>5
<1>6. CASE saved'[page] = saved[page] \cup {p} /\ q # p
  BY <1>1, <1>4, <1>6 DEF WrittenAt
<1>7. CASE q = p /\ R2[p].manual
  BY <1>7 DEF CountOpens
<1>8. CASE q = p /\ R2[p].opening = OpeningOf(page, p) /\ (R[p].manual => R2[p].manual)
  <2>1. CASE p \in S
    <3>1. R2[q].opening = R[q].opening
      BY <1>8, <2>1 DEF OpeningOf
    <3> QED BY <1>4, <1>8, <2>1, <3>1
  <2>2. CASE p \notin S
    <3>1. R2[p].opening = Ungated(S, R, C, p)
      BY <1>8, <2>2, CarryIsCarryOf DEF OpeningOf, Ungated
    <3> QED BY <1>2, <1>8, <3>1 DEF CountOpens
  <2> QED BY <2>1, <2>2
<1> QED BY <1>5, <1>6, <1>7, <1>8 DEF WrittenAt

\* A count that is withdrawn is in force nowhere; one that is applied is walked to
\* the one row it is in force over.
LEMMA CountPageReaches ==
    ASSUME OneSheetCounted, CountsInv, AppliedAreCounted', Idle, NEW c \in Periods, CountChange(c),
           NEW page \in Pages, NEW q \in saved'[page],
           counts'[page][c] = counts[page][c]
             \/ counts'[page][c].standing # "applied"
             \/ /\ c \in CountPeriods /\ walk'[page].on /\ walk'[page].reach
                /\ walk'[page].cursor = NightOf(Day(c))
    PROVE  CountOpens(page, q)' \/ PublishAhead(page, q)'
<1> DEFINE S == saved[page]
           R == rows[page]
           R2 == rows'[page]
           C == counts[page]
           C2 == counts'[page]
<1>1. /\ S \in SUBSET Periods /\ saved'[page] = S /\ q \in Periods /\ q \in Nat /\ c \in Nat
      /\ Periods \subseteq Nat /\ S \in SUBSET Nat
  BY PeriodsAssumption DEF CountsInv, TypeOK, CountChange
<1>2. \A r \in Periods : /\ R2[r].remaining = R[r].remaining
                         /\ R2[r].opening = R[r].opening
                         /\ R2[r].manual = R[r].manual
  BY DEF CountChange, RowsMayMiss, SameFigures
<1>3. \A d \in Periods \ {c} : C2[d] = C[d]
  BY DEF CountChange, CountsChangeAt
<1>4. CountOpens(page, q)
  BY <1>1, IdleWalksNothing DEF CountsInv, CountsReach, PublishAhead
<1>5. \A d \in Periods : /\ C[d].standing = "applied" => d \in CountPeriods
                         /\ C2[d].standing = "applied" => d \in CountPeriods
  BY DEF CountsInv, AppliedAreCounted
<1>6. ASSUME C2[c] = C[c] \/ (C[c].standing # "applied" /\ C2[c].standing # "applied")
      PROVE  CountOpens(page, q)'
  <2>1. InForce(S, C2, q, {}) = InForce(S, C, q, {})
    <3>1. \A d \in Periods : (C2[d].standing = "applied") <=> (C[d].standing = "applied")
      BY <1>3, <1>6
    <3> QED BY <3>1 DEF InForce
  <2>2. ASSUME InForce(S, C, q, {}) # {} PROVE Ungated(S, R2, C2, q) = Ungated(S, R, C, q)
    <3>1. Latest(InForce(S, C, q, {})) \in InForce(S, C, q, {})
      <4>1. \A d \in InForce(S, C, q, {}) : d \in Nat /\ d < q
        BY <1>1 DEF InForce, Day
      <4> QED BY <1>1, <2>2, <4>1, LatestIsGreatest
    <3>2. C2[Latest(InForce(S, C, q, {}))] = C[Latest(InForce(S, C, q, {}))]
      BY <1>3, <1>6, <3>1 DEF InForce
    <3> QED BY <2>1, <2>2, <3>2 DEF Ungated, CarryOf
  <2> QED BY <1>1, <1>2, <1>4, <2>1, <2>2 DEF CountOpens
<1>7. CASE C[c].standing = "applied" /\ C2[c].standing # "applied"
  <2>1. \A d \in Periods : C2[d].standing # "applied"
    BY <1>3, <1>5, <1>7 DEF OneSheetCounted
  <2> QED BY <1>1, <2>1 DEF CountOpens, InForce
<1>8. CASE /\ c \in CountPeriods /\ walk'[page].on /\ walk'[page].reach
           /\ walk'[page].cursor = NightOf(Day(c))
  <2> SUFFICES ASSUME InForce(S, C2, q, {}) # {}
               PROVE  PublishAhead(page, q)'
    BY <1>1 DEF CountOpens
  <2>1. c \in InForce(S, C2, q, {})
    BY <1>5, <1>8 DEF OneSheetCounted, InForce
  <2>2. Day(c) < Day(q) /\ \A r \in S : r < q => Day(r) <= Day(c)
    BY <2>1 DEF InForce, Before
  <2>3. NightOf(Day(c)) < q /\ NightOf(Day(c)) \in Nat
    BY <1>1, <2>2, AfterNightIsLaterDay, DayIsNat
  <2>4. \A r \in S : ~(NightOf(Day(c)) < r /\ r < q)
    <3>1. \A r \in S : NightOf(Day(c)) < r => Day(c) < Day(r) /\ Day(c) \in Nat /\ Day(r) \in Nat
      BY <1>1, AfterNightIsLaterDay, DayIsNat
    <3> QED BY <2>2, <3>1
  <2>5. NextOnWalk(page, q)'
    BY <1>1, <1>8, <2>3, <2>4, FirstIsNextOnWalk
  <2> QED BY <1>8, <2>5 DEF PublishAhead
<1> QED BY <1>6, <1>7, <1>8

\* A walk leaves a row over which a count is in force at the count: it was there,
\* or the walk is the publish's.
LEMMA WalkReaches ==
    ASSUME OneSheetCounted, CountedDaysStayOpen, CountsInv, NEW w \in Pages, WalkStep(w),
           NEW page \in Pages, NEW q \in saved[page]
    PROVE  CountOpens(page, q)' \/ PublishAhead(page, q)'
<1> DEFINE n == NextRow(w)
           S == saved[page]
           C == counts[page]
<1>1. UNCHANGED <<saved, counts>> /\ q \in Periods /\ TypeOK
  BY DEF WalkStep, EndOfChain, StopAtRow, HoldRow, RewriteRow, CountsInv, TypeOK
<1>2. InForce(S, C, q, {}) # {} =>
        Ungated(S, rows'[page], C, q) = Ungated(S, rows[page], C, q)
  BY DEF Ungated, CarryOf
<1>3. ASSUME rows'[page][q] = rows[page][q], CountOpens(page, q)
      PROVE  CountOpens(page, q)'
  BY <1>1, <1>2, <1>3 DEF CountOpens
<1>4. CountOpens(page, q) \/ PublishAhead(page, q)
  BY DEF CountsInv, CountsReach
<1>5. CASE page # w
  <2>1. walk'[page] = walk[page]
    BY <1>1, <1>5 DEF WalkStep, EndOfChain, StopAtRow, HoldRow, RewriteRow, TypeOK
  <2>2. rows'[page][q] = rows[page][q]
    BY <1>1, <1>5, RewrittenRow DEF WalkStep, EndOfChain, StopAtRow, HoldRow
  <2>3. PublishAhead(page, q) => PublishAhead(page, q)'
    BY <1>1, <2>1 DEF PublishAhead, NextOnWalk, RowsAfter
  <2> QED BY <1>3, <1>4, <2>2, <2>3
<1>6. CASE page = w /\ ~(q = n /\ RowsAfter(w, walk[w].cursor) # {})
  <2>1. CountOpens(page, q)
    BY <1>1, <1>4, <1>6, WalkIsAtNextRow DEF PublishAhead
  <2>2. rows'[page][q] = rows[page][q]
    <3>1. CASE RewriteRow(w)
      BY <1>1, <1>6, <3>1, RewrittenRow DEF RewriteRow
    <3> QED BY <3>1 DEF WalkStep, EndOfChain, StopAtRow, HoldRow
  <2> QED BY <1>3, <2>1, <2>2
<1>7. CASE page = w /\ q = n /\ RowsAfter(w, walk[w].cursor) # {}
  <2>1. UngatedCarry(w, n) = Ungated(S, rows[w], C, n)
    BY <1>1, <1>7, CarryIsCarryOf DEF Ungated
  <2>2. walk[w].reach => WalkCarry(w, n) = UngatedCarry(w, n)
    BY DEF WalkCarry
  <2>3. CASE StopAtRow(w)
    <3>1. CountOpens(page, q)
      <4>1. CASE rows[w][n].manual
        BY <1>7, <4>1 DEF CountOpens
      <4>2. CASE Settled(w, n) /\ PublishAhead(w, n)
        BY <1>7, <2>1, <2>2, <4>2 DEF CountOpens, Settled, PublishAhead
      <4> QED BY <1>4, <1>7, <2>3, <4>1, <4>2 DEF StopAtRow
    <3> QED BY <1>3, <2>3, <3>1 DEF StopAtRow
  <2>4. CASE HoldRow(w)
    <3>1. Locked(w, n)
      BY <2>4 DEF HoldRow, HeldForCarry
    <3>2. n \in FinishPeriods
      BY <1>1, <1>7, <3>1 DEF CountsInv, LocksAreAllowed, Locked, IsSideLocked
    <3>3. \A c \in CountPeriods : ~(Day(c) < Day(n))
      <4>1. \A c \in CountPeriods : Day(c) \in Nat /\ Day(n) \in Nat /\ Day(n) <= Day(c)
        BY <1>1, <1>7, <3>2, DayIsNat, PeriodsAssumption, SubPeriodsAssumption DEF CountedDaysStayOpen
      <4> QED BY <4>1
    <3>4. InForce(S, C, q, {}) = {}
      BY <1>7, <3>3 DEF InForce, CountsInv, AppliedAreCounted
    <3> QED BY <1>1, <3>4 DEF CountOpens
  <2>5. CASE RewriteRow(w)
    <3>1. ~(rows[w][n].opening = UngatedCarry(w, n)) /\ ~rows[w][n].manual
      BY <2>5 DEF RewriteRow, Settled
    <3>2. rows'[w][n].opening = WalkCarry(w, n)
      BY <1>1, <2>5, RewrittenRow
    <3>3. CASE InForce(S, C, q, {}) = {}
      BY <1>1, <3>3 DEF CountOpens
    <3>4. CASE InForce(S, C, q, {}) # {}
      <4>1. ~CountOpens(page, q)
        BY <1>7, <2>1, <3>1, <3>4 DEF CountOpens
      <4>2. walk[w].reach
        BY <1>4, <1>7, <4>1 DEF PublishAhead
      <4>3. rows'[page][q].opening = Ungated(S, rows[page], C, q)
        BY <1>7, <2>1, <2>2, <3>2, <4>2
      <4> QED BY <1>1, <1>2, <3>4, <4>3 DEF CountOpens
    <3> QED BY <3>3, <3>4
  <2> QED BY <1>7, <2>3, <2>4, <2>5 DEF WalkStep, EndOfChain
<1> QED BY <1>5, <1>6, <1>7

LEMMA StepKeepsCounts ==
    ASSUME OneSheetCounted, CountedDaysStayOpen, CountsInv, [Next]_vars
    PROVE  CountsReach' /\ AppliedAreCounted' /\ LocksAreAllowed'
<1>1. TypeOK /\ LocksAreAllowed'
  BY LocksMove DEF CountsInv
<1>2. AppliedAreCounted'
  <2> SUFFICES ASSUME NEW page \in Pages, NEW c \in Periods, counts'[page][c].standing = "applied"
               PROVE  c \in CountPeriods
    BY DEF AppliedAreCounted
  <2>1. CASE counts'[page][c] = counts[page][c]
    BY <2>1 DEF CountsInv, AppliedAreCounted
  <2>2. CASE counts'[page][c] # counts[page][c]
    BY <1>1, <2>2, CountsMove
  <2> QED BY <2>1, <2>2
<1>3. ASSUME NEW page \in Pages, NEW q \in saved'[page]
      PROVE  CountOpens(page, q)' \/ PublishAhead(page, q)'
  <2>1. ASSUME NEW w \in Pages, WalkStep(w) PROVE CountOpens(page, q)' \/ PublishAhead(page, q)'
    <3>1. saved' = saved
      BY <2>1 DEF WalkStep, EndOfChain, StopAtRow, HoldRow, RewriteRow
    <3> QED BY <2>1, <3>1, WalkReaches
  <2>2. CASE EntryStep
    <3>1. PICK p \in Periods : \A r \in Pages : WrittenAt(r, p)
      BY <1>1, <2>2, EntryWritesAt DEF EntryStep
    <3>2. Idle /\ UNCHANGED counts
      BY <2>2 DEF EntryStep
    <3> QED BY <3>1, <3>2, WrittenPageReaches
  <2>3. CASE CountStep
    <3>1. PICK c \in Periods : CountChange(c)
      BY <2>3 DEF CountStep
    <3>2. Idle
      BY <2>3 DEF CountStep
    <3>3. \/ counts'[page][c] = counts[page][c]
          \/ counts'[page][c].standing # "applied"
          \/ /\ c \in CountPeriods /\ walk'[page].on /\ walk'[page].reach
             /\ walk'[page].cursor = NightOf(Day(c))
      BY <1>1, CountsMove
    <3> QED BY <1>2, <3>1, <3>2, <3>3, CountPageReaches
  <2>4. CASE QuietStep
    <3>1. UNCHANGED <<saved, rows, counts, walk>>
      BY <2>4 DEF QuietStep
    <3> QED BY <3>1 DEF CountsInv, CountsReach, CountOpens, PublishAhead, NextOnWalk, RowsAfter
  <2>5. CASE OpeningDecision
    <3>1. Idle /\ UNCHANGED <<saved, rows, counts>>
      BY <2>5 DEF OpeningDecision, Reject, ApproveOpening
    <3>2. CountOpens(page, q)
      BY <3>1, IdleWalksNothing DEF CountsInv, CountsReach, PublishAhead
    <3> QED BY <3>1, <3>2 DEF CountOpens
  <2> QED BY <1>1, <2>1, <2>2, <2>3, <2>4, <2>5, StepKinds
<1> QED BY <1>1, <1>2, <1>3 DEF CountsReach

\* The first saved day after an applied count that is the last word of its date
\* opens at exactly the count, or at an imported figure, or the publish is still
\* being carried to it (README.md, audit rules 1 and 5; manualCounts.service.ts,
\* propagateOpeningStock with reachSaved): for any periods, entries, imports and
\* corrections, while one sheet is counted and no page after it is finished.
THEOREM AppliedCountOpens ==
    ASSUME OneSheetCounted, CountedDaysStayOpen
    PROVE  Spec => []AppliedCountOpensNextDay
<1>1. Init => CountsReach /\ AppliedAreCounted /\ LocksAreAllowed
  BY DEF Init, CountsReach, AppliedAreCounted, LocksAreAllowed, NoCount, NoClosure
<1>2. TypeOK /\ (CountsReach /\ AppliedAreCounted /\ LocksAreAllowed) /\ [Next]_vars
        => (CountsReach /\ AppliedAreCounted /\ LocksAreAllowed)'
  BY StepKeepsCounts DEF CountsInv
<1>3. TypeOK /\ (CountsReach /\ AppliedAreCounted /\ LocksAreAllowed) => AppliedCountOpensNextDay
  <2> SUFFICES ASSUME TypeOK, CountsReach, AppliedAreCounted,
                      NEW page \in Pages, NEW c \in CountPeriods,
                      counts[page][c].standing = "applied"
               PROVE  OpensAtCount(page, c)
    BY DEF AppliedCountOpensNextDay
  <2> DEFINE later == RowsAfter(page, NightOf(Day(c)))
             first == Earliest(later)
             S == saved[page]
             C == counts[page]
  <2>1. CASE later = {}
    BY <2>1 DEF OpensAtCount
  <2>2. CASE later # {}
    <3>1. S \in SUBSET Periods /\ Periods \subseteq Nat /\ c \in Periods
      BY PeriodsAssumption, SubPeriodsAssumption DEF TypeOK
    <3>2. later \in SUBSET Nat
      BY <3>1 DEF RowsAfter
    <3>3. first \in later /\ \A r \in later : first <= r
      BY <2>2, <3>2, EarliestIsLeast
    <3>4. first \in S /\ first \in Periods /\ first > NightOf(Day(c))
      BY <3>1, <3>3 DEF RowsAfter
    <3> HIDE DEF first
    <3>5. Day(c) < Day(first)
      BY <3>1, <3>4, AfterNightIsLaterDay
    <3>6. \A r \in S : r < first => Day(r) <= Day(c)
      <4> SUFFICES ASSUME NEW r \in S, r < first, ~(Day(r) <= Day(c)) PROVE FALSE
        OBVIOUS
      <4>1. c \in Nat /\ r \in Nat /\ first \in Nat
        BY <3>1, <3>4
      <4>2. Day(c) \in Nat /\ Day(r) \in Nat
        BY <4>1, DayIsNat
      <4>3. Day(c) < Day(r)
        BY <4>2
      <4>4. r > NightOf(Day(c))
        BY <4>1, <4>3, AfterNightIsLaterDay
      <4>5. first <= r
        BY <3>3, <4>4 DEF RowsAfter
      <4> QED BY <4>1, <4>5
    <3>7. c \in InForce(S, C, first, {})
      BY <3>1, <3>5, <3>6 DEF InForce, Before
    <3>8. InForce(S, C, first, {}) = {c}
      BY <3>7 DEF InForce, AppliedAreCounted, OneSheetCounted
    <3>9. Latest({c}) = c
      BY <3>1 DEF Latest
    <3>10. Ungated(S, rows[page], C, first) = C[c].value
      BY <3>8, <3>9 DEF Ungated, CarryOf
    <3>11. CountOpens(page, first) \/ PublishAhead(page, first)
      BY <3>4 DEF CountsReach
    <3>12. rows[page][first].opening = C[c].value \/ rows[page][first].manual \/ NextOnWalk(page, first)
      BY <3>8, <3>10, <3>11 DEF CountOpens, PublishAhead
    <3> QED BY <3>12 DEF OpensAtCount, first
  <2> QED BY <2>1, <2>2
<1> QED BY <1>1, <1>2, <1>3, TypeCorrect, PTL DEF Spec

-----------------------------------------------------------------------------
(* The steps that change figures: a save, an approval, an iteration of a walk *)

IsOpening(page, p, opening, typed) ==
    \/ typed /\ opening \in Imports
    \/ ~typed /\ opening = OpeningOf(page, p)
Enters ==
    \E e \in Entries, opening \in Int, typed \in BOOLEAN :
        /\ IsOpening(e.page, e.period, opening, typed)
        /\ SaveEntry(e.page, e.period, opening, typed, e.figs)
Approves == \E r \in requests, cascade \in BOOLEAN : ApproveFigure(r, cascade)
Rewrites == \E page \in Pages : RewriteRow(page)
FiguresStay == \A page \in Pages, p \in Periods : SameFigures(rows[page][p], rows'[page][p])

LEMMA UnchangedFigures ==
    ASSUME UNCHANGED rows
    PROVE  FiguresStay
BY DEF FiguresStay, SameFigures

LEMMA CountKeepsFigures ==
    ASSUME NEW c, CountChange(c)
    PROVE  FiguresStay
BY DEF CountChange, RowsMayMiss, FiguresStay

LEMMA FigureSteps ==
    ASSUME TypeOK, [Next]_vars
    PROVE  Enters \/ Approves \/ Rewrites \/ FiguresStay
<1>1. ASSUME NEW page \in Pages, WalkStep(page)
      PROVE  Rewrites \/ FiguresStay
  <2>1. EndOfChain(page) \/ StopAtRow(page) \/ HoldRow(page) => UNCHANGED rows
    BY DEF EndOfChain, StopAtRow, HoldRow
  <2> QED BY <1>1, <2>1, UnchangedFigures DEF WalkStep, Rewrites
<1>2. ASSUME NEW e \in Entries, Enter(e.page, e.period, e.figs)
      PROVE  Enters
  <2>1. OpeningOf(e.page, e.period) \in Int /\ Imports \subseteq Int
    BY EntryTypes, OpeningIsInt, FiguresAssumption
  <2>2. CASE SaveEntry(e.page, e.period, OpeningOf(e.page, e.period), FALSE, e.figs)
    BY <2>1, <2>2 DEF Enters, IsOpening
  <2>3. CASE \E opening \in Imports : SaveEntry(e.page, e.period, opening, TRUE, e.figs)
    BY <2>1, <2>3 DEF Enters, IsOpening
  <2> QED BY <1>2, <2>2, <2>3 DEF Enter
<1>3. ASSUME NEW page \in Pages, NEW c \in CountPeriods, CountSheet(page, c)
      PROVE  FiguresStay
  <2>1. c \in Periods /\ CountValues \subseteq Nat /\ 0 \in Nat
    BY SubPeriodsAssumption, FiguresAssumption
  <2>2. ASSUME NEW value \in Nat, SaveCount(page, c, value) \/ DeleteCount(page, c)
        PROVE  FiguresStay
    BY <2>1, <2>2, SheetChangesCount, CountKeepsFigures
  <2>3. (\E value \in CountValues : RequestCount(page, c, value)) => UNCHANGED rows
    BY DEF RequestCount
  <2> QED BY <1>3, <2>1, <2>2, <2>3, UnchangedFigures DEF CountSheet
<1>4. ASSUME NEW c \in CountPeriods,
             \/ \E apply \in BOOLEAN : Publish(c, apply)
             \/ \E batch \in SUBSET Pages : Revert(c, batch)
      PROVE  FiguresStay
  BY <1>4, SubPeriodsAssumption, PublishChangesCount, RevertChangesCount, CountKeepsFigures
<1>5. ASSUME NEW r \in requests, Approve(r)
      PROVE  Approves \/ FiguresStay
  <2>1. PICK cascade \in BOOLEAN :
            ApproveFigure(r, cascade) \/ ApproveOpening(r, cascade) \/ ApproveCount(r, cascade)
    BY <1>5 DEF Approve
  <2>2. ApproveOpening(r, cascade) => UNCHANGED rows
    BY DEF ApproveOpening
  <2>3. ASSUME ApproveCount(r, cascade) PROVE FiguresStay
    <3>1. r \in Request /\ r.value \in Nat
      BY <2>3, RequestTypes DEF ApproveCount
    <3> QED BY <2>3, <3>1, ApprovedCountChangesCount, CountKeepsFigures
  <2> QED BY <2>1, <2>2, <2>3, UnchangedFigures DEF Approves
<1>6. ASSUME \/ \E e \in Entries : Propose(e.page, e.period, e.figs)
             \/ \E page \in Pages, p \in FinishPeriods : FinishPage(page, p)
             \/ \E p \in FinishPeriods : CloseDay(p)
             \/ \E p \in FinishPeriods, scope \in SUBSET Pages : UnlockDay(p, scope)
             \/ \E r \in requests : Reject(r)
             \/ UNCHANGED vars
      PROVE  FiguresStay
  BY <1>6, UnchangedFigures
     DEF Propose, RequestFigure, FinishPage, CloseDay, UnlockDay, Reject, vars
<1> QED BY <1>1, <1>2, <1>3, <1>4, <1>5, <1>6 DEF Next

-----------------------------------------------------------------------------
(* Finished pages *)

\* What a row is, apart from the counts it missed, is its figures.
LEMMA FiguresTellRows ==
    ASSUME NEW row \in Row, NEW new \in Row, SameFigures(row, new)
    PROVE  FiguresOf(new) = FiguresOf(row)
BY DEF Row, SameFigures, FiguresOf

\* A save leaves every locked page alone: its own page is open, and what it would
\* move to or from a locked one is held, so there is nothing to mirror.
LEMMA SaveSparesLocked ==
    ASSUME TypeOK, Balanced, NEW page \in Pages, NEW p \in Periods, NEW opening \in Int,
           NEW typed \in BOOLEAN, NEW figs \in [in: Int, out: Int, moved: Int],
           SaveEntry(page, p, opening, typed, figs),
           NEW q \in Pages, NEW r \in Periods, Locked(q, r)
    PROVE  rows'[q][r] = rows[q][r]
<1> DEFINE kept == Kept(page, p, figs)
<1>0. ~Locked(page, p)
  BY DEF SaveEntry
<1>1. PICK cascade \in BOOLEAN : UNCHANGED rows \/ WriteEntry(page, p, opening, typed, kept, cascade)
  BY DEF SaveEntry
<1>2. IsFigures(kept)
  BY KeptAreFigures
<1>3. Locked(OtherPage(page), p) => kept.in = rows[page][p].in /\ kept.out = rows[page][p].out
  <2>1. {"in", "out"} \subseteq Figures /\ Transfers = {"in", "out"}
    BY DEF Figures, Transfers
  <2> QED BY <2>1 DEF Kept, HeldTransfers
<1>4. /\ rows[OtherPage(page)][p].in = rows[page][p].out
      /\ rows[OtherPage(page)][p].out = rows[page][p].in
  BY DEF Balanced, TransfersAgree, Pages, OtherPage
<1> HIDE DEF kept
<1>5. ASSUME WriteEntry(page, p, opening, typed, kept, cascade), r = p, q = OtherPage(page)
      PROVE  rows'[q][r] = rows[q][r]
  <2>1. MirrorAgreesWith(page, p, kept)
    BY <1>3, <1>4, <1>5 DEF MirrorAgreesWith
  <2>2. rows'[q] = rows[q]
    BY <1>5, <2>1, PagesAreTwo DEF WriteEntry, TypeOK
  <2> QED BY <2>2
<1>6. ASSUME WriteEntry(page, p, opening, typed, kept, cascade), r # p
      PROVE  rows'[q][r] = rows[q][r]
  BY <1>2, <1>6, WrittenElsewhere
<1> QED BY <1>0, <1>1, <1>5, <1>6, PagesAreTwo

\* An approved figure is the row's from then on; no other period's rows change.
LEMMA ApprovalWritesFigure ==
    ASSUME TypeOK, NEW request \in requests, NEW cascade \in BOOLEAN,
           ApproveFigure(request, cascade),
           NEW q \in Pages, NEW r \in Periods, rows'[q][r] # rows[q][r]
    PROVE  /\ request \in requests \ requests' /\ request.period = r
           /\ request.field \in Figures
           /\ rows'[request.page][r][request.field] = request.value
<1> DEFINE figs == ApprovedFigures(request)
           opening == rows[request.page][request.period].opening
<1>1. /\ requests' = requests \ {request} /\ request.field \in Figures
      /\ UNCHANGED <<saved, rows, walk>>
           \/ WriteEntry(request.page, request.period, opening, FALSE, figs, cascade)
  BY ApproveFigureCases
<1>2. /\ IsFigures(figs) /\ opening \in Int
      /\ request.page \in Pages /\ request.period \in Periods
  BY <1>1, ApprovedFiguresAreFigures
<1>3. figs[request.field] = request.value /\ request.field \in {"in", "out", "moved"}
  BY <1>1 DEF ApprovedFigures, Figures, Transfers
<1> HIDE DEF figs, opening
<1>4. PICK typed \in BOOLEAN :
        WriteEntry(request.page, request.period, opening, typed, figs, cascade)
  BY <1>1
<1>5. request.period = r
  BY <1>2, <1>4, WrittenElsewhere
<1>6. /\ rows'[request.page][r].in = figs.in
      /\ rows'[request.page][r].out = figs.out
      /\ rows'[request.page][r].moved = figs.moved
  BY <1>2, <1>4, <1>5, WrittenRow
<1> QED BY <1>1, <1>3, <1>5, <1>6

\* Only an approval changes the figures of a finished page: of a figure of that
\* period, or of an opening on the row or ahead of it (dayLock.service.ts,
\* assertPeriodOpen; manualCounts.service.ts, isLockedForCarry).
THEOREM FinishedPagesStay == Spec => FinishedPagesFrozen
<1> DEFINE Frozen == \A page \in Pages, p \in Periods :
        Locked(page, p) /\ FiguresOf(rows'[page][p]) # FiguresOf(rows[page][p])
            => FinishedPageChanges(page, p)
<1>1. TypeOK /\ TypeOK' /\ Balanced /\ [Next]_vars => [Frozen]_vars
  <2> SUFFICES ASSUME TypeOK, TypeOK', Balanced, [Next]_vars,
                      NEW page \in Pages, NEW p \in Periods, Locked(page, p),
                      FiguresOf(rows'[page][p]) # FiguresOf(rows[page][p])
               PROVE  FinishedPageChanges(page, p)
    OBVIOUS
  <2>1. rows[page][p] \in Row /\ rows'[page][p] \in Row
    BY DEF TypeOK
  <2>2. CASE Enters
    <3>1. PICK e \in Entries, opening \in Int, typed \in BOOLEAN :
            SaveEntry(e.page, e.period, opening, typed, e.figs)
      BY <2>2 DEF Enters
    <3>2. rows'[page][p] = rows[page][p]
      BY <3>1, EntryTypes, SaveSparesLocked
    <3> QED BY <3>2
  <2>3. CASE Approves
    <3>1. PICK r \in requests, cascade \in BOOLEAN : ApproveFigure(r, cascade)
      BY <2>3 DEF Approves
    <3>2. rows'[page][p] # rows[page][p]
      OBVIOUS
    <3> QED BY <3>1, <3>2, ApprovalWritesFigure DEF FinishedPageChanges
  <2>4. CASE Rewrites
    <3>1. PICK q \in Pages : RewriteRow(q)
      BY <2>4 DEF Rewrites
    <3>2. q = page /\ p = NextRow(q)
      BY <3>1, RewrittenRow
    <3> QED BY <3>1, <3>2 DEF RewriteRow, Walking, HeldForCarry, FinishedPageChanges
  <2>5. CASE FiguresStay
    BY <2>1, <2>5, FiguresTellRows DEF FiguresStay
  <2> QED BY <2>2, <2>3, <2>4, <2>5, FigureSteps
<1> QED BY <1>1, TypeCorrect, LedgerIsBalanced, PTL DEF Spec, FinishedPagesFrozen

-----------------------------------------------------------------------------
(* Imported openings *)

\* A row that has one is saved, and a save without a typed opening keeps it.
LEMMA ImportedRowIsSaved ==
    ASSUME TypeOK, NEW page \in Pages, NEW p \in Periods, rows[page][p].manual
    PROVE  p \in saved[page] /\ OpeningOf(page, p) = rows[page][p].opening
BY DEF TypeOK, BlankRow, OpeningOf

\* A write keeps the flag of both rows, and the opening of the mirrored one.
LEMMA WriteKeepsImports ==
    ASSUME TypeOK, NEW page \in Pages, NEW p \in Periods, NEW opening \in Int,
           NEW typed \in BOOLEAN, NEW figs, IsFigures(figs), NEW cascade \in BOOLEAN,
           WriteEntry(page, p, opening, typed, figs, cascade),
           NEW q \in Pages, NEW r \in Periods, rows[q][r].manual
    PROVE  /\ rows'[q][r].manual
           /\ rows'[q][r].opening # rows[q][r].opening =>
                q = page /\ r = p /\ rows'[q][r].opening = opening
<1>1. CASE r # p
  BY <1>1, WrittenElsewhere
<1>2. CASE r = p /\ q = page
  <2>1. rows'[page][p].opening = opening
    BY WrittenRow
  <2>2. rows'[page][p].manual = (rows[page][p].manual \/ typed)
    BY WrittenRow
  <2> QED BY <1>2, <2>1, <2>2
<1>3. CASE r = p /\ q = OtherPage(page)
  BY <1>3, MirroredRow, ImportedRowIsSaved
<1> QED BY <1>1, <1>2, <1>3, PagesAreTwo

\* Only another import of the row changes an imported opening, while the page is
\* open (dailyOnlineStock.service.ts, openingManual).
THEOREM ImportedOpeningsStay == Spec => ImportsStay
<1> DEFINE Stays(page, p) ==
        rows[page][p].manual =>
            /\ rows'[page][p].manual
            /\ rows'[page][p].opening # rows[page][p].opening =>
                    Idle /\ rows'[page][p].opening \in Imports /\ ~Locked(page, p)
<1>1. ASSUME TypeOK, [Next]_vars, NEW page \in Pages, NEW p \in Periods
      PROVE  Stays(page, p)
  <2> SUFFICES ASSUME rows[page][p].manual
               PROVE  /\ rows'[page][p].manual
                      /\ rows'[page][p].opening # rows[page][p].opening =>
                            Idle /\ rows'[page][p].opening \in Imports /\ ~Locked(page, p)
    OBVIOUS
  <2> USE <1>1
  <2>1. CASE Enters
    <3>1. PICK e \in Entries, opening \in Int, typed \in BOOLEAN :
            /\ IsOpening(e.page, e.period, opening, typed)
            /\ SaveEntry(e.page, e.period, opening, typed, e.figs)
      BY <2>1 DEF Enters
    <3> DEFINE kept == Kept(e.page, e.period, e.figs)
    <3>2. Idle /\ ~Locked(e.page, e.period)
      BY <3>1 DEF SaveEntry
    <3>5. PICK cascade \in BOOLEAN :
            UNCHANGED rows \/ WriteEntry(e.page, e.period, opening, typed, kept, cascade)
      BY <3>1 DEF SaveEntry
    <3>3. IsFigures(kept) /\ e.page \in Pages /\ e.period \in Periods
      BY EntryTypes, KeptAreFigures
    <3> HIDE DEF kept
    <3>4. CASE WriteEntry(e.page, e.period, opening, typed, kept, cascade)
      <4>1. /\ rows'[page][p].manual
            /\ rows'[page][p].opening # rows[page][p].opening =>
                 page = e.page /\ p = e.period /\ rows'[page][p].opening = opening
        BY <3>3, <3>4, WriteKeepsImports
      <4>2. page = e.page /\ p = e.period /\ opening # rows[page][p].opening => opening \in Imports
        BY <3>1, ImportedRowIsSaved DEF IsOpening
      <4> QED BY <3>2, <4>1, <4>2
    <3> QED BY <3>4, <3>5
  <2>2. CASE Approves
    <3>1. PICK r \in requests, cascade \in BOOLEAN : ApproveFigure(r, cascade)
      BY <2>2 DEF Approves
    <3> DEFINE figs == ApprovedFigures(r)
               opening == rows[r.page][r.period].opening
    <3>2. PICK typed \in BOOLEAN :
            UNCHANGED rows \/ WriteEntry(r.page, r.period, opening, typed, figs, cascade)
      BY <3>1, ApproveFigureCases
    <3>3. r.field \in Figures
      BY <3>1, ApproveFigureCases
    <3>4. IsFigures(figs) /\ opening \in Int /\ r.page \in Pages /\ r.period \in Periods
      BY <3>3, ApprovedFiguresAreFigures
    <3>5. CASE WriteEntry(r.page, r.period, opening, typed, figs, cascade)
      <4>1. /\ rows'[page][p].manual
            /\ rows'[page][p].opening # rows[page][p].opening =>
                 page = r.page /\ p = r.period /\ rows'[page][p].opening = opening
        <5> HIDE DEF figs, opening
        <5> QED BY <3>4, <3>5, WriteKeepsImports
      <4> QED BY <4>1
    <3> QED BY <3>2, <3>5
  <2>3. CASE Rewrites
    <3>1. PICK q \in Pages : RewriteRow(q)
      BY <2>3 DEF Rewrites
    <3>2. ~(q = page /\ p = NextRow(q))
      BY <3>1 DEF RewriteRow
    <3>3. rows'[page][p] = rows[page][p]
      BY <3>1, <3>2, RewrittenRow
    <3> QED BY <3>3
  <2>4. CASE FiguresStay
    BY <2>4 DEF FiguresStay, SameFigures
  <2> QED BY <2>1, <2>2, <2>3, <2>4, FigureSteps
<1>2. TypeOK /\ [Next]_vars => [\A page \in Pages, p \in Periods : Stays(page, p)]_vars
  BY <1>1
<1> QED BY <1>2, TypeCorrect, PTL DEF Spec, ImportsStay

-----------------------------------------------------------------------------
(* Dates and the periods on them *)

LEMMA SavedAreNat ==
    ASSUME TypeOK, NEW page \in Pages
    PROVE  saved[page] \subseteq Periods /\ saved[page] \subseteq Nat \ {0}
BY PeriodsAssumption DEF TypeOK

LEMMA LatestIs ==
    ASSUME NEW S, NEW m \in S, m \in Int, S \subseteq Int, \A q \in S : q <= m
    PROVE  Latest(S) = m
<1>1. ASSUME NEW x \in S, \A q \in S : q <= x
      PROVE  x = m
  BY <1>1
<1>2. Latest(S) \in S /\ \A q \in S : q <= Latest(S)
  BY DEF Latest
<1> QED BY <1>1, <1>2

LEMMA EarliestIs ==
    ASSUME NEW S, NEW m \in S, m \in Int, S \subseteq Int, \A q \in S : m <= q
    PROVE  Earliest(S) = m
<1>1. ASSUME NEW x \in S, \A q \in S : x <= q
      PROVE  x = m
  BY <1>1
<1>2. Earliest(S) \in S /\ \A q \in S : Earliest(S) <= q
  BY DEF Earliest
<1> QED BY <1>1, <1>2

\* The two periods of a date, and the date of a period.
LEMMA PeriodsOfDate ==
    ASSUME NEW d \in Int
    PROVE  /\ MorningOf(d) \in Int /\ NightOf(d) \in Int
           /\ MorningOf(d) + 1 = NightOf(d)
           /\ Day(MorningOf(d)) = d /\ Day(NightOf(d)) = d
           /\ NightOf(d - 1) + 1 = MorningOf(d)
BY DEF MorningOf, NightOf, Day

LEMMA DateOfPeriod ==
    ASSUME NEW p \in Int
    PROVE  /\ Day(p) \in Int
           /\ p = MorningOf(Day(p)) \/ p = NightOf(Day(p))
           /\ \A q \in Int : Day(q) < Day(p) => q < p
           /\ \A q \in Int : q <= p => Day(q) <= Day(p)
           /\ \A d \in Int : d = Day(p) <=> p \in {MorningOf(d), NightOf(d)}
<1>1. Day(p) \in Int /\ (p = 2 * Day(p) - 1 \/ p = 2 * Day(p))
  BY DEF Day
<1>2. ASSUME NEW q \in Int
      PROVE  (Day(q) < Day(p) => q < p) /\ (q <= p => Day(q) <= Day(p))
  BY DEF Day
<1>3. ASSUME NEW d \in Int
      PROVE  d = Day(p) <=> p \in {MorningOf(d), NightOf(d)}
  BY <1>1 DEF MorningOf, NightOf
<1> QED BY <1>1, <1>2, <1>3 DEF MorningOf, NightOf

-----------------------------------------------------------------------------
(* The lookup by dates finds the latest earlier row *)

LEMMA PredecessorIsLatest ==
    ASSUME TypeOK, NEW page \in Pages, NEW p \in Int
    PROVE  /\ RowsBefore(page, p) = {} => Predecessor(page, p) = {}
           /\ RowsBefore(page, p) # {} =>
                /\ Latest(RowsBefore(page, p)) \in RowsBefore(page, p)
                /\ \A q \in RowsBefore(page, p) : q <= Latest(RowsBefore(page, p))
                /\ Predecessor(page, p) = {Latest(RowsBefore(page, p))}
<1> DEFINE S == saved[page]
           B == RowsBefore(page, p)
           d == Day(p)
           E == {Day(q) : q \in {r \in S : Day(r) < d}}
<1>1. /\ S \subseteq Int /\ S \subseteq Nat /\ B = {q \in S : q < p}
      /\ B \subseteq S /\ B \subseteq Int /\ B \subseteq Nat
  BY SavedAreNat DEF RowsBefore
<1>2. d \in Int /\ (p = MorningOf(d) \/ p = NightOf(d)) /\ MorningOf(d) + 1 = NightOf(d)
      /\ MorningOf(d) \in Int /\ Day(MorningOf(d)) = d
  BY DateOfPeriod, PeriodsOfDate
<1>3. Predecessor(page, p) =
        IF p = NightOf(d) /\ MorningOf(d) \in S THEN {MorningOf(d)}
        ELSE {LastOf(page, e) : e \in {f \in E : \A g \in E : g <= f}}
  BY DEF Predecessor
<1>4. ASSUME B # {}
      PROVE  Latest(B) \in B /\ \A q \in B : q <= Latest(B)
  <2>1. PICK b \in B : TRUE
    BY <1>4
  <2>2. p \in Nat
    BY <2>1, <1>1
  <2> QED BY <1>1, <1>4, <2>2, LatestIsGreatest
<1> HIDE DEF S, B, d, E
<1>5. CASE p = NightOf(d) /\ MorningOf(d) \in S
  <2>1. MorningOf(d) \in B /\ \A q \in B : q <= MorningOf(d)
    BY <1>1, <1>2, <1>5
  <2>2. Latest(B) = MorningOf(d)
    BY <2>1, <1>1, <1>2, LatestIs
  <2> QED BY <1>3, <1>5, <2>1, <2>2 DEF B
<1>6. CASE ~(p = NightOf(d) /\ MorningOf(d) \in S)
  <2>1. B = {r \in S : Day(r) < d}
    <3>1. ASSUME NEW q \in S
          PROVE  q < p <=> Day(q) < d
      <4>1. q \in Int /\ (Day(q) < d => q < p) /\ (q <= p => Day(q) <= d)
        BY <1>1, DateOfPeriod DEF d
      <4>2. CASE q < p /\ Day(q) = d
        <5>1. q = MorningOf(d) \/ q = NightOf(d)
          BY <4>1, <4>2, DateOfPeriod, <1>2
        <5> QED BY <5>1, <4>2, <1>2, <1>6
      <4>3. Day(q) \in Int
        BY <4>1, DateOfPeriod
      <4> QED BY <4>1, <4>2, <4>3, <1>2
    <3> QED BY <3>1, <1>1
  <2>2. CASE B = {}
    <3>1. E = {}
      BY <2>1, <2>2 DEF E
    <3> QED BY <1>3, <1>6, <2>2, <3>1 DEF B
  <2>3. CASE B # {}
    <3> DEFINE m == Latest(B)
    <3>1. m \in B /\ (\A q \in B : q <= m) /\ m \in S /\ m \in Int
      BY <1>1, <1>4, <2>3
    <3> HIDE DEF m
    <3>2. Day(m) \in E /\ \A g \in E : g <= Day(m)
      <4>1. Day(m) \in E
        BY <3>1, <2>1 DEF E
      <4>2. ASSUME NEW q \in B
            PROVE  Day(q) <= Day(m)
        BY <3>1, <1>1, DateOfPeriod
      <4> QED BY <4>1, <4>2, <2>1 DEF E
    <3>3. \A g \in E : g \in Int
      BY <1>1, DateOfPeriod DEF E
    <3>4. {f \in E : \A g \in E : g <= f} = {Day(m)}
      <4>1. ASSUME NEW f \in E, \A g \in E : g <= f
            PROVE  f = Day(m)
        <5>1. f <= Day(m) /\ Day(m) <= f /\ f \in Int /\ Day(m) \in Int
          BY <4>1, <3>2, <3>3
        <5> QED BY <5>1
      <4> QED BY <4>1, <3>2
    <3>5. LastOf(page, Day(m)) = m
      <4>1. m \in OnDate(page, Day(m)) /\ OnDate(page, Day(m)) \subseteq S
        BY <3>1, DateOfPeriod DEF OnDate, S
      <4>2. ASSUME NEW q \in OnDate(page, Day(m))
            PROVE  q <= m
        <5>1. q \in S /\ q \in Int /\ Day(m) \in Int
              /\ q \in {MorningOf(Day(m)), NightOf(Day(m))}
          BY <4>1, <1>1, <3>1, DateOfPeriod DEF OnDate
        <5>2. Day(q) = Day(m)
          BY <5>1, DateOfPeriod
        <5>3. q \in B
          BY <5>1, <5>2, <3>1, <2>1
        <5> QED BY <5>3, <3>1
      <4>3. OnDate(page, Day(m)) \subseteq Int
        BY <4>1, <1>1
      <4> QED BY <4>1, <4>2, <4>3, <3>1, LatestIs DEF LastOf
    <3>6. {LastOf(page, e) : e \in {f \in E : \A g \in E : g <= f}} = {m}
      <4> QED BY <3>4, <3>5
    <3> QED BY <1>3, <1>6, <3>1, <3>6 DEF B, m
  <2> QED BY <2>2, <2>3
<1> QED BY <1>5, <1>6

\* What the lookup by dates gives is what the lookup of one row gives.
LEMMA PreviewEqualsCarry ==
    ASSUME TypeOK, NEW page \in Pages, NEW p \in Int, NEW hidden
    PROVE  PreviewOpening(page, p, hidden) = Carry(page, p, hidden)
<1> DEFINE B == RowsBefore(page, p)
           A == CountsBefore(page, p, hidden)
           F == CountsInForce(page, p, hidden)
           prior == Predecessor(page, p)
<1>1. /\ B \subseteq Int /\ A \subseteq Int /\ A \subseteq Nat
      /\ \A c \in A : c < p
  <2>1. A \subseteq Periods /\ \A c \in A : Day(c) < Day(p)
    BY DEF CountsBefore
  <2>2. B \subseteq Int
    BY SavedAreNat DEF RowsBefore
  <2>3. ASSUME NEW c \in A
        PROVE  c \in Nat
    BY <2>1, PeriodsAssumption
  <2>4. ASSUME NEW c \in A
        PROVE  c < p
    <3>1. c \in Int /\ Day(c) < Day(p)
      BY <2>1, <2>3
    <3> QED BY <3>1, DateOfPeriod
  <2> QED BY <2>2, <2>3, <2>4
<1>2. F = {c \in A : \A q \in B : Day(q) <= Day(c)} /\ F \subseteq A
  BY DEF CountsInForce
<1>3. /\ PreviewOpening(page, p, hidden) =
            IF A # {} /\ \A q \in prior : Day(q) <= Day(Latest(A))
            THEN counts[page][Latest(A)].value
            ELSE IF prior # {} THEN rows[page][Latest(prior)].remaining ELSE 0
      /\ Carry(page, p, hidden) =
            IF F # {} THEN counts[page][Latest(F)].value
            ELSE IF B # {} THEN rows[page][Latest(B)].remaining ELSE 0
  BY DEF PreviewOpening, Carry
<1>4. /\ B = {} => prior = {}
      /\ B # {} => /\ Latest(B) \in B /\ \A q \in B : q <= Latest(B)
                   /\ prior = {Latest(B)}
  BY PredecessorIsLatest
<1>5. ASSUME A # {}
      PROVE  Latest(A) \in A /\ \A c \in A : c <= Latest(A)
  <2>1. p \in Nat
    BY <1>1, <1>5
  <2> QED BY <1>1, <1>5, <2>1, LatestIsGreatest
<1> HIDE DEF B, A, F, prior
<1>6. \A q \in B, c \in A : Day(q) \in Int /\ Day(c) \in Int
  BY <1>1, DateOfPeriod
<1>7. Latest(prior) = Latest(B) \/ B = {}
  <2>1. CASE B # {}
    <3>1. Latest(B) \in prior /\ prior \subseteq Int /\ \A q \in prior : q <= Latest(B)
      BY <1>1, <1>4, <2>1
    <3>2. Latest(B) \in Int
      BY <3>1
    <3> QED BY <3>1, <3>2, LatestIs
  <2> QED BY <2>1
<1>8. CASE A # {} /\ \A q \in prior : Day(q) <= Day(Latest(A))
  <2>1. ASSUME NEW q \in B
        PROVE  Day(q) <= Day(Latest(A))
    <3>1. Latest(B) \in prior /\ Latest(B) \in B /\ q <= Latest(B)
      BY <1>4
    <3>2. Day(q) <= Day(Latest(B)) /\ Day(Latest(B)) <= Day(Latest(A))
      BY <3>1, <1>1, <1>8, DateOfPeriod
    <3> QED BY <3>1, <3>2, <1>5, <1>6, <1>8
  <2>2. Latest(A) \in F
    BY <2>1, <1>2, <1>5, <1>8
  <2>3. Latest(F) = Latest(A)
    <3>1. F \subseteq Int /\ Latest(A) \in Int /\ \A c \in F : c <= Latest(A)
      BY <1>1, <1>2, <1>5, <1>8
    <3> QED BY <2>2, <3>1, LatestIs
  <2> QED BY <1>3, <1>8, <2>2, <2>3
<1>9. CASE A = {}
  BY <1>2, <1>3, <1>4, <1>7, <1>9
<1>10. CASE A # {} /\ ~(\A q \in prior : Day(q) <= Day(Latest(A)))
  <2>1. B # {} /\ prior = {Latest(B)} /\ Latest(B) \in B
        /\ ~(Day(Latest(B)) <= Day(Latest(A)))
    BY <1>4, <1>10
  <2>2. ASSUME NEW c \in F
        PROVE  FALSE
    <3>1. c \in A /\ c <= Latest(A) /\ Day(Latest(B)) <= Day(c)
      BY <1>2, <1>5, <1>10, <2>1
    <3>2. Day(c) <= Day(Latest(A))
      BY <3>1, <1>1, <1>5, <1>10, DateOfPeriod
    <3> QED BY <2>1, <3>1, <3>2, <1>5, <1>6, <1>10
  <2>3. F = {}
    BY <2>2
  <2> QED BY <1>3, <1>7, <1>10, <2>1, <2>3
<1> QED BY <1>8, <1>9, <1>10

\* What a sheet previews is what saving it stores (getOpeningStocksForProducts
\* against getOpeningStock), whatever rows and counts there are.
THEOREM PreviewsAreCarries == Spec => []PreviewIsCarry
<1>1. TypeOK => PreviewIsCarry
  <2> SUFFICES ASSUME TypeOK, NEW page \in Pages, NEW p \in Periods
               PROVE  /\ PreviewOpening(page, p, {}) = Carry(page, p, {})
                      /\ PreviewOpening(page, p, rows[page][p].missed)
                            = Carry(page, p, rows[page][p].missed)
    BY DEF PreviewIsCarry, UngatedCarry, GatedCarry
  <2>1. p \in Int
    BY PeriodsAssumption
  <2> QED BY <2>1, PreviewEqualsCarry
<1> QED BY <1>1, TypeCorrect, PTL

-----------------------------------------------------------------------------
(* What carries into the periods of one date *)

\* A date without rows carries the same into both its shifts.
LEMMA SameCarryOnDate ==
    ASSUME TypeOK, NEW page \in Pages, NEW d \in Int, MorningOf(d) \notin saved[page]
    PROVE  Carry(page, NightOf(d), {}) = Carry(page, MorningOf(d), {})
<1>1. \A q \in saved[page] : q \in Int
  BY SavedAreNat
<1>2. RowsBefore(page, NightOf(d)) = RowsBefore(page, MorningOf(d))
  BY <1>1, PeriodsOfDate DEF RowsBefore
<1>3. CountsBefore(page, NightOf(d), {}) = CountsBefore(page, MorningOf(d), {})
  BY PeriodsOfDate DEF CountsBefore
<1> QED BY <1>2, <1>3 DEF Carry, CountsInForce

\* A Night opens at its Morning's closing: no count comes between them.
LEMMA NightOpensAtMorning ==
    ASSUME TypeOK, NEW page \in Pages, NEW d \in Int, MorningOf(d) \in saved[page],
           NEW hidden
    PROVE  Carry(page, NightOf(d), hidden) = rows[page][MorningOf(d)].remaining
<1>1. \A q \in saved[page] : q \in Int
  BY SavedAreNat
<1>2. /\ MorningOf(d) \in RowsBefore(page, NightOf(d))
      /\ \A q \in RowsBefore(page, NightOf(d)) : q <= MorningOf(d)
      /\ RowsBefore(page, NightOf(d)) \subseteq Int
  BY <1>1, PeriodsOfDate DEF RowsBefore
<1>3. Latest(RowsBefore(page, NightOf(d))) = MorningOf(d)
  BY <1>2, PeriodsOfDate, LatestIs
<1>4. CountsInForce(page, NightOf(d), hidden) = {}
  <2>1. ASSUME NEW c \in CountsInForce(page, NightOf(d), hidden)
        PROVE  FALSE
    <3>1. c \in Periods /\ Day(c) < d /\ d <= Day(c)
      BY <1>2, PeriodsOfDate DEF CountsInForce, CountsBefore
    <3>2. Day(c) \in Int
      BY <3>1, PeriodsAssumption, DateOfPeriod
    <3> QED BY <3>1, <3>2
  <2> QED BY <2>1
<1> QED BY <1>2, <1>3, <1>4 DEF Carry

-----------------------------------------------------------------------------
(* The day's sheet and the totals of the Daily Report *)

\* Figures are amounts and a row closes at what it opened at and moved.
LEMMA ShownCloses ==
    ASSUME TypeOK, RowsClose, NEW page \in Pages, NEW p \in Int
    PROVE  LET row == Shown(page, p)
           IN /\ row.opening \in Int /\ row.in \in Int /\ row.out \in Int
              /\ row.moved \in Int /\ row.remaining \in Int
              /\ row.remaining = row.opening + row.in - row.out + row.moved
              /\ p \in saved[page] => row = rows[page][p]
              /\ p \notin saved[page] => row = BlankRow
<1>1. CASE p \in saved[page]
  <2>1. p \in Periods /\ Shown(page, p) = rows[page][p]
    BY <1>1, SavedAreNat DEF Shown
  <2>2. rows[page][p] \in Row /\ RowCloses(rows[page][p])
    BY <2>1 DEF TypeOK, RowsClose
  <2> QED BY <1>1, <2>1, <2>2 DEF Row, RowCloses, Closing, OnlineStock
<1>2. CASE p \notin saved[page]
  BY <1>2 DEF Shown, BlankRow
<1> QED BY <1>1, <1>2

\* The rows of a date: the first and the last of them.
LEMMA RowsOfDate ==
    ASSUME TypeOK, NEW page \in Pages, NEW d \in Int
    PROVE  LET M == MorningOf(d)
               N == NightOf(d)
           IN \/ /\ M \notin saved[page] /\ N \notin saved[page]
                 /\ OnDate(page, d) = {}
              \/ /\ M \in saved[page] /\ N \notin saved[page]
                 /\ OnDate(page, d) = {M} /\ FirstOf(page, d) = M /\ LastOf(page, d) = M
              \/ /\ M \notin saved[page] /\ N \in saved[page]
                 /\ OnDate(page, d) = {N} /\ FirstOf(page, d) = N /\ LastOf(page, d) = N
              \/ /\ M \in saved[page] /\ N \in saved[page]
                 /\ OnDate(page, d) = {M, N} /\ FirstOf(page, d) = M /\ LastOf(page, d) = N
<1> DEFINE M == MorningOf(d)
           N == NightOf(d)
<1>1. M \in Int /\ N \in Int /\ M < N
  BY PeriodsOfDate
<1>2. OnDate(page, d) = saved[page] \cap {M, N}
  BY DEF OnDate
<1> HIDE DEF M, N
<1>3. Latest({M}) = M /\ Latest({N}) = N /\ Earliest({M}) = M /\ Earliest({N}) = N
  BY <1>1 DEF Latest, Earliest
<1>4. Latest({M, N}) = N
  BY <1>1, LatestIs
<1>5. Earliest({M, N}) = M
  BY <1>1, EarliestIs
<1>6. CASE M \notin saved[page] /\ N \notin saved[page]
  BY <1>2, <1>6 DEF M, N
<1>7. CASE M \in saved[page] /\ N \notin saved[page]
  <2>1. OnDate(page, d) = {M}
    BY <1>2, <1>7
  <2> QED BY <1>7, <1>3, <2>1 DEF FirstOf, LastOf, M, N
<1>8. CASE M \notin saved[page] /\ N \in saved[page]
  <2>1. OnDate(page, d) = {N}
    BY <1>2, <1>8
  <2> QED BY <1>8, <1>3, <2>1 DEF FirstOf, LastOf, M, N
<1>9. CASE M \in saved[page] /\ N \in saved[page]
  <2>1. OnDate(page, d) = {M, N}
    BY <1>2, <1>9
  <2> QED BY <1>9, <1>4, <1>5, <2>1 DEF FirstOf, LastOf, M, N
<1> QED BY <1>6, <1>7, <1>8, <1>9

\* A saved row that is not excused opens at what carries into it.
LEMMA UnexcusedFollows ==
    ASSUME ChainFollows, NEW page \in Pages, NEW p \in saved[page],
           ~OpeningExcused(page, p)
    PROVE  rows[page][p].opening \in {GatedCarry(page, p), UngatedCarry(page, p)}
BY DEF ChainFollows, OpeningExcused, Follows

\* The Daily Report's sheets and totals agree, except over an excused Night.
THEOREM ReportAgreesWithTotals == Spec => []ReportClosesAtTotal
<1>1. TypeOK /\ Balanced /\ ChainFollows => ReportClosesAtTotal
  <2> SUFFICES ASSUME TypeOK, RowsClose, ChainFollows, NEW page \in Pages,
                      NEW d \in Dates, NEW split \in Splits(page, d),
                      ~(/\ OnDate(page, d) = {MorningOf(d), NightOf(d)}
                        /\ OpeningExcused(page, NightOf(d)))
               PROVE  SheetClosing(page, d, split) = DayStock(page, d)
    BY DEF ReportClosesAtTotal, Balanced
  <2> DEFINE M == MorningOf(d)
             N == NightOf(d)
             first == Shown(page, M)
             second == Shown(page, N)
  <2>1. d \in Int
    BY PeriodsAssumption, DateOfPeriod DEF Dates
  <2>2. M \in Int /\ N \in Int
    BY <2>1, PeriodsOfDate
  <2>3. split \in BOOLEAN /\ (M \in saved[page] => split)
    BY DEF Splits
  <2>4. /\ first.opening \in Int /\ first.in \in Int /\ first.out \in Int
        /\ first.moved \in Int /\ first.remaining \in Int
        /\ first.remaining = first.opening + first.in - first.out + first.moved
        /\ M \in saved[page] => first = rows[page][M]
        /\ M \notin saved[page] => first = BlankRow
    BY <2>2, ShownCloses
  <2>5. /\ second.opening \in Int /\ second.in \in Int /\ second.out \in Int
        /\ second.moved \in Int /\ second.remaining \in Int
        /\ second.remaining = second.opening + second.in - second.out + second.moved
        /\ N \in saved[page] => second = rows[page][N]
        /\ N \notin saved[page] => second = BlankRow
    BY <2>2, ShownCloses
  <2>6. Combined(page, d)
          = rows[page][FirstOf(page, d)].opening + (first.in + second.in)
              - (first.out + second.out) + (first.moved + second.moved)
    BY DEF Combined, Closing, OnlineStock
  <2> HIDE DEF M, N, first, second
  <2>7. CASE OnDate(page, d) = {}
    <3>1. M \notin saved[page]
      BY <2>7 DEF M, OnDate
    <3>2. /\ PreviewOpening(page, M, {}) = Carry(page, M, {})
          /\ PreviewOpening(page, N, {}) = Carry(page, N, {})
      BY <2>2, PreviewEqualsCarry
    <3>3. Carry(page, N, {}) = Carry(page, M, {})
      BY <2>1, <3>1, SameCarryOnDate DEF M, N
    <3> QED BY <2>7, <3>2, <3>3 DEF SheetClosing, DayStock, M, N
  <2>8. CASE M \in saved[page] /\ N \notin saved[page]
    <3>1. OnDate(page, d) # {} /\ FirstOf(page, d) = M /\ LastOf(page, d) = M
      BY <2>1, <2>8, RowsOfDate DEF M, N
    <3>2. SheetClosing(page, d, split) = Combined(page, d)
      BY <2>3, <2>8, <3>1 DEF SheetClosing
    <3>3. DayStock(page, d) = first.remaining
      BY <2>4, <2>8, <3>1 DEF DayStock
    <3>4. second.in = 0 /\ second.out = 0 /\ second.moved = 0
      BY <2>5, <2>8 DEF BlankRow
    <3>5. Combined(page, d) = first.remaining
      BY <2>4, <2>6, <2>8, <3>1, <3>4
    <3> QED BY <3>2, <3>3, <3>5
  <2>9. CASE M \notin saved[page] /\ N \in saved[page]
    <3>1. OnDate(page, d) # {} /\ FirstOf(page, d) = N /\ LastOf(page, d) = N
      BY <2>1, <2>9, RowsOfDate DEF M, N
    <3>2. DayStock(page, d) = second.remaining
      BY <2>5, <2>9, <3>1 DEF DayStock
    <3>3. first.in = 0 /\ first.out = 0 /\ first.moved = 0
      BY <2>4, <2>9 DEF BlankRow
    <3>4. Combined(page, d) = second.remaining
      BY <2>5, <2>6, <2>9, <3>1, <3>3
    <3> QED BY <2>3, <2>5, <2>9, <3>1, <3>2, <3>4 DEF SheetClosing, N
  <2>10. CASE M \in saved[page] /\ N \in saved[page]
    <3>1. /\ OnDate(page, d) = {M, N} /\ OnDate(page, d) # {}
          /\ FirstOf(page, d) = M /\ LastOf(page, d) = N
      BY <2>1, <2>10, RowsOfDate DEF M, N
    <3>2. rows[page][N].opening \in {GatedCarry(page, N), UngatedCarry(page, N)}
      BY <2>10, <3>1, UnexcusedFollows DEF M, N
    <3>3. rows[page][N].opening = rows[page][M].remaining
      BY <2>1, <2>10, <3>2, NightOpensAtMorning DEF GatedCarry, UngatedCarry, M, N
    <3>4. SheetClosing(page, d, split) = Combined(page, d)
      BY <2>3, <2>10, <3>1 DEF SheetClosing
    <3>5. DayStock(page, d) = second.remaining
      BY <2>5, <2>10, <3>1 DEF DayStock
    <3>6. Combined(page, d) = second.remaining
      BY <2>4, <2>5, <2>6, <2>10, <3>1, <3>3
    <3> QED BY <3>4, <3>5, <3>6
  <2> QED BY <2>1, <2>7, <2>8, <2>9, <2>10, RowsOfDate DEF M, N
<1> QED BY <1>1, TypeCorrect, LedgerIsBalanced, ChainIsConsistent, PTL
\* The audit pages agree with the totals, and the openings they flag are the
\* imported, held, refused or not yet carried ones.
THEOREM AuditsAreExplained == Spec => []AuditIsExplained
<1>1. TypeOK /\ ChainFollows => AuditIsExplained
  <2> SUFFICES ASSUME TypeOK, ChainFollows, NEW page \in Pages
               PROVE  /\ \A d \in Dates : SystemStock(page, NightOf(d)) = DayStock(page, d)
                      /\ \A p \in Periods : OpeningBreak(page, p) => OpeningExcused(page, p)
    BY DEF AuditIsExplained
  <2>1. ASSUME NEW d \in Dates
        PROVE  SystemStock(page, NightOf(d)) = DayStock(page, d)
    <3> DEFINE M == MorningOf(d)
               N == NightOf(d)
    <3>1. d \in Int
      BY PeriodsAssumption, DateOfPeriod DEF Dates
    <3>2. M \in Int /\ N \in Int
      BY <3>1, PeriodsOfDate
    <3>3. /\ PreviewOpening(page, M, {}) = Carry(page, M, {})
          /\ PreviewOpening(page, N, {}) = Carry(page, N, {})
      BY <3>2, PreviewEqualsCarry
    <3> HIDE DEF M, N
    <3>4. CASE M \notin saved[page] /\ N \notin saved[page]
      <4>1. OnDate(page, d) = {}
        BY <3>4 DEF OnDate, M, N
      <4>2. Carry(page, N, {}) = Carry(page, M, {})
        BY <3>1, <3>4, SameCarryOnDate DEF M, N
      <4> QED BY <3>3, <3>4, <4>1, <4>2 DEF SystemStock, DayStock, M, N
    <3>5. CASE M \in saved[page] /\ N \notin saved[page]
      <4>1. OnDate(page, d) # {} /\ LastOf(page, d) = M
        BY <3>1, <3>5, RowsOfDate DEF M, N
      <4>2. Carry(page, N, {}) = rows[page][M].remaining
        BY <3>1, <3>5, NightOpensAtMorning DEF M, N
      <4> QED BY <3>3, <3>5, <4>1, <4>2 DEF SystemStock, DayStock, M, N
    <3>6. CASE N \in saved[page]
      <4>1. OnDate(page, d) # {} /\ LastOf(page, d) = N
        BY <3>1, <3>6, RowsOfDate DEF M, N
      <4> QED BY <3>6, <4>1 DEF SystemStock, DayStock, M, N
    <3> QED BY <3>4, <3>5, <3>6
  <2>2. ASSUME NEW p \in Periods, OpeningBreak(page, p), ~OpeningExcused(page, p)
        PROVE  FALSE
    <3>1. p \in saved[page] /\ p \in Int
      BY <2>2, PeriodsAssumption DEF OpeningBreak
    <3>2. rows[page][p].opening \in {GatedCarry(page, p), UngatedCarry(page, p)}
      BY <2>2, <3>1, UnexcusedFollows
    <3>3. /\ PreviewOpening(page, p, {}) = UngatedCarry(page, p)
          /\ PreviewOpening(page, p, rows[page][p].missed) = GatedCarry(page, p)
      BY <3>1, PreviewEqualsCarry DEF UngatedCarry, GatedCarry
    <3>4. /\ Expected(page, p, rows[page][p].missed) # {}
          /\ rows[page][p].opening # GatedCarry(page, p)
      BY <2>2, <3>3 DEF OpeningBreak, Expected
    <3>5. CountsBefore(page, p, rows[page][p].missed) \subseteq CountsBefore(page, p, {})
      BY DEF CountsBefore
    <3>6. Expected(page, p, {}) = {UngatedCarry(page, p)}
      BY <3>3, <3>4, <3>5 DEF Expected
    <3>7. rows[page][p].opening \notin Expected(page, p, {})
      BY <2>2 DEF OpeningBreak
    <3> QED BY <3>2, <3>4, <3>6, <3>7
  <2> QED BY <2>1, <2>2
<1> QED BY <1>1, TypeCorrect, ChainIsConsistent, PTL

-----------------------------------------------------------------------------
(* The stock shown from one date to the next *)

\* What carries is an amount, also into a date no period of the run is on.
LEMMA CarryIsAmount ==
    ASSUME TypeOK, NEW page \in Pages, NEW p \in Int, NEW hidden
    PROVE  Carry(page, p, hidden) \in Int
<1> DEFINE B == RowsBefore(page, p)
           F == CountsInForce(page, p, hidden)
<1>1. B \subseteq saved[page] /\ \A q \in B : q < p
  BY DEF RowsBefore
<1>2. F \subseteq Periods /\ \A c \in F : Day(c) < Day(p)
  BY DEF CountsInForce, CountsBefore
<1>3. \A q \in saved[page] : q \in Periods /\ q \in Nat
  BY SavedAreNat
<1>4. \A c \in Periods : c \in Nat
  BY PeriodsAssumption
<1> HIDE DEF B, F
<1>5. CASE F # {}
  <2>1. \A c \in F : c \in Nat /\ c < p
    BY <1>2, <1>4, DateOfPeriod
  <2>2. F \in SUBSET Nat /\ p \in Nat
    BY <1>5, <2>1
  <2>3. Latest(F) \in F
    BY <1>5, <2>1, <2>2, LatestIsGreatest
  <2>4. counts[page][Latest(F)] \in Count
    BY <1>2, <2>3 DEF TypeOK
  <2>5. Carry(page, p, hidden) = counts[page][Latest(F)].value
    BY <1>5 DEF Carry, F
  <2> QED BY <2>4, <2>5 DEF Count
<1>6. CASE F = {} /\ B # {}
  <2>1. B \in SUBSET Nat /\ p \in Nat
    BY <1>1, <1>3, <1>6
  <2>2. Latest(B) \in B
    BY <1>1, <1>6, <2>1, LatestIsGreatest
  <2>3. rows[page][Latest(B)] \in Row
    BY <1>1, <1>3, <2>2 DEF TypeOK
  <2>4. Carry(page, p, hidden) = rows[page][Latest(B)].remaining
    BY <1>6 DEF Carry, B, F
  <2> QED BY <2>3, <2>4 DEF Row
<1>7. CASE F = {} /\ B = {}
  BY <1>7 DEF Carry, B, F
<1> QED BY <1>5, <1>6, <1>7

\* Without an applied count of the date before, a date's Morning is carried what
\* the date before shows.
LEMMA MorningCarriesDayStock ==
    ASSUME TypeOK, NEW page \in Pages, NEW d \in Int,
           \A c \in Periods : Day(c) = d - 1 => counts[page][c].standing # "applied"
    PROVE  Carry(page, MorningOf(d), {}) = DayStock(page, d - 1)
<1> DEFINE M == MorningOf(d)
           e == d - 1
<1>1. /\ M \in Int /\ MorningOf(e) \in Int /\ NightOf(e) \in Int /\ e \in Int
      /\ MorningOf(e) + 1 = NightOf(e) /\ NightOf(e) + 1 = M /\ Day(M) = d
      /\ Day(MorningOf(e)) = e /\ Day(NightOf(e)) = e
  BY PeriodsOfDate
<1>2. \A q \in saved[page] : q \in Int
  BY SavedAreNat
<1>3. \A c \in Periods : Day(c) \in Int
  BY PeriodsAssumption, DateOfPeriod
<1>4. CountsBefore(page, M, {}) = CountsBefore(page, MorningOf(e), {})
  <2>1. ASSUME NEW c \in Periods, counts[page][c].standing = "applied"
        PROVE  Day(c) < d <=> Day(c) < e
    BY <1>3, <2>1
  <2> QED BY <1>1, <2>1 DEF CountsBefore
<1>5. CASE OnDate(page, e) = {}
  <2>1. MorningOf(e) \notin saved[page] /\ NightOf(e) \notin saved[page]
    BY <1>5 DEF OnDate
  <2>2. \A q \in saved[page] : q < M <=> q < MorningOf(e)
    BY <1>1, <1>2, <2>1
  <2>3. RowsBefore(page, M) = RowsBefore(page, MorningOf(e))
    BY <2>2 DEF RowsBefore
  <2>4. Carry(page, M, {}) = Carry(page, MorningOf(e), {})
    BY <1>4, <2>3 DEF Carry, CountsInForce
  <2>5. PreviewOpening(page, MorningOf(e), {}) = Carry(page, MorningOf(e), {})
    BY <1>1, PreviewEqualsCarry
  <2> QED BY <1>5, <2>4, <2>5 DEF DayStock
<1>6. CASE OnDate(page, e) # {}
  <2> DEFINE L == LastOf(page, e)
  <2>1. /\ L \in saved[page] /\ L \in {MorningOf(e), NightOf(e)}
        /\ NightOf(e) \in saved[page] => L = NightOf(e)
    BY <1>1, <1>6, RowsOfDate
  <2> HIDE DEF L
  <2>2. L \in RowsBefore(page, M) /\ Day(L) = e /\ L \in Int
    BY <1>1, <2>1 DEF RowsBefore
  <2>3. ASSUME NEW q \in RowsBefore(page, M)
        PROVE  q \in Int /\ q <= L
    <3>1. q \in Int /\ q < M /\ q \in saved[page]
      BY <1>2 DEF RowsBefore
    <3> QED BY <1>1, <2>1, <3>1
  <2>4. Latest(RowsBefore(page, M)) = L
    BY <2>2, <2>3, LatestIs
  <2>5. CountsInForce(page, M, {}) = {}
    <3>1. ASSUME NEW c \in CountsInForce(page, M, {})
          PROVE  FALSE
      <4>1. /\ c \in Periods /\ counts[page][c].standing = "applied"
            /\ Day(c) < d /\ e <= Day(c)
        BY <1>1, <2>2 DEF CountsInForce, CountsBefore
      <4> QED BY <1>3, <4>1
    <3> QED BY <3>1
  <2> QED BY <1>6, <2>2, <2>4, <2>5 DEF Carry, DayStock, L
<1> QED BY <1>5, <1>6

\* A page's stock moves by what its rows of the date moved.
LEMMA DayStockMoves ==
    ASSUME TypeOK, RowsClose, ChainFollows, NEW page \in Pages, NEW d \in Int,
           OpensAtDayBefore(page, d)
    PROVE  LET first == Shown(page, MorningOf(d))
               second == Shown(page, NightOf(d))
           IN DayStock(page, d)
                = DayStock(page, d - 1) + first.in - first.out + first.moved
                    + second.in - second.out + second.moved
<1> DEFINE M == MorningOf(d)
           N == NightOf(d)
           first == Shown(page, M)
           second == Shown(page, N)
           before == DayStock(page, d - 1)
<1>1. M \in Int /\ N \in Int
  BY PeriodsOfDate
<1>2. /\ first.opening \in Int /\ first.in \in Int /\ first.out \in Int
      /\ first.moved \in Int /\ first.remaining \in Int
      /\ first.remaining = first.opening + first.in - first.out + first.moved
      /\ M \in saved[page] => first = rows[page][M]
      /\ M \notin saved[page] => first = BlankRow
  BY <1>1, ShownCloses
<1>3. /\ second.opening \in Int /\ second.in \in Int /\ second.out \in Int
      /\ second.moved \in Int /\ second.remaining \in Int
      /\ second.remaining = second.opening + second.in - second.out + second.moved
      /\ N \in saved[page] => second = rows[page][N]
      /\ N \notin saved[page] => second = BlankRow
  BY <1>1, ShownCloses
<1>4. Carry(page, M, {}) = before
  BY MorningCarriesDayStock DEF OpensAtDayBefore
<1>5. ASSUME NEW p \in OnDate(page, d)
      PROVE  rows[page][p].opening = Carry(page, p, {})
  <2>1. p \in saved[page] /\ ~OpeningExcused(page, p) /\ rows[page][p].missed = {}
    BY DEF OpensAtDayBefore, OnDate
  <2> QED BY <2>1, UnexcusedFollows DEF GatedCarry, UngatedCarry
<1> HIDE DEF M, N, first, second, before
<1>6. CASE OnDate(page, d) = {}
  <2>1. PreviewOpening(page, M, {}) = Carry(page, M, {})
    BY <1>1, PreviewEqualsCarry
  <2>2. DayStock(page, d) = before
    BY <1>4, <1>6, <2>1 DEF DayStock, M
  <2>3. first = BlankRow /\ second = BlankRow
    BY <1>2, <1>3, <1>6 DEF OnDate, M, N
  <2>4. before \in Int
    <3>1. Carry(page, M, {}) \in Int
      BY <1>1, CarryIsAmount
    <3> QED BY <1>4, <3>1
  <2> QED BY <2>2, <2>3, <2>4 DEF BlankRow, M, N, first, second, before
<1>7. CASE M \in saved[page] /\ N \notin saved[page]
  <2>1. OnDate(page, d) = {M} /\ LastOf(page, d) = M
    BY <1>7, RowsOfDate DEF M, N
  <2>2. DayStock(page, d) = first.remaining /\ first.opening = before
    BY <1>2, <1>4, <1>5, <1>7, <2>1 DEF DayStock
  <2>3. second.in = 0 /\ second.out = 0 /\ second.moved = 0
    BY <1>3, <1>7 DEF BlankRow
  <2>4. DayStock(page, d) = before + first.in - first.out + first.moved
                              + second.in - second.out + second.moved
    BY <1>2, <2>2, <2>3
  <2> QED BY <2>4 DEF M, N, first, second, before
<1>8. CASE M \notin saved[page] /\ N \in saved[page]
  <2>1. OnDate(page, d) = {N} /\ LastOf(page, d) = N
    BY <1>8, RowsOfDate DEF M, N
  <2>2. Carry(page, N, {}) = before
    BY <1>4, <1>8, SameCarryOnDate DEF M, N
  <2>3. DayStock(page, d) = second.remaining /\ second.opening = before
    BY <1>3, <1>5, <1>8, <2>1, <2>2 DEF DayStock
  <2>4. first.in = 0 /\ first.out = 0 /\ first.moved = 0
    BY <1>2, <1>8 DEF BlankRow
  <2>5. DayStock(page, d) = before + first.in - first.out + first.moved
                              + second.in - second.out + second.moved
    BY <1>3, <2>3, <2>4
  <2> QED BY <2>5 DEF M, N, first, second, before
<1>9. CASE M \in saved[page] /\ N \in saved[page]
  <2>1. OnDate(page, d) = {M, N} /\ LastOf(page, d) = N
    BY <1>9, RowsOfDate DEF M, N
  <2>2. Carry(page, N, {}) = rows[page][M].remaining
    BY <1>9, NightOpensAtMorning DEF M, N
  <2>3. first.opening = before /\ second.opening = first.remaining
    BY <1>2, <1>3, <1>4, <1>5, <1>9, <2>1, <2>2
  <2>4. DayStock(page, d) = second.remaining
    BY <1>3, <1>9, <2>1 DEF DayStock
  <2>5. DayStock(page, d) = before + first.in - first.out + first.moved
                              + second.in - second.out + second.moved
    BY <1>2, <1>3, <2>3, <2>4
  <2> QED BY <2>5 DEF M, N, first, second, before
<1> QED BY <1>6, <1>7, <1>8, <1>9, RowsOfDate DEF M, N

\* The reports' total moves by the monitored flow: the transfers of the two
\* pages cancel out.
THEOREM StockFollowsFlow == Spec => []StockMovesByFlow
<1>1. TypeOK /\ Balanced /\ ChainFollows => StockMovesByFlow
  <2> SUFFICES ASSUME TypeOK, RowsClose, TransfersAgree, ChainFollows, NEW d \in Dates,
                      \A page \in Pages : OpensAtDayBefore(page, d)
               PROVE  TotalStock(d) = TotalStock(d - 1) + Flow(d)
    BY DEF StockMovesByFlow, Balanced
  <2> DEFINE M == MorningOf(d)
             N == NightOf(d)
  <2>1. d \in Int /\ d - 1 \in Int
    BY PeriodsAssumption, DateOfPeriod DEF Dates
  <2>2. M \in Int /\ N \in Int
    BY <2>1, PeriodsOfDate
  <2>3. "ONLINE" \in Pages /\ "OFFLINE" \in Pages
    BY DEF Pages
  <2>4. ASSUME NEW p \in Int
        PROVE  /\ Shown("ONLINE", p).in = Shown("OFFLINE", p).out
               /\ Shown("ONLINE", p).out = Shown("OFFLINE", p).in
    <3>1. CASE p \in Periods
      <4>1. ASSUME NEW page \in Pages
            PROVE  Shown(page, p) = rows[page][p]
        BY <3>1 DEF Shown, TypeOK
      <4>2. /\ rows["ONLINE"][p].in = rows["OFFLINE"][p].out
            /\ rows["OFFLINE"][p].in = rows["ONLINE"][p].out
        BY <2>3, <3>1 DEF TransfersAgree, OtherPage
      <4> QED BY <2>3, <4>1, <4>2
    <3>2. CASE p \notin Periods
      <4>1. ASSUME NEW page \in Pages
            PROVE  Shown(page, p) = BlankRow
        BY <3>2, SavedAreNat DEF Shown
      <4> QED BY <2>3, <4>1 DEF BlankRow
    <3> QED BY <3>1, <3>2
  <2>5. ASSUME NEW page \in Pages, NEW p \in {M, N}
        PROVE  /\ Shown(page, p).in \in Int /\ Shown(page, p).out \in Int
               /\ Shown(page, p).moved \in Int
    BY <2>2, ShownCloses
  <2>6. ASSUME NEW page \in Pages
        PROVE  /\ DayStock(page, d - 1) \in Int
               /\ DayStock(page, d)
                    = DayStock(page, d - 1)
                        + Shown(page, M).in - Shown(page, M).out + Shown(page, M).moved
                        + Shown(page, N).in - Shown(page, N).out + Shown(page, N).moved
    <3>1. DayStock(page, d - 1) \in Int
      BY <2>1, <2>2, MorningCarriesDayStock, CarryIsAmount DEF OpensAtDayBefore
    <3> QED BY <2>1, <3>1, DayStockMoves
  <2>7. /\ Shown("ONLINE", M).in = Shown("OFFLINE", M).out
        /\ Shown("ONLINE", M).out = Shown("OFFLINE", M).in
        /\ Shown("ONLINE", N).in = Shown("OFFLINE", N).out
        /\ Shown("ONLINE", N).out = Shown("OFFLINE", N).in
    BY <2>2, <2>4
  <2>8. Flow(d) = Shown("ONLINE", M).moved + Shown("ONLINE", N).moved
                    + Shown("OFFLINE", M).moved + Shown("OFFLINE", N).moved
    BY DEF Flow
  <2> HIDE DEF M, N
  <2> QED BY <2>3, <2>5, <2>6, <2>7, <2>8 DEF TotalStock
<1> QED BY <1>1, TypeCorrect, LedgerIsBalanced, ChainIsConsistent, PTL
=============================================================================
