--------------------------- MODULE StockLedgerProofs ---------------------------
(***************************************************************************)
(* Theorems about StockLedger, for every value of its constants: facts     *)
(* about its operators (the order of periods, the earliest and latest of a *)
(* set of periods, what a carry depends on), the type invariant, and       *)
(* conservation of stock by transfers.                                     *)
(***************************************************************************)
EXTENDS StockLedger, WellFoundedInduction, TLAPS

-----------------------------------------------------------------------------
(* The ledger's one movement per row *)

\* calculateOnlineStock and calculateOnlineRemaining close an Online row where
\* Closing does, with the movements other than transfers summed into one.
LEMMA OnlineRowCloses ==
    ASSUME NEW opening \in Int, NEW stockIn \in Int, NEW stockOut \in Int,
           NEW productionIn \in Int, NEW fulfillmentOut \in Int, NEW rts \in Int
    PROVE  OnlineRemaining(OnlineStock(opening, stockIn, stockOut),
                           productionIn, fulfillmentOut, rts)
             = Closing(opening, stockIn, stockOut,
                       OnlineMovement(productionIn, fulfillmentOut, rts))
BY DEF OnlineRemaining, OnlineStock, Closing, OnlineMovement

\* The same for calculateOfflineStock and calculateOfflineRemaining; what leaves
\* Offline is the outflow the reports show (offlineNetOutflow), or Daily Out's
\* figure plus the upsells (offlineDeliveryNet: "this same number").
LEMMA OfflineRowCloses ==
    ASSUME NEW opening \in Int, NEW stockIn \in Int, NEW stockOut \in Int,
           NEW productionIn \in Int, NEW deliveryOut \in Int,
           NEW backloads \in Int, NEW upsellOut \in Int
    PROVE  /\ OfflineRemaining(OfflineStock(opening, stockIn, stockOut),
                               productionIn, deliveryOut, backloads, upsellOut)
                = Closing(opening, stockIn, stockOut,
                          OfflineMovement(productionIn, deliveryOut, backloads, upsellOut))
           /\ OfflineMovement(productionIn, deliveryOut, backloads, upsellOut)
                = productionIn - OfflineNetOutflow(deliveryOut, upsellOut, backloads)
           /\ OfflineNetOutflow(deliveryOut, upsellOut, backloads)
                = OfflineDeliveryNet(deliveryOut, backloads) + upsellOut
BY DEF OfflineRemaining, OfflineStock, OnlineStock, Closing, OfflineMovement,
       OfflineNetOutflow, OfflineDeliveryNet

-----------------------------------------------------------------------------
(* Periods and dates *)

\* A nonempty set of naturals has a least member.
LEMMA LeastExists ==
    ASSUME NEW S \in SUBSET Nat, S # {}
    PROVE  \E p \in S : \A q \in S : p <= q
<1>1. PICK p \in S : \A q \in S : ~(<<q, p>> \in OpToRel(<, Nat))
  BY WFMin, NatLessThanWellFounded
<1>2. \A q \in S : ~(q < p)
  BY <1>1 DEF OpToRel
<1> QED BY <1>2

\* A nonempty set of naturals below a bound has a greatest member.
LEMMA GreatestExists ==
    ASSUME NEW n \in Nat, NEW S \in SUBSET Nat, S # {}, \A q \in S : q < n
    PROVE  \E p \in S : \A q \in S : q <= p
<1> DEFINE Gaps == {n - q : q \in S}
<1>0. \A q \in S : n - q \in Nat
  OBVIOUS
<1>1. Gaps \in SUBSET Nat /\ Gaps # {}
  BY <1>0
<1>2. PICK gap \in Gaps : \A other \in Gaps : gap <= other
  BY <1>1, LeastExists
<1>3. PICK p \in S : gap = n - p
  OBVIOUS
<1>4. \A q \in S : n - p <= n - q
  BY <1>2, <1>3
<1> QED BY <1>4

LEMMA EarliestIsLeast ==
    ASSUME NEW S \in SUBSET Nat, S # {}
    PROVE  Earliest(S) \in S /\ \A q \in S : Earliest(S) <= q
BY LeastExists DEF Earliest

LEMMA LatestIsGreatest ==
    ASSUME NEW n \in Nat, NEW S \in SUBSET Nat, S # {}, \A q \in S : q < n
    PROVE  Latest(S) \in S /\ \A q \in S : q <= Latest(S)
BY GreatestExists DEF Latest

\* A date is a number, later periods never have an earlier date, and the periods
\* after a date's Night are the periods of later dates.
LEMMA DayIsNat ==
    ASSUME NEW p \in Nat
    PROVE  Day(p) \in Nat /\ NightOf(Day(p)) \in Nat
BY DEF Day, NightOf

LEMMA DayIsMonotone ==
    ASSUME NEW p \in Nat, NEW q \in Nat, p <= q
    PROVE  Day(p) <= Day(q)
BY DEF Day

LEMMA AfterNightIsLaterDay ==
    ASSUME NEW c \in Nat, NEW p \in Nat
    PROVE  p > NightOf(Day(c)) <=> Day(c) < Day(p)
BY DEF Day, NightOf

-----------------------------------------------------------------------------
(* The carry of one page, as a function of the page's saved periods S, its   *)
(* rows R and its counts C.                                                  *)

Before(S, p) == {q \in S : q < p}
InForce(S, C, p, hidden) ==
    {c \in Periods \ hidden :
        /\ C[c].standing = "applied" /\ Day(c) < Day(p)
        /\ \A q \in Before(S, p) : Day(q) <= Day(c)}
CarryOf(S, R, C, p, hidden) ==
    IF InForce(S, C, p, hidden) # {}
    THEN C[Latest(InForce(S, C, p, hidden))].value
    ELSE IF Before(S, p) # {} THEN R[Latest(Before(S, p))].remaining ELSE 0

LEMMA CarryIsCarryOf ==
    ASSUME NEW page \in Pages, NEW p \in Periods
    PROVE  /\ GatedCarry(page, p)
                = CarryOf(saved[page], rows[page], counts[page], p, rows[page][p].missed)
           /\ UngatedCarry(page, p)
                = CarryOf(saved[page], rows[page], counts[page], p, {})
<1>1. RowsBefore(page, p) = Before(saved[page], p)
  BY DEF RowsBefore, Before
<1>2. ASSUME NEW hidden
      PROVE  CountsInForce(page, p, hidden) = InForce(saved[page], counts[page], p, hidden)
  BY <1>1 DEF CountsInForce, CountsBefore, InForce
<1> QED BY <1>1, <1>2 DEF GatedCarry, UngatedCarry, Carry, CarryOf

\* The same after a step.
LEMMA CarryIsCarryOfNext ==
    ASSUME NEW page \in Pages, NEW p \in Periods
    PROVE  /\ GatedCarry(page, p)'
                = CarryOf(saved'[page], rows'[page], counts'[page], p, rows'[page][p].missed)
           /\ UngatedCarry(page, p)'
                = CarryOf(saved'[page], rows'[page], counts'[page], p, {})
<1>1. RowsBefore(page, p)' = Before(saved'[page], p)
  BY DEF RowsBefore, Before
<1>2. ASSUME NEW CONSTANT hidden
      PROVE  CountsInForce(page, p, hidden)' = InForce(saved'[page], counts'[page], p, hidden)
  BY <1>1 DEF CountsInForce, CountsBefore, InForce
<1>3. CountsInForce(page, p, rows[page][p].missed)'
        = InForce(saved'[page], counts'[page], p, rows'[page][p].missed)
  BY <1>1 DEF CountsInForce, CountsBefore, InForce
<1> QED BY <1>1, <1>2, <1>3 DEF GatedCarry, UngatedCarry, Carry, CarryOf

\* What is before a period lies below it, so it has a latest member.
LEMMA LatestBefore ==
    ASSUME NEW S \in SUBSET Periods, NEW p \in Periods, Before(S, p) # {}
    PROVE  /\ Latest(Before(S, p)) \in S
           /\ Latest(Before(S, p)) < p
           /\ \A q \in Before(S, p) : q <= Latest(Before(S, p))
BY LatestIsGreatest, PeriodsAssumption DEF Before

LEMMA LatestInForce ==
    ASSUME NEW S, NEW C, NEW p \in Periods, NEW hidden, InForce(S, C, p, hidden) # {}
    PROVE  Latest(InForce(S, C, p, hidden)) \in Periods
<1>1. \A c \in InForce(S, C, p, hidden) : c \in Nat /\ c < p
  BY PeriodsAssumption DEF InForce, Day
<1> QED BY <1>1, LatestIsGreatest, PeriodsAssumption DEF InForce

\* A carry is an amount.
LEMMA CarryIsInt ==
    ASSUME NEW S \in SUBSET Periods, NEW p \in Periods, NEW hidden,
           NEW R, \A q \in Periods : R[q].remaining \in Int,
           NEW C, \A c \in Periods : C[c].value \in Int
    PROVE  CarryOf(S, R, C, p, hidden) \in Int
<1>1. CASE InForce(S, C, p, hidden) # {}
  BY <1>1, LatestInForce DEF CarryOf
<1>2. CASE InForce(S, C, p, hidden) = {} /\ Before(S, p) # {}
  BY <1>2, LatestBefore DEF CarryOf
<1>3. CASE InForce(S, C, p, hidden) = {} /\ Before(S, p) = {}
  BY <1>3 DEF CarryOf
<1> QED BY <1>1, <1>2, <1>3

\* Saving the row of period p changes what carries into the next saved row
\* after it, and into no other row.
LEMMA RowReachesNextRowOnly ==
    ASSUME NEW S \in SUBSET Periods, NEW p \in Periods, NEW q \in Periods, NEW hidden,
           NEW R, NEW R2, \A r \in Periods \ {p} : R2[r].remaining = R[r].remaining,
           NEW C,
           q <= p \/ \E r \in S : p < r /\ r < q
    PROVE  CarryOf(S \cup {p}, R2, C, q, hidden) = CarryOf(S, R, C, q, hidden)
<1> USE PeriodsAssumption
<1>1. CASE q <= p
  <2>1. Before(S \cup {p}, q) = Before(S, q)
    BY <1>1 DEF Before
  <2>2. InForce(S \cup {p}, C, q, hidden) = InForce(S, C, q, hidden)
    BY <2>1 DEF InForce
  <2>3. Before(S, q) # {} => R2[Latest(Before(S, q))].remaining = R[Latest(Before(S, q))].remaining
    <3> SUFFICES ASSUME Before(S, q) # {}
                 PROVE  Latest(Before(S, q)) \in Periods \ {p}
      OBVIOUS
    <3>1. Latest(Before(S, q)) \in S /\ Latest(Before(S, q)) < q
      BY LatestBefore
    <3>2. \A r \in S : r < q => r \in Nat /\ r # p
      BY <1>1
    <3> QED BY <3>1, <3>2
  <2> QED BY <2>1, <2>2, <2>3 DEF CarryOf
<1>2. ASSUME NEW r \in S, p < r, r < q
      PROVE  CarryOf(S \cup {p}, R2, C, q, hidden) = CarryOf(S, R, C, q, hidden)
  <2>1. Before(S \cup {p}, q) = Before(S, q) \cup {p} /\ r \in Before(S, q)
    BY <1>2 DEF Before
  <2>2. Day(p) <= Day(r)
    BY <1>2, DayIsMonotone
  <2>3. \A c \in Periods : Day(r) <= Day(c) => Day(p) <= Day(c)
    BY <2>2, DayIsNat
  <2>4. InForce(S \cup {p}, C, q, hidden) = InForce(S, C, q, hidden)
    BY <2>1, <2>3 DEF InForce
  <2> DEFINE late == Latest(Before(S, q))
             late2 == Latest(Before(S \cup {p}, q))
  <2>5. late \in S /\ late < q /\ \A t \in Before(S, q) : t <= late
    BY <2>1, LatestBefore
  <2>6. S \cup {p} \in SUBSET Periods /\ Before(S \cup {p}, q) # {}
    BY <2>1
  <2>7. late2 \in S \cup {p} /\ late2 < q /\ \A t \in Before(S \cup {p}, q) : t <= late2
    BY <2>6, LatestBefore
  <2>8. r <= late2 /\ late \in Before(S \cup {p}, q)
    BY <2>1, <2>5, <2>7 DEF Before
  <2>9. late2 # p /\ late2 \in Before(S, q)
    BY <1>2, <2>7, <2>8 DEF Before
  <2>10. late2 = late
    <3>1. late \in Nat /\ late2 \in Nat
      BY <2>5, <2>7
    <3>2. late2 <= late
      BY <2>5, <2>9
    <3>3. late <= late2
      BY <2>7, <2>8
    <3> HIDE DEF late, late2
    <3> QED BY <3>1, <3>2, <3>3
  <2>11. R2[late2].remaining = R[late].remaining
    BY <2>5, <2>9, <2>10
  <2> QED BY <2>1, <2>4, <2>6, <2>11 DEF CarryOf
<1> QED BY <1>1, <1>2

\* A count that is in force neither before nor after has no part in the carry.
LEMMA CarryIgnoresCount ==
    ASSUME NEW S \in SUBSET Periods, NEW c \in Periods, NEW q \in Periods,
           NEW R, NEW R2, \A r \in Periods : R2[r].remaining = R[r].remaining,
           NEW C, NEW C2, \A d \in Periods \ {c} : C2[d] = C[d],
           NEW hidden, NEW hidden2, hidden \ {c} = hidden2 \ {c},
           c \notin InForce(S, C, q, hidden), c \notin InForce(S, C2, q, hidden2)
    PROVE  CarryOf(S, R2, C2, q, hidden2) = CarryOf(S, R, C, q, hidden)
<1> USE PeriodsAssumption
<1>2. InForce(S, C2, q, hidden2) = InForce(S, C, q, hidden)
  <2>1. \A d \in Periods \ {c} : d \in hidden <=> d \in hidden2
    OBVIOUS
  <2> QED BY <2>1 DEF InForce
<1>3. InForce(S, C, q, hidden) # {} =>
        C2[Latest(InForce(S, C, q, hidden))] = C[Latest(InForce(S, C, q, hidden))]
  <2> SUFFICES ASSUME InForce(S, C, q, hidden) # {}
               PROVE  Latest(InForce(S, C, q, hidden)) \in Periods \ {c}
    OBVIOUS
  <2>1. \A d \in InForce(S, C, q, hidden) : d \in Nat /\ d < q
    BY DEF InForce, Day
  <2>2. Latest(InForce(S, C, q, hidden)) \in InForce(S, C, q, hidden)
    BY <2>1, LatestIsGreatest
  <2> QED BY <2>2 DEF InForce
<1>4. Before(S, q) # {} => R2[Latest(Before(S, q))].remaining = R[Latest(Before(S, q))].remaining
  <2> SUFFICES ASSUME Before(S, q) # {}
               PROVE  Latest(Before(S, q)) \in Periods
    OBVIOUS
  <2> QED BY LatestBefore
<1> QED BY <1>2, <1>3, <1>4 DEF CarryOf

\* Publishing, re-saving or reverting the count of period c changes what carries
\* into the first saved row of a later date, and into no other row.
LEMMA CountReachesNextRowOnly ==
    ASSUME NEW S \in SUBSET Periods, NEW c \in Periods, NEW q \in Periods,
           NEW R, NEW R2, \A r \in Periods : R2[r].remaining = R[r].remaining,
           NEW C, NEW C2, \A d \in Periods \ {c} : C2[d] = C[d],
           NEW hidden, NEW hidden2, hidden \ {c} = hidden2 \ {c},
           Day(q) <= Day(c) \/ \E r \in S : Day(c) < Day(r) /\ r < q
    PROVE  CarryOf(S, R2, C2, q, hidden2) = CarryOf(S, R, C, q, hidden)
<1>1. c \notin InForce(S, C, q, hidden) /\ c \notin InForce(S, C2, q, hidden2)
  <2>1. CASE Day(q) <= Day(c)
    BY <2>1, DayIsNat, PeriodsAssumption DEF InForce
  <2>2. CASE \E r \in S : Day(c) < Day(r) /\ r < q
    BY <2>2, DayIsNat, PeriodsAssumption DEF InForce, Before
  <2> QED BY <2>1, <2>2
<1> QED BY <1>1, CarryIgnoresCount

-----------------------------------------------------------------------------
(* What the steps that write rows do to the types *)

LEMMA PagesAreTwo ==
    ASSUME NEW page \in Pages
    PROVE  /\ OtherPage(page) \in Pages /\ OtherPage(page) # page
           /\ \A q \in Pages : q = page \/ q = OtherPage(page)
BY DEF Pages, OtherPage

\* Rewriting the figures of a row keeps its import flag and what it missed.
LEMMA WithFiguresIsRow ==
    ASSUME NEW row \in Row, NEW opening \in Int,
           NEW figs, figs.in \in Int, figs.out \in Int, figs.moved \in Int
    PROVE  /\ WithFigures(row, opening, figs) \in Row
           /\ WithFigures(row, opening, figs).opening = opening
           /\ WithFigures(row, opening, figs).in = figs.in
           /\ WithFigures(row, opening, figs).out = figs.out
           /\ WithFigures(row, opening, figs).moved = figs.moved
           /\ WithFigures(row, opening, figs).remaining
                = Closing(opening, figs.in, figs.out, figs.moved)
           /\ WithFigures(row, opening, figs).manual = row.manual
           /\ WithFigures(row, opening, figs).missed = row.missed
<1> DEFINE new == WithFigures(row, opening, figs)
<1>1. Closing(opening, figs.in, figs.out, figs.moved) \in Int
  BY DEF Closing, OnlineStock
<1>2. new.opening = opening /\ new.in = figs.in /\ new.out = figs.out /\ new.moved = figs.moved
  BY DEF Row, WithFigures
<1>3. new.remaining = Closing(opening, figs.in, figs.out, figs.moved)
  BY DEF Row, WithFigures
<1>4. new.manual = row.manual /\ new.missed = row.missed
  BY DEF Row, WithFigures
<1>5. new \in Row
  BY <1>1 DEF Row, WithFigures
<1> QED BY <1>2, <1>3, <1>4, <1>5

LEMMA BlankRowIsRow == BlankRow \in Row
BY DEF BlankRow, Row

LEMMA WalkFromIsWalk ==
    ASSUME NEW cursor \in Nat
    PROVE  /\ WalkFrom(cursor) \in Walk
           /\ WalkFrom(cursor).on
           /\ WalkFrom(cursor).cursor = cursor
BY DEF WalkFrom, NoWalk, Walk

LEMMA CarriesAreInts ==
    ASSUME TypeOK, NEW page \in Pages, NEW p \in Periods
    PROVE  GatedCarry(page, p) \in Int /\ UngatedCarry(page, p) \in Int
<1>1. saved[page] \in SUBSET Periods
  BY DEF TypeOK
<1>2. \A q \in Periods : rows[page][q].remaining \in Int
  BY DEF TypeOK, Row
<1>3. \A c \in Periods : counts[page][c].value \in Int
  BY DEF TypeOK, Count
<1> HIDE DEF TypeOK
<1> QED BY <1>1, <1>2, <1>3, CarryIsInt, CarryIsCarryOf

LEMMA OpeningIsInt ==
    ASSUME TypeOK, NEW page \in Pages, NEW p \in Periods
    PROVE  OpeningOf(page, p) \in Int
<1>1. rows[page][p].opening \in Int
  BY DEF TypeOK, Row
<1> QED BY <1>1, CarriesAreInts DEF OpeningOf

-----------------------------------------------------------------------------
(* WriteEntry: the effect of every save and approval of a figure *)

IsFigures(figs) == figs.in \in Int /\ figs.out \in Int /\ figs.moved \in Int

\* The row is saved with its figures.
LEMMA WrittenRow ==
    ASSUME TypeOK, NEW page \in Pages, NEW p \in Periods, NEW opening \in Int,
           NEW typed \in BOOLEAN, NEW figs, IsFigures(figs), NEW cascade \in BOOLEAN,
           WriteEntry(page, p, opening, typed, figs, cascade)
    PROVE  LET row == rows'[page][p]
           IN /\ row \in Row
              /\ row.opening = opening
              /\ row.in = figs.in /\ row.out = figs.out /\ row.moved = figs.moved
              /\ row.remaining = Closing(opening, figs.in, figs.out, figs.moved)
              /\ row.manual = (rows[page][p].manual \/ typed)
              /\ row.missed = rows[page][p].missed
<1> DEFINE old == rows[page][p]
           flagged == MarkedImported(old, typed)
<1>1. rows'[page][p] = WithFigures(flagged, opening, figs)
  BY PagesAreTwo DEF WriteEntry, TypeOK
<1>2. old \in Row
  BY DEF TypeOK
<1>3. flagged \in Row /\ flagged.manual = (old.manual \/ typed) /\ flagged.missed = old.missed
  BY <1>2 DEF Row, MarkedImported
<1> HIDE DEF flagged
<1> QED BY <1>1, <1>3, WithFiguresIsRow DEF IsFigures

\* The other page's row takes the transfers, or agreed with them and is left alone.
LEMMA MirroredRow ==
    ASSUME TypeOK, NEW page \in Pages, NEW p \in Periods, NEW opening \in Int,
           NEW typed \in BOOLEAN, NEW figs, IsFigures(figs), NEW cascade \in BOOLEAN,
           WriteEntry(page, p, opening, typed, figs, cascade)
    PROVE  LET other == OtherPage(page)
               row == rows'[other][p]
           IN /\ row \in Row
              /\ row.in = figs.out /\ row.out = figs.in
              /\ \/ /\ row = rows[other][p]
                    /\ saved'[other] = saved[other]
                    /\ rows'[other] = rows[other]
                 \/ /\ saved'[other] = saved[other] \cup {p}
                    /\ row.opening = OpeningOf(other, p)
                    /\ row.moved = rows[other][p].moved
                    /\ row.remaining
                         = Closing(OpeningOf(other, p), figs.out, figs.in, rows[other][p].moved)
                    /\ row.manual = rows[other][p].manual
                    /\ row.missed = rows[other][p].missed
<1> DEFINE other == OtherPage(page)
           old == rows[other][p]
           mirrored == Mirrored(page, p, figs)
<1>1. old \in Row /\ other \in Pages /\ other # page /\ OpeningOf(other, p) \in Int
  BY PagesAreTwo, OpeningIsInt DEF TypeOK
<1>2. CASE MirrorAgreesWith(page, p, figs)
  <2>1. rows'[other] = rows[other]
    BY <1>1, <1>2, PagesAreTwo DEF WriteEntry, TypeOK
  <2>2. saved'[other] = saved[other]
    BY <1>1, <1>2, PagesAreTwo DEF WriteEntry, TypeOK
  <2> QED BY <1>1, <1>2, <2>1, <2>2 DEF MirrorAgreesWith
<1>3. CASE ~MirrorAgreesWith(page, p, figs)
  <2>1. rows'[other][p] = WithFigures(old, OpeningOf(other, p), mirrored)
    BY <1>1, <1>3, PagesAreTwo DEF WriteEntry, TypeOK
  <2>2. saved'[other] = saved[other] \cup {p}
    BY <1>1, <1>3, PagesAreTwo DEF WriteEntry, TypeOK
  <2>3. /\ mirrored.in = figs.out /\ mirrored.out = figs.in /\ mirrored.moved = old.moved
        /\ old.moved \in Int
    BY <1>1 DEF Mirrored, Row
  <2> HIDE DEF mirrored
  <2> QED BY <1>1, <2>1, <2>2, <2>3, WithFiguresIsRow DEF IsFigures
<1> QED BY <1>2, <1>3

\* No other row changes; both pages are walked from the saved period.
LEMMA WrittenElsewhere ==
    ASSUME TypeOK, NEW page \in Pages, NEW p \in Periods, NEW opening \in Int,
           NEW typed \in BOOLEAN, NEW figs, IsFigures(figs), NEW cascade \in BOOLEAN,
           WriteEntry(page, p, opening, typed, figs, cascade)
    PROVE  /\ saved'[page] = saved[page] \cup {p}
           /\ saved' \in [Pages -> SUBSET Periods]
           /\ walk' \in [Pages -> Walk]
           /\ \A q \in Pages : walk'[q].on /\ walk'[q].cursor = p
           /\ \A q \in Pages, r \in Periods \ {p} : rows'[q][r] = rows[q][r]
           /\ rows' \in [Pages -> [Periods -> Row]]
<1>1. saved'[page] = saved[page] \cup {p} /\ saved' \in [Pages -> SUBSET Periods]
  BY PagesAreTwo DEF WriteEntry, TypeOK
<1>2. walk' \in [Pages -> Walk] /\ \A q \in Pages : walk'[q].on /\ walk'[q].cursor = p
  BY PeriodsAssumption DEF WriteEntry, WalkFrom, NoWalk, Walk
<1>3. \A q \in Pages, r \in Periods \ {p} : rows'[q][r] = rows[q][r]
  BY PagesAreTwo DEF WriteEntry, TypeOK
<1>4. \A q \in Pages : rows'[q][p] \in Row
  BY WrittenRow, MirroredRow, PagesAreTwo
<1>5. rows' \in [Pages -> [Periods -> Row]]
  <2>1. DOMAIN rows' = Pages /\ rows' = [q \in Pages |-> rows'[q]]
    BY DEF WriteEntry, TypeOK
  <2>2. \A q \in Pages : rows'[q] = [r \in Periods |-> rows'[q][r]]
    BY PagesAreTwo DEF WriteEntry, TypeOK
  <2>3. \A q \in Pages, r \in Periods : rows'[q][r] \in Row
    BY <1>3, <1>4 DEF TypeOK
  <2>4. \A q \in Pages : rows'[q] \in [Periods -> Row]
    BY <2>2, <2>3
  <2> QED BY <2>1, <2>4
<1> QED BY <1>1, <1>2, <1>3, <1>5

-----------------------------------------------------------------------------
(* The type invariant *)

\* What a save writes of the figures typed: a held transfer keeps its old value.
LEMMA KeptAreFigures ==
    ASSUME TypeOK, NEW page \in Pages, NEW p \in Periods,
           NEW figs \in [in: Int, out: Int, moved: Int]
    PROVE  IsFigures(Kept(page, p, figs))
<1>1. \A f \in Figures : figs[f] \in Int /\ rows[page][p][f] \in Int
  BY DEF TypeOK, Row, Figures, Transfers
<1>2. \A f \in Figures : Kept(page, p, figs)[f] \in Int
  BY <1>1 DEF Kept
<1>3. "in" \in Figures /\ "out" \in Figures /\ "moved" \in Figures
  BY DEF Figures, Transfers
<1> QED BY <1>2, <1>3 DEF IsFigures

LEMMA FiledAreRequests ==
    ASSUME TypeOK, NEW page \in Pages, NEW p \in Periods,
           NEW figs \in [in: Int, out: Int, moved: Int]
    PROVE  /\ Filed(page, p, figs) \subseteq Request
           /\ \A r \in Filed(page, p, figs) :
                r \in requests \/ (r.page = page /\ r.period = p /\ r.field # "count")
           /\ \A q \in Pages, d \in Periods :
                HeldOpening(q, d) \in requests => HeldOpening(q, d) \in Filed(page, p, figs)
<1>1. \A f \in HeldTransfers(page, p, figs) : f \in Transfers /\ figs[f] \in Int
  BY DEF HeldTransfers, Transfers
<1>2. \A f \in HeldTransfers(page, p, figs) :
        [page |-> page, period |-> p, field |-> f, value |-> figs[f]] \in Request
  BY <1>1 DEF Request, Figures
<1>3. requests \subseteq Request
  BY DEF TypeOK
<1>4. "opening" \notin Transfers /\ "count" \notin Transfers
  BY DEF Transfers
<1>5. \A q \in Pages, d \in Periods : HeldOpening(q, d).field = "opening"
  BY DEF HeldOpening
<1> QED BY <1>1, <1>2, <1>3, <1>4, <1>5 DEF Filed

LEMMA WriteKeepsTypes ==
    ASSUME TypeOK, NEW page \in Pages, NEW p \in Periods, NEW opening \in Int,
           NEW typed \in BOOLEAN, NEW figs, IsFigures(figs), NEW cascade \in BOOLEAN,
           WriteEntry(page, p, opening, typed, figs, cascade),
           requests' \subseteq Request,
           \A r \in requests' :
                r \in requests \/ (r.page = page /\ r.period = p /\ r.field # "count"),
           UNCHANGED <<counts, closures, declined>>
    PROVE  TypeOK'
<1>1. /\ saved' \in [Pages -> SUBSET Periods] /\ rows' \in [Pages -> [Periods -> Row]]
      /\ walk' \in [Pages -> Walk]
      /\ saved'[page] = saved[page] \cup {p}
      /\ \A q \in Pages, r \in Periods \ {p} : rows'[q][r] = rows[q][r]
  BY WrittenElsewhere
<1>2. /\ saved'[OtherPage(page)] = saved[OtherPage(page)]
              /\ rows'[OtherPage(page)] = rows[OtherPage(page)]
      \/ saved'[OtherPage(page)] = saved[OtherPage(page)] \cup {p}
  BY MirroredRow
<1>3. \A q \in Pages : saved[q] \subseteq saved'[q]
  BY <1>1, <1>2, PagesAreTwo
<1>4. \A q \in Pages : \A r \in Periods \ saved'[q] : rows'[q][r] = BlankRow
  <2> SUFFICES ASSUME NEW q \in Pages, NEW r \in Periods, r \notin saved'[q]
               PROVE  rows'[q][r] = BlankRow
    OBVIOUS
  <2>1. rows[q][r] = BlankRow
    BY <1>3 DEF TypeOK
  <2>2. r = p => q = OtherPage(page)
    BY <1>1, PagesAreTwo
  <2> QED BY <1>1, <1>2, <2>1, <2>2
<1>5. \A r \in requests' :
          IF r.field = "count" THEN r.value \in Nat ELSE r.period \in saved'[r.page]
  <2>1. \A r \in Request : r.page \in Pages
    BY DEF Request
  <2> QED BY <1>1, <1>3, <2>1 DEF TypeOK
<1> QED BY <1>1, <1>4, <1>5 DEF TypeOK

LEMMA SaveKeepsTypes ==
    ASSUME TypeOK, NEW page \in Pages, NEW p \in Periods, NEW opening \in Int,
           NEW typed \in BOOLEAN, NEW figs \in [in: Int, out: Int, moved: Int],
           SaveEntry(page, p, opening, typed, figs)
    PROVE  TypeOK'
<1> DEFINE kept == Kept(page, p, figs)
<1>1. requests' = Filed(page, p, figs) /\ UNCHANGED <<counts, closures, declined>>
  BY DEF SaveEntry
<1>2. /\ requests' \subseteq Request
      /\ \A r \in requests' :
            r \in requests \/ (r.page = page /\ r.period = p /\ r.field # "count")
  BY <1>1, FiledAreRequests
<1>3. CASE NoopSave(page, p, opening, kept) /\ UNCHANGED <<saved, rows, walk>>
  BY <1>1, <1>2, <1>3 DEF TypeOK, NoopSave
<1>4. CASE WriteEntry(page, p, opening, typed, kept, FALSE)
  <2>1. IsFigures(kept)
    BY KeptAreFigures
  <2> HIDE DEF kept
  <2>2. PICK cascade \in BOOLEAN : WriteEntry(page, p, opening, typed, kept, cascade)
    BY <1>4
  <2> QED BY <1>1, <1>2, <2>1, <2>2, WriteKeepsTypes
<1> QED BY <1>3, <1>4 DEF SaveEntry

\* The row a walk reaches next is a saved row, the first after the cursor.
LEMMA NextRowIsFirst ==
    ASSUME TypeOK, NEW page \in Pages, RowsAfter(page, walk[page].cursor) # {}
    PROVE  /\ NextRow(page) \in saved[page] /\ NextRow(page) \in Periods
           /\ NextRow(page) > walk[page].cursor
           /\ \A q \in RowsAfter(page, walk[page].cursor) : NextRow(page) <= q
<1>1. saved[page] \subseteq Periods /\ saved[page] \subseteq Nat
  BY PeriodsAssumption DEF TypeOK
<1>2. RowsAfter(page, walk[page].cursor) \in SUBSET Nat
  BY <1>1 DEF RowsAfter
<1>3. /\ NextRow(page) \in RowsAfter(page, walk[page].cursor)
      /\ \A q \in RowsAfter(page, walk[page].cursor) : NextRow(page) <= q
  BY <1>2, EarliestIsLeast DEF NextRow
<1> QED BY <1>1, <1>3 DEF RowsAfter

LEMMA HeldOpeningIsRequest ==
    ASSUME NEW page \in Pages, NEW p \in Periods
    PROVE  HeldOpening(page, p) \in Request
BY DEF HeldOpening, Request

LEMMA NoWalkIsWalk == NoWalk \in Walk
BY DEF NoWalk, Walk

\* The row a walk rewrites: a new opening, what was entered on it unchanged.
LEMMA RewrittenRow ==
    ASSUME TypeOK, NEW page \in Pages, RewriteRow(page)
    PROVE  LET n == NextRow(page)
           IN /\ rows' \in [Pages -> [Periods -> Row]]
              /\ \A q \in Pages, r \in Periods :
                    ~(q = page /\ r = n) => rows'[q][r] = rows[q][r]
              /\ rows'[page][n].opening = WalkCarry(page, n)
              /\ rows'[page][n].in = rows[page][n].in
              /\ rows'[page][n].out = rows[page][n].out
              /\ rows'[page][n].moved = rows[page][n].moved
              /\ rows'[page][n].manual = rows[page][n].manual
              /\ rows'[page][n].missed = rows[page][n].missed
              /\ rows'[page][n].remaining
                    = Closing(WalkCarry(page, n), rows[page][n].in, rows[page][n].out,
                              rows[page][n].moved)
<1> DEFINE n == NextRow(page)
           old == rows[page][n]
           carry == WalkCarry(page, n)
<1>1. n \in Periods
  BY NextRowIsFirst DEF RewriteRow
<1>2. old \in Row
  BY <1>1 DEF TypeOK
<1>3. old.in \in Int /\ old.out \in Int /\ old.moved \in Int
  BY <1>2 DEF Row
<1>4. carry \in Int
  BY <1>1, CarriesAreInts DEF WalkCarry
<1>5. rows' = [rows EXCEPT ![page][n] = WithFigures(old, carry, old)]
  BY DEF RewriteRow
<1> HIDE DEF n, carry
<1>6. rows'[page][n] = WithFigures(old, carry, old)
  BY <1>1, <1>5 DEF TypeOK
<1>7. \A q \in Pages, r \in Periods : ~(q = page /\ r = n) => rows'[q][r] = rows[q][r]
  BY <1>1, <1>5 DEF TypeOK
<1>8. WithFigures(old, carry, old) \in Row
  BY <1>2, <1>3, <1>4, WithFiguresIsRow
<1>9. rows' \in [Pages -> [Periods -> Row]]
  BY <1>1, <1>5, <1>8 DEF TypeOK
<1> DEFINE new == WithFigures(old, carry, old)
<1> HIDE DEF old
<1>10. /\ new.opening = carry
       /\ new.in = old.in /\ new.out = old.out /\ new.moved = old.moved
       /\ new.manual = old.manual /\ new.missed = old.missed
       /\ new.remaining = Closing(carry, old.in, old.out, old.moved)
  BY <1>2, <1>3, <1>4, WithFiguresIsRow
<1> HIDE DEF new
<1>11. rows'[page][n] = new
  BY <1>6 DEF new, old
<1> QED BY <1>7, <1>9, <1>10, <1>11 DEF n, carry, old

LEMMA WalkStepKeepsTypes ==
    ASSUME TypeOK, NEW page \in Pages, WalkStep(page)
    PROVE  TypeOK'
<1>1. CASE EndOfChain(page)
  BY <1>1, NoWalkIsWalk DEF EndOfChain, TypeOK
<1>2. CASE StopAtRow(page)
  BY <1>2, NoWalkIsWalk DEF StopAtRow, TypeOK
<1>3. CASE HoldRow(page)
  <2>1. HeldOpening(page, NextRow(page)) \in Request /\ NextRow(page) \in saved[page]
    BY <1>3, NextRowIsFirst, HeldOpeningIsRequest DEF HoldRow
  <2>2. HeldOpening(page, NextRow(page)).page = page
        /\ HeldOpening(page, NextRow(page)).period = NextRow(page)
        /\ HeldOpening(page, NextRow(page)).field = "opening"
    BY DEF HeldOpening
  <2> QED BY <1>3, <2>1, <2>2, NoWalkIsWalk DEF HoldRow, TypeOK
<1>4. CASE RewriteRow(page)
  <2> DEFINE n == NextRow(page)
  <2>1. n \in saved[page] /\ n \in Periods /\ n \in Nat
    BY <1>4, NextRowIsFirst, PeriodsAssumption DEF RewriteRow
  <2>2. /\ walk' = [walk EXCEPT ![page].cursor = n]
        /\ declined' = [declined EXCEPT ![page] = declined[page] \ {n}]
        /\ UNCHANGED <<saved, counts, closures, requests>>
    BY <1>4 DEF RewriteRow
  <2>3. /\ rows' \in [Pages -> [Periods -> Row]]
        /\ \A q \in Pages, r \in Periods : ~(q = page /\ r = n) => rows'[q][r] = rows[q][r]
    BY <1>4, RewrittenRow
  <2> HIDE DEF n
  <2>4. walk' \in [Pages -> Walk]
    BY <2>1, <2>2 DEF TypeOK, Walk
  <2>5. \A q \in Pages : \A r \in Periods \ saved[q] : rows'[q][r] = BlankRow
    BY <2>1, <2>3 DEF TypeOK
  <2> QED BY <2>2, <2>3, <2>4, <2>5 DEF TypeOK
<1> QED BY <1>1, <1>2, <1>3, <1>4 DEF WalkStep

-----------------------------------------------------------------------------
(* What every operation on the counts of a period does *)

SameFigures(row, new) ==
    /\ new.opening = row.opening /\ new.remaining = row.remaining
    /\ new.in = row.in /\ new.out = row.out /\ new.moved = row.moved
    /\ new.manual = row.manual

\* The rows keep their figures and may miss, or no longer miss, the count of c.
\* A page's later rows are walked, unless its count was not applied and is not.
RowsMayMiss(c) ==
    /\ rows' \in [Pages -> [Periods -> Row]]
    /\ \A page \in Pages, p \in Periods :
        /\ SameFigures(rows[page][p], rows'[page][p])
        /\ rows'[page][p].missed \ {c} = rows[page][p].missed \ {c}
        /\ p \notin saved[page] => rows'[page][p] = rows[page][p]
CountsChangeAt(c) ==
    /\ counts' \in [Pages -> [Periods -> Count]]
    /\ \A page \in Pages, d \in Periods \ {c} : counts'[page][d] = counts[page][d]
WalksOrKeeps(page, c) ==
    \/ walk'[page].on /\ walk'[page].cursor = NightOf(Day(c))
    \/ /\ rows'[page] = rows[page] /\ walk'[page] = walk[page]
       /\ \/ counts'[page] = counts[page]
          \/ counts[page][c].standing # "applied" /\ counts'[page][c].standing # "applied"
CountChange(c) ==
    /\ RowsMayMiss(c)
    /\ CountsChangeAt(c)
    /\ walk' \in [Pages -> Walk]
    /\ \A page \in Pages : WalksOrKeeps(page, c)
    /\ UNCHANGED saved

LEMMA MissingChanges ==
    ASSUME NEW row \in Row, NEW missed \in SUBSET Periods
    PROVE  LET new == [row EXCEPT !.missed = missed]
           IN new \in Row /\ SameFigures(row, new) /\ new.missed = missed
<1> DEFINE new == [row EXCEPT !.missed = missed]
<1>1. new \in Row /\ new.missed = missed
  BY DEF Row
<1>2. /\ new.opening = row.opening /\ new.remaining = row.remaining
      /\ new.in = row.in /\ new.out = row.out /\ new.moved = row.moved
  BY DEF Row
<1>3. new.manual = row.manual
  BY DEF Row
<1> QED BY <1>1, <1>2, <1>3 DEF SameFigures

LEMMA BlankRowMissesNothing ==
    ASSUME NEW c
    PROVE  [BlankRow EXCEPT !.missed = BlankRow.missed \ {c}] = BlankRow
<1>1. BlankRow.missed \ {c} = BlankRow.missed
  BY DEF BlankRow
<1>2. ASSUME NEW row \in Row, NEW missed, missed = row.missed
      PROVE  [row EXCEPT !.missed = missed] = row
  BY <1>2 DEF Row
<1> QED BY <1>1, <1>2, BlankRowIsRow

LEMMA FromNextDayIsWalk ==
    ASSUME NEW c \in Periods, NEW cascade \in BOOLEAN
    PROVE  /\ FromNextDay(c, cascade) \in Walk
           /\ FromNextDay(c, cascade).on
           /\ FromNextDay(c, cascade).cursor = NightOf(Day(c))
<1>1. NightOf(Day(c)) \in Nat
  BY PeriodsAssumption, DayIsNat
<1> QED BY <1>1 DEF FromNextDay, WalkFrom, NoWalk, Walk

LEMMA UnapplyChangesCount ==
    ASSUME TypeOK, NEW c \in Periods, NEW pages \in SUBSET Pages, NEW cascade \in BOOLEAN,
           NEW count, \A page \in pages : count[page] \in Count /\ count[page].standing # "applied",
           Unapply(pages, c, count, cascade), UNCHANGED saved
    PROVE  CountChange(c)
<1> DEFINE undone == {page \in pages : counts[page][c].standing = "applied"}
<1>1. /\ counts' = [page \in Pages |->
            IF page \in pages THEN [counts[page] EXCEPT ![c] = count[page]] ELSE counts[page]]
      /\ rows' = Unmissed(undone, c)
      /\ walk' = [page \in Pages |->
            IF page \in undone THEN FromNextDay(c, cascade) ELSE walk[page]]
  BY DEF Unapply
<1>2. CountsChangeAt(c)
  BY <1>1 DEF CountsChangeAt, TypeOK
<1>3. walk' \in [Pages -> Walk]
  BY <1>1, FromNextDayIsWalk DEF TypeOK
<1> HIDE DEF undone
<1>4. ASSUME NEW page \in Pages
      PROVE  /\ page \notin undone => rows'[page] = rows[page]
             /\ page \in undone => \A p \in Periods :
                    rows'[page][p] = [rows[page][p] EXCEPT !.missed = rows[page][p].missed \ {c}]
             /\ rows'[page] = [p \in Periods |-> rows'[page][p]]
  BY <1>1 DEF Unmissed, TypeOK
<1>5. ASSUME NEW page \in Pages, NEW p \in Periods
      PROVE  /\ rows'[page][p] \in Row
             /\ SameFigures(rows[page][p], rows'[page][p])
             /\ rows'[page][p].missed \ {c} = rows[page][p].missed \ {c}
             /\ p \notin saved[page] => rows'[page][p] = rows[page][p]
  <2>1. rows[page][p] \in Row /\ rows[page][p].missed \in SUBSET Periods
    BY DEF TypeOK, Row
  <2>2. CASE page \notin undone
    BY <1>4, <2>1, <2>2 DEF SameFigures
  <2>3. CASE page \in undone
    <3>1. rows'[page][p] = [rows[page][p] EXCEPT !.missed = rows[page][p].missed \ {c}]
      BY <1>4, <2>3
    <3>2. rows[page][p].missed \ {c} \in SUBSET Periods
      BY <2>1
    <3>3. /\ rows'[page][p] \in Row
          /\ SameFigures(rows[page][p], rows'[page][p])
          /\ rows'[page][p].missed = rows[page][p].missed \ {c}
      BY <2>1, <3>1, <3>2, MissingChanges
    <3>4. p \notin saved[page] => rows'[page][p] = rows[page][p]
      <4>1. p \notin saved[page] => rows[page][p] = BlankRow
        BY DEF TypeOK
      <4>2. [BlankRow EXCEPT !.missed = BlankRow.missed \ {c}] = BlankRow
        BY BlankRowMissesNothing
      <4> QED BY <3>1, <4>1, <4>2
    <3> QED BY <3>3, <3>4
  <2> QED BY <2>2, <2>3
<1>6. RowsMayMiss(c)
  <2>1. rows' \in [Pages -> [Periods -> Row]]
    <3>1. \A page \in Pages : rows'[page] \in [Periods -> Row]
      BY <1>4, <1>5
    <3>2. rows' = [page \in Pages |-> rows'[page]]
      BY <1>1 DEF Unmissed
    <3> QED BY <3>1, <3>2
  <2> QED BY <2>1, <1>5 DEF RowsMayMiss
<1>7. ASSUME NEW page \in Pages PROVE WalksOrKeeps(page, c)
  <2>1. CASE page \in undone
    BY <1>1, <2>1, FromNextDayIsWalk DEF WalksOrKeeps
  <2>2. CASE page \notin undone
    <3>1. rows'[page] = rows[page] /\ walk'[page] = walk[page]
      BY <1>1, <1>4, <2>2
    <3>2. CASE page \in pages
      <4>1. counts[page][c].standing # "applied"
        BY <2>2, <3>2 DEF undone
      <4>2. counts'[page][c] = count[page]
        BY <1>1, <3>2 DEF TypeOK
      <4> QED BY <3>1, <3>2, <4>1, <4>2 DEF WalksOrKeeps
    <3>3. CASE page \notin pages
      BY <1>1, <3>1, <3>3 DEF WalksOrKeeps
    <3> QED BY <3>2, <3>3
  <2> QED BY <2>1, <2>2
<1> QED BY <1>2, <1>3, <1>6, <1>7 DEF CountChange

LEMMA PublishChangesCount ==
    ASSUME TypeOK, NEW c \in Periods, NEW apply \in BOOLEAN, Publish(c, apply)
    PROVE  CountChange(c)
<1> DEFINE released == Drafts(c) \cup (IF apply THEN Uncounted(c) ELSE {})
           standing == IF apply THEN "applied" ELSE "audit"
<1>1. released \in SUBSET Pages /\ standing \in Standings
  BY DEF Drafts, Uncounted, Standings
<1>2. /\ counts' = [page \in Pages |-> IF page \in released
            THEN [counts[page] EXCEPT ![c] = Released(counts[page][c], standing, released)]
            ELSE counts[page]]
      /\ UNCHANGED saved
  BY DEF Publish
<1>3. \A page \in released : counts[page][c].standing # "applied"
  BY DEF Drafts, Uncounted
<1>6. ASSUME NEW page \in released
      PROVE  LET new == Released(counts[page][c], standing, released)
             IN new \in Count /\ new.standing = standing
  <2>1. counts[page][c] \in Count
    BY <1>1 DEF TypeOK
  <2> HIDE DEF released, standing
  <2> QED BY <1>1, <2>1 DEF Released, Count
<1>7. CountsChangeAt(c)
  <2> HIDE DEF released, standing
  <2> QED BY <1>1, <1>2, <1>6 DEF CountsChangeAt, TypeOK
<1>4. CASE apply
  <2>1. /\ rows' = [page \in Pages |-> [p \in Periods |->
                IF page \in released /\ p \in saved[page] /\ Day(c) < Day(p)
                THEN [rows[page][p] EXCEPT !.missed = rows[page][p].missed \cup {c}]
                ELSE rows[page][p]]]
        /\ walk' = [page \in Pages |-> IF page \in released
                THEN [FromNextDay(c, FALSE) EXCEPT !.reach = TRUE] ELSE walk[page]]
    BY <1>4 DEF Publish
  <2> HIDE DEF released, standing
  <2>2. [FromNextDay(c, FALSE) EXCEPT !.reach = TRUE] \in Walk
        /\ [FromNextDay(c, FALSE) EXCEPT !.reach = TRUE].on
        /\ [FromNextDay(c, FALSE) EXCEPT !.reach = TRUE].cursor = NightOf(Day(c))
    <3>1. NightOf(Day(c)) \in Nat
      BY PeriodsAssumption, DayIsNat
    <3> QED BY <3>1 DEF FromNextDay, WalkFrom, NoWalk, Walk
  <2>3. walk' \in [Pages -> Walk]
    BY <2>1, <2>2 DEF TypeOK
  <2>4. ASSUME NEW page \in Pages, NEW p \in Periods
        PROVE  /\ rows'[page][p] \in Row
               /\ SameFigures(rows[page][p], rows'[page][p])
               /\ rows'[page][p].missed \ {c} = rows[page][p].missed \ {c}
               /\ p \notin saved[page] => rows'[page][p] = rows[page][p]
    <3>1. rows[page][p] \in Row /\ rows[page][p].missed \in SUBSET Periods
      BY DEF TypeOK, Row
    <3>2. CASE page \in released /\ p \in saved[page] /\ Day(c) < Day(p)
      <4>1. rows'[page][p] = [rows[page][p] EXCEPT !.missed = rows[page][p].missed \cup {c}]
        BY <2>1, <3>2
      <4>2. rows[page][p].missed \cup {c} \in SUBSET Periods
        BY <3>1
      <4>3. /\ rows'[page][p] \in Row
            /\ SameFigures(rows[page][p], rows'[page][p])
            /\ rows'[page][p].missed = rows[page][p].missed \cup {c}
        BY <3>1, <4>1, <4>2, MissingChanges
      <4> QED BY <3>2, <4>3
    <3>3. CASE ~(page \in released /\ p \in saved[page] /\ Day(c) < Day(p))
      BY <2>1, <3>1, <3>3 DEF SameFigures
    <3> QED BY <3>2, <3>3
  <2>5. RowsMayMiss(c)
    <3>1. rows' \in [Pages -> [Periods -> Row]]
      BY <2>1, <2>4
    <3> QED BY <2>4, <3>1 DEF RowsMayMiss
  <2>7. ASSUME NEW page \in Pages PROVE WalksOrKeeps(page, c)
    <3>1. CASE page \in released
      BY <2>1, <2>2, <3>1 DEF WalksOrKeeps
    <3>2. CASE page \notin released
      <4>1. rows'[page] = [p \in Periods |-> rows[page][p]]
        BY <2>1, <3>2
      <4>2. rows[page] = [p \in Periods |-> rows[page][p]]
        BY DEF TypeOK
      <4> QED BY <1>2, <2>1, <3>2, <4>1, <4>2 DEF WalksOrKeeps
    <3> QED BY <3>1, <3>2
  <2> QED BY <1>2, <1>7, <2>3, <2>5, <2>7 DEF CountChange
<1>5. CASE ~apply
  <2>1. UNCHANGED <<rows, walk>>
    BY <1>5 DEF Publish
  <2>2. standing = "audit"
    BY <1>5
  <2> HIDE DEF released, standing
  <2>4. RowsMayMiss(c)
    BY <2>1 DEF RowsMayMiss, SameFigures, TypeOK
  <2>5. ASSUME NEW page \in Pages PROVE WalksOrKeeps(page, c)
    <3>1. CASE page \in released
      <4>1. counts'[page][c].standing = "audit"
        BY <1>1, <1>2, <1>6, <2>2, <3>1 DEF TypeOK
      <4> QED BY <1>3, <2>1, <3>1, <4>1 DEF WalksOrKeeps
    <3>2. CASE page \notin released
      BY <1>2, <2>1, <3>2 DEF WalksOrKeeps
    <3> QED BY <3>1, <3>2
  <2> QED BY <1>2, <1>7, <2>1, <2>4, <2>5 DEF CountChange, TypeOK
<1> QED BY <1>4, <1>5

\* Saving, deleting, publishing, reverting a count and approving its correction
\* are such changes.
LEMMA SheetChangesCount ==
    ASSUME TypeOK, NEW page \in Pages, NEW c \in Periods, NEW value \in Nat,
           SaveCount(page, c, value) \/ DeleteCount(page, c)
    PROVE  CountChange(c)
<1>1. CASE SaveCount(page, c, value)
  <2> DEFINE count == [q \in {page} |-> Draft(value)]
  <2>1. PICK cascade \in BOOLEAN : Unapply({page}, c, count, cascade)
    BY <1>1 DEF SaveCount
  <2>2. \A q \in {page} : count[q] \in Count /\ count[q].standing # "applied"
    BY DEF Draft, Count, Standings
  <2> HIDE DEF count
  <2> QED BY <1>1, <2>1, <2>2, UnapplyChangesCount DEF SaveCount
<1>2. CASE DeleteCount(page, c)
  <2> DEFINE count == [q \in {page} |-> NoCount]
  <2>1. PICK cascade \in BOOLEAN : Unapply({page}, c, count, cascade)
    BY <1>2 DEF DeleteCount
  <2>2. \A q \in {page} : count[q] \in Count /\ count[q].standing # "applied"
    BY DEF NoCount, Count, Standings
  <2> HIDE DEF count
  <2> QED BY <1>2, <2>1, <2>2, UnapplyChangesCount DEF DeleteCount
<1> QED BY <1>1, <1>2

LEMMA RevertChangesCount ==
    ASSUME TypeOK, NEW c \in Periods, NEW batch, Revert(c, batch)
    PROVE  CountChange(c)
<1> DEFINE reverted == {page \in Pages : counts[page][c].batch = batch}
           count == [page \in Pages |-> Draft(counts[page][c].value)]
<1>1. PICK cascade \in BOOLEAN : Unapply(reverted, c, count, cascade)
  BY DEF Revert
<1>2. \A q \in reverted : count[q] \in Count /\ count[q].standing # "applied"
  BY DEF Draft, Count, Standings, TypeOK
<1>3. reverted \in SUBSET Pages
  OBVIOUS
<1> HIDE DEF count, reverted
<1> QED BY <1>1, <1>2, <1>3, UnapplyChangesCount DEF Revert

LEMMA ApprovedCountChangesCount ==
    ASSUME TypeOK, NEW r \in Request, NEW cascade \in BOOLEAN, ApproveCount(r, cascade),
           r.value \in Nat
    PROVE  CountChange(r.period)
<1> DEFINE count == [q \in {r.page} |-> Draft(r.value)]
<1>1. Unapply({r.page}, r.period, count, cascade)
  BY DEF ApproveCount
<1>2. \A q \in {r.page} : count[q] \in Count /\ count[q].standing # "applied"
  BY DEF Draft, Count, Standings
<1>3. r.period \in Periods /\ {r.page} \in SUBSET Pages
  BY DEF Request
<1> HIDE DEF count
<1> QED BY <1>1, <1>2, <1>3, UnapplyChangesCount DEF ApproveCount

LEMMA CountChangeKeepsTypes ==
    ASSUME TypeOK, NEW c \in Periods, CountChange(c),
           requests' \subseteq requests, UNCHANGED <<closures, declined>>
    PROVE  TypeOK'
<1>1. /\ rows' \in [Pages -> [Periods -> Row]]
      /\ \A page \in Pages : \A p \in Periods \ saved[page] : rows'[page][p] = BlankRow
  BY DEF CountChange, RowsMayMiss, TypeOK
<1>2. counts' \in [Pages -> [Periods -> Count]] /\ walk' \in [Pages -> Walk] /\ saved' = saved
  BY DEF CountChange, CountsChangeAt
<1> QED BY <1>1, <1>2 DEF TypeOK

LEMMA RequestTypes ==
    ASSUME TypeOK, NEW r \in requests
    PROVE  /\ r \in Request
           /\ r.page \in Pages /\ r.period \in Periods /\ r.value \in Int
           /\ r.field = "count" => r.value \in Nat
           /\ r.field # "count" => r.period \in saved[r.page]
BY DEF TypeOK, Request

LEMMA CountStepKeepsTypes ==
    ASSUME TypeOK, NEW c \in Periods,
           \/ \E page \in Pages, value \in Nat : SaveCount(page, c, value) \/ DeleteCount(page, c)
           \/ \E apply \in BOOLEAN : Publish(c, apply)
           \/ \E batch \in SUBSET Pages : Revert(c, batch)
    PROVE  TypeOK'
<1>1. CountChange(c)
  BY SheetChangesCount, PublishChangesCount, RevertChangesCount
<1>2. requests' \subseteq requests /\ UNCHANGED <<closures, declined>>
  BY DEF SaveCount, DeleteCount, Publish, Revert
<1> QED BY <1>1, <1>2, CountChangeKeepsTypes

LEMMA ClosureTypes ==
    ASSUME NEW closure \in Closures, NEW scope \in SUBSET Pages, NEW entriesOnly \in BOOLEAN
    PROVE  ClosePeriod(closure, scope, entriesOnly) \in Closures /\ Unlocked(closure, scope) \in Closures
BY DEF ClosePeriod, Unlocked, Closures

LEMMA LockStepKeepsTypes ==
    ASSUME TypeOK, NEW p \in Periods,
           \/ \E page \in Pages : FinishPage(page, p)
           \/ CloseDay(p)
           \/ \E scope \in SUBSET Pages : UnlockDay(p, scope)
    PROVE  TypeOK'
<1>1. closures[p] \in Closures
  BY DEF TypeOK
<1>2. UNCHANGED <<saved, rows, counts, requests, declined, walk>>
  BY DEF FinishPage, CloseDay, UnlockDay
<1>3. \A scope \in SUBSET Pages, entriesOnly \in BOOLEAN :
        /\ ClosePeriod(closures[p], scope, entriesOnly) \in Closures
        /\ Unlocked(closures[p], scope) \in Closures
  BY <1>1, ClosureTypes
<1>4. PICK closure \in Closures : closures' = [closures EXCEPT ![p] = closure]
  <2>1. CASE \E page \in Pages : FinishPage(page, p)
    BY <1>3, <2>1 DEF FinishPage
  <2>2. CASE CloseDay(p)
    BY <1>3, <2>2 DEF CloseDay
  <2>3. CASE \E scope \in SUBSET Pages : UnlockDay(p, scope)
    BY <1>3, <2>3 DEF UnlockDay
  <2> QED BY <2>1, <2>2, <2>3
<1> QED BY <1>2, <1>4 DEF TypeOK

LEMMA RequestStepKeepsTypes ==
    ASSUME TypeOK, NEW page \in Pages, NEW p \in Periods,
           \/ \E field \in Figures, value \in Int : RequestFigure(page, p, field, value)
           \/ \E value \in Nat : RequestCount(page, p, value)
    PROVE  TypeOK'
<1>1. CASE \E field \in Figures, value \in Int : RequestFigure(page, p, field, value)
  <2>1. PICK field \in Figures, value \in Int : RequestFigure(page, p, field, value)
    BY <1>1
  <2> DEFINE r == NewRequest(page, p, field, value)
  <2>2. r \in Request /\ r.field # "count" /\ r.page = page /\ r.period = p
    BY DEF NewRequest, Request, Figures, Transfers
  <2>3. requests' = requests \cup {r} /\ p \in saved[page]
        /\ UNCHANGED <<saved, rows, counts, closures, declined, walk>>
    BY <2>1 DEF RequestFigure
  <2> HIDE DEF r
  <2> QED BY <2>2, <2>3 DEF TypeOK
<1>2. CASE \E value \in Nat : RequestCount(page, p, value)
  <2>1. PICK value \in Nat : RequestCount(page, p, value)
    BY <1>2
  <2> DEFINE r == NewRequest(page, p, "count", value)
  <2>2. r \in Request /\ r.field = "count" /\ r.value \in Nat
    BY DEF NewRequest, Request
  <2>3. requests' = requests \cup {r}
        /\ UNCHANGED <<saved, rows, counts, closures, declined, walk>>
    BY <2>1 DEF RequestCount
  <2> HIDE DEF r
  <2> QED BY <2>2, <2>3 DEF TypeOK
<1> QED BY <1>1, <1>2

\* The figures an approved correction saves: those of the row but the one named.
ApprovedFigures(r) ==
    [f \in Figures |-> IF f = r.field THEN r.value ELSE rows[r.page][r.period][f]]

LEMMA ApprovedFiguresAreFigures ==
    ASSUME TypeOK, NEW r \in requests, r.field \in Figures
    PROVE  /\ IsFigures(ApprovedFigures(r))
           /\ rows[r.page][r.period].opening \in Int
           /\ r.page \in Pages /\ r.period \in saved[r.page] /\ r.period \in Periods
<1>1. r.page \in Pages /\ r.period \in Periods /\ r.value \in Int /\ r.period \in saved[r.page]
  BY RequestTypes DEF Figures, Transfers
<1>2. rows[r.page][r.period] \in Row
  BY <1>1 DEF TypeOK
<1>3. \A f \in Figures : rows[r.page][r.period][f] \in Int
  BY <1>2 DEF Row, Figures, Transfers
<1>4. \A f \in Figures : ApprovedFigures(r)[f] \in Int
  BY <1>1, <1>3 DEF ApprovedFigures
<1>5. "in" \in Figures /\ "out" \in Figures /\ "moved" \in Figures
  BY DEF Figures, Transfers
<1>6. rows[r.page][r.period].opening \in Int
  BY <1>2 DEF Row
<1> QED BY <1>1, <1>4, <1>5, <1>6 DEF IsFigures

\* Approving a figure either writes nothing but the decision, or saves the row.
LEMMA ApproveFigureCases ==
    ASSUME NEW r, NEW cascade, ApproveFigure(r, cascade)
    PROVE  /\ requests' = requests \ {r} /\ UNCHANGED <<counts, closures, declined>>
           /\ r \in requests /\ r.field \in Figures /\ Idle
           /\ \/ UNCHANGED <<saved, rows, walk>>
              \/ WriteEntry(r.page, r.period, rows[r.page][r.period].opening, FALSE,
                            ApprovedFigures(r), cascade)
BY DEF ApproveFigure, ApprovedFigures

LEMMA DecisionKeepsTypes ==
    ASSUME TypeOK, NEW r \in requests,
           Reject(r) \/ \E cascade \in BOOLEAN :
                ApproveFigure(r, cascade) \/ ApproveOpening(r, cascade) \/ ApproveCount(r, cascade)
    PROVE  TypeOK'
<1>1. CASE Reject(r)
  <2>1. r.page \in Pages /\ r.period \in Periods
    BY RequestTypes
  <2> QED BY <1>1, <2>1 DEF Reject, TypeOK
<1>2. ASSUME NEW cascade \in BOOLEAN, ApproveFigure(r, cascade)
      PROVE  TypeOK'
  <2>1. requests' = requests \ {r} /\ UNCHANGED <<counts, closures, declined>> /\ r.field \in Figures
    BY <1>2, ApproveFigureCases
  <2>2. CASE UNCHANGED <<saved, rows, walk>>
    BY <2>1, <2>2 DEF TypeOK
  <2>3. CASE WriteEntry(r.page, r.period, rows[r.page][r.period].opening, FALSE,
                        ApprovedFigures(r), cascade)
    <3>1. PICK typed \in BOOLEAN :
            WriteEntry(r.page, r.period, rows[r.page][r.period].opening, typed,
                       ApprovedFigures(r), cascade)
      BY <2>3
    <3>2. requests' \subseteq Request /\ requests' \subseteq requests
      BY <2>1 DEF TypeOK
    <3> QED BY <2>1, <3>1, <3>2, ApprovedFiguresAreFigures, WriteKeepsTypes
  <2> QED BY <1>2, <2>2, <2>3, ApproveFigureCases
<1>3. ASSUME NEW cascade \in BOOLEAN, ApproveOpening(r, cascade)
      PROVE  TypeOK'
  <2> DEFINE w == [WalkFrom(r.period - 1) EXCEPT !.approved = r.period, !.cascade = cascade]
  <2>1. r.page \in Pages /\ r.period \in Nat /\ r.period - 1 \in Nat
    <3>1. r.page \in Pages /\ r.period \in Periods
      BY RequestTypes
    <3>2. r.period \in Nat \ {0}
      BY <3>1, PeriodsAssumption
    <3> HIDE DEF w
    <3> QED BY <3>1, <3>2
  <2>2. w \in Walk
    BY <2>1 DEF WalkFrom, NoWalk, Walk
  <2>3. /\ walk' = [walk EXCEPT ![r.page] = w]
        /\ requests' = requests \ {r}
        /\ UNCHANGED <<saved, rows, counts, closures, declined>>
    BY <1>3 DEF ApproveOpening
  <2> HIDE DEF w
  <2> QED BY <2>1, <2>2, <2>3 DEF TypeOK
<1>4. ASSUME NEW cascade \in BOOLEAN, ApproveCount(r, cascade)
      PROVE  TypeOK'
  <2>1. r \in Request /\ r.value \in Nat /\ r.period \in Periods
    BY <1>4, RequestTypes DEF ApproveCount
  <2>2. CountChange(r.period)
    BY <1>4, <2>1, ApprovedCountChangesCount
  <2>3. requests' \subseteq requests /\ UNCHANGED <<closures, declined>>
    BY <1>4 DEF ApproveCount
  <2> QED BY <2>1, <2>2, <2>3, CountChangeKeepsTypes
<1> QED BY <1>1, <1>2, <1>3, <1>4

LEMMA EntryTypes ==
    ASSUME NEW e \in Entries
    PROVE  /\ e.page \in Pages /\ e.period \in Periods
           /\ e.figs \in [in: Int, out: Int, moved: Int]
           /\ \A field \in Figures : e.figs[field] \in Int
BY FiguresAssumption DEF Figures, Transfers

\* Whatever is saved, published, finished or approved, every variable keeps its
\* type: figures stay amounts, unsaved rows stay blank, and a correction request
\* names a saved row.
THEOREM TypeCorrect == Spec => []TypeOK
<1>1. Init => TypeOK
  BY BlankRowIsRow, NoWalkIsWalk
     DEF Init, TypeOK, NoCount, Count, Standings, NoClosure, Closures
<1>2. TypeOK /\ [Next]_vars => TypeOK'
  <2> SUFFICES ASSUME TypeOK, [Next]_vars PROVE TypeOK'
    OBVIOUS
  <2>1. ASSUME NEW page \in Pages, WalkStep(page) PROVE TypeOK'
    BY <2>1, WalkStepKeepsTypes
  <2>2. ASSUME NEW e \in Entries, Enter(e.page, e.period, e.figs) PROVE TypeOK'
    <3>1. OpeningOf(e.page, e.period) \in Int
      BY EntryTypes, OpeningIsInt
    <3>2. PICK opening \in Int, typed \in BOOLEAN :
            SaveEntry(e.page, e.period, opening, typed, e.figs)
      BY <2>2, <3>1, FiguresAssumption DEF Enter
    <3> QED BY <3>2, EntryTypes, SaveKeepsTypes
  <2>3. ASSUME NEW e \in Entries, Propose(e.page, e.period, e.figs) PROVE TypeOK'
    <3>1. \E field \in Figures, value \in Int : RequestFigure(e.page, e.period, field, value)
      BY <2>3, EntryTypes DEF Propose
    <3> QED BY <3>1, EntryTypes, RequestStepKeepsTypes
  <2>4. ASSUME NEW page \in Pages, NEW c \in CountPeriods, CountSheet(page, c) PROVE TypeOK'
    <3>1. c \in Periods /\ CountValues \subseteq Nat
      BY SubPeriodsAssumption, FiguresAssumption
    <3>2. CASE \E value \in CountValues : SaveCount(page, c, value)
      BY <3>1, <3>2, CountStepKeepsTypes
    <3>3. CASE \E value \in CountValues : RequestCount(page, c, value)
      BY <3>1, <3>3, RequestStepKeepsTypes
    <3>4. CASE DeleteCount(page, c)
      <4>1. \E value \in Nat : DeleteCount(page, c)
        BY <3>4
      <4> QED BY <3>1, <4>1, CountStepKeepsTypes
    <3> QED BY <2>4, <3>2, <3>3, <3>4 DEF CountSheet
  <2>5. ASSUME NEW c \in CountPeriods, NEW apply \in BOOLEAN, Publish(c, apply) PROVE TypeOK'
    BY <2>5, SubPeriodsAssumption, CountStepKeepsTypes
  <2>6. ASSUME NEW c \in CountPeriods, NEW batch \in SUBSET Pages, Revert(c, batch) PROVE TypeOK'
    BY <2>6, SubPeriodsAssumption, CountStepKeepsTypes
  <2>7. ASSUME NEW page \in Pages, NEW p \in FinishPeriods, FinishPage(page, p) PROVE TypeOK'
    BY <2>7, SubPeriodsAssumption, LockStepKeepsTypes
  <2>8. ASSUME NEW p \in FinishPeriods, CloseDay(p) PROVE TypeOK'
    BY <2>8, SubPeriodsAssumption, LockStepKeepsTypes
  <2>9. ASSUME NEW p \in FinishPeriods, NEW scope \in SUBSET Pages, UnlockDay(p, scope)
        PROVE  TypeOK'
    BY <2>9, SubPeriodsAssumption, LockStepKeepsTypes
  <2>10. ASSUME NEW r \in requests, Approve(r) \/ Reject(r) PROVE TypeOK'
    BY <2>10, DecisionKeepsTypes DEF Approve
  <2>11. CASE UNCHANGED vars
    BY <2>11 DEF TypeOK, vars
  <2> QED BY <2>1, <2>2, <2>3, <2>4, <2>5, <2>6, <2>7, <2>8, <2>9, <2>10, <2>11 DEF Next
<1> QED BY <1>1, <1>2, PTL DEF Spec

-----------------------------------------------------------------------------
(* Transfers neither create nor lose stock *)

\* The inductive invariant: every row closes at what the formula of the stock
\* page gives, and each page holds the other's transfers, exchanged.
RowCloses(row) == row.remaining = Closing(row.opening, row.in, row.out, row.moved)
RowsClose == \A page \in Pages, p \in Periods : RowCloses(rows[page][p])
TransfersAgree ==
    \A page \in Pages, p \in Periods : rows[page][p].in = rows[OtherPage(page)][p].out
Balanced == RowsClose /\ TransfersAgree

LEMMA BalancedConserves == TypeOK /\ Balanced => TransfersConserveStock
<1> SUFFICES ASSUME TypeOK, Balanced, NEW p \in Periods
             PROVE  rows["ONLINE"][p].remaining + rows["OFFLINE"][p].remaining
                      = rows["ONLINE"][p].opening + rows["OFFLINE"][p].opening
                          + rows["ONLINE"][p].moved + rows["OFFLINE"][p].moved
  BY DEF TransfersConserveStock
<1> DEFINE on == rows["ONLINE"][p]
           off == rows["OFFLINE"][p]
<1>1. on \in Row /\ off \in Row
  BY DEF TypeOK, Pages
<1>2. on.in = off.out /\ off.in = on.out
  BY DEF Balanced, TransfersAgree, OtherPage, Pages
<1>3. RowCloses(on) /\ RowCloses(off)
  BY DEF Balanced, RowsClose, Pages
<1> HIDE DEF on, off
<1>4. /\ on.opening \in Int /\ on.in \in Int /\ on.out \in Int /\ on.moved \in Int
      /\ off.opening \in Int /\ off.moved \in Int
  BY <1>1 DEF Row
<1>5. on.remaining + off.remaining = on.opening + off.opening + on.moved + off.moved
  BY <1>2, <1>3, <1>4 DEF RowCloses, Closing, OnlineStock
<1> QED BY <1>5 DEF on, off

LEMMA WriteKeepsBalance ==
    ASSUME TypeOK, Balanced, NEW page \in Pages, NEW p \in Periods, NEW opening \in Int,
           NEW typed \in BOOLEAN, NEW figs, IsFigures(figs), NEW cascade \in BOOLEAN,
           WriteEntry(page, p, opening, typed, figs, cascade)
    PROVE  Balanced'
<1> DEFINE other == OtherPage(page)
<1>1. other \in Pages /\ OtherPage(other) = page /\ \A q \in Pages : q = page \/ q = other
  BY DEF Pages, OtherPage
<1>2. \A q \in Pages, r \in Periods \ {p} : rows'[q][r] = rows[q][r]
  BY WrittenElsewhere
<1>3. /\ RowCloses(rows'[page][p])
      /\ rows'[page][p].in = figs.in /\ rows'[page][p].out = figs.out
  BY WrittenRow DEF RowCloses
<1>4. rows'[other][p].in = figs.out /\ rows'[other][p].out = figs.in
  BY MirroredRow
<1>5. RowCloses(rows'[other][p])
  <2>1. CASE rows'[other][p] = rows[other][p]
    BY <1>1, <2>1 DEF Balanced, RowsClose
  <2>2. CASE /\ rows'[other][p].opening = OpeningOf(other, p)
             /\ rows'[other][p].moved = rows[other][p].moved
             /\ rows'[other][p].remaining
                  = Closing(OpeningOf(other, p), figs.out, figs.in, rows[other][p].moved)
    BY <1>4, <2>2 DEF RowCloses
  <2> QED BY <2>1, <2>2, MirroredRow
<1> HIDE DEF other
<1>6. ASSUME NEW q \in Pages, NEW r \in Periods
      PROVE  RowCloses(rows'[q][r])
  BY <1>1, <1>2, <1>3, <1>5 DEF Balanced, RowsClose
<1>7. ASSUME NEW q \in Pages, NEW r \in Periods
      PROVE  rows'[q][r].in = rows'[OtherPage(q)][r].out
  <2>1. CASE r # p
    BY <1>2, <2>1, PagesAreTwo DEF Balanced, TransfersAgree
  <2>2. CASE r = p
    BY <1>1, <1>3, <1>4, <2>2 DEF other
  <2> QED BY <2>1, <2>2
<1> QED BY <1>6, <1>7 DEF Balanced, RowsClose, TransfersAgree, RowCloses

LEMMA RewriteKeepsBalance ==
    ASSUME TypeOK, Balanced, NEW page \in Pages, RewriteRow(page)
    PROVE  Balanced'
<1> DEFINE n == NextRow(page)
<1>1. \A q \in Pages, r \in Periods : ~(q = page /\ r = n) => rows'[q][r] = rows[q][r]
  BY RewrittenRow
<1>2. RowCloses(rows'[page][n])
  BY RewrittenRow DEF RowCloses
<1>3. rows'[page][n].in = rows[page][n].in /\ rows'[page][n].out = rows[page][n].out
  BY RewrittenRow
<1> HIDE DEF n
<1>4. \A q \in Pages, r \in Periods :
        rows'[q][r].in = rows[q][r].in /\ rows'[q][r].out = rows[q][r].out
  BY <1>1, <1>3
<1> QED BY <1>1, <1>2, <1>4, PagesAreTwo DEF Balanced, RowsClose, TransfersAgree, RowCloses

LEMMA CountChangeKeepsBalance ==
    ASSUME Balanced, NEW c, CountChange(c)
    PROVE  Balanced'
BY PagesAreTwo
   DEF Balanced, RowsClose, TransfersAgree, RowCloses, CountChange, RowsMayMiss, SameFigures

-----------------------------------------------------------------------------
(* Every step is one of five kinds *)

\* A held opening waits for its decision.
KeepsHeldOpenings ==
    \A page \in Pages, p \in Periods :
        HeldOpening(page, p) \in requests => HeldOpening(page, p) \in requests'

\* A save or the approval of a figure: an opening is typed, or stays or is carried.
EntryStep ==
    /\ Idle
    /\ \E page \in Pages, p \in Periods, opening \in Int, typed, cascade \in BOOLEAN,
          figs \in [Figures -> Int] :
            /\ IsFigures(figs)
            /\ typed \/ opening = OpeningOf(page, p)
            /\ WriteEntry(page, p, opening, typed, figs, cascade)
    /\ KeepsHeldOpenings
    /\ UNCHANGED <<counts, declined>>
CountStep ==
    /\ Idle
    /\ \E c \in Periods : CountChange(c)
    /\ KeepsHeldOpenings
    /\ UNCHANGED declined
QuietStep ==
    /\ KeepsHeldOpenings
    /\ UNCHANGED <<saved, rows, counts, declined, walk>>
OpeningDecision ==
    \E r \in requests :
        (r.field = "opening" /\ Reject(r)) \/ \E cascade \in BOOLEAN : ApproveOpening(r, cascade)

LEMMA FewerOtherRequests ==
    ASSUME NEW r, r.field # "opening", requests' = requests \ {r}
    PROVE  KeepsHeldOpenings
BY DEF KeepsHeldOpenings, HeldOpening

LEMMA SaveIsEntryOrQuiet ==
    ASSUME TypeOK, NEW page \in Pages, NEW p \in Periods, NEW opening \in Int,
           NEW typed \in BOOLEAN, NEW figs \in [in: Int, out: Int, moved: Int],
           typed \/ opening = OpeningOf(page, p),
           SaveEntry(page, p, opening, typed, figs)
    PROVE  EntryStep \/ QuietStep
<1> DEFINE kept == Kept(page, p, figs)
<1>1. /\ Idle /\ requests' = Filed(page, p, figs) /\ UNCHANGED <<counts, declined>>
      /\ UNCHANGED <<saved, rows, walk>> \/ WriteEntry(page, p, opening, typed, kept, FALSE)
  BY DEF SaveEntry
<1>2. KeepsHeldOpenings
  BY <1>1, FiledAreRequests DEF KeepsHeldOpenings
<1>3. kept \in [Figures -> Int] /\ IsFigures(kept)
  <2>1. \A f \in Figures : figs[f] \in Int /\ rows[page][p][f] \in Int
    BY DEF TypeOK, Row, Figures, Transfers
  <2>2. kept \in [Figures -> Int]
    BY <2>1 DEF Kept
  <2> QED BY <2>2, KeptAreFigures
<1> HIDE DEF kept
<1>4. CASE UNCHANGED <<saved, rows, walk>>
  BY <1>1, <1>2, <1>4 DEF QuietStep
<1>5. CASE WriteEntry(page, p, opening, typed, kept, FALSE)
  <2>1. PICK cascade \in BOOLEAN : WriteEntry(page, p, opening, typed, kept, cascade)
    BY <1>5
  <2> QED BY <1>1, <1>2, <1>3, <2>1 DEF EntryStep
<1> QED BY <1>1, <1>4, <1>5

LEMMA ApproveFigureIsEntryOrQuiet ==
    ASSUME TypeOK, NEW r \in requests, NEW cascade \in BOOLEAN, ApproveFigure(r, cascade)
    PROVE  EntryStep \/ QuietStep
<1> DEFINE figs == ApprovedFigures(r)
           opening == rows[r.page][r.period].opening
<1>1. /\ requests' = requests \ {r} /\ UNCHANGED <<counts, declined>>
      /\ r.field \in Figures /\ Idle
      /\ UNCHANGED <<saved, rows, walk>>
            \/ WriteEntry(r.page, r.period, opening, FALSE, figs, cascade)
  BY ApproveFigureCases
<1>2. KeepsHeldOpenings
  BY <1>1, FewerOtherRequests DEF Figures, Transfers
<1>3. /\ IsFigures(figs) /\ opening \in Int
      /\ r.page \in Pages /\ r.period \in saved[r.page] /\ r.period \in Periods
  BY <1>1, ApprovedFiguresAreFigures
<1>4. opening = OpeningOf(r.page, r.period)
  BY <1>3 DEF OpeningOf
<1>5. figs \in [Figures -> Int]
  <2>1. rows[r.page][r.period] \in Row /\ r.value \in Int
    BY <1>3, RequestTypes DEF TypeOK
  <2>2. \A f \in Figures : rows[r.page][r.period][f] \in Int
    BY <2>1 DEF Row, Figures, Transfers
  <2> QED BY <2>1, <2>2 DEF ApprovedFigures
<1> HIDE DEF figs, opening
<1>6. CASE UNCHANGED <<saved, rows, walk>>
  BY <1>1, <1>2, <1>6 DEF QuietStep
<1>7. CASE WriteEntry(r.page, r.period, opening, FALSE, figs, cascade)
  <2>1. PICK typed \in BOOLEAN : WriteEntry(r.page, r.period, opening, typed, figs, cascade)
    BY <1>7
  <2> QED BY <1>1, <1>2, <1>3, <1>4, <1>5, <2>1 DEF EntryStep
<1> QED BY <1>1, <1>6, <1>7

LEMMA StepKinds ==
    ASSUME TypeOK, [Next]_vars
    PROVE  \/ \E page \in Pages : WalkStep(page)
           \/ EntryStep \/ CountStep \/ QuietStep \/ OpeningDecision
<1>1. ASSUME NEW e \in Entries, Enter(e.page, e.period, e.figs)
      PROVE  EntryStep \/ QuietStep
  <2>1. OpeningOf(e.page, e.period) \in Int
    BY EntryTypes, OpeningIsInt
  <2>2. PICK opening \in Int, typed \in BOOLEAN :
          /\ typed \/ opening = OpeningOf(e.page, e.period)
          /\ SaveEntry(e.page, e.period, opening, typed, e.figs)
    BY <1>1, <2>1, FiguresAssumption DEF Enter
  <2> QED BY <2>2, EntryTypes, SaveIsEntryOrQuiet
<1>2. ASSUME NEW e \in Entries, Propose(e.page, e.period, e.figs)
      PROVE  QuietStep
  BY <1>2 DEF Propose, RequestFigure, QuietStep, KeepsHeldOpenings
<1>3. ASSUME NEW page \in Pages, NEW c \in CountPeriods, CountSheet(page, c)
      PROVE  CountStep \/ QuietStep
  <2>1. c \in Periods /\ CountValues \subseteq Nat
    BY SubPeriodsAssumption, FiguresAssumption
  <2>2. CASE \E value \in CountValues : RequestCount(page, c, value)
    BY <2>2 DEF RequestCount, QuietStep, KeepsHeldOpenings
  <2>3. ASSUME NEW value \in Nat, SaveCount(page, c, value) \/ DeleteCount(page, c)
        PROVE  CountStep
    <3>1. CountChange(c)
      BY <2>1, <2>3, SheetChangesCount
    <3>2. Idle /\ UNCHANGED declined
      BY <2>3 DEF SaveCount, DeleteCount
    <3>3. KeepsHeldOpenings
      BY <2>3 DEF SaveCount, DeleteCount, KeepsHeldOpenings, HeldOpening
    <3> QED BY <2>1, <3>1, <3>2, <3>3 DEF CountStep
  <2>4. CASE DeleteCount(page, c)
    <3>1. 0 \in Nat
      OBVIOUS
    <3> QED BY <2>3, <2>4, <3>1
  <2> QED BY <1>3, <2>1, <2>2, <2>3, <2>4 DEF CountSheet
<1>4. ASSUME NEW c \in CountPeriods,
             \/ \E apply \in BOOLEAN : Publish(c, apply)
             \/ \E batch \in SUBSET Pages : Revert(c, batch)
      PROVE  CountStep
  <2>1. c \in Periods
    BY SubPeriodsAssumption
  <2>2. CountChange(c)
    BY <1>4, <2>1, PublishChangesCount, RevertChangesCount
  <2>3. Idle /\ UNCHANGED <<declined, requests>>
    BY <1>4 DEF Publish, Revert
  <2> QED BY <2>1, <2>2, <2>3 DEF CountStep, KeepsHeldOpenings
<1>5. ASSUME NEW p \in FinishPeriods,
             \/ \E page \in Pages : FinishPage(page, p)
             \/ CloseDay(p)
             \/ \E scope \in SUBSET Pages : UnlockDay(p, scope)
      PROVE  QuietStep
  BY <1>5 DEF FinishPage, CloseDay, UnlockDay, QuietStep, KeepsHeldOpenings
<1>6. ASSUME NEW r \in requests, NEW cascade \in BOOLEAN, ApproveCount(r, cascade)
      PROVE  CountStep
  <2>1. r \in Request /\ r.value \in Nat /\ r.period \in Periods
    BY <1>6, RequestTypes DEF ApproveCount
  <2>2. CountChange(r.period)
    BY <1>6, <2>1, ApprovedCountChangesCount
  <2>3. Idle /\ r.field = "count" /\ requests' = requests \ {r} /\ UNCHANGED declined
    BY <1>6 DEF ApproveCount
  <2>4. KeepsHeldOpenings
    BY <2>3, FewerOtherRequests
  <2> QED BY <2>1, <2>2, <2>3, <2>4 DEF CountStep
<1>7. ASSUME NEW r \in requests, Reject(r)
      PROVE  QuietStep \/ OpeningDecision
  <2>1. CASE r.field = "opening"
    BY <1>7, <2>1 DEF OpeningDecision
  <2>2. CASE r.field # "opening"
    BY <1>7, <2>2, FewerOtherRequests DEF Reject, QuietStep
  <2> QED BY <2>1, <2>2
<1>8. ASSUME NEW r \in requests, Approve(r)
      PROVE  EntryStep \/ QuietStep \/ CountStep \/ OpeningDecision
  BY <1>6, <1>8, ApproveFigureIsEntryOrQuiet DEF Approve, OpeningDecision
<1>9. CASE UNCHANGED vars
  BY <1>9 DEF vars, QuietStep, KeepsHeldOpenings
<1> QED BY <1>1, <1>2, <1>3, <1>4, <1>5, <1>7, <1>8, <1>9 DEF Next

LEMMA StepKeepsBalance ==
    ASSUME TypeOK, Balanced, [Next]_vars
    PROVE  Balanced'
<1>1. ASSUME NEW page \in Pages, WalkStep(page) PROVE Balanced'
  <2>1. CASE RewriteRow(page)
    BY <2>1, RewriteKeepsBalance
  <2>2. CASE EndOfChain(page) \/ StopAtRow(page) \/ HoldRow(page)
    BY <2>2 DEF EndOfChain, StopAtRow, HoldRow, Balanced, RowsClose, TransfersAgree, RowCloses
  <2> QED BY <1>1, <2>1, <2>2 DEF WalkStep
<1>2. CASE EntryStep
  BY <1>2, WriteKeepsBalance DEF EntryStep
<1>3. CASE CountStep
  BY <1>3, CountChangeKeepsBalance DEF CountStep
<1>4. CASE QuietStep \/ OpeningDecision
  <2>1. rows' = rows
    BY <1>4 DEF QuietStep, OpeningDecision, ApproveOpening, Reject
  <2> QED BY <2>1 DEF Balanced, RowsClose, TransfersAgree, RowCloses
<1> QED BY <1>1, <1>2, <1>3, <1>4, StepKinds

LEMMA LedgerIsBalanced == Spec => []Balanced
<1>1. Init => Balanced
  BY PagesAreTwo DEF Init, Balanced, RowsClose, TransfersAgree, RowCloses, BlankRow, Closing,
                     OnlineStock
<1>2. TypeOK /\ Balanced /\ [Next]_vars => Balanced'
  BY StepKeepsBalance
<1> QED BY <1>1, <1>2, TypeCorrect, PTL DEF Spec

\* A transfer never creates or loses stock: through saves, mirrored rows,
\* transfers held because one page is finished, approvals and carry-forwards,
\* the two pages of a period close at their openings plus what moved in or out
\* of the business.
THEOREM TransfersConserve == Spec => []TransfersConserveStock
BY LedgerIsBalanced, TypeCorrect, BalancedConserves, PTL
===============================================================================
