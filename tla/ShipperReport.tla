--------------------------- MODULE ShipperReport ---------------------------
(***************************************************************************)
(* What ShipperService computes from a shipper's row and never stores: the *)
(* earnings of one delivery, the verdict on his rejections, his level, his *)
(* badges and milestones, and the figures of dashboard and report.         *)
(*                                                                         *)
(* A row is [completed, failed, active, rejected, onTime, late, earnings,  *)
(* daily, response, cert].  Ratios are compared by cross-multiplication.   *)
(* Distances are tenths of a kilometre, ratings tenths of a star, earnings *)
(* hundredths of a dong: 1% of an order's value need not be whole.         *)
(***************************************************************************)
EXTENDS Integers, Sequences, FiniteSetsExt

Least(a, b) == IF a < b THEN a ELSE b
Most(a, b)  == IF a > b THEN a ELSE b
Round(a, b) == (2 * a + b) \div (2 * b)   \* Math.round(a / b)

-----------------------------------------------------------------------------
(* markOrderCompleted: the earnings of one delivery.                       *)
TimeBonus(hour) ==
    IF hour \in 11..13 \cup 17..20 THEN 5000
    ELSE IF hour >= 22 \/ hour <= 6 THEN 8000 ELSE 0

PerformanceBonus(completed) ==
    IF completed > 100 THEN 2000
    ELSE IF completed > 50 THEN 1000
    ELSE IF completed > 20 THEN 500 ELSE 0

Earnings(terms, hour, onTime, completed) ==
    LET base     == Round(terms.fee * 85, 100)
        distance == Most(0, (terms.dist - 10) * 500)
        value    == Least(1000000, terms.total)          \* hundredths
        bonus    == TimeBonus(hour) + PerformanceBonus(completed)
                        + (IF onTime THEN 3000 ELSE 0)
    IN Most((base + distance + bonus) * 100 + value, 2000000)

\* The column orders.shipperEarnings is an integer.
Whole(hundredths) == hundredths % 100 = 0

-----------------------------------------------------------------------------
(* checkRejectionRatio.                                                    *)
ShouldBan(completed, rejected) ==
    LET total == completed + rejected IN
    /\ total >= 10
    /\ \/ total >= 50 /\ rejected * 10 > total * 7
       \/ total >= 30 /\ rejected * 10 > total * 8
       \/ rejected >= 20 /\ completed = 0

Warns_AboveBan(completed, rejected) ==   \* a mutant
    LET total == completed + rejected IN
    /\ ~ShouldBan(completed, rejected)
    /\ \/ total >= 15 /\ rejected * 4 > total * 3
       \/ rejected >= 10 /\ completed <= 2

Warns(completed, rejected) ==
    LET total == completed + rejected IN
    /\ ~ShouldBan(completed, rejected)
    /\ total >= 10
    /\ \/ total >= 20 /\ rejected * 10 > total * 6
       \/ total >= 15 /\ rejected * 4 > total * 3
       \/ rejected >= 10 /\ completed <= 2

-----------------------------------------------------------------------------
(* calculatePerformanceRanking.  Levels are numbered from 1, "Moi bat dau" *)
(* (a beginner), to 6, "Huyen thoai" (a legend).                           *)
OnTimePercent(row) == <<row.onTime * 100, Most(1, row.onTime + row.late)>>
RejectPercent(row) == <<row.rejected * 100, Most(1, row.completed + row.rejected)>>
AtLeast(ratio, n) == ratio[1] >= n * ratio[2]
AtMost(ratio, n)  == ratio[1] <= n * ratio[2]

\* The five conditions of the if-chain, the lowest level first.
LevelFloor == <<
    [completed |-> 20,  rating |-> 40, onTime |-> 75, reject |-> 100],
    [completed |-> 50,  rating |-> 42, onTime |-> 80, reject |-> 20],
    [completed |-> 100, rating |-> 44, onTime |-> 85, reject |-> 15],
    [completed |-> 200, rating |-> 46, onTime |-> 90, reject |-> 10],
    [completed |-> 500, rating |-> 48, onTime |-> 95, reject |-> 5] >>

Reaches(row, rating, floor) ==
    /\ row.completed >= floor.completed
    /\ rating >= floor.rating
    /\ AtLeast(OnTimePercent(row), floor.onTime)
    /\ AtMost(RejectPercent(row), floor.reject)

Level(row, rating) ==
    Max({1} \cup {i + 1 : i \in {j \in 1..5 : Reaches(row, rating, LevelFloor[j])}})

\* What the shipper is told to improve for the next level: which figures fall
\* short.  The share of rejections is never among them.
NextFloor == <<
    [completed |-> 20,  rating |-> 40, onTime |-> 75],
    [completed |-> 50,  rating |-> 42, onTime |-> 80],
    [completed |-> 100, rating |-> 44, onTime |-> 85],
    [completed |-> 200, rating |-> 46, onTime |-> 90],
    [completed |-> 500, rating |-> 48, onTime |-> 95] >>

Requirements(row, rating) ==
    IF Level(row, rating) = 6 THEN {}
    ELSE LET next == NextFloor[Level(row, rating)] IN
         {f \in {"completed", "rating", "onTime"} :
              \/ f = "completed" /\ row.completed < next.completed
              \/ f = "rating" /\ rating < next.rating
              \/ f = "onTime" /\ ~AtLeast(OnTimePercent(row), next.onTime)}

-----------------------------------------------------------------------------
(* calculateNextMilestones, calculateAchievements.                         *)
DeliveryTargets == {10, 25, 50, 100, 200, 500, 1000}
OnTimeTargets   == {10, 25, 50, 100, 250, 500}
EarningsTargets == {100000, 500000, 1000000, 5000000, 10000000}

\* targets.find(t => t > n): the next one ahead, or none.
NextTarget(targets, n) ==
    LET ahead == {t \in targets : t > n} IN
    IF ahead = {} THEN {} ELSE {Min(ahead)}

Achievements_OnlyOnce(row, rating) ==   \* a mutant
    {b \in {"first", "active"} :
        \/ b = "first" /\ row.completed = 1
        \/ b = "active" /\ row.completed >= 50}

Achievements(row, rating) ==
    {b \in {"first", "active", "professional", "rated", "punctual", "rich"} :
        \/ b = "first" /\ row.completed >= 1
        \/ b = "active" /\ row.completed >= 50
        \/ b = "professional" /\ row.completed >= 200
        \/ b = "rated" /\ rating >= 45
        \/ b = "punctual" /\ row.onTime >= 100
        \/ b = "rich" /\ row.earnings >= 100000000}

\* getShipperDashboard: the parts that are not copied from the row.
Dashboard(row, rating) ==
    [total    |-> row.completed + row.rejected + row.failed,
     level    |-> Level(row, rating),
     needs    |-> Requirements(row, rating),
     badges   |-> Achievements(row, rating),
     next     |-> [deliveries |-> NextTarget(DeliveryTargets, row.completed),
                   onTime     |-> NextTarget(OnTimeTargets, row.onTime),
                   earnings   |-> NextTarget(EarningsTargets, row.earnings \div 100)]]
=============================================================================
