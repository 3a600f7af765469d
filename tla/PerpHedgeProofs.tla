---------------------------- MODULE PerpHedgeProofs ----------------------------
(* What the venue holds, for all deltas, prices, lots, attempts and faults.    *)
EXTENDS PerpHedge, TLAPS

\* Orders are placed with and without a hedge as their handlers are reached.
HandlerInv ==
    /\ pc = "open" => hedge = NoHedge
    /\ pc \in {"adjust", "remove", "stop"} => hedge # NoHedge

\* Every delta there is is a capped target.
CapInv ==
    /\ Size(target) <= MaxDelta
    /\ hedge # NoHedge => Size(hedge) <= MaxDelta
    /\ Size(opened) <= MaxDelta

HedgeInv == TypeOK /\ HandlerInv /\ CapInv /\ VenueAsRecorded

\* The change of the recorded sum that the order under way stands for.
Change == IF pc = "open" THEN -Size(target) ELSE hedge - target

\* What the orders so far may have cost.
Budget == OrderSlack * orders + AstraySlack * astray

Ordering == pc \in {"open", "adjust"}
Closing == pc \in {"remove", "stop"}

-----------------------------------------------------------------------------
(* Arithmetic.                                                             *)

\* Sizes are numbers.
LEMMA SizeType == ASSUME NEW x \in Int PROVE Size(x) \in Nat
BY DEF Size

\* The slacks are numbers.
LEMMA SlackType ==
    /\ MaxDelta \in Nat /\ Basis \in Nat \ {0} /\ Lot \in Nat \ {0} /\ Least \in Nat
    /\ OrderSlack \in Nat
    /\ AstraySlack = OrderSlack + Basis * (3 * MaxDelta) /\ AstraySlack \in Nat
BY HedgeAssumption DEF HedgeAssumption, OrderSlack, AstraySlack

\* Products keep the order of their factors.
LEMMA Scaling ==
    ASSUME NEW n \in Nat, NEW x \in Int, NEW y \in Int, x <= y
    PROVE  n * x <= n * y /\ n * x \in Int /\ n * y \in Int
OBVIOUS

\* The size of a product.
LEMMA SizeOfProduct ==
    ASSUME NEW n \in Nat, NEW x \in Int
    PROVE  Size(n * x) = n * Size(x)
<1>1. CASE x >= 0
  <2>1. n * x >= 0
    BY <1>1
  <2> QED
    BY <1>1, <2>1 DEF Size
<1>2. CASE x < 0
  <2>1. n * (-x) >= 0 /\ n * (-x) = -(n * x)
    BY <1>2
  <2>2. n * x <= 0 /\ n * x \in Int
    BY <2>1
  <2> QED
    BY <1>2, <2>1, <2>2 DEF Size
<1> QED
  BY <1>1, <1>2

\* A number of lots nearest to a size is at most half a lot away from it.
LEMMA RoundedError ==
    ASSUME NEW n \in Int, NEW d \in Nat \ {0}, NEW k \in Rounded(n, d)
    PROVE  k \in Int /\ 2 * Size(n - Lot * k * d) <= Lot * d
<1>1. Lot * d \in Nat \ {0}
  BY SlackType
<1>2. n \div (Lot * d) \in Int
  BY <1>1
<1> QED
  BY <1>2 DEF Rounded

\* The noop branch and the rounding together leave at most the least change.
LEMMA ConvertedError ==
    ASSUME NEW n \in Int, NEW d \in Nat \ {0}, NEW k \in Converted(n, d)
    PROVE  k \in Int /\ Size(Lot * k * d - n) <= Least * d
<1>1. CASE Size(n) < Least * d
  <2>1. k = 0 /\ Lot * k * d = 0
    BY <1>1, SlackType DEF Converted
  <2>2. Size(0 - n) = Size(n) /\ Size(n) <= Least * d
    <3>1. Least * d \in Nat
      BY SlackType
    <3> QED
      BY <1>1, <3>1 DEF Size
  <2> QED
    BY <2>1, <2>2
<1>2. CASE ~(Size(n) < Least * d)
  <2>1. k \in Int /\ 2 * Size(n - Lot * k * d) <= Lot * d
    BY <1>2, RoundedError DEF Converted
  <2>2. Lot * d <= 2 * (Least * d) /\ Lot * d \in Nat /\ Least * d \in Nat
    <3>1. Lot <= 2 * Least /\ 2 * Least \in Nat /\ Lot \in Nat
      BY HedgeAssumption DEF HedgeAssumption
    <3>2. d * Lot <= d * (2 * Least)
      BY <3>1, Scaling
    <3> QED
      BY <3>2, SlackType
  <2>3. Lot * k * d \in Int
    BY <2>1, SlackType
  <2> DEFINE t == Lot * k * d
  <2> HIDE DEF t
  <2>4. Size(n - t) = Size(t - n) /\ Size(t - n) \in Nat
    BY <2>3 DEF Size, t
  <2> QED
    BY <2>1, <2>2, <2>4 DEF t
<1> QED
  BY <1>1, <1>2

\* A conversion at two markets' prices is off by the difference of the prices.
LEMMA PriceError ==
    ASSUME NEW n \in Int, NEW spot \in Nat \ {0}, NEW mid \in Nat \ {0}, Near(mid, spot)
    PROVE  Basis * Size(n * spot - n * mid) <= Size(n) * mid
<1>1. Size(n * spot - n * mid) = Size(n) * Size(mid - spot)
  <2>1. n * spot - n * mid = n * (spot - mid) /\ spot - mid \in Int
    OBVIOUS
  <2>2. Size(spot - mid) = Size(mid - spot) /\ Size(mid - spot) \in Nat
    BY DEF Size
  <2> DEFINE d == spot - mid
  <2> HIDE DEF d
  <2>3. Size(n * d) = Size(n) * Size(d)
    <3>1. CASE n >= 0
      BY <2>1, <3>1, SizeOfProduct DEF d, Size
    <3>2. CASE n < 0
      <4>1. -n \in Nat /\ Size((-n) * d) = (-n) * Size(d)
        BY <2>1, <3>2, SizeOfProduct DEF d
      <4>2. (-n) * d = -(n * d) /\ n * d \in Int
        BY <2>1 DEF d
      <4>3. Size(-(n * d)) = Size(n * d)
        BY <4>2 DEF Size
      <4> QED
        BY <3>2, <4>1, <4>2, <4>3 DEF Size
    <3> QED
      BY <3>1, <3>2
  <2> QED
    BY <2>1, <2>2, <2>3 DEF d
<1> DEFINE s == Size(n)
<1> DEFINE g == Size(mid - spot)
<1>2. s \in Nat /\ g \in Nat /\ Basis * g <= mid
  BY SizeType DEF Near
<1> HIDE DEF s, g
<1>3. s * (Basis * g) <= s * mid
  <2>1. Basis * g \in Int
    BY <1>2, SlackType
  <2> QED
    BY <1>2, <2>1, Scaling
<1>4. Basis * (s * g) = s * (Basis * g)
  BY <1>2, SlackType
<1> QED
  BY <1>1, <1>3, <1>4 DEF s, g

\* The distance of a sum, scaled.
LEMMA Triangle ==
    ASSUME NEW x \in Int, NEW y \in Int
    PROVE  /\ Basis * Size(x + y) <= Basis * Size(x) + Basis * Size(y)
           /\ Basis * Size(x) \in Nat /\ Basis * Size(y) \in Nat
           /\ Basis * Size(x + y) \in Nat
<1>1. Size(x + y) <= Size(x) + Size(y) /\ Size(x) \in Nat /\ Size(y) \in Nat
      /\ Size(x + y) \in Nat
  BY DEF Size
<1> DEFINE a == Size(x)
<1> DEFINE b == Size(y)
<1> DEFINE c == Size(x + y)
<1>2. a \in Nat /\ b \in Nat /\ c \in Nat /\ c <= a + b
  BY <1>1
<1> HIDE DEF a, b, c
<1>3. Basis * c <= Basis * (a + b)
  BY <1>2, SlackType, Scaling
<1> QED
  BY <1>2, <1>3, SlackType DEF a, b, c

\* An order filled leaves the position off its change by a market's difference
\* of price and the least change.
LEMMA OrderError ==
    ASSUME HedgeInv, Ordering, NEW spot \in Nat \ {0}, NEW q \in Quantities(spot)
    PROVE  /\ q \in Int /\ Change \in Int /\ Size(Change) <= 2 * MaxDelta
           /\ Basis * Size(Lot * q - Change) <= OrderSlack
<1>1. Change \in Int /\ Size(Change) <= 2 * MaxDelta
  <2>1. CASE pc = "open"
    BY <2>1, SlackType DEF HedgeInv, TypeOK, CapInv, Change, Size
  <2>2. CASE pc = "adjust"
    BY <2>2, SlackType DEF HedgeInv, TypeOK, HandlerInv, CapInv, Change, Size
  <2> QED
    BY <2>1, <2>2 DEF Ordering
<1> DEFINE c == Change
<1>2. c \in Int /\ Size(c) <= 2 * MaxDelta
  BY <1>1
<1>3. CASE pc = "open"
  <2>1. q \in Rounded(c, 1)
    BY <1>3 DEF Quantities, Change
  <2> HIDE DEF c
  <2>2. q \in Int /\ 2 * Size(c - Lot * q * 1) <= Lot * 1
    BY <1>2, <2>1, RoundedError
  <2>3. Lot * q * 1 = Lot * q /\ Lot * q \in Int
    BY <2>2, SlackType
  <2>4. Size(c - Lot * q) = Size(Lot * q - c) /\ Size(Lot * q - c) \in Nat
    BY <1>2, <2>3 DEF Size
  <2>5. Size(Lot * q - c) <= Least
    BY <2>2, <2>3, <2>4, HedgeAssumption, SlackType DEF HedgeAssumption
  <2>6. Basis * Size(Lot * q - c) <= Basis * Least /\ Basis * Least \in Nat
    BY <2>4, <2>5, SlackType, Scaling
  <2> QED
    BY <1>1, <2>2, <2>4, <2>6, SlackType DEF OrderSlack, c
<1>4. CASE pc = "adjust"
  <2>1. PICK mid \in Mids : Near(mid, spot) /\ q \in Converted(c * spot, mid)
    BY <1>4 DEF Quantities, Change
  <2>2. mid \in Nat \ {0}
    BY HedgeAssumption DEF HedgeAssumption
  <2> HIDE DEF c
  <2>3. c * spot \in Int /\ c * mid \in Int
    BY <1>2, <2>2
  <2>4. q \in Int /\ Size(Lot * q * mid - c * spot) <= Least * mid
    BY <2>1, <2>2, <2>3, ConvertedError
  <2> DEFINE e == Lot * q - c
  <2> DEFINE x == Lot * q * mid - c * spot
  <2> DEFINE y == c * spot - c * mid
  <2>5. e \in Int /\ x \in Int /\ y \in Int /\ x + y = mid * e
    BY <1>2, <2>2, <2>3, <2>4, SlackType
  <2>6. Basis * Size(x) <= Basis * (Least * mid)
    <3>1. Size(x) <= Least * mid /\ Size(x) \in Nat /\ Least * mid \in Int
      BY <2>2, <2>4, <2>5, SizeType, SlackType
    <3> HIDE DEF x
    <3> QED
      BY <3>1, SlackType, Scaling
  <2>7. Basis * Size(y) <= Size(c) * mid
    BY <1>2, <2>1, <2>2, PriceError
  <2>8. Size(c) * mid <= (2 * MaxDelta) * mid
    <3>1. mid * Size(c) <= mid * (2 * MaxDelta)
      BY <1>2, <2>2, SizeType, SlackType, Scaling
    <3> QED
      BY <1>2, <2>2, <3>1, SizeType, SlackType
  <2>9. Basis * Size(mid * e) <= Basis * (Least * mid) + (2 * MaxDelta) * mid
    <3> HIDE DEF x, y, e
    <3>1. /\ Basis * Size(x + y) <= Basis * Size(x) + Basis * Size(y)
          /\ Basis * Size(x) \in Nat /\ Basis * Size(y) \in Nat
          /\ Basis * Size(x + y) \in Nat
      BY <2>5, Triangle
    <3>2. Basis * (Least * mid) \in Nat /\ (2 * MaxDelta) * mid \in Nat /\ Size(c) * mid \in Nat
      BY <1>2, <2>2, SizeType, SlackType
    <3> QED
      BY <2>5, <2>6, <2>7, <2>8, <3>1, <3>2
  <2>10. Basis * Size(mid * e) = mid * (Basis * Size(e))
    <3> HIDE DEF e
    <3>1. Size(mid * e) = mid * Size(e) /\ Size(e) \in Nat
      BY <2>2, <2>5, SizeOfProduct, SizeType
    <3> QED
      BY <2>2, <3>1, SlackType
  <2>11. Basis * (Least * mid) + (2 * MaxDelta) * mid = mid * OrderSlack
    BY <2>2, SlackType DEF OrderSlack
  <2>12. Basis * Size(e) <= OrderSlack
    <3> DEFINE a == Basis * Size(e)
    <3>1. a \in Nat
      BY <2>5, SizeType, SlackType
    <3>2. mid * a <= mid * OrderSlack
      BY <2>9, <2>10, <2>11
    <3> HIDE DEF a
    <3>3. ASSUME a >= OrderSlack + 1 PROVE FALSE
      <4>1. mid * (OrderSlack + 1) <= mid * a
        BY <2>2, <3>1, <3>3, SlackType, Scaling
      <4>2. mid * (OrderSlack + 1) = mid * OrderSlack + mid /\ mid * OrderSlack \in Nat
            /\ mid * a \in Nat
        BY <2>2, <3>1, SlackType
      <4> QED
        BY <2>2, <3>2, <4>1, <4>2
    <3> QED
      BY <3>1, <3>3, SlackType DEF a
  <2> QED
    BY <1>1, <2>4, <2>12 DEF c
<1> QED
  BY <1>3, <1>4 DEF Ordering

\* The orders of a handler are whole numbers of lots.
LEMMA QuantityType ==
    ASSUME HedgeInv, Ordering \/ Closing, NEW spot \in Nat \ {0}, NEW q \in Quantities(spot)
    PROVE  q \in Int /\ (Closing => q = -venue)
<1>1. CASE Ordering
  BY <1>1, OrderError DEF Ordering, Closing
<1>2. CASE Closing
  BY <1>2 DEF Closing, Quantities, HedgeInv, TypeOK
<1> QED
  BY <1>1, <1>2

\* A fill is between nothing and the order.
LEMMA FillRange ==
    ASSUME NEW q \in Int, NEW f \in Part(q) \cup {q}
    PROVE  /\ f \in Int /\ Lot * f \in Int /\ Lot * q \in Int
           /\ \/ Lot * q <= Lot * f /\ Lot * f <= 0
              \/ 0 <= Lot * f /\ Lot * f <= Lot * q
<1>1. f \in Int /\ ((q <= f /\ f <= 0) \/ (0 <= f /\ f <= q))
  <2>1. CASE q < 0
    BY <2>1 DEF Part
  <2>2. CASE ~(q < 0)
    BY <2>2 DEF Part
  <2> QED
    BY <2>1, <2>2
<1>2. Lot * 0 = 0
  BY SlackType
<1> QED
  BY <1>1, <1>2, SlackType, Scaling

\* The recorded hedge adds up to at most three caps: it is opened short and may
\* since have been turned round twice.
LEMMA RecordedSize ==
    ASSUME TypeOK, CapInv
    PROVE  Recorded \in Int /\ Size(Recorded) <= 3 * MaxDelta
<1>1. CASE hedge = NoHedge
  BY <1>1, SlackType DEF Recorded, Size
<1>2. CASE hedge # NoHedge
  BY <1>2, SlackType DEF Recorded, Size, TypeOK, CapInv
<1> QED
  BY <1>1, <1>2

\* A full fill of a change moves the position along with its record.
LEMMA FullFill ==
    ASSUME NEW v \in Int, NEW r \in Int, NEW q \in Int, NEW c \in Int, NEW b \in Nat,
           Basis * Size(v - r) <= b, Basis * Size(q - c) <= OrderSlack
    PROVE  Basis * Size(v + q - (r + c)) <= b + OrderSlack
<1> DEFINE x == v - r
<1> DEFINE y == q - c
<1>1. x \in Int /\ y \in Int /\ v + q - (r + c) = x + y
  OBVIOUS
<1> HIDE DEF x, y
<1>2. Basis * Size(x + y) <= Basis * Size(x) + Basis * Size(y)
      /\ Basis * Size(x) \in Nat /\ Basis * Size(y) \in Nat /\ Basis * Size(x + y) \in Nat
  BY <1>1, Triangle
<1> QED
  BY <1>1, <1>2, SlackType DEF x, y

\* A fill f of an order q for a change c of at most two caps, or for a close,
\* leaves the position at most three caps further from the old record and from
\* the new one.
LEMMA AstrayFill ==
    ASSUME NEW v \in Int, NEW r \in Int, NEW q \in Int, NEW c \in Int, NEW f \in Int,
           NEW b \in Nat, NEW s \in Int,
           Basis * Size(v - r) <= b, Size(r) <= 3 * MaxDelta,
           (q <= f /\ f <= 0) \/ (0 <= f /\ f <= q),
           \/ /\ Size(c) <= 2 * MaxDelta
              /\ Basis * Size(q - c) <= OrderSlack
              /\ s \in {r, r + c}
           \/ q = -v /\ s \in {r, 0}
    PROVE  Basis * Size(v + f - s) <= b + AstraySlack
<1>1. CASE /\ Size(c) <= 2 * MaxDelta
           /\ Basis * Size(q - c) <= OrderSlack
           /\ s \in {r, r + c}
  <2> DEFINE e == Size(q - c)
  <2> DEFINE g == Size(v - r)
  <2> DEFINE h == Size(v + f - s)
  <2>1. e \in Nat /\ g \in Nat /\ h \in Nat
    BY SizeType
  <2>2. h <= g + (3 * MaxDelta + e)
    BY <1>1, SlackType DEF Size
  <2> HIDE DEF e, g, h
  <2>3. Basis * h <= Basis * (g + (3 * MaxDelta + e))
    BY <2>1, <2>2, SlackType, Scaling
  <2>4. Basis * (g + (3 * MaxDelta + e)) = Basis * g + Basis * (3 * MaxDelta) + Basis * e
    BY <2>1, SlackType
  <2>5. /\ Basis * g \in Nat /\ Basis * e \in Nat /\ Basis * h \in Nat
        /\ Basis * (3 * MaxDelta) \in Nat
    BY <2>1, SlackType
  <2>6. Basis * g <= b /\ Basis * e <= OrderSlack
    BY <1>1 DEF g, e
  <2>7. Basis * h <= b + AstraySlack
    BY <2>3, <2>4, <2>5, <2>6, SlackType
  <2> QED
    BY <2>7 DEF h
<1>2. CASE q = -v /\ s \in {r, 0}
  <2> DEFINE g == Size(v - r)
  <2> DEFINE h == Size(v + f - s)
  <2>1. g \in Nat /\ h \in Nat
    BY SizeType
  <2>2. h <= g + 3 * MaxDelta
    BY <1>2, SlackType DEF Size
  <2> HIDE DEF g, h
  <2>3. Basis * h <= Basis * (g + 3 * MaxDelta)
    BY <2>1, <2>2, SlackType, Scaling
  <2>4. Basis * (g + 3 * MaxDelta) = Basis * g + Basis * (3 * MaxDelta)
    BY <2>1, SlackType
  <2>5. Basis * g \in Nat /\ Basis * h \in Nat /\ Basis * (3 * MaxDelta) \in Nat
    BY <2>1, SlackType
  <2>6. Basis * g <= b
    BY DEF g
  <2>7. Basis * h <= b + AstraySlack
    BY <2>3, <2>4, <2>5, <2>6, SlackType
  <2> QED
    BY <2>7 DEF h
<1> QED
  BY <1>1, <1>2

\* The budget grows by an order's slack, or by that of one gone astray.
LEMMA BudgetGrows ==
    ASSUME TypeOK
    PROVE  /\ Budget \in Nat
           /\ orders' = orders + 1 /\ astray' = astray => Budget' = Budget + OrderSlack
           /\ orders' = orders /\ astray' = astray + 1 => Budget' = Budget + AstraySlack
           /\ orders' = 0 /\ astray' = 0 => Budget' = 0
BY SlackType DEF TypeOK, Budget

-----------------------------------------------------------------------------
(* The steps.                                                              *)

\* The inductive invariant holds initially.
LEMMA InitHedgeInv == Init => HedgeInv
<1> SUFFICES ASSUME Init PROVE HedgeInv
  OBVIOUS
<1>1. TypeOK
  <2>1. attempt \in 1 .. MaxAttempts
    BY HedgeAssumption DEF HedgeAssumption, Init
  <2>2. hedge \in Int \cup {NoHedge}
    BY DEF Init
  <2>3. pc \in Places /\ il \in ILs
    BY DEF Init, Places, ILs
  <2>4. target \in Int /\ venue \in Int /\ faults \in Nat /\ opened \in Int
        /\ orders \in Nat /\ astray \in Nat
    BY DEF Init
  <2> QED
    BY <2>1, <2>2, <2>3, <2>4 DEF TypeOK
<1>2. HandlerInv /\ CapInv
  BY SlackType DEF Init, HandlerInv, CapInv, Size
<1>3. VenueAsRecorded
  <2>1. Lot * venue - Recorded = 0 /\ Size(0) = 0
    BY SlackType DEF Init, Recorded, Size
  <2> QED
    BY <2>1, SlackType DEF Init, VenueAsRecorded
<1> QED
  BY <1>1, <1>2, <1>3 DEF HedgeInv

\* Decisions touch neither the hedge nor the venue.
LEMMA DecisionStep ==
    ASSUME HedgeInv, NEW spot,
           Tick \/ Leaves(spot) \/ Opens(spot) \/ Adjusts \/ Stop
    PROVE  HedgeInv'
<1>1. UNCHANGED <<hedge, venue, faults, orders, astray, opened>>
  BY DEF Tick, Leaves, Opens, Adjusts, Stop, book
<1>2. TypeOK' /\ CapInv'
  <2>1. CASE Tick
    <3>1. target' \in -MaxDelta .. MaxDelta /\ MaxDelta \in Nat
      BY <2>1, HedgeAssumption DEF HedgeAssumption, Tick
    <3>2. \A d \in -MaxDelta .. MaxDelta : Size(d) <= MaxDelta /\ d \in Int
      BY <3>1 DEF Size
    <3>3. Size(target') <= MaxDelta /\ target' \in Int
      BY <3>1, <3>2
    <3> QED
      BY <1>1, <2>1, <3>3 DEF HedgeInv, TypeOK, CapInv, Tick, Places
  <2>2. CASE Leaves(spot) \/ Opens(spot) \/ Adjusts \/ Stop
    BY <1>1, <2>2, HedgeAssumption
       DEF HedgeAssumption, HedgeInv, TypeOK, CapInv, Leaves, Opens, Adjusts, Stop, Goes, Places
  <2> QED
    BY <2>1, <2>2
<1>3. HandlerInv'
  BY <1>1 DEF HedgeInv, HandlerInv, Tick, Leaves, Opens, Adjusts, Stop, Goes
<1>4. VenueAsRecorded'
  BY <1>1 DEF HedgeInv, VenueAsRecorded, Recorded, Size
<1> QED
  BY <1>2, <1>3, <1>4 DEF HedgeInv

\* The record an answered order leaves: moved by its change, or none.
LEMMA RecordOfReturn ==
    ASSUME HedgeInv, NEW spot,
           OpenReturns(spot) \/ AdjustReturns(spot) \/ CloseReturns(spot)
    PROVE  /\ CapInv' /\ HandlerInv'
           /\ hedge' \in Int \cup {NoHedge} /\ opened' \in Int
           /\ pc' \in Places /\ attempt' \in 1 .. MaxAttempts /\ UNCHANGED <<il, target>>
           /\ Recorded' \in Int
           /\ \/ Ordering /\ Recorded' = Recorded + Change
              \/ Closing /\ Recorded' = 0
<1> USE HedgeAssumption DEF HedgeAssumption
<1>1. CASE OpenReturns(spot)
  <2>1. /\ pc = "open" /\ hedge = NoHedge /\ hedge' = target /\ opened' = target
        /\ UNCHANGED <<il, target>> /\ attempt' = 1 /\ pc' \in {"remove", "idle"}
        /\ target \in Int
    BY <1>1 DEF HedgeInv, TypeOK, HandlerInv, OpenReturns, Goes, AfterOrder
  <2>2. CapInv' /\ HandlerInv'
    BY <2>1 DEF HedgeInv, CapInv, HandlerInv, Size
  <2>3. Recorded = 0 /\ Recorded' = target - Size(target) - target /\ Change = -Size(target)
    BY <2>1 DEF Recorded, Change, Size
  <2>4. Size(target) \in Nat
    BY <2>1, SizeType
  <2> QED
    BY <2>1, <2>2, <2>3, <2>4 DEF Ordering, Places
<1>2. CASE AdjustReturns(spot)
  <2>1. /\ pc = "adjust" /\ hedge \in Int /\ hedge' = target /\ opened' = opened
        /\ UNCHANGED <<il, target>> /\ attempt' = 1 /\ pc' \in {"remove", "idle"}
        /\ target \in Int /\ opened \in Int
    BY <1>2 DEF HedgeInv, TypeOK, HandlerInv, AdjustReturns, Goes, AfterOrder
  <2>2. CapInv' /\ HandlerInv'
    BY <2>1 DEF HedgeInv, CapInv, HandlerInv, Size
  <2>3. /\ Recorded = opened - Size(opened) - hedge
        /\ Recorded' = opened - Size(opened) - target /\ Change = hedge - target
    BY <2>1 DEF Recorded, Change, Size
  <2>4. Size(opened) \in Nat
    BY <2>1, SizeType
  <2> QED
    BY <2>1, <2>2, <2>3, <2>4 DEF Ordering, Places
<1>3. CASE CloseReturns(spot)
  <2>1. /\ pc \in {"remove", "stop"} /\ hedge' = NoHedge /\ opened' = opened
        /\ UNCHANGED <<il, target>> /\ attempt' = 1 /\ pc' \in {"ended", "idle"}
    BY <1>3 DEF CloseReturns, Goes
  <2> QED
    BY <2>1 DEF HedgeInv, TypeOK, CapInv, HandlerInv, Recorded, Size, Closing, Places
<1> QED
  BY <1>1, <1>2, <1>3

\* An answered order leaves the venue as far from its record as it may.
LEMMA ReturnStep ==
    ASSUME HedgeInv, NEW spot \in Nat \ {0},
           OpenReturns(spot) \/ AdjustReturns(spot) \/ CloseReturns(spot)
    PROVE  HedgeInv'
<1>1. /\ CapInv' /\ HandlerInv'
      /\ hedge' \in Int \cup {NoHedge} /\ opened' \in Int
      /\ pc' \in Places /\ attempt' \in 1 .. MaxAttempts /\ UNCHANGED <<il, target>>
      /\ Recorded' \in Int
      /\ \/ Ordering /\ Recorded' = Recorded + Change
         \/ Closing /\ Recorded' = 0
  BY RecordOfReturn
<1>2. PICK q \in Quantities(spot) : Filled(q) \/ \E f \in Part(q) : GoesAstray(f)
  BY DEF Answered, OpenReturns, AdjustReturns, CloseReturns
<1>3. q \in Int /\ (Closing => q = -venue)
  BY <1>1, QuantityType
<1>4. /\ Recorded \in Int /\ Size(Recorded) <= 3 * MaxDelta /\ venue \in Int
      /\ Lot * venue \in Int /\ Lot * q \in Int /\ faults \in Nat /\ orders \in Nat
      /\ astray \in Nat
  BY <1>3, RecordedSize, SlackType DEF HedgeInv, TypeOK
<1>5. Basis * Size(Lot * venue - Recorded) <= Budget /\ Budget \in Nat
  BY BudgetGrows DEF HedgeInv, VenueAsRecorded, Budget
<1>6. Ordering => /\ Change \in Int /\ Size(Change) <= 2 * MaxDelta
                  /\ Basis * Size(Lot * q - Change) <= OrderSlack
  BY OrderError
<1>7. CASE Filled(q)
  <2>1. venue' = venue + q /\ faults' = faults /\ Lot * venue' = Lot * venue + Lot * q
    BY <1>3, <1>4, <1>7, SlackType DEF Filled
  <2>2. CASE Ordering /\ Recorded' = Recorded + Change
    <3>1. orders' = orders + 1 /\ astray' = astray
      BY <1>7, <2>2 DEF Filled, Ordering
    <3>2. Budget' = Budget + OrderSlack
      BY <3>1, BudgetGrows DEF HedgeInv
    <3>3. Basis * Size(Lot * venue + Lot * q - (Recorded + Change)) <= Budget + OrderSlack
      BY <1>4, <1>5, <1>6, <2>2, FullFill
    <3>4. VenueAsRecorded'
      <4>1. Lot * venue' - Recorded' = Lot * venue + Lot * q - (Recorded + Change)
        BY <1>1, <1>3, <1>4, <1>6, <2>1, <2>2, SlackType
      <4>2. Basis * Size(Lot * venue' - Recorded') <= Budget'
        BY <3>2, <3>3, <4>1
      <4> QED
        BY <4>2, Zenon DEF VenueAsRecorded, Budget
    <3>5. TypeOK'
      BY <1>1, <1>3, <1>4, <2>1, <3>1 DEF HedgeInv, TypeOK
    <3> QED
      BY <1>1, <3>4, <3>5 DEF HedgeInv
  <2>3. CASE Closing /\ Recorded' = 0
    <3>1. orders' = 0 /\ astray' = 0
      BY <1>7, <2>3 DEF Filled, Closing
    <3>2. venue' = 0 /\ Lot * venue' - Recorded' = 0 /\ Size(0) = 0
      BY <1>3, <1>4, <2>1, <2>3, SlackType DEF Size
    <3>3. VenueAsRecorded'
      BY <3>1, <3>2, SlackType DEF VenueAsRecorded
    <3>4. TypeOK'
      BY <1>1, <1>4, <2>1, <3>1, <3>2 DEF HedgeInv, TypeOK
    <3> QED
      BY <1>1, <3>3, <3>4 DEF HedgeInv
  <2> QED
    BY <1>1, <2>2, <2>3
<1>8. CASE \E f \in Part(q) : GoesAstray(f)
  <2>1. PICK f \in Part(q) : GoesAstray(f)
    BY <1>8
  <2>2. /\ f \in Int /\ Lot * f \in Int
        /\ (Lot * q <= Lot * f /\ Lot * f <= 0) \/ (0 <= Lot * f /\ Lot * f <= Lot * q)
    BY <1>3, FillRange
  <2>3. /\ venue' = venue + f /\ faults' = faults + 1 /\ orders' = orders
        /\ astray' = astray + 1 /\ Lot * venue' = Lot * venue + Lot * f
    BY <1>4, <2>1, <2>2, SlackType DEF GoesAstray, Fault
  <2>4. Budget' = Budget + AstraySlack
    BY <2>3, BudgetGrows DEF HedgeInv
  <2>5. Basis * Size(Lot * venue + Lot * f - Recorded') <= Budget + AstraySlack
    <3>1. CASE Ordering /\ Recorded' = Recorded + Change
      BY <1>1, <1>4, <1>5, <1>6, <2>2, <3>1, AstrayFill
    <3>2. CASE Closing /\ Recorded' = 0
      <4>1. Lot * q = -(Lot * venue)
        BY <1>3, <1>4, <3>2, SlackType
      <4> QED
        BY <1>1, <1>4, <1>5, <2>2, <3>2, <4>1, AstrayFill
    <3> QED
      BY <1>1, <3>1, <3>2
  <2>6. VenueAsRecorded'
    <3>1. Lot * venue' - Recorded' = Lot * venue + Lot * f - Recorded'
      BY <1>1, <1>4, <2>2, <2>3, SlackType
    <3>2. Basis * Size(Lot * venue' - Recorded') <= Budget'
      BY <2>4, <2>5, <3>1
    <3> QED
      BY <3>2, Zenon DEF VenueAsRecorded, Budget
  <2>7. TypeOK'
    BY <1>1, <1>4, <2>2, <2>3 DEF HedgeInv, TypeOK
  <2> QED
    BY <1>1, <2>6, <2>7 DEF HedgeInv
<1> QED
  BY <1>2, <1>7, <1>8

\* An order that raises leaves the record alone and moves the venue by at most
\* what it asked for.
LEMMA RaiseStep ==
    ASSUME HedgeInv, NEW spot \in Nat \ {0}, OrderRaises(spot) \/ CloseRaises(spot)
    PROVE  HedgeInv'
<1>1. (Ordering \/ Closing) /\ Fails(spot) /\ UNCHANGED <<hedge, opened>>
  BY DEF OrderRaises, CloseRaises, Goes, Fails, Ordering, Closing
<1>2. pc' \in Places /\ attempt' \in 1 .. MaxAttempts /\ UNCHANGED <<il, target>>
  BY HedgeAssumption
     DEF HedgeAssumption, HedgeInv, TypeOK, OrderRaises, CloseRaises, Goes, Places
<1>3. HandlerInv' /\ CapInv'
  BY <1>1, <1>2 DEF HedgeInv, HandlerInv, CapInv, OrderRaises, CloseRaises, Goes, Size
<1>4. Recorded' = Recorded
  BY <1>1 DEF Recorded, Size
<1>5. CASE Fault /\ UNCHANGED <<venue, orders, astray>>
  <2>1. VenueAsRecorded'
    BY <1>4, <1>5 DEF HedgeInv, VenueAsRecorded
  <2>2. TypeOK'
    BY <1>1, <1>2, <1>5 DEF HedgeInv, TypeOK, Fault
  <2> QED
    BY <1>3, <2>1, <2>2 DEF HedgeInv
<1>6. CASE \E q \in Quantities(spot) : \E f \in Part(q) \cup {q} : GoesAstray(f)
  <2>1. PICK q \in Quantities(spot) : \E f \in Part(q) \cup {q} : GoesAstray(f)
    BY <1>6
  <2>2. PICK f \in Part(q) \cup {q} : GoesAstray(f)
    BY <2>1
  <2>3. q \in Int /\ (Closing => q = -venue)
    BY <1>1, QuantityType
  <2>4. /\ f \in Int /\ Lot * f \in Int /\ Lot * q \in Int
        /\ (Lot * q <= Lot * f /\ Lot * f <= 0) \/ (0 <= Lot * f /\ Lot * f <= Lot * q)
    BY <2>3, FillRange
  <2>5. /\ Recorded \in Int /\ Size(Recorded) <= 3 * MaxDelta /\ venue \in Int
        /\ Lot * venue \in Int /\ faults \in Nat /\ orders \in Nat /\ astray \in Nat
    BY RecordedSize, SlackType DEF HedgeInv, TypeOK
  <2>6. Basis * Size(Lot * venue - Recorded) <= Budget /\ Budget \in Nat
    BY BudgetGrows DEF HedgeInv, VenueAsRecorded, Budget
  <2>7. /\ venue' = venue + f /\ faults' = faults + 1 /\ orders' = orders
        /\ astray' = astray + 1 /\ Lot * venue' = Lot * venue + Lot * f
    BY <2>2, <2>4, <2>5, SlackType DEF GoesAstray, Fault
  <2>8. Basis * Size(Lot * venue + Lot * f - Recorded) <= Budget + AstraySlack
    <3>1. CASE Ordering
      <4>1. /\ Change \in Int /\ Size(Change) <= 2 * MaxDelta
            /\ Basis * Size(Lot * q - Change) <= OrderSlack
        BY <3>1, OrderError
      <4> QED
        BY <2>4, <2>5, <2>6, <4>1, AstrayFill
    <3>2. CASE Closing
      <4>1. Lot * q = -(Lot * venue) /\ 0 \in Int
        BY <2>3, <2>5, <3>2, SlackType
      <4> QED
        BY <2>4, <2>5, <2>6, <4>1, AstrayFill
    <3> QED
      BY <1>1, <3>1, <3>2
  <2>9. Budget' = Budget + AstraySlack
    BY <2>7, BudgetGrows DEF HedgeInv
  <2>10. VenueAsRecorded'
    <3>1. Lot * venue' - Recorded' = Lot * venue + Lot * f - Recorded
      BY <1>4, <2>4, <2>5, <2>7, SlackType
    <3>2. Basis * Size(Lot * venue' - Recorded') <= Budget'
      BY <2>8, <2>9, <3>1
    <3> QED
      BY <3>2, Zenon DEF VenueAsRecorded, Budget
  <2>11. TypeOK'
    BY <1>1, <1>2, <2>4, <2>5, <2>7 DEF HedgeInv, TypeOK
  <2> QED
    BY <1>3, <2>10, <2>11 DEF HedgeInv
<1> QED
  BY <1>1, <1>5, <1>6 DEF Fails

\* Every step keeps the invariant.
LEMMA NextHedgeInv == HedgeInv /\ [Next]_vars => HedgeInv'
<1> SUFFICES ASSUME HedgeInv, [Next]_vars PROVE HedgeInv'
  OBVIOUS
<1>1. CASE UNCHANGED vars
  BY <1>1 DEF vars, book, HedgeInv, TypeOK, HandlerInv, CapInv, VenueAsRecorded, Recorded, Size
<1>2. CASE Tick
  BY <1>2, DecisionStep
<1>3. ASSUME NEW spot \in Spots, Handles(spot) PROVE HedgeInv'
  <2>1. spot \in Nat \ {0}
    BY HedgeAssumption DEF HedgeAssumption
  <2> QED
    BY <1>3, <2>1, DecisionStep, ReturnStep, RaiseStep DEF Handles
<1> QED
  BY <1>1, <1>2, <1>3 DEF Next

\* The types, the handlers' conditions, the caps and the venue's position are
\* inductive.
THEOREM Invariance == Spec => []HedgeInv
  BY InitHedgeInv, NextHedgeInv, PTL DEF Spec

\* Every variable of the hedge keeps its type; no order is attempted more than
\* MaxAttempts times.
THEOREM Typing == Spec => []TypeOK
<1>1. HedgeInv => TypeOK
  BY DEF HedgeInv
<1> QED
  BY <1>1, Invariance, PTL

\* For all caps, prices, lots and faults, and over any number of orders: the
\* venue is off what the recorded hedge adds up to by at most the slack of each
\* order since the last close, and three caps for each gone astray.
THEOREM VenueIsAsRecorded == Spec => []VenueAsRecorded
<1>1. HedgeInv => VenueAsRecorded
  BY DEF HedgeInv
<1> QED
  BY <1>1, Invariance, PTL
=============================================================================
