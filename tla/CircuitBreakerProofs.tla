------------------------- MODULE CircuitBreakerProofs -------------------------
(* Safety of CircuitBreaker for every value of its constants.               *)
EXTENDS CircuitBreaker, SequenceTheorems, TLAPS

\* How many of the recorded rebalances the deque has dropped.
Dropped == Len(history) - Len(rebalanceTimes)

\* The deque is the tail of the history, and what it dropped was more than an
\* hour old when the last rebalance was recorded.
DequeIsTail ==
    /\ Len(rebalanceTimes) <= Len(history)
    /\ \A j \in 1 .. Len(rebalanceTimes) : rebalanceTimes[j] = history[Dropped + j]
    /\ \A i \in 1 .. Dropped : history[Len(history)] - history[i] > Hour

NothingInFuture == \A i \in 1 .. Len(history) : history[i] <= now

\* A permission was given with room left in the deque, and only the permitted
\* rebalance fills it.
RoomInDeque ==
    /\ Len(rebalanceTimes) <= MaxRebalancesPerHour
    /\ phase = "approved" => Len(rebalanceTimes) < MaxRebalancesPerHour

IInv == TypeOK /\ DequeIsTail /\ NothingInFuture /\ RoomInDeque /\ RateLimit

\* What pruning the appended deque leaves.
LEMMA PrunedDeque ==
    ASSUME NEW s \in Seq(Nat), NEW t \in Nat, NEW k \in 1 .. Len(Append(s, t))
    PROVE  /\ Len(s) \in Nat
           /\ Len(Append(s, t)) = Len(s) + 1
           /\ \A j \in 1 .. Len(s) : Append(s, t)[j] = s[j]
           /\ Append(s, t)[Len(s) + 1] = t
           /\ SubSeq(Append(s, t), k, Len(Append(s, t))) \in Seq(Nat)
           /\ Len(SubSeq(Append(s, t), k, Len(Append(s, t)))) = Len(s) + 2 - k
           /\ \A j \in 1 .. Len(s) + 2 - k :
                SubSeq(Append(s, t), k, Len(Append(s, t)))[j] = Append(s, t)[j + k - 1]
<1> DEFINE appended == Append(s, t)
<1>1. Len(s) \in Nat
  BY LenProperties
<1>2. /\ appended \in Seq(Nat) /\ Len(appended) = Len(s) + 1
      /\ \A j \in 1 .. Len(s) : appended[j] = s[j]
      /\ appended[Len(s) + 1] = t
  BY <1>1
<1> HIDE DEF appended
<1>3. \A i \in k .. Len(appended) : appended[i] \in Nat
  BY <1>1, <1>2, ElementOfSeq
<1>4. k \in 1 .. Len(appended)
  BY DEF appended
<1>5. /\ SubSeq(appended, k, Len(appended)) \in Seq(Nat)
      /\ Len(SubSeq(appended, k, Len(appended))) = Len(s) + 2 - k
      /\ \A j \in 1 .. Len(s) + 2 - k :
            SubSeq(appended, k, Len(appended))[j] = appended[j + k - 1]
  <2>1. k \in Int /\ Len(appended) \in Int
    BY <1>1, <1>2, <1>4
  <2>2. /\ SubSeq(appended, k, Len(appended)) \in Seq(Nat)
        /\ Len(SubSeq(appended, k, Len(appended)))
             = IF k <= Len(appended) THEN Len(appended) - k + 1 ELSE 0
        /\ \A i \in 1 .. Len(appended) - k + 1 :
              SubSeq(appended, k, Len(appended))[i] = appended[k + i - 1]
    BY <1>3, <2>1, SubSeqProperties
  <2> QED
    BY <1>1, <1>2, <1>4, <2>2
<1> QED
  BY <1>1, <1>2, <1>5 DEF appended

\* A rebalance recorded keeps the deque a sequence of times.
LEMMA RecordTypes ==
    ASSUME TypeOK, RecordRebalance
    PROVE  rebalanceTimes' \in Seq(Nat) /\ history' \in Seq(Nat)
<1>1. rebalanceTimes \in Seq(Nat) /\ history \in Seq(Nat) /\ now \in Nat
  BY DEF TypeOK
<1>2. PICK k \in 1 .. Len(Append(rebalanceTimes, now)) :
        rebalanceTimes' = SubSeq(Append(rebalanceTimes, now), k,
                                 Len(Append(rebalanceTimes, now)))
  BY DEF RecordRebalance
<1>3. history' = Append(history, now)
  BY DEF RecordRebalance
<1>4. rebalanceTimes' \in Seq(Nat)
  BY <1>1, <1>2, PrunedDeque
<1>5. history' \in Seq(Nat)
  BY <1>1, <1>3
<1> QED
  BY <1>4, <1>5

\* A step keeps the type of every variable.
LEMMA TypesStep ==
    ASSUME TypeOK, [Next]_vars
    PROVE  TypeOK'
<1> USE BreakerAssumption
<1>1. CASE LoopTop
  BY <1>1 DEF TypeOK, LoopTop, breakerVars, Phases
<1>2. CASE CheckReturnsAtOnce
  BY <1>2 DEF TypeOK, CheckReturnsAtOnce, breakerVars, Moves, Phases
<1>3. CASE Check
  <2>1. PICK v \in Values, lastUpdate \in 0 .. now :
          /\ value' = v
          /\ peak' = NewPeak(v)
          /\ tripped' = (RateExceeded \/ DrawdownExceeded(NewPeak(v), v)
                                      \/ OracleStale(lastUpdate))
          /\ Moves("tick", IF tripped' THEN "loop"
                           ELSE IF HasRedis THEN "redis" ELSE "trading")
    BY <1>3 DEF Check, CheckAt
  <2>2. NewPeak(v) \in Nat \cup {NoValue}
    BY <2>1 DEF TypeOK, NewPeak
  <2>3. tripped' \in BOOLEAN
    BY <2>1
  <2>4. phase' \in Phases
    BY <2>1 DEF Moves, Phases
  <2> QED
    BY <1>3, <2>1, <2>2, <2>3, <2>4 DEF TypeOK, Check, CheckAt
<1>4. CASE RedisAnswers
  BY <1>4 DEF TypeOK, RedisAnswers, Phases
<1>5. CASE AskAllowRebalance
  BY <1>5 DEF TypeOK, AskAllowRebalance, breakerVars, Moves, Phases
<1>6. CASE RecordRebalance
  <2>1. rebalanceTimes' \in Seq(Nat) /\ history' \in Seq(Nat)
    BY <1>6, RecordTypes
  <2> QED
    BY <1>6, <2>1 DEF TypeOK, RecordRebalance, Moves, Phases
<1>7. CASE TickEnds
  BY <1>7 DEF TypeOK, TickEnds, breakerVars, Phases
<1>8. CASE RequestStop
  BY <1>8 DEF TypeOK, RequestStop
<1>9. CASE ClockTicks
  BY <1>9 DEF TypeOK, ClockTicks, breakerVars
<1>10. CASE UNCHANGED vars
  BY <1>10 DEF TypeOK, vars
<1> QED
  BY <1>1, <1>2, <1>3, <1>4, <1>5, <1>6, <1>7, <1>8, <1>9, <1>10
     DEF Next, Engine

\* Every variable keeps its type.
THEOREM Typing == Spec => []TypeOK
<1> USE BreakerAssumption
<1>1. Init => TypeOK
  <2> SUFFICES ASSUME Init PROVE TypeOK
    OBVIOUS
  <2>1. rebalanceTimes \in Seq(Nat) /\ history \in Seq(Nat)
    BY EmptySeq DEF Init
  <2> QED
    BY <2>1 DEF Init, TypeOK, Phases
<1>2. TypeOK /\ [Next]_vars => TypeOK'
  BY TypesStep
<1> QED
  BY <1>1, <1>2, PTL DEF Spec

\* Recording a rebalance keeps the deque the recent tail of the history.
LEMMA RecordKeepsInvariant ==
    ASSUME IInv, TypeOK', RecordRebalance
    PROVE  DequeIsTail' /\ NothingInFuture' /\ RoomInDeque' /\ RateLimit'
<1> USE BreakerAssumption
<1> DEFINE appended == Append(rebalanceTimes, now)
<1> DEFINE n == Len(rebalanceTimes)
<1> DEFINE h == Len(history)
<1>1. PICK k \in 1 .. Len(appended) :
        /\ \A j \in 1 .. k - 1 : appended[j] < now - Hour
        /\ appended[k] >= now - Hour
        /\ rebalanceTimes' = SubSeq(appended, k, Len(appended))
  BY DEF RecordRebalance
<1>2. /\ rebalanceTimes \in Seq(Nat) /\ history \in Seq(Nat) /\ now \in Nat
      /\ n \in Nat /\ h \in Nat
  <2>1. rebalanceTimes \in Seq(Nat) /\ history \in Seq(Nat) /\ now \in Nat
    BY DEF IInv, TypeOK
  <2> QED
    BY <2>1, LenProperties
<1>3. /\ n <= h /\ n < MaxRebalancesPerHour
      /\ history' = Append(history, now) /\ now' = now /\ phase' = "loop"
  BY DEF IInv, DequeIsTail, RoomInDeque, RecordRebalance, Moves
<1>4. /\ Len(appended) = n + 1 /\ k \in 1 .. n + 1
      /\ \A j \in 1 .. n : appended[j] = rebalanceTimes[j]
      /\ appended[n + 1] = now
      /\ Len(rebalanceTimes') = n + 2 - k
      /\ \A j \in 1 .. n + 2 - k : rebalanceTimes'[j] = appended[j + k - 1]
  BY <1>1, <1>2, PrunedDeque
<1>4a. /\ Len(history') = h + 1
       /\ \A i \in 1 .. h : history'[i] = history[i]
       /\ history'[h + 1] = now
  BY <1>2, <1>3
<1> HIDE DEF appended, n, h
<1>5. Dropped' = (h - n) + (k - 1) /\ k \in 1 .. n + 1 /\ n <= h
  BY <1>2, <1>3, <1>4, <1>4a DEF Dropped, n, h
<1>6. \A i \in 1 .. Dropped' : history'[Len(history')] - history'[i] > Hour
  <2> SUFFICES ASSUME NEW i \in 1 .. Dropped'
               PROVE  now - history[i] > Hour /\ i <= h
    BY <1>2, <1>3, <1>4, <1>4a, <1>5
  <2>1. CASE i <= h - n
    <3>1. history[h] - history[i] > Hour
      BY <2>1, <1>2 DEF IInv, DequeIsTail, Dropped, n, h
    <3>2. h \in 1 .. h /\ history[h] <= now
      BY <2>1, <1>5, <1>2 DEF IInv, NothingInFuture, h
    <3>3. i \in 1 .. h
      BY <2>1, <1>2, <1>5
    <3>4. history[i] \in Nat /\ history[h] \in Nat
      BY <3>2, <3>3, <1>2, ElementOfSeq DEF h
    <3> QED
      BY <3>1, <3>2, <3>3, <3>4, <1>2
  <2>2. CASE i > h - n
    <3> DEFINE j == i - (h - n)
    <3>1. j \in 1 .. k - 1 /\ j \in 1 .. n
      BY <2>2, <1>2, <1>3, <1>4, <1>4a, <1>5
    <3>2. rebalanceTimes[j] = history[i]
      BY <3>1, <1>2 DEF IInv, DequeIsTail, Dropped, n, h
    <3>3. appended[j] < now - Hour
      BY <3>1, <1>1
    <3>4. rebalanceTimes[j] \in Nat /\ i \in 1 .. h
      <4>1. i \in 1 .. h
        BY <2>2, <1>2, <1>3, <1>4, <1>5
      <4> QED
        BY <3>1, <4>1, <1>2, ElementOfSeq DEF n
    <3> QED
      BY <3>1, <3>2, <3>3, <3>4, <1>2, <1>3, <1>4, <1>4a
  <2> QED
    BY <2>1, <2>2, <1>2, <1>5
<1>7. DequeIsTail'
  <2>1. Len(rebalanceTimes') <= Len(history')
    BY <1>2, <1>3, <1>4, <1>4a
  <2>2. ASSUME NEW j \in 1 .. Len(rebalanceTimes')
        PROVE  rebalanceTimes'[j] = history'[Dropped' + j]
    <3> DEFINE m == j + k - 1
    <3>0. j \in 1 .. n + 2 - k
      BY <1>4
    <3>1. m \in 1 .. n + 1 /\ rebalanceTimes'[j] = appended[m]
          /\ Dropped' + j = (h - n) + m
      BY <3>0, <1>2, <1>4, <1>5
    <3>2. CASE m = n + 1
      <4>1. Dropped' + j = h + 1
        BY <3>1, <3>2, <1>2
      <4> HIDE DEF m
      <4> QED
        BY <3>1, <3>2, <4>1, <1>4, <1>4a
    <3>3. CASE m \in 1 .. n
      <4>1. rebalanceTimes[m] = history[(h - n) + m]
        BY <3>3 DEF IInv, DequeIsTail, Dropped, n, h
      <4>2. (h - n) + m \in 1 .. h
        BY <3>3, <1>2, <1>3
      <4> QED
        BY <3>1, <3>3, <4>1, <4>2, <1>3, <1>4, <1>4a
    <3> QED
      BY <3>1, <3>2, <3>3, <1>2
  <2> QED
    BY <1>6, <2>1, <2>2 DEF DequeIsTail
<1>8. NothingInFuture'
  BY <1>2, <1>3, <1>4a DEF IInv, NothingInFuture, h
<1>9. RoomInDeque'
  BY <1>2, <1>3, <1>4, <1>4a DEF RoomInDeque
<1>10. RateLimit'
  <2> SUFFICES ASSUME NEW i \in 1 .. Len(history'),
                      i + MaxRebalancesPerHour <= Len(history')
               PROVE  history'[i + MaxRebalancesPerHour] - history'[i] > Hour
    BY DEF RateLimit
  <2>0. i \in 1 .. h + 1 /\ i + MaxRebalancesPerHour <= h + 1
    BY <1>4a
  <2>1. CASE i + MaxRebalancesPerHour = h + 1
    <3>1. i \in 1 .. Dropped'
      BY <2>1, <1>2, <1>3, <1>4, <1>4a, <1>5
    <3> QED
      BY <2>1, <3>1, <1>3, <1>4, <1>4a, <1>6
  <2>2. CASE i + MaxRebalancesPerHour <= h
    <3>1. i \in 1 .. h /\ i + MaxRebalancesPerHour \in 1 .. h
      BY <2>2, <1>2, <1>3, <1>4, <1>4a
    <3>2. history[i + MaxRebalancesPerHour] - history[i] > Hour
      BY <2>2, <3>1 DEF IInv, RateLimit, h
    <3> QED
      BY <3>1, <3>2, <1>3, <1>4, <1>4a
  <2> QED
    BY <2>0, <2>1, <2>2, <1>2
<1> QED
  BY <1>7, <1>8, <1>9, <1>10

\* The strengthened invariant holds in every reachable state.
THEOREM Invariance == Spec => []IInv
<1> USE BreakerAssumption
<1>1. Init => IInv
  <2> SUFFICES ASSUME Init PROVE IInv
    OBVIOUS
  <2>1. TypeOK
    BY EmptySeq DEF Init, TypeOK, Phases, NoValue
  <2>2. Len(history) = 0 /\ Len(rebalanceTimes) = 0 /\ phase # "approved"
    BY EmptySeq DEF Init
  <2> QED
    BY <2>1, <2>2 DEF IInv, DequeIsTail, NothingInFuture, RoomInDeque,
                      RateLimit, Dropped
<1>2. IInv /\ TypeOK' /\ [Next]_vars => IInv'
  <2> SUFFICES ASSUME IInv, TypeOK', [Next]_vars PROVE IInv'
    OBVIOUS
  <2>1. CASE RecordRebalance
    BY <2>1, RecordKeepsInvariant DEF IInv
  <2>2. CASE AskAllowRebalance
    BY <2>2 DEF IInv, TypeOK, AskAllowRebalance, AllowRebalance, breakerVars,
                Moves, DequeIsTail, NothingInFuture, RoomInDeque, RateLimit, Dropped
  <2>3. CASE ClockTicks
    <3>1. NothingInFuture'
      BY <2>3 DEF IInv, TypeOK, ClockTicks, NothingInFuture, breakerVars
    <3> QED
      BY <2>3, <3>1 DEF IInv, ClockTicks, breakerVars, DequeIsTail,
                        RoomInDeque, RateLimit, Dropped
  <2>4. ASSUME UNCHANGED <<now, rebalanceTimes, history>>,
               phase' = "approved" => phase = "approved"
        PROVE  IInv'
    BY <2>4 DEF IInv, DequeIsTail, NothingInFuture, RoomInDeque, RateLimit, Dropped
  <2>5. CASE LoopTop
    BY <2>4, <2>5 DEF LoopTop, breakerVars
  <2>6. CASE CheckReturnsAtOnce
    BY <2>4, <2>6 DEF CheckReturnsAtOnce, breakerVars, Moves
  <2>7. CASE Check
    BY <2>4, <2>7 DEF Check, CheckAt, Moves
  <2>8. CASE RedisAnswers
    BY <2>4, <2>8 DEF RedisAnswers
  <2>9. CASE TickEnds
    BY <2>4, <2>9 DEF TickEnds, breakerVars
  <2>10. CASE RequestStop
    BY <2>4, <2>10 DEF RequestStop
  <2>11. CASE UNCHANGED vars
    BY <2>4, <2>11 DEF vars
  <2> QED
    BY <2>1, <2>2, <2>3, <2>5, <2>6, <2>7, <2>8, <2>9, <2>10, <2>11
       DEF Next, Engine
<1> QED
  BY <1>1, <1>2, Typing, PTL DEF Spec

\* allow_rebalance and record_rebalance together keep the rebalance rate of a
\* process within its limit, whatever happens between the two calls.
THEOREM RateLimited == Spec => []RateLimit
<1>1. IInv => RateLimit
  BY DEF IInv
<1> QED
  BY <1>1, Invariance, PTL

\* _check_rebalance_rate never trips the breaker.
THEOREM HardTripUnreachable == Spec => []HardRateTripUnreachable
<1>1. IInv => HardRateTripUnreachable
  BY BreakerAssumption
     DEF IInv, TypeOK, RoomInDeque, HardRateTripUnreachable, RateExceeded
<1> QED
  BY <1>1, Invariance, PTL

\* Once check has found a limit breached or the redis key set, the tick trades
\* nothing; and without a stop request every trade passed the drawdown limit.
THEOREM TradesAreWithinLimits == Spec => []TradesWithinLimits
<1> USE BreakerAssumption
<1> DEFINE Strong == /\ TradesWithinLimits
                     /\ phase \in {"tick", "redis"} => ~tripped
                     /\ phase = "redis" => stopRequested \/ ~DrawdownExceeded(peak, value)
<1>2. Init => Strong
  BY DEF Init, TradesWithinLimits
<1>3. TypeOK /\ Strong /\ [Next]_vars => Strong'
  <2> SUFFICES ASSUME TypeOK, Strong, [Next]_vars PROVE Strong'
    OBVIOUS
  <2> USE DEF TradesWithinLimits
  <2>1. CASE LoopTop
    BY <2>1 DEF LoopTop, breakerVars, TypeOK
  <2>2. CASE CheckReturnsAtOnce
    BY <2>2 DEF CheckReturnsAtOnce, CheckSkipped, breakerVars, Moves, TypeOK
  <2>3. CASE Check
    BY <2>3 DEF Check, CheckAt, CheckSkipped, Moves, DrawdownExceeded, TypeOK
  <2>4. CASE RedisAnswers
    BY <2>4 DEF RedisAnswers, DrawdownExceeded, TypeOK
  <2>5. CASE AskAllowRebalance
    BY <2>5 DEF AskAllowRebalance, breakerVars, Moves, DrawdownExceeded
  <2>6. CASE RecordRebalance
    BY <2>6 DEF RecordRebalance, Moves, DrawdownExceeded
  <2>7. CASE TickEnds
    BY <2>7 DEF TickEnds, breakerVars, DrawdownExceeded
  <2>8. CASE RequestStop
    BY <2>8 DEF RequestStop, DrawdownExceeded
  <2>9. CASE ClockTicks
    BY <2>9 DEF ClockTicks, breakerVars, DrawdownExceeded
  <2>10. CASE UNCHANGED vars
    BY <2>10 DEF vars, DrawdownExceeded
  <2> QED
    BY <2>1, <2>2, <2>3, <2>4, <2>5, <2>6, <2>7, <2>8, <2>9, <2>10
       DEF Next, Engine
<1>4. Strong => TradesWithinLimits
  OBVIOUS
<1> QED
  BY <1>2, <1>3, <1>4, Typing, PTL DEF Spec
=============================================================================
