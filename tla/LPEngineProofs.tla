---------------------------- MODULE LPEngineProofs ----------------------------
(* Safety of LPEngine for any number of attempts, positions and faults.        *)
EXTENDS LPEngine, SequenceTheorems, FiniteSetTheorems, TLAPS

\* The transactions of each program.
LEMMA ProgramTypes ==
    /\ <<>> \in Seq(Ops)
    /\ Transactions("start") = <<"mint">> /\ <<"mint">> \in Seq(Ops)
    /\ Transactions("collect") = <<"collect">> /\ <<"collect">> \in Seq(Ops)
    /\ /\ Transactions("stop") = <<"decrease", "collect", "burn">>
       /\ <<"decrease", "collect", "burn">> \in Seq(Ops)
    /\ /\ Transactions("rebalance") = <<"decrease", "collect", "burn", "mint">>
       /\ <<"decrease", "collect", "burn", "mint">> \in Seq(Ops)
  BY DEF Transactions, Ops

\* While a transaction is under way something is left of its program.
ProgramInv ==
    pc = "lp" =>
        \/ program = "start" /\ todo = <<"mint">>
        \/ program = "collect" /\ todo = <<"collect">>
        \/ program = "stop" /\ todo \in
             {<<"decrease", "collect", "burn">>, <<"collect", "burn">>, <<"burn">>}
        \/ program = "rebalance" /\ todo \in
             {<<"decrease", "collect", "burn", "mint">>, <<"collect", "burn", "mint">>,
              <<"burn", "mint">>, <<"mint">>}

\* The types, part by part.
ControlTypes ==
    /\ pc \in Places /\ program \in Programs /\ todo \in Seq(Ops)
    /\ funded \in BOOLEAN /\ attempt \in 1 .. MaxAttempts /\ landed \in BOOLEAN
MemoryTypes ==
    /\ position \in Nat /\ hedge \in Sizes \cup {NoHedge} /\ il \in ILs
    /\ tripped \in BOOLEAN /\ stopRequested \in BOOLEAN
StoreTypes == dbPos \in Nat /\ dbHedge \in Sizes \cup {NoHedge}
OutsideTypes == nft \in Seq(NftStates) /\ late \in Seq(Tx) /\ held \in BOOLEAN
GhostTypes == exit \in Exits /\ faults \in Nat /\ doubt \in BOOLEAN /\ unwound \in BOOLEAN

\* The parts are the type invariant.
LEMMA TypeParts ==
    TypeOK <=> ControlTypes /\ MemoryTypes /\ StoreTypes /\ OutsideTypes /\ GhostTypes
  BY DEF TypeOK, ControlTypes, MemoryTypes, StoreTypes, OutsideTypes, GhostTypes

\* The variables start with their types.
LEMMA InitTypes == Init => TypeOK
<1> SUFFICES ASSUME Init PROVE TypeOK
  OBVIOUS
<1>1. todo \in Seq(Ops) /\ nft \in Seq(NftStates) /\ late \in Seq(Tx)
  BY DEF Init
<1>2. attempt \in 1 .. MaxAttempts
  BY EngineAssumption DEF Init
<1> QED
  BY <1>1, <1>2 DEF Init, TypeOK, Places, Programs, Sizes, NoHedge, NoToken, ILs, Exits

\* A transaction leaves the NFTs well formed.
LEMMA ResultTypes ==
    ASSUME TypeOK, NEW op \in Ops, NEW k
    PROVE  Result(op, k) \in Seq(NftStates)
<1>1. nft \in Seq(NftStates)
  BY DEF TypeOK
<1>2. ASSUME NEW s \in NftStates PROVE [nft EXCEPT ![k] = s] \in Seq(NftStates)
  <2>1. CASE k \in 1 .. Len(nft)
    BY <1>1, <2>1, ExceptSeq
  <2>2. CASE k \notin 1 .. Len(nft)
    <3>1. nft = [i \in 1 .. Len(nft) |-> nft[i]]
      BY <1>1
    <3>2. [nft EXCEPT ![k] = s] = nft
      BY <2>2, <3>1
    <3> QED
      BY <1>1, <3>2
  <2> QED
    BY <2>1, <2>2
<1>3. CASE op = "mint"
  BY <1>1, <1>3 DEF Result, NftStates
<1>4. CASE op = "decrease"
  BY <1>2, <1>4 DEF Result, NftStates
<1>5. CASE op = "collect"
  <2>1. CASE nft[k] = "drained"
    BY <1>2, <1>5, <2>1 DEF Result, NftStates
  <2>2. CASE nft[k] # "drained"
    <3>1. Result(op, k) = [nft EXCEPT ![k] = nft[k]]
      BY <1>5, <2>2 DEF Result
    <3>2. nft = [i \in 1 .. Len(nft) |-> nft[i]]
      BY <1>1
    <3>3. Result(op, k) = nft
      BY <3>1, <3>2
    <3> QED
      BY <1>1, <3>3
  <2> QED
    BY <2>1, <2>2
<1>6. CASE op = "burn"
  BY <1>2, <1>6 DEF Result, NftStates
<1> QED
  BY <1>3, <1>4, <1>5, <1>6 DEF Ops

\* How the shared parts of the actions move the control.
LEMMA BeginsStep ==
    ASSUME NEW p \in Programs \ {"none"}, Begins(p)
    PROVE  ControlTypes' /\ ProgramInv'
<1>1. ControlTypes'
  <2>1. p \in {"start", "rebalance", "collect", "stop"}
    BY DEF Programs
  <2>2. Transactions(p) \in Seq(Ops)
    BY <2>1, ProgramTypes
  <2>3. 1 \in 1 .. MaxAttempts
    BY EngineAssumption
  <2> QED
    BY <2>2, <2>3 DEF Begins, ControlTypes, Places
<1>2. ProgramInv'
  BY ProgramTypes DEF Begins, ProgramInv, Programs
<1> QED
  BY <1>1, <1>2

\* Going on to a place that awaits no transaction.
LEMMA GoesStep ==
    ASSUME ControlTypes, NEW p \in Places \ {"lp"}, Goes(p)
    PROVE  ControlTypes' /\ ProgramInv'
  BY DEF Goes, ControlTypes, ProgramInv

\* Returning from a program, or giving it up.
LEMMA ReturnsStep ==
    ASSUME NEW p \in Places \ {"lp"}, Returns(p)
    PROVE  ControlTypes' /\ ProgramInv'
<1>1. 1 \in 1 .. MaxAttempts
  BY EngineAssumption
<1>2. <<>> \in Seq(Ops)
  BY ProgramTypes
<1> QED
  BY <1>1, <1>2 DEF Returns, ControlTypes, ProgramInv, Programs

\* The end of the process, which also clears its memory.
LEMMA EndsStep ==
    ASSUME NEW e \in Exits, Ends(e)
    PROVE  ControlTypes' /\ ProgramInv' /\ MemoryTypes' /\ exit' \in Exits
<1>1. ControlTypes' /\ ProgramInv'
  BY ReturnsStep DEF Ends, Places
<1>2. MemoryTypes' /\ exit' \in Exits
  BY DEF Ends, MemoryTypes, NoToken, Sizes, NoHedge, ILs
<1> QED
  BY <1>1, <1>2

\* An exception of a transaction, passed to the loop or ending the process.
LEMMA HandlerRaisesStep ==
    ASSUME MemoryTypes, exit \in Exits, HandlerRaises
    PROVE  ControlTypes' /\ ProgramInv' /\ MemoryTypes' /\ exit' \in Exits
<1>1. CASE program \in {"rebalance", "collect"}
  <2>1. ControlTypes' /\ ProgramInv'
    BY <1>1, ReturnsStep DEF HandlerRaises, Places
  <2>2. MemoryTypes' /\ exit' \in Exits
    BY <1>1 DEF HandlerRaises, memory, MemoryTypes
  <2> QED
    BY <2>1, <2>2
<1>2. CASE program \notin {"rebalance", "collect"}
  BY <1>2, EndsStep DEF HandlerRaises, Exits
<1> QED
  BY <1>1, <1>2

\* A failed attempt: another one while any is left, else the exception.
LEMMA AttemptRaisesStep ==
    ASSUME TypeOK, ProgramInv, AttemptRaises
    PROVE  /\ ControlTypes' /\ ProgramInv' /\ MemoryTypes' /\ StoreTypes'
           /\ exit' \in Exits /\ UNCHANGED <<nft, held, unwound>>
<1> USE TypeParts
<1>1. StoreTypes' /\ UNCHANGED <<nft, held, unwound>>
  BY DEF AttemptRaises, store, StoreTypes
<1>2. CASE attempt < MaxAttempts
  <2>1. UNCHANGED <<pc, program, todo, funded>> /\ attempt' = attempt + 1 /\ landed' = FALSE
    BY <1>2 DEF AttemptRaises
  <2>2. ControlTypes' /\ ProgramInv'
    <3>1. attempt' \in 1 .. MaxAttempts
      BY <1>2, <2>1, EngineAssumption DEF ControlTypes
    <3> QED
      BY <2>1, <3>1 DEF ControlTypes, ProgramInv
  <2>3. MemoryTypes' /\ exit' \in Exits
    BY <1>2 DEF AttemptRaises, memory, MemoryTypes, GhostTypes
  <2> QED
    BY <1>1, <2>2, <2>3
<1>3. CASE ~(attempt < MaxAttempts)
  BY <1>1, <1>3, HandlerRaisesStep DEF AttemptRaises, GhostTypes
<1> QED
  BY <1>2, <1>3

\* A program with something after its current transaction is not at its last.
LEMMA NotLast == ASSUME NEW s, Len(s) > 1 PROVE Len(s) # 1
  OBVIOUS

\* What the next transaction of a program is, and what it leaves.
LEMMA Remainders ==
    /\ /\ Len(<<"decrease", "collect", "burn">>) = 3
       /\ Head(<<"decrease", "collect", "burn">>) = "decrease"
       /\ Tail(<<"decrease", "collect", "burn">>) = <<"collect", "burn">>
    /\ /\ Len(<<"collect", "burn">>) = 2
       /\ Head(<<"collect", "burn">>) = "collect"
       /\ Tail(<<"collect", "burn">>) = <<"burn">>
    /\ Len(<<"burn">>) = 1
    /\ <<"burn">> # <<"mint">>
    /\ /\ Len(<<"decrease", "collect", "burn", "mint">>) = 4
       /\ Head(<<"decrease", "collect", "burn", "mint">>) = "decrease"
       /\ Tail(<<"decrease", "collect", "burn", "mint">>) = <<"collect", "burn", "mint">>
    /\ /\ Len(<<"collect", "burn", "mint">>) = 3
       /\ Head(<<"collect", "burn", "mint">>) = "collect"
       /\ Tail(<<"collect", "burn", "mint">>) = <<"burn", "mint">>
    /\ /\ Len(<<"burn", "mint">>) = 2
       /\ Head(<<"burn", "mint">>) = "burn"
       /\ Tail(<<"burn", "mint">>) = <<"mint">>
    /\ Len(<<"mint">>) = 1
    /\ <<"collect", "burn">> # <<"mint">> /\ <<"burn", "mint">> # <<"mint">>
    /\ <<"collect", "burn", "mint">> # <<"mint">>
  OBVIOUS

\* An answered order, filled or not, and one that is not, keep the types of what
\* they change.
LEMMA OrderStep ==
    ASSUME GhostTypes, OrderAnswered \/ OrderUnanswered
    PROVE  faults' \in Nat /\ doubt' \in BOOLEAN
<1>1. faults' \in Nat
  BY DEF OrderAnswered, OrderUnanswered, Fault, GhostTypes
<1>2. doubt' \in BOOLEAN
  BY Zenon DEF OrderAnswered, OrderUnanswered, GhostTypes
<1> QED
  BY <1>1, <1>2

\* A call goes on to what is left of its program.
LEMMA ContinuesStep ==
    ASSUME ControlTypes, ProgramInv, At("lp"), Continues, funded' \in BOOLEAN
    PROVE  ControlTypes' /\ ProgramInv'
<1>1. /\ Len(todo) > 1 /\ todo' = Tail(todo) /\ pc = "lp" /\ pc' = "lp"
      /\ program' = program /\ attempt' = 1 /\ landed' = FALSE
  BY DEF Continues, At
<1>2. todo # <<>>
  BY <1>1
<1>3. todo' \in Seq(Ops)
  BY <1>1, <1>2, HeadTailProperties DEF ControlTypes
<1>4. todo # <<"burn">> /\ todo # <<"mint">> /\ todo # <<"collect">>
  <2>1. Len(todo) # 1
    BY <1>1, NotLast, Zenon
  <2> QED
    BY <2>1
<1>5. ASSUME program = "stop" PROVE ProgramInv'
  <2>1. todo = <<"decrease", "collect", "burn">> \/ todo = <<"collect", "burn">>
    BY <1>1, <1>4, <1>5, Zenon DEF ProgramInv
  <2>2. todo' = <<"collect", "burn">> \/ todo' = <<"burn">>
    BY <1>1, <2>1, Remainders, Zenon
  <2> QED
    BY <1>1, <1>5, <2>2, Zenon DEF ProgramInv
<1>6. ASSUME program = "rebalance" PROVE ProgramInv'
  <2>1. \/ todo = <<"decrease", "collect", "burn", "mint">>
        \/ todo = <<"collect", "burn", "mint">> \/ todo = <<"burn", "mint">>
    BY <1>1, <1>4, <1>6, Zenon DEF ProgramInv
  <2>2. \/ todo' = <<"collect", "burn", "mint">>
        \/ todo' = <<"burn", "mint">> \/ todo' = <<"mint">>
    BY <1>1, <2>1, Remainders, Zenon
  <2> QED
    BY <1>1, <1>6, <2>2, Zenon DEF ProgramInv
<1>7. program \in {"stop", "rebalance"}
  BY <1>1, <1>4, Zenon DEF ProgramInv
<1>8. 1 \in 1 .. MaxAttempts
  BY EngineAssumption
<1>9. ControlTypes'
  BY <1>1, <1>3, <1>8 DEF ControlTypes
<1> QED
  BY <1>5, <1>6, <1>7, <1>9

\* Every step keeps the types and the shape of the programs.
LEMMA TypeStep == TypeOK /\ ProgramInv /\ [Next]_vars => TypeOK' /\ ProgramInv'
<1> SUFFICES ASSUME TypeOK, ProgramInv, [Next]_vars
             PROVE  /\ ControlTypes' /\ MemoryTypes' /\ StoreTypes' /\ OutsideTypes'
                    /\ GhostTypes' /\ ProgramInv'
  BY DEF TypeOK, ControlTypes, MemoryTypes, StoreTypes, OutsideTypes, GhostTypes
<1> USE TypeParts
<1> USE DEF MemoryTypes, StoreTypes, OutsideTypes, GhostTypes
<1>1. CASE TickStarts \/ TickFails \/ Checks \/ RedisAnswers
  <2>1. ControlTypes' /\ ProgramInv'
    BY <1>1, GoesStep DEF TickStarts, TickFails, Checks, RedisAnswers, Places
  <2>2. MemoryTypes' /\ StoreTypes' /\ OutsideTypes' /\ GhostTypes'
    BY <1>1 DEF TickStarts, TickFails, Checks, RedisAnswers, memory, store, outside, ghosts, Fault
  <2> QED
    BY <2>1, <2>2
<1>2. CASE Trips
  <2>1. ControlTypes' /\ ProgramInv'
    BY <1>2, GoesStep DEF Trips, Places
  <2>2. MemoryTypes' /\ StoreTypes' /\ OutsideTypes' /\ GhostTypes'
    BY <1>2 DEF Trips, memory, store, outside, ghosts, Fault
  <2> QED
    BY <2>1, <2>2
<1>3. CASE HedgeStays \/ HedgeActs \/ HedgeTooSmall \/ KeepsRange \/ TickEnds
  <2>1. ControlTypes' /\ ProgramInv'
    BY <1>3, GoesStep DEF HedgeStays, HedgeActs, HedgeTooSmall, KeepsRange, TickEnds, Places
  <2>2. MemoryTypes' /\ StoreTypes' /\ OutsideTypes' /\ GhostTypes'
    BY <1>3 DEF HedgeStays, HedgeActs, HedgeTooSmall, KeepsRange, TickEnds, memory, store,
       outside, ghosts, Fault, ILs
  <2> QED
    BY <2>1, <2>2
<1>4. CASE Restart \/ Restores
  <2>1. ControlTypes' /\ ProgramInv'
    BY <1>4, GoesStep DEF Restart, Restores, Places
  <2>2. MemoryTypes' /\ StoreTypes' /\ OutsideTypes' /\ GhostTypes'
    BY <1>4 DEF Restart, Restores, memory, store, outside, ghosts, Fault
  <2> QED
    BY <2>1, <2>2
<1>5. CASE OpensFresh \/ Stops \/ Rebalances \/ CollectsFees
  <2>1. ControlTypes' /\ ProgramInv'
    BY <1>5, BeginsStep DEF OpensFresh, Stops, Rebalances, CollectsFees, Programs
  <2>2. MemoryTypes' /\ StoreTypes' /\ OutsideTypes' /\ GhostTypes'
    BY <1>5 DEF OpensFresh, Stops, Rebalances, CollectsFees, memory, store, outside, ghosts, Fault
  <2> QED
    BY <2>1, <2>2
<1>6. CASE FetchAtStartFails \/ Halts
  <2>1. ControlTypes' /\ ProgramInv'
    BY <1>6, EndsStep DEF FetchAtStartFails, Halts, Exits
  <2>2. MemoryTypes' /\ StoreTypes' /\ OutsideTypes' /\ GhostTypes'
    BY <1>6, EndsStep DEF FetchAtStartFails, Halts, memory, store, outside, ghosts, Fault, Exits
  <2> QED
    BY <2>1, <2>2
<1>7. CASE HedgeOrderReturns
  <2>1. ControlTypes' /\ ProgramInv'
    BY <1>7, ReturnsStep DEF HedgeOrderReturns, AfterHedge, Places
  <2>2. MemoryTypes' /\ StoreTypes' /\ OutsideTypes' /\ GhostTypes'
    BY <1>7, OrderStep DEF HedgeOrderReturns, SaveHedge, outside, ILs
  <2> QED
    BY <2>1, <2>2
<1>8. CASE UnhedgeReturns
  <2>1. ControlTypes' /\ ProgramInv'
    BY <1>8, ReturnsStep DEF UnhedgeReturns, Places
  <2>2. MemoryTypes' /\ StoreTypes' /\ OutsideTypes' /\ GhostTypes'
    BY <1>8, OrderStep DEF UnhedgeReturns, DeletePosition, outside, NoToken
  <2> QED
    BY <2>1, <2>2
<1>9. CASE OrderRaises
  <2>1. ControlTypes' /\ ProgramInv'
    <3>1. CASE pc # "unhedge" /\ attempt < MaxAttempts
      <4>1. attempt' \in 1 .. MaxAttempts
        BY <1>9, <3>1, EngineAssumption DEF OrderRaises, ControlTypes
      <4> QED
        BY <1>9, <3>1, <4>1 DEF OrderRaises, ControlTypes, ProgramInv
    <3>2. CASE ~(pc # "unhedge" /\ attempt < MaxAttempts)
      BY <1>9, <3>2, ReturnsStep DEF OrderRaises, Places
    <3> QED
      BY <3>1, <3>2
  <2>2. MemoryTypes'
    BY <1>9 DEF OrderRaises, ILs
  <2> QED
    BY <1>9, <2>1, <2>2, OrderStep DEF OrderRaises, store, outside
<1>10. CASE TransactionConfirmed \/ CollectUnnoticed
  <2>1. funded' \in BOOLEAN /\ At("lp") /\ Continues
    BY <1>10 DEF TransactionConfirmed, CollectUnnoticed, Confirmed, ControlTypes
  <2>2. ControlTypes' /\ ProgramInv'
    BY <2>1, ContinuesStep
  <2>3. MemoryTypes' /\ StoreTypes' /\ OutsideTypes' /\ GhostTypes'
    <3>1. faults' \in Nat
      BY <1>10 DEF TransactionConfirmed, CollectUnnoticed, Fault
    <3>2. doubt' \in BOOLEAN
      BY <1>10, Zenon DEF TransactionConfirmed, CollectUnnoticed
    <3> QED
      BY <2>1, <3>1, <3>2 DEF Continues, memory, store, outside
  <2> QED
    BY <2>2, <2>3
<1>11. CASE StartReturns \/ RebalanceReturns
  <2>1. ControlTypes' /\ ProgramInv'
    BY <1>11, ReturnsStep DEF StartReturns, RebalanceReturns, MintReturns, Places
  <2>2. Len(nft) \in Nat
    BY LenProperties
  <2>3. MemoryTypes' /\ StoreTypes' /\ OutsideTypes' /\ GhostTypes'
    BY <1>11, <2>2 DEF StartReturns, RebalanceReturns, MintReturns, SavePosition, outside, ghosts
  <2> QED
    BY <2>1, <2>3
<1>12. CASE CollectReturns
  <2>1. ControlTypes' /\ ProgramInv'
    BY <1>12, ReturnsStep DEF CollectReturns, Places
  <2>2. MemoryTypes' /\ StoreTypes' /\ OutsideTypes' /\ GhostTypes'
    BY <1>12 DEF CollectReturns, SavePosition, memory, outside, ghosts
  <2> QED
    BY <2>1, <2>2
<1>13. CASE CloseReturns
  <2>1. OutsideTypes'
    BY <1>13 DEF CloseReturns, outside
  <2>2. CASE hedge = NoHedge
    BY <1>13, <2>1, <2>2, EndsStep DEF CloseReturns, DeletePosition, NoToken, Exits
  <2>3. CASE hedge # NoHedge
    BY <1>13, <2>1, <2>3, ReturnsStep DEF CloseReturns, memory, store, ghosts, Places
  <2> QED
    BY <2>2, <2>3
<1>14. CASE DeadlineFails
  BY <1>14, HandlerRaisesStep DEF DeadlineFails, memory, store, outside, ghosts, Fault
<1>15. CASE ReceiptUnparsed
  BY <1>15, HandlerRaisesStep DEF ReceiptUnparsed, store, outside, Fault
<1>16. CASE TransactionReverts \/ TransactionFails
  BY <1>16, AttemptRaisesStep DEF TransactionReverts, TransactionFails, Fault
<1>17. CASE TransactionLost
  <2>1. Current \in Tx
    BY <1>17 DEF TransactionLost, At, ProgramInv, ControlTypes, Current, Tx, Ops
  <2> QED
    BY <1>17, <2>1, AttemptRaisesStep DEF TransactionLost, Fault
<1>18. CASE StopHedgeReturns
  BY <1>18, EndsStep, OrderStep DEF StopHedgeReturns, DeletePosition, NoToken, Exits, outside
<1>19. CASE StopHedgeRaises
  BY <1>19, EndsStep, OrderStep DEF StopHedgeRaises, Exits, store, outside
<1>20. CASE LateTransaction
  <2>1. Head(late) \in Tx /\ late' \in Seq(Tx)
    BY <1>20 DEF LateTransaction
  <2>2. nft' \in Seq(NftStates)
    BY <1>20, <2>1, ResultTypes DEF LateTransaction, Tx
  <2> QED
    BY <1>20, <2>1, <2>2 DEF LateTransaction, control, memory, store, ghosts, ControlTypes,
       ProgramInv
<1>21. CASE RequestStop
  BY <1>21 DEF RequestStop, control, memory, store, outside, ghosts, Fault, ControlTypes, ProgramInv
<1>22. CASE Crash
  <2>1. At("lp") => Current \in Tx
    BY DEF At, ProgramInv, ControlTypes, Current, Tx, Ops
  <2>2. late' \in Seq(Tx)
    BY <1>22, <2>1 DEF Crash
  <2>3. doubt' \in BOOLEAN
    BY <1>22, Zenon DEF Crash
  <2> QED
    BY <1>22, <2>2, <2>3, EndsStep DEF Crash, Exits, Fault, store
<1>23. CASE TransactionLands
  <2>1. Head(todo) \in Ops
    BY <1>23 DEF ProgramInv, TransactionLands, At, Ops
  <2>2. nft' \in Seq(NftStates)
    BY <1>23, <2>1, ResultTypes DEF TransactionLands
  <2>3. funded' \in BOOLEAN
    BY <1>23 DEF TransactionLands, TokensInHand, ControlTypes
  <2> QED
    BY <1>23, <2>2, <2>3 DEF TransactionLands, memory, store, ghosts, ControlTypes, ProgramInv
<1>24. CASE OrderLands
  BY <1>24 DEF OrderLands, memory, store, ghosts, ControlTypes, ProgramInv, Ordering
<1>25. CASE UNCHANGED vars
  BY <1>25 DEF vars, ControlTypes, ProgramInv
<1> QED
  BY <1>1, <1>2, <1>3, <1>4, <1>5, <1>6, <1>7, <1>8, <1>9, <1>10, <1>11, <1>12, <1>13, <1>14,
     <1>15, <1>16, <1>17, <1>18, <1>19, <1>20, <1>21, <1>22, <1>23, <1>24, <1>25
     DEF Next, Engine, Lands

\* The types and the shape of the programs are an inductive invariant.
THEOREM TypeAndProgram == Spec => [](TypeOK /\ ProgramInv)
<1>1. Init => TypeOK /\ ProgramInv
  BY InitTypes DEF Init, ProgramInv
<1> QED
  BY <1>1, TypeStep, PTL DEF Spec

\* Every variable of the engine keeps its type: among others, no transaction
\* and no order is attempted more than MaxAttempts times.
THEOREM Typing == Spec => []TypeOK
  BY TypeAndProgram, PTL

-----------------------------------------------------------------------------
(* The safety properties of LPEngine, from one inductive invariant.            *)

Running == pc \notin {"down", "boot"}
Starting == At("lp") /\ program = "start"

\* A running engine that is not just opening its first position has one, and
\* what refers to a token refers to one that was minted.
PositionInv ==
    /\ ~Running => position = NoToken /\ hedge = NoHedge
    /\ Running /\ ~Starting => position \in Tokens
    /\ Starting => position = NoToken /\ hedge = NoHedge /\ dbPos = NoToken
    /\ At("open") => hedge = NoHedge
    /\ At("adjust") => hedge # NoHedge
    /\ dbPos # NoToken => dbPos \in Tokens
    /\ \A i \in 1 .. Len(late) : late[i].op # "mint" => late[i].token \in Tokens

\* The rows agree with the memory; until a hedge is removed they also say all.
StoreInv ==
    /\ StoreMatchesMemory
    /\ ~unwound /\ Running => hedge = dbHedge
    /\ ~unwound /\ Running /\ ~Starting => dbPos = position
    /\ ~unwound /\ dbPos = NoToken => dbHedge = NoHedge

\* Wherever a mint may execute, now or late, the known position is burned.
BurnInv ==
    /\ At("lp") /\ program = "rebalance" /\ todo = <<"mint">> => nft[position] = "burned"
    /\ At("stopHedge") => nft[position] = "burned"
    /\ \A i \in 1 .. Len(late) :
         late[i].op = "mint" =>
            /\ position # NoToken => nft[position] = "burned"
            /\ dbPos # NoToken => nft[dbPos] = "burned"

\* What a transaction that has executed leaves until its call goes on, and the
\* closing of a hedge until it is answered.
LandedInv ==
    /\ At("lp") /\ landed =>
         /\ late = <<>>
         /\ Head(todo) = "mint" => Len(nft) \in Tokens /\ nft[Len(nft)] = "live"
         /\ Head(todo) = "burn" => nft[position] = "burned"
    /\ pc \in {"unhedge", "stopHedge"} /\ landed => ~held

\* Without doubt, and unless a hedge was removed, an open NFT has its row, or the
\* task awaits the receipt and the confirmations of its mint.
OpenIsRecorded ==
    ~doubt /\ ~unwound => \A k \in Tokens : Open(k) => k = dbPos \/ Arriving(k)

\* Nothing is out that nobody doubts; a graceful stop leaves no rows.
LedgerInv ==
    /\ late # <<>> => doubt
    /\ OpenIsRecorded
    /\ HedgeIsRecorded
    /\ exit = "stopped" => At("down") /\ dbPos = NoToken /\ dbHedge = NoHedge

SafetyInv == PositionInv /\ StoreInv /\ BurnInv /\ LandedInv /\ LedgerInv

\* The invariant holds initially.
LEMMA InitSafety == Init => SafetyInv
<1> SUFFICES ASSUME Init PROVE SafetyInv
  OBVIOUS
<1>1. Len(nft) = 0 /\ Len(late) = 0
  BY DEF Init
<1>2. PositionInv /\ StoreInv
  BY <1>1 DEF Init, PositionInv, StoreInv, StoreMatchesMemory, Running, Starting, At, NoToken
<1>3. BurnInv /\ LandedInv /\ LedgerInv
  BY <1>1 DEF Init, BurnInv, LandedInv, LedgerInv, OpenIsRecorded, HedgeIsRecorded, Tokens, At
<1> QED
  BY <1>2, <1>3 DEF SafetyInv

-----------------------------------------------------------------------------
(* The NFTs.                                                               *)

\* What a transaction that executes does to the NFTs: only a mint adds one, and
\* only a burn closes one, its own.
LEMMA Effect ==
    ASSUME TypeOK, NEW op \in Ops, NEW k, NEW f, op # "mint" => k \in Tokens,
           Executes(op, k, f), nft' = Result(op, k)
    PROVE  /\ Len(nft) \in Nat
           /\ op = "mint" => Len(nft') = Len(nft) + 1 /\ nft'[Len(nft')] = "live"
           /\ op # "mint" => Len(nft') = Len(nft)
           /\ \A j \in Tokens : nft[j] = "burned" => nft'[j] = "burned"
           /\ op # "burn" => \A j \in Tokens : nft'[j] = "burned" => nft[j] = "burned"
           /\ op = "burn" => nft'[k] = "burned" /\ \A j \in Tokens \ {k} : nft'[j] = nft[j]
<1>1. nft \in Seq(NftStates) /\ Len(nft) \in Nat
  BY LenProperties DEF TypeOK
<1>2. CASE op = "mint"
  <2>1. nft' = Append(nft, "live")
    BY <1>2 DEF Result
  <2>2. /\ Len(nft') = Len(nft) + 1 /\ nft'[Len(nft) + 1] = "live"
        /\ \A j \in 1 .. Len(nft) : nft'[j] = nft[j]
    BY <1>1, <2>1, AppendProperties DEF NftStates
  <2> QED
    BY <1>1, <1>2, <2>2 DEF Tokens
<1>3. CASE op # "mint"
  <2>1. k \in 1 .. Len(nft)
    BY <1>3 DEF Tokens
  <2>2. \A s \in NftStates :
          /\ Len([nft EXCEPT ![k] = s]) = Len(nft)
          /\ \A j \in 1 .. Len(nft) :
               [nft EXCEPT ![k] = s][j] = IF j = k THEN s ELSE nft[j]
    BY <1>1, <2>1, ExceptSeq
  <2>3. PICK s \in NftStates :
          /\ nft' = [nft EXCEPT ![k] = s]
          /\ s = "burned" <=> op = "burn"
          /\ op # "burn" => nft[k] # "burned"
    <3>1. CASE op = "decrease"
      BY <3>1 DEF Result, Executes, NftStates
    <3>2. CASE op = "collect" /\ nft[k] = "drained"
      BY <3>2 DEF Result, Executes, NftStates
    <3>3. CASE op = "collect" /\ nft[k] # "drained"
      <4>1. nft[k] \in NftStates
        BY <1>1, <2>1, ElementOfSeq
      <4>2. nft' = [nft EXCEPT ![k] = nft[k]]
        BY <3>3 DEF Result
      <4> QED
        BY <3>3, <4>1, <4>2 DEF Executes
    <3>4. CASE op = "burn"
      BY <3>4 DEF Result, NftStates
    <3> QED
      BY <1>3, <3>1, <3>2, <3>3, <3>4 DEF Ops
  <2>4. /\ Len(nft') = Len(nft)
        /\ \A j \in 1 .. Len(nft) : nft'[j] = IF j = k THEN s ELSE nft[j]
    BY <2>2, <2>3
  <2> QED
    BY <1>1, <1>3, <2>1, <2>3, <2>4 DEF Tokens
<1> QED
  BY <1>2, <1>3

-----------------------------------------------------------------------------
(* Steps that leave the store and the outside alone.                       *)

\* The task goes on to another await of a tick, or starts an LP call.
LEMMA QuietStep ==
    ASSUME SafetyInv,
           pc \in {"top", "tick", "redis", "hedge", "rebalance", "fees"},
           pc' \in Places \ {"down", "boot", "unhedge", "stopHedge"},
           pc' = "lp" => program' # "start" /\ todo' # <<"mint">> /\ ~landed',
           pc' = "open" => hedge = NoHedge,
           pc' = "adjust" => hedge # NoHedge,
           UNCHANGED <<position, hedge, dbPos, dbHedge, nft, late, held, exit, doubt, unwound>>
    PROVE  SafetyInv'
<1>1. PositionInv'
  BY DEF SafetyInv, PositionInv, Running, Starting, At, Tokens
<1>2. StoreInv'
  BY DEF SafetyInv, StoreInv, StoreMatchesMemory, Running, Starting, At
<1>3. BurnInv' /\ LandedInv'
  BY DEF SafetyInv, BurnInv, LandedInv, At
<1>4. LedgerInv'
  BY DEF SafetyInv, LedgerInv, OpenIsRecorded, HedgeIsRecorded, Arriving, At, Tokens, Open
<1> QED
  BY <1>1, <1>2, <1>3, <1>4 DEF SafetyInv

\* What a transaction under way may do when it executes late.
LEMMA LateFacts ==
    ASSUME TypeOK, ProgramInv, SafetyInv, UNCHANGED nft,
           \/ UNCHANGED late
           \/ At("lp") /\ late' = Append(late, Current)
    PROVE  \A i \in 1 .. Len(late') :
             /\ late'[i].op # "mint" => late'[i].token \in Tokens
             /\ late'[i].op = "mint" =>
                  /\ position # NoToken => nft[position] = "burned"
                  /\ dbPos # NoToken => nft[dbPos] = "burned"
<1>1. \A i \in 1 .. Len(late) :
        /\ late[i].op # "mint" => late[i].token \in Tokens
        /\ late[i].op = "mint" =>
             /\ position # NoToken => nft[position] = "burned"
             /\ dbPos # NoToken => nft[dbPos] = "burned"
  BY DEF SafetyInv, PositionInv, BurnInv
<1>2. ASSUME At("lp")
      PROVE  /\ Current.op # "mint" => Current.token \in Tokens
             /\ Current.op = "mint" =>
                  /\ position # NoToken => nft[position] = "burned"
                  /\ dbPos # NoToken => nft[dbPos] = "burned"
  <2>1. Current.op = Head(todo) /\ Current.token = position
    BY DEF Current
  <2>2. CASE Starting
    BY <1>2, <2>1, <2>2 DEF SafetyInv, PositionInv, Starting, ProgramInv, At
  <2>3. CASE ~Starting
    <3>1. position \in Tokens
      BY <1>2, <2>3 DEF SafetyInv, PositionInv, Running, At
    <3>2. Head(todo) = "mint" => program = "rebalance" /\ todo = <<"mint">>
      BY <1>2, <2>3 DEF ProgramInv, Starting, At
    <3>3. Head(todo) = "mint" => nft[position] = "burned"
      BY <1>2, <3>2 DEF SafetyInv, BurnInv
    <3>4. position # NoToken /\ (dbPos # NoToken => dbPos = position)
      BY <3>1, LenProperties DEF SafetyInv, StoreInv, StoreMatchesMemory, Tokens, NoToken, TypeOK
    <3> QED
      BY <2>1, <3>1, <3>3, <3>4
  <2> QED
    BY <2>2, <2>3
<1>3. ASSUME NEW i \in 1 .. Len(late')
      PROVE  (i \in 1 .. Len(late) /\ late'[i] = late[i]) \/ (At("lp") /\ late'[i] = Current)
  <2>1. late \in Seq(Tx)
    BY DEF TypeOK
  <2>2. CASE UNCHANGED late
    BY <1>3, <2>2
  <2>3. CASE At("lp") /\ late' = Append(late, Current)
    <3>1. Current \in Tx
      BY <2>3 DEF At, ProgramInv, TypeOK, Current, Tx, Ops
    <3> QED
      BY <1>3, <2>1, <2>3, <3>1, AppendProperties, LenProperties
  <2> QED
    BY <2>2, <2>3
<1> QED
  BY <1>1, <1>2, <1>3

\* The process ends other than by a graceful stop; what was under way may still
\* have its effect, or have had it, and then it is doubted.
LEMMA EndsSafely ==
    ASSUME TypeOK, ProgramInv, SafetyInv, NEW e \in Exits \ {"stopped"}, Ends(e),
           UNCHANGED <<dbPos, dbHedge, nft, held, unwound>>,
           \/ UNCHANGED <<late, doubt>> /\ (At("lp") \/ At("open") => ~landed)
           \/ UNCHANGED late /\ doubt' = TRUE
           \/ At("lp") /\ late' = Append(late, Current) /\ doubt' = TRUE
    PROVE  SafetyInv'
<1>1. pc' = "down" /\ position' = NoToken /\ hedge' = NoHedge /\ exit' = e
  BY DEF Ends, Returns
<1>2. \A i \in 1 .. Len(late') :
        /\ late'[i].op # "mint" => late'[i].token \in Tokens
        /\ late'[i].op = "mint" => (dbPos # NoToken => nft[dbPos] = "burned")
  BY LateFacts
<1>3. PositionInv'
  BY <1>1, <1>2 DEF SafetyInv, PositionInv, Running, Starting, At, Tokens
<1>4. StoreInv'
  BY <1>1 DEF SafetyInv, StoreInv, StoreMatchesMemory, Running, Starting, At
<1>5. BurnInv' /\ LandedInv'
  BY <1>1, <1>2 DEF BurnInv, LandedInv, At
<1>6. LedgerInv'
  BY <1>1 DEF SafetyInv, LedgerInv, OpenIsRecorded, HedgeIsRecorded, Arriving, At, Tokens, Open
<1> QED
  BY <1>3, <1>4, <1>5, <1>6 DEF SafetyInv

\* An exception leaves the handler of an LP call; what executed unseen is
\* doubted.
LEMMA HandlerRaisesSafely ==
    ASSUME TypeOK, ProgramInv, SafetyInv, At("lp"), HandlerRaises,
           UNCHANGED <<dbPos, dbHedge, nft, held, unwound>>,
           \/ ~landed /\ UNCHANGED <<late, doubt>>
           \/ UNCHANGED late /\ doubt' = TRUE
           \/ late' = Append(late, Current) /\ doubt' = TRUE
    PROVE  SafetyInv'
<1>1. CASE program \in {"rebalance", "collect"}
  <2>1. pc' = "top" /\ UNCHANGED <<position, hedge, exit>> /\ Running /\ ~Starting
    BY <1>1 DEF HandlerRaises, Returns, memory, At, Running, Starting
  <2>2. \A i \in 1 .. Len(late') :
          /\ late'[i].op # "mint" => late'[i].token \in Tokens
          /\ late'[i].op = "mint" =>
               /\ position # NoToken => nft[position] = "burned"
               /\ dbPos # NoToken => nft[dbPos] = "burned"
    BY LateFacts
  <2>3. PositionInv'
    BY <2>1, <2>2 DEF SafetyInv, PositionInv, Running, Starting, At, Tokens
  <2>4. StoreInv'
    BY <2>1 DEF SafetyInv, StoreInv, StoreMatchesMemory, Running, Starting, At
  <2>5. BurnInv' /\ LandedInv'
    BY <2>1, <2>2 DEF BurnInv, LandedInv, At
  <2>6. LedgerInv'
    BY <2>1 DEF SafetyInv, LedgerInv, OpenIsRecorded, HedgeIsRecorded, Arriving, At, Tokens, Open
  <2> QED
    BY <2>3, <2>4, <2>5, <2>6 DEF SafetyInv
<1>2. CASE program \notin {"rebalance", "collect"}
  <2>1. PICK e \in {"startFailed", "stopFailed"} : Ends(e)
    BY <1>2 DEF HandlerRaises
  <2> QED
    BY <2>1, EndsSafely DEF Exits
<1> QED
  BY <1>1, <1>2

\* A failed attempt keeps the invariant, whether it is retried or raised.
LEMMA AttemptRaisesSafely ==
    ASSUME TypeOK, ProgramInv, SafetyInv, At("lp"), AttemptRaises,
           \/ ~landed /\ UNCHANGED <<late, doubt>>
           \/ UNCHANGED late /\ doubt' = TRUE
           \/ late' = Append(late, Current) /\ doubt' = TRUE
    PROVE  SafetyInv'
<1>1. UNCHANGED <<dbPos, dbHedge, nft, held, unwound>>
  BY DEF AttemptRaises, store
<1>2. CASE attempt < MaxAttempts
  <2>1. UNCHANGED <<pc, program, todo, position, hedge, exit>> /\ ~landed'
    BY <1>2 DEF AttemptRaises, memory
  <2>2. \A i \in 1 .. Len(late') :
          /\ late'[i].op # "mint" => late'[i].token \in Tokens
          /\ late'[i].op = "mint" =>
               /\ position # NoToken => nft[position] = "burned"
               /\ dbPos # NoToken => nft[dbPos] = "burned"
    BY <1>1, LateFacts
  <2>3. PositionInv'
    BY <1>1, <2>1, <2>2 DEF SafetyInv, PositionInv, Running, Starting, At, Tokens
  <2>4. StoreInv'
    BY <1>1, <2>1 DEF SafetyInv, StoreInv, StoreMatchesMemory, Running, Starting, At
  <2>5. BurnInv' /\ LandedInv'
    BY <1>1, <2>1, <2>2 DEF SafetyInv, BurnInv, LandedInv, At
  <2>6. LedgerInv'
    BY <1>1, <2>1
       DEF SafetyInv, LedgerInv, OpenIsRecorded, HedgeIsRecorded, Arriving, At, Tokens, Open
  <2> QED
    BY <2>3, <2>4, <2>5, <2>6 DEF SafetyInv
<1>3. CASE ~(attempt < MaxAttempts)
  BY <1>1, <1>3, HandlerRaisesSafely DEF AttemptRaises
<1> QED
  BY <1>2, <1>3

-----------------------------------------------------------------------------
(* Transactions that execute.                                              *)

\* The current transaction executes: the tokens it leaves are those of before,
\* or one more, and only its own is closed.
LEMMA LandFacts ==
    ASSUME TypeOK, ProgramInv, SafetyInv, TransactionLands
    PROVE  /\ late = <<>> /\ Len(nft) \in Nat
           /\ Running
           /\ ~Starting => position \in Tokens /\ position # NoToken
           /\ Starting => todo = <<"mint">>
           /\ Head(todo) = "mint" =>
                Len(nft') = Len(nft) + 1 /\ nft'[Len(nft')] = "live"
           /\ Head(todo) # "mint" => Len(nft') = Len(nft)
           /\ \A j \in Tokens : nft[j] = "burned" => nft'[j] = "burned"
           /\ Head(todo) # "burn" => \A j \in Tokens : nft'[j] = "burned" => nft[j] = "burned"
           /\ Head(todo) = "burn" =>
                nft'[position] = "burned" /\ \A j \in Tokens \ {position} : nft'[j] = nft[j]
<1>1. pc = "lp" /\ late = <<>>
  BY DEF TransactionLands, At
<1>2. Starting => todo = <<"mint">>
  BY DEF ProgramInv, Starting, At
<1>3. ~Starting => position \in Tokens
  BY <1>1 DEF SafetyInv, PositionInv, Running
<1>4. position \in Tokens => position # NoToken
  BY LenProperties DEF TypeOK, Tokens, NoToken
<1>5. Head(todo) \in Ops /\ (Head(todo) # "mint" => position \in Tokens)
  BY <1>1, <1>2, <1>3 DEF ProgramInv, Ops
<1>6. Executes(Head(todo), position, funded) /\ nft' = Result(Head(todo), position)
  BY DEF TransactionLands
<1> QED
  BY <1>1, <1>2, <1>3, <1>4, <1>5, <1>6, Effect DEF Running

\* A transaction executes, its call still awaiting the receipt.
LEMMA TransactionLandsSafely ==
    ASSUME TypeOK, ProgramInv, SafetyInv, TransactionLands
    PROVE  SafetyInv'
<1>1. /\ UNCHANGED <<pc, program, todo, position, hedge, dbPos, dbHedge, late, held, exit,
                     doubt, unwound>>
      /\ pc = "lp" /\ ~landed
  BY DEF TransactionLands, At, memory, store, ghosts
<1>2. /\ late = <<>> /\ Len(nft) \in Nat /\ Running
      /\ Len(nft') = Len(nft) \/ (Len(nft') = Len(nft) + 1 /\ Head(todo) = "mint")
  BY LandFacts
<1>3. PositionInv'
  BY <1>1, <1>2 DEF SafetyInv, PositionInv, Running, Starting, At, Tokens
<1>4. StoreInv'
  BY <1>1 DEF SafetyInv, StoreInv, StoreMatchesMemory, Running, Starting, At
<1>5. BurnInv'
  <2>1. program = "rebalance" => position \in Tokens
    BY LandFacts DEF Starting
  <2> QED
    BY <1>1, <1>2, <2>1, LandFacts DEF SafetyInv, BurnInv, At
<1>6. LandedInv'
  <2>1. Head(todo) = "mint" => Len(nft)' \in Tokens' /\ nft'[Len(nft)'] = "live"
    BY <1>2, LandFacts DEF Tokens
  <2> QED
    BY <1>1, <1>2, <2>1, LandFacts DEF LandedInv, At
<1>7. OpenIsRecorded'
  <2> SUFFICES ASSUME ~doubt, ~unwound, NEW k \in Tokens', Open(k)'
               PROVE  k = dbPos \/ Arriving(k)'
    BY <1>1 DEF OpenIsRecorded
  <2>1. CASE k \in Tokens
    <3>1. Open(k)
      BY <2>1, LandFacts DEF Open
    <3>2. ~Arriving(k)
      BY <1>1 DEF Arriving
    <3> QED
      BY <2>1, <3>1, <3>2 DEF SafetyInv, LedgerInv, OpenIsRecorded
  <2>2. CASE k \notin Tokens
    <3>1. k = Len(nft') /\ Head(todo) = "mint"
      BY <1>2, <2>2 DEF Tokens
    <3>2. landed' = TRUE
      BY DEF TransactionLands
    <3> QED
      BY <1>1, <3>1, <3>2 DEF Arriving, At
  <2> QED
    BY <2>1, <2>2
<1>8. LedgerInv'
  BY <1>1, <1>7 DEF SafetyInv, LedgerInv, HedgeIsRecorded, At
<1> QED
  BY <1>3, <1>4, <1>5, <1>6, <1>8 DEF SafetyInv

\* What a call that has more than one transaction left is about.
LEMMA MoreFacts ==
    ASSUME ProgramInv, At("lp"), Len(todo) > 1
    PROVE  /\ program \in {"rebalance", "stop"} /\ ~Starting
           /\ Head(todo) \in {"decrease", "collect", "burn"}
           /\ Head(todo) = "burn" => program = "rebalance"
           /\ Tail(todo) = <<"mint">> => Head(todo) = "burn"
           /\ Head(todo) = "decrease" => Head(Tail(todo)) = "collect"
           /\ Head(todo) = "collect" => Head(Tail(todo)) = "burn"
           /\ Head(todo) = "burn" => Head(Tail(todo)) = "mint"
<1>1. Len(todo) # 1
  BY NotLast, Zenon
<1>2. todo # <<"mint">> /\ todo # <<"burn">> /\ todo # <<"collect">>
  BY <1>1
<1>3. \/ /\ program = "stop"
         /\ todo \in {<<"decrease", "collect", "burn">>, <<"collect", "burn">>}
      \/ /\ program = "rebalance"
         /\ todo \in {<<"decrease", "collect", "burn", "mint">>, <<"collect", "burn", "mint">>,
                      <<"burn", "mint">>}
  BY <1>2, Zenon DEF ProgramInv, At
<1>4. program \in {"rebalance", "stop"} /\ ~Starting
  BY <1>3 DEF Starting
<1>5. \/ /\ Head(todo) = "decrease" /\ Head(Tail(todo)) = "collect" /\ Tail(todo) # <<"mint">>
      \/ /\ Head(todo) = "collect" /\ Head(Tail(todo)) = "burn" /\ Tail(todo) # <<"mint">>
      \/ /\ Head(todo) = "burn" /\ Head(Tail(todo)) = "mint" /\ program = "rebalance"
  <2>1. Head(<<"burn">>) = "burn" /\ Head(<<"mint">>) = "mint"
    OBVIOUS
  <2>2. CASE todo \in {<<"decrease", "collect", "burn">>, <<"decrease", "collect", "burn", "mint">>}
    BY <2>2, Remainders, Zenon
  <2>3. CASE todo \in {<<"collect", "burn">>, <<"collect", "burn", "mint">>}
    BY <2>1, <2>3, Remainders, Zenon
  <2>4. CASE todo = <<"burn", "mint">>
    <3>1. program = "rebalance"
      BY <1>3, <2>4, Remainders, Zenon
    <3> QED
      BY <2>1, <2>4, <3>1, Remainders, Zenon
  <2> QED
    BY <1>3, <2>2, <2>3, <2>4, Zenon
<1> QED
  BY <1>4, <1>5

\* And one at its last: a mint for the calls that open a position, else what is
\* left to do to the known one.
LEMMA LastFacts ==
    ASSUME ProgramInv, At("lp"), Len(todo) = 1
    PROVE  /\ program \in {"start", "rebalance"} => todo = <<"mint">>
           /\ program = "collect" => todo = <<"collect">>
           /\ program = "stop" => todo = <<"burn">>
<1>1. pc = "lp"
  BY DEF At
<1>2. \A s \in {<<"decrease", "collect", "burn", "mint">>, <<"collect", "burn", "mint">>,
                <<"burn", "mint">>, <<"decrease", "collect", "burn">>, <<"collect", "burn">>} :
        Len(s) # 1
  BY Remainders
<1>3. todo \notin {<<"decrease", "collect", "burn", "mint">>, <<"collect", "burn", "mint">>,
                   <<"burn", "mint">>, <<"decrease", "collect", "burn">>, <<"collect", "burn">>}
  BY <1>2, Zenon
<1> QED
  BY <1>1, <1>3, Zenon DEF ProgramInv

\* A call goes on to its next transaction.
LEMMA ContinuesSafely ==
    ASSUME TypeOK, ProgramInv, SafetyInv, TransactionConfirmed \/ CollectUnnoticed
    PROVE  SafetyInv'
<1>1. /\ UNCHANGED <<pc, program, position, hedge, dbPos, dbHedge, nft, late, held, exit, unwound>>
      /\ At("lp") /\ landed /\ todo' = Tail(todo) /\ Len(todo) > 1 /\ ~landed'
      /\ UNCHANGED doubt \/ doubt' = TRUE
  BY DEF TransactionConfirmed, CollectUnnoticed, Continues, Confirmed, memory, store, outside
<1>2. ~Starting /\ Head(todo) # "mint" /\ (todo' = <<"mint">> => Head(todo) = "burn")
  BY <1>1, MoreFacts
<1>3. PositionInv'
  BY <1>1, <1>2 DEF SafetyInv, PositionInv, Running, Starting, At, Tokens
<1>4. StoreInv'
  BY <1>1 DEF SafetyInv, StoreInv, StoreMatchesMemory, Running, Starting, At
<1>5. BurnInv' /\ LandedInv'
  BY <1>1, <1>2 DEF SafetyInv, BurnInv, LandedInv, At
<1>6. LedgerInv'
  BY <1>1, <1>2
     DEF SafetyInv, LedgerInv, OpenIsRecorded, HedgeIsRecorded, Arriving, At, Tokens, Open
<1> QED
  BY <1>3, <1>4, <1>5, <1>6 DEF SafetyInv

\* A mint returns: the position before it is burned, or there was none.
LEMMA MintReturnsSafely ==
    ASSUME TypeOK, ProgramInv, SafetyInv, StartReturns \/ RebalanceReturns
    PROVE  SafetyInv'
<1>1. /\ At("lp") /\ landed /\ pc' \in {"top", "fees"} /\ program' = "none"
      /\ position' = Len(nft) /\ dbPos' = Len(nft) /\ program \in {"start", "rebalance"}
      /\ UNCHANGED <<hedge, dbHedge, nft, late, held, exit, doubt, unwound>> /\ Len(todo) = 1
  BY DEF StartReturns, RebalanceReturns, MintReturns, Completes, Confirmed, SavePosition,
     Returns, outside, ghosts
<1>2. todo = <<"mint">> /\ pc = "lp" /\ Head(todo) = "mint"
  BY <1>1, LastFacts DEF At
<1>3. Len(nft) \in Tokens /\ Len(nft) # NoToken /\ late = <<>> /\ Running
  BY <1>1, <1>2 DEF SafetyInv, LandedInv, Running, Tokens, NoToken
<1>4. PositionInv'
  BY <1>1, <1>3 DEF SafetyInv, PositionInv, Running, Starting, At, Tokens
<1>5. StoreInv'
  BY <1>1, <1>3 DEF SafetyInv, StoreInv, StoreMatchesMemory, Running, Starting, At
<1>6. BurnInv' /\ LandedInv'
  BY <1>1, <1>3 DEF BurnInv, LandedInv, At
<1>7. OpenIsRecorded'
  <2> SUFFICES ASSUME ~doubt, ~unwound, NEW k \in Tokens, Open(k)
               PROVE  k = Len(nft)
    BY <1>1 DEF OpenIsRecorded, Open, Tokens
  <2>1. k = dbPos \/ Arriving(k)
    BY DEF SafetyInv, LedgerInv, OpenIsRecorded
  <2>2. CASE Arriving(k)
    BY <2>2 DEF Arriving
  <2>3. CASE k = dbPos
    <3>1. ~Starting
      BY <1>3, <2>3, LenProperties DEF SafetyInv, PositionInv, Tokens, NoToken, TypeOK
    <3>2. dbPos = position /\ nft[position] = "burned"
      BY <1>1, <1>2, <1>3, <3>1 DEF SafetyInv, StoreInv, BurnInv, Starting
    <3> QED
      BY <2>3, <3>2 DEF Open
  <2> QED
    BY <2>1, <2>2, <2>3
<1>8. LedgerInv'
  BY <1>1, <1>2, <1>3, <1>7 DEF SafetyInv, LedgerInv, HedgeIsRecorded, At
<1> QED
  BY <1>4, <1>5, <1>6, <1>8 DEF SafetyInv

\* A collect returns and saves the position.
LEMMA CollectReturnsSafely ==
    ASSUME TypeOK, ProgramInv, SafetyInv, CollectReturns
    PROVE  SafetyInv'
<1>1. /\ At("lp") /\ landed /\ pc' = "top" /\ program = "collect" /\ dbPos' = position
      /\ Len(todo) = 1
      /\ UNCHANGED <<position, hedge, dbHedge, nft, late, held, exit, doubt, unwound>>
  BY DEF CollectReturns, Completes, Confirmed, SavePosition, Returns, memory, outside, ghosts
<1>2. Head(todo) = "collect" /\ pc = "lp" /\ ~Starting /\ Running
  BY <1>1, LastFacts DEF At, Starting, Running
<1>3. late = <<>> /\ position \in Tokens /\ position # NoToken
  BY <1>1, <1>2, LenProperties DEF SafetyInv, LandedInv, PositionInv, Tokens, NoToken, TypeOK
<1>4. PositionInv'
  BY <1>1, <1>3 DEF PositionInv, Running, Starting, At, Tokens
<1>5. StoreInv'
  BY <1>1, <1>2, <1>3 DEF SafetyInv, StoreInv, StoreMatchesMemory, Running, Starting, At
<1>6. BurnInv' /\ LandedInv'
  BY <1>1, <1>3 DEF BurnInv, LandedInv, At
<1>7. LedgerInv'
  BY <1>1, <1>2, <1>3
     DEF SafetyInv, StoreInv, LedgerInv, OpenIsRecorded, HedgeIsRecorded, Arriving, At, Tokens,
         Open
<1> QED
  BY <1>4, <1>5, <1>6, <1>7 DEF SafetyInv

\* The burn of a graceful stop returns: the hedge is next, or the rows.
LEMMA CloseReturnsSafely ==
    ASSUME TypeOK, ProgramInv, SafetyInv, CloseReturns
    PROVE  SafetyInv'
<1>1. /\ At("lp") /\ landed /\ program = "stop" /\ Len(todo) = 1
      /\ UNCHANGED <<nft, late, held>>
  BY DEF CloseReturns, Completes, Confirmed, outside
<1>2. Head(todo) = "burn" /\ pc = "lp" /\ ~Starting /\ Running
  BY <1>1, LastFacts DEF At, Starting, Running
<1>3. late = <<>> /\ nft[position] = "burned" /\ position \in Tokens
  BY <1>1, <1>2 DEF SafetyInv, LandedInv, PositionInv
<1>4. ~doubt /\ ~unwound => \A k \in Tokens : nft[k] = "burned"
  BY <1>2, <1>3 DEF SafetyInv, StoreInv, LedgerInv, OpenIsRecorded, Arriving, Open
<1>5. CASE hedge = NoHedge
  <2>1. /\ pc' = "down" /\ exit' = "stopped" /\ position' = NoToken /\ hedge' = NoHedge
        /\ dbPos' = NoToken /\ dbHedge' = NoHedge /\ UNCHANGED <<doubt, unwound>>
    BY <1>5 DEF CloseReturns, DeletePosition, Ends, Returns
  <2>2. PositionInv' /\ StoreInv' /\ BurnInv' /\ LandedInv'
    BY <1>1, <1>3, <2>1
       DEF PositionInv, StoreInv, StoreMatchesMemory, BurnInv, LandedInv, Running, Starting, At
  <2>3. ~doubt /\ ~unwound => ~held
    BY <1>2, <1>5 DEF SafetyInv, StoreInv, LedgerInv, HedgeIsRecorded, At
  <2>4. LedgerInv'
    BY <1>1, <1>3, <1>4, <2>1, <2>3
       DEF LedgerInv, OpenIsRecorded, HedgeIsRecorded, At, Tokens, Open
  <2> QED
    BY <2>2, <2>4 DEF SafetyInv
<1>6. CASE hedge # NoHedge
  <2>1. /\ pc' = "stopHedge" /\ ~landed'
        /\ UNCHANGED <<position, hedge, dbPos, dbHedge, exit, doubt, unwound>>
    BY <1>6 DEF CloseReturns, Returns, memory, store, ghosts
  <2>2. PositionInv'
    BY <1>1, <1>3, <2>1 DEF SafetyInv, PositionInv, Running, Starting, At, Tokens
  <2>3. StoreInv' /\ BurnInv' /\ LandedInv'
    BY <1>1, <1>2, <1>3, <2>1
       DEF SafetyInv, StoreInv, StoreMatchesMemory, BurnInv, LandedInv, Running, Starting, At
  <2>4. LedgerInv'
    BY <1>1, <1>2, <1>3, <1>4, <2>1
       DEF SafetyInv, LedgerInv, OpenIsRecorded, HedgeIsRecorded, At, Tokens, Open
  <2> QED
    BY <2>2, <2>3, <2>4 DEF SafetyInv
<1> QED
  BY <1>5, <1>6

\* A transaction that was lost executes, or does not.
LEMMA LateSafely ==
    ASSUME TypeOK, ProgramInv, SafetyInv, LateTransaction
    PROVE  SafetyInv'
<1>1. /\ late \in Seq(Tx) /\ late # <<>> /\ late' = Tail(late)
      /\ UNCHANGED <<pc, program, todo, landed, position, hedge, dbPos, dbHedge, held, exit,
                     doubt, unwound>>
  BY DEF LateTransaction, TypeOK, control, memory, store, ghosts
<1>2. doubt
  BY <1>1 DEF SafetyInv, LedgerInv
<1>3. \A i \in 1 .. Len(late') : \E j \in 1 .. Len(late) : late'[i] = late[j]
  <2>1. /\ Len(Tail(late)) = Len(late) - 1 /\ Len(late) \in Nat
        /\ \A i \in 1 .. Len(Tail(late)) : Tail(late)[i] = late[i + 1]
    BY <1>1, HeadTailProperties, LenProperties
  <2> SUFFICES ASSUME NEW i \in 1 .. Len(late')
               PROVE  i + 1 \in 1 .. Len(late) /\ late'[i] = late[i + 1]
    OBVIOUS
  <2> QED
    BY <1>1, <2>1
<1>4. Head(late) \in Tx /\ \E j \in 1 .. Len(late) : Head(late) = late[j]
  <2>1. Head(late) = late[1] /\ 1 \in 1 .. Len(late)
    BY <1>1, LenProperties, EmptySeq
  <2> QED
    BY <1>1, <2>1, ElementOfSeq
<1>5. /\ Len(nft) \in Nat /\ Len(nft') >= Len(nft)
      /\ \A j \in Tokens : nft[j] = "burned" => nft'[j] = "burned"
  <2>1. CASE UNCHANGED nft
    BY <2>1, LenProperties DEF TypeOK
  <2>2. CASE /\ Executes(Head(late).op, Head(late).token, Head(late).funded)
             /\ nft' = Result(Head(late).op, Head(late).token)
    <3>1. Head(late).op \in Ops /\ (Head(late).op # "mint" => Head(late).token \in Tokens)
      BY <1>4 DEF SafetyInv, PositionInv, Tx
    <3> QED
      BY <2>2, <3>1, Effect
  <2> QED
    BY <2>1, <2>2 DEF LateTransaction
<1>6. /\ position # NoToken => position \in Tokens
      /\ dbPos # NoToken => dbPos \in Tokens
  BY DEF SafetyInv, PositionInv
<1>7. PositionInv'
  BY <1>1, <1>3, <1>5 DEF SafetyInv, PositionInv, Running, Starting, At, Tokens
<1>8. StoreInv'
  BY <1>1 DEF SafetyInv, StoreInv, StoreMatchesMemory, Running, Starting, At
<1>9. BurnInv'
  <2>1. At("lp") /\ program = "rebalance" => position \in Tokens
    BY DEF SafetyInv, PositionInv, Running, Starting, At
  <2>2. At("stopHedge") => position \in Tokens
    BY DEF SafetyInv, PositionInv, Running, Starting, At
  <2> QED
    BY <1>1, <1>3, <1>5, <1>6, <2>1, <2>2 DEF SafetyInv, BurnInv, At
<1>10. LandedInv'
  BY <1>1 DEF SafetyInv, LandedInv, At
<1>11. LedgerInv'
  BY <1>1, <1>2 DEF SafetyInv, LedgerInv, OpenIsRecorded, HedgeIsRecorded, At
<1> QED
  BY <1>7, <1>8, <1>9, <1>10, <1>11 DEF SafetyInv

-----------------------------------------------------------------------------
(* Orders.                                                                 *)

\* An order has its effect, its handler still awaiting the answer.
LEMMA OrderLandsSafely ==
    ASSUME SafetyInv, OrderLands
    PROVE  SafetyInv'
<1>1. /\ UNCHANGED <<pc, program, todo, position, hedge, dbPos, dbHedge, nft, late, exit,
                     doubt, unwound>>
      /\ pc \in {"open", "adjust", "unhedge", "stopHedge"} /\ landed' = TRUE
      /\ pc \in {"unhedge", "stopHedge"} => ~held'
  BY DEF OrderLands, Ordering, memory, store, ghosts
<1>2. PositionInv' /\ StoreInv'
  BY <1>1 DEF SafetyInv, PositionInv, StoreInv, StoreMatchesMemory, Running, Starting, At, Tokens
<1>3. BurnInv' /\ LandedInv'
  BY <1>1 DEF SafetyInv, BurnInv, LandedInv, At
<1>4. HedgeIsRecorded'
  BY <1>1 DEF SafetyInv, PositionInv, StoreInv, HedgeIsRecorded, Running, At
<1>5. LedgerInv'
  BY <1>1, <1>4 DEF SafetyInv, LedgerInv, OpenIsRecorded, Arriving, At, Tokens, Open
<1> QED
  BY <1>2, <1>3, <1>5 DEF SafetyInv

\* An order at the perp venue touches neither the NFTs nor the transactions.
LEMMA HedgeOrderReturnsSafely ==
    ASSUME SafetyInv, HedgeOrderReturns
    PROVE  SafetyInv'
<1>1. /\ pc \in {"open", "adjust"} /\ pc' \in {"unhedge", "rebalance"} /\ program' = "none"
      /\ hedge' = dbHedge' /\ dbHedge' \in Sizes /\ ~landed'
      /\ UNCHANGED <<position, dbPos, nft, late, held, exit, unwound>>
      /\ UNCHANGED doubt \/ doubt' = TRUE
  BY DEF HedgeOrderReturns, AfterHedge, SaveHedge, Returns, OrderAnswered, outside
<1>2. dbHedge' # NoHedge
  BY <1>1 DEF Sizes, NoHedge
<1>3. PositionInv'
  BY <1>1 DEF SafetyInv, PositionInv, Running, Starting, At, Tokens
<1>4. StoreInv'
  BY <1>1 DEF SafetyInv, PositionInv, StoreInv, StoreMatchesMemory, Running, Starting, At,
     Tokens, NoToken
<1>5. BurnInv' /\ LandedInv'
  BY <1>1 DEF SafetyInv, BurnInv, LandedInv, At
<1>6. LedgerInv'
  BY <1>1, <1>2
     DEF SafetyInv, LedgerInv, OpenIsRecorded, HedgeIsRecorded, Arriving, At, Tokens, Open
<1> QED
  BY <1>3, <1>4, <1>5, <1>6 DEF SafetyInv

\* Removing the hedge deletes both rows and says so in unwound.
LEMMA UnhedgeReturnsSafely ==
    ASSUME SafetyInv, UnhedgeReturns
    PROVE  SafetyInv'
<1>1. /\ pc = "unhedge" /\ pc' = "rebalance" /\ program' = "none" /\ unwound' = TRUE
      /\ hedge' = NoHedge /\ dbPos' = NoToken /\ dbHedge' = NoHedge
      /\ UNCHANGED <<position, nft, late, exit>> /\ (doubt => doubt')
  BY DEF UnhedgeReturns, At, Returns, DeletePosition, OrderAnswered, outside
<1>2. PositionInv' /\ StoreInv'
  BY <1>1 DEF SafetyInv, PositionInv, StoreInv, StoreMatchesMemory, Running, Starting, At, Tokens
<1>3. BurnInv' /\ LandedInv' /\ LedgerInv'
  BY <1>1
     DEF SafetyInv, BurnInv, LandedInv, LedgerInv, OpenIsRecorded, HedgeIsRecorded, At
<1> QED
  BY <1>2, <1>3 DEF SafetyInv

\* An order that raises leaves rows and memory as they were.
LEMMA OrderRaisesSafely ==
    ASSUME SafetyInv, OrderRaises
    PROVE  SafetyInv'
<1>1. /\ pc \in {"open", "adjust", "unhedge"} /\ pc' \in {pc, "top"} /\ ~landed'
      /\ UNCHANGED <<position, hedge, dbPos, dbHedge, nft, late, held, exit, unwound>>
      /\ (UNCHANGED doubt /\ ~landed) \/ doubt' = TRUE
  BY DEF OrderRaises, OrderUnanswered, Returns, store, outside
<1>2. PositionInv' /\ StoreInv'
  BY <1>1 DEF SafetyInv, PositionInv, StoreInv, StoreMatchesMemory, Running, Starting, At, Tokens
<1>3. BurnInv' /\ LandedInv'
  BY <1>1 DEF SafetyInv, BurnInv, LandedInv, At
<1>4. LedgerInv'
  BY <1>1
     DEF SafetyInv, LedgerInv, OpenIsRecorded, HedgeIsRecorded, Arriving, At, Tokens, Open
<1> QED
  BY <1>2, <1>3, <1>4 DEF SafetyInv

\* The last order of a graceful stop returns.
LEMMA StopHedgeReturnsSafely ==
    ASSUME TypeOK, SafetyInv, StopHedgeReturns
    PROVE  SafetyInv'
<1>1. /\ pc = "stopHedge" /\ pc' = "down" /\ exit' = "stopped" /\ position' = NoToken
      /\ hedge' = NoHedge /\ dbPos' = NoToken /\ dbHedge' = NoHedge
      /\ UNCHANGED <<nft, late, held, unwound>>
      /\ (landed /\ UNCHANGED doubt) \/ doubt' = TRUE
  BY DEF StopHedgeReturns, At, Ends, Returns, DeletePosition, OrderAnswered, outside
<1>2. PositionInv' /\ StoreInv' /\ BurnInv' /\ LandedInv'
  BY <1>1 DEF SafetyInv, PositionInv, StoreInv, StoreMatchesMemory, BurnInv, LandedInv, Running,
     Starting, At, Tokens
<1>3. ~doubt /\ ~unwound => \A k \in Tokens : ~Open(k)
  BY <1>1 DEF SafetyInv, StoreInv, BurnInv, LedgerInv, OpenIsRecorded, Arriving, Running,
     Starting, At, Open
<1>4. landed => ~held
  BY <1>1 DEF SafetyInv, LandedInv
<1>5. LedgerInv'
  BY <1>1, <1>3, <1>4
     DEF SafetyInv, LedgerInv, OpenIsRecorded, HedgeIsRecorded, At, Tokens, Open
<1> QED
  BY <1>2, <1>5 DEF SafetyInv

-----------------------------------------------------------------------------
(* Starts.                                                                 *)

\* A start restores what the rows say, or mints when there is none.
LEMMA BootsSafely ==
    ASSUME TypeOK, SafetyInv, Restores \/ OpensFresh \/ Restart
    PROVE  SafetyInv'
<1>1. /\ UNCHANGED <<dbPos, dbHedge, nft, late, held, exit, doubt, unwound>>
      /\ pc \in {"boot", "down"}
  BY DEF Restores, OpensFresh, Restart, At, store, outside, ghosts
<1>2. CASE Restores
  <2>1. /\ pc = "boot" /\ dbPos # NoToken /\ position' = dbPos /\ hedge' = dbHedge
        /\ pc' = "top"
    BY <1>2 DEF Restores, At, Goes
  <2>2. PositionInv' /\ StoreInv'
    BY <1>1, <2>1
       DEF SafetyInv, PositionInv, StoreInv, StoreMatchesMemory, Running, Starting, At, Tokens
  <2>3. BurnInv' /\ LandedInv'
    BY <1>1, <2>1 DEF SafetyInv, BurnInv, LandedInv, At
  <2>4. LedgerInv'
    BY <1>1, <2>1
       DEF SafetyInv, LedgerInv, OpenIsRecorded, HedgeIsRecorded, Arriving, At, Tokens, Open
  <2> QED
    BY <2>2, <2>3, <2>4 DEF SafetyInv
<1>3. CASE OpensFresh
  <2>1. /\ pc = "boot" /\ dbPos = NoToken /\ pc' = "lp" /\ program' = "start"
        /\ UNCHANGED <<position, hedge>> /\ ~landed'
    BY <1>3 DEF OpensFresh, At, Begins, memory
  <2>2. PositionInv' /\ StoreInv'
    BY <1>1, <2>1
       DEF SafetyInv, PositionInv, StoreInv, StoreMatchesMemory, Running, Starting, At, Tokens
  <2>3. BurnInv' /\ LandedInv'
    BY <1>1, <2>1 DEF SafetyInv, BurnInv, LandedInv, At
  <2>4. LedgerInv'
    BY <1>1, <2>1
       DEF SafetyInv, LedgerInv, OpenIsRecorded, HedgeIsRecorded, Arriving, At, Tokens, Open
  <2> QED
    BY <2>2, <2>3, <2>4 DEF SafetyInv
<1>4. CASE Restart
  <2>1. pc = "down" /\ pc' = "boot" /\ exit # "stopped" /\ UNCHANGED <<position, hedge>>
    BY <1>4 DEF Restart, At, Goes, memory
  <2>2. PositionInv' /\ StoreInv'
    BY <1>1, <2>1
       DEF SafetyInv, PositionInv, StoreInv, StoreMatchesMemory, Running, Starting, At, Tokens
  <2>3. BurnInv' /\ LandedInv'
    BY <1>1, <2>1 DEF SafetyInv, BurnInv, LandedInv, At
  <2>4. LedgerInv'
    BY <1>1, <2>1
       DEF SafetyInv, LedgerInv, OpenIsRecorded, HedgeIsRecorded, Arriving, At, Tokens, Open
  <2> QED
    BY <2>2, <2>3, <2>4 DEF SafetyInv
<1> QED
  BY <1>2, <1>3, <1>4

-----------------------------------------------------------------------------
(* The invariant and what follows from it.                                 *)

\* Every step keeps the invariant.
LEMMA NextSafety == TypeOK /\ ProgramInv /\ SafetyInv /\ [Next]_vars => SafetyInv'
<1> SUFFICES ASSUME TypeOK, ProgramInv, SafetyInv, [Next]_vars PROVE SafetyInv'
  OBVIOUS
<1>1. CASE TickStarts \/ TickFails \/ Checks \/ RedisAnswers \/ Trips
  BY <1>1, QuietStep
     DEF TickStarts, TickFails, Checks, RedisAnswers, Trips, Fault, At, Goes, Places, memory,
         store, outside, ghosts
<1>2. CASE HedgeStays \/ HedgeActs \/ HedgeTooSmall \/ KeepsRange \/ TickEnds
  BY <1>2, QuietStep
     DEF HedgeStays, HedgeActs, HedgeTooSmall, KeepsRange, TickEnds, At, Goes, Places, memory,
         store, outside, ghosts
<1>3. CASE Stops \/ Rebalances \/ CollectsFees
  <2>1. PICK p \in {"stop", "rebalance", "collect"} : Begins(p)
    BY <1>3 DEF Stops, Rebalances, CollectsFees
  <2>2. todo' # <<"mint">> /\ program' # "start" /\ pc' = "lp" /\ ~landed'
    BY <2>1, ProgramTypes, Remainders DEF Begins
  <2>3. /\ pc \in {"top", "rebalance", "fees"}
        /\ UNCHANGED <<position, hedge, dbPos, dbHedge, nft, late, held, exit, doubt, unwound>>
    BY <1>3 DEF Stops, Rebalances, CollectsFees, At, memory, store, outside, ghosts
  <2> QED
    BY <2>2, <2>3, QuietStep DEF Places
<1>4. CASE FetchAtStartFails \/ Halts
  BY <1>4, EndsSafely DEF FetchAtStartFails, Halts, At, Exits, store, outside
<1>5. CASE Restores \/ OpensFresh \/ Restart
  BY <1>5, BootsSafely
<1>6. CASE HedgeOrderReturns
  BY <1>6, HedgeOrderReturnsSafely
<1>7. CASE UnhedgeReturns
  BY <1>7, UnhedgeReturnsSafely
<1>8. CASE OrderRaises
  BY <1>8, OrderRaisesSafely
<1>9. CASE TransactionConfirmed \/ CollectUnnoticed
  BY <1>9, ContinuesSafely
<1>10. CASE StartReturns \/ RebalanceReturns
  BY <1>10, MintReturnsSafely
<1>11. CASE CollectReturns
  BY <1>11, CollectReturnsSafely
<1>12. CASE CloseReturns
  BY <1>12, CloseReturnsSafely
<1>13. CASE DeadlineFails
  BY <1>13, HandlerRaisesSafely DEF DeadlineFails, store, outside
<1>14. CASE ReceiptUnparsed
  BY <1>14, HandlerRaisesSafely DEF ReceiptUnparsed, Confirmed, store, outside
<1>15. CASE TransactionReverts \/ TransactionFails
  BY <1>15, AttemptRaisesSafely DEF TransactionReverts, TransactionFails
<1>16. CASE TransactionLost
  BY <1>16, AttemptRaisesSafely DEF TransactionLost
<1>17. CASE StopHedgeReturns
  BY <1>17, StopHedgeReturnsSafely
<1>18. CASE StopHedgeRaises
  BY <1>18, EndsSafely DEF StopHedgeRaises, OrderUnanswered, At, Exits, store, outside
<1>19. CASE LateTransaction
  BY <1>19, LateSafely
<1>20. CASE RequestStop
  BY <1>20 DEF RequestStop, control, store, outside, ghosts, SafetyInv, PositionInv, StoreInv,
     StoreMatchesMemory, BurnInv, LandedInv, LedgerInv, OpenIsRecorded, HedgeIsRecorded,
     Arriving, Running, Starting, At, Tokens, Open
<1>21. CASE Crash
  <2>1. Ends("crashed") /\ UNCHANGED <<dbPos, dbHedge, nft, held, unwound>>
    BY <1>21 DEF Crash, store
  <2>2. CASE UNCHANGED late /\ doubt' = (doubt \/ landed)
    <3>1. (UNCHANGED doubt /\ ~landed) \/ doubt' = TRUE
      BY <2>2 DEF TypeOK
    <3> QED
      BY <2>1, <2>2, <3>1, EndsSafely DEF Exits
  <2>3. CASE At("lp") /\ late' = Append(late, Current) /\ doubt' = TRUE
    BY <2>1, <2>3, EndsSafely DEF Exits
  <2> QED
    BY <1>21, <2>2, <2>3 DEF Crash
<1>22. CASE Lands
  BY <1>22, TransactionLandsSafely, OrderLandsSafely DEF Lands
<1>23. CASE UNCHANGED vars
  BY <1>23 DEF vars, SafetyInv, PositionInv, StoreInv, StoreMatchesMemory, BurnInv, LandedInv,
     LedgerInv, OpenIsRecorded, HedgeIsRecorded, Arriving, Running, Starting, At, Tokens, Open
<1> QED
  BY <1>1, <1>2, <1>3, <1>4, <1>5, <1>6, <1>7, <1>8, <1>9, <1>10, <1>11, <1>12, <1>13, <1>14,
     <1>15, <1>16, <1>17, <1>18, <1>19, <1>20, <1>21, <1>22, <1>23 DEF Next, Engine

\* The inductive invariant.
THEOREM Safety == Spec => []SafetyInv
  BY InitSafety, NextSafety, TypeAndProgram, PTL DEF Spec

\* At every await the rows a restart would restore are what the engine believes.
THEOREM StoreIsCurrent == Spec => []StoreMatchesMemory
<1>1. SafetyInv => StoreMatchesMemory
  BY DEF SafetyInv, StoreInv
<1> QED
  BY <1>1, Safety, PTL

\* Without doubt and before a hedge is removed, what the venue holds has its row,
\* but for the await of the answer that opens it.
THEOREM HedgesAreRecorded == Spec => []HedgeIsRecorded
<1>1. SafetyInv => HedgeIsRecorded
  BY DEF SafetyInv, LedgerInv
<1> QED
  BY <1>1, Safety, PTL

\* A graceful stop that completes has cleaned up.
THEOREM StopsAreComplete == Spec => []StopIsComplete
<1>1. TypeOK /\ SafetyInv => StopIsComplete
  <2> SUFFICES ASSUME TypeOK, SafetyInv, At("down"), exit = "stopped"
               PROVE  /\ dbPos = NoToken /\ dbHedge = NoHedge
                      /\ ~doubt /\ ~unwound => ~held /\ \A k \in Tokens : ~Open(k)
    BY DEF StopIsComplete
  <2>1. dbPos = NoToken /\ dbHedge = NoHedge
    BY DEF SafetyInv, LedgerInv
  <2>2. ~doubt /\ ~unwound => ~held
    BY <2>1 DEF SafetyInv, LedgerInv, HedgeIsRecorded, At
  <2>3. NoToken \notin Tokens
    BY LenProperties DEF TypeOK, Tokens, NoToken
  <2>4. ~doubt /\ ~unwound => \A k \in Tokens : ~Open(k)
    BY <2>1, <2>3 DEF SafetyInv, LedgerInv, OpenIsRecorded, Arriving, At
  <2> QED
    BY <2>1, <2>2, <2>4
<1> QED
  BY <1>1, Safety, Typing, PTL

\* A sequence longer than another has another length.
LEMMA Longer == ASSUME NEW s, NEW t, Len(t) \in Nat, Len(s) > Len(t) PROVE Len(s) # Len(t)
  OBVIOUS

\* Only transactions that execute change the NFTs.
LEMMA WhatExecutes ==
    ASSUME Next, ~TransactionLands, ~LateTransaction
    PROVE  UNCHANGED nft
  BY DEF Next, Engine, Lands, Restores, OpensFresh, FetchAtStartFails, Halts, Stops, TickStarts,
     TickFails, Checks, RedisAnswers, Trips, HedgeStays, HedgeActs, HedgeTooSmall,
     HedgeOrderReturns, UnhedgeReturns, OrderRaises, KeepsRange, Rebalances, CollectsFees,
     TickEnds, TransactionConfirmed, CollectUnnoticed, Continues, StartReturns,
     RebalanceReturns, MintReturns, CollectReturns, CloseReturns, DeadlineFails,
     ReceiptUnparsed, TransactionReverts, TransactionFails, TransactionLost, AttemptRaises,
     StopHedgeReturns, StopHedgeRaises, OrderLands, RequestStop, Crash, Restart, outside

\* Liquidity is added only after the known position is burned.
THEOREM MintsFollowBurns == Spec => MintOnlyAfterBurn
<1>1. TypeOK /\ ProgramInv /\ SafetyInv /\ [Next]_vars
        => [Len(nft') > Len(nft) /\ position # NoToken => nft[position] = "burned"]_vars
  <2> SUFFICES ASSUME TypeOK, ProgramInv, SafetyInv, Next,
                      Len(nft') > Len(nft), position # NoToken
               PROVE  nft[position] = "burned"
    OBVIOUS
  <2>1. Len(nft') # Len(nft)
    <3>1. Len(nft) \in Nat
      BY LenProperties DEF TypeOK
    <3> QED
      BY <3>1, Longer, Zenon
  <2>2. TransactionLands \/ LateTransaction
    BY <2>1, WhatExecutes
  <2>3. CASE TransactionLands
    <3>1. Head(todo) = "mint"
      BY <2>1, <2>3, LandFacts
    <3>2. ~Starting
      BY DEF SafetyInv, PositionInv
    <3>3. program = "rebalance" /\ todo = <<"mint">>
      BY <2>3, <3>1, <3>2 DEF ProgramInv, TransactionLands, Starting, At
    <3> QED
      BY <2>3, <3>3 DEF SafetyInv, BurnInv, TransactionLands
  <2>4. CASE LateTransaction
    <3>1. late \in Seq(Tx) /\ late # <<>>
      BY <2>4 DEF LateTransaction, TypeOK
    <3>2. Head(late) = late[1] /\ 1 \in 1 .. Len(late) /\ Head(late) \in Tx
      BY <3>1, LenProperties, EmptySeq
    <3>3. Head(late).op # "mint" => Head(late).token \in Tokens
      BY <3>2 DEF SafetyInv, PositionInv
    <3>4. Head(late).op = "mint"
      BY <2>1, <2>4, <3>2, <3>3, Effect DEF LateTransaction, Tx
    <3> QED
      BY <3>2, <3>4 DEF SafetyInv, BurnInv
  <2> QED
    BY <2>2, <2>3, <2>4
<1> QED
  BY <1>1, Safety, TypeAndProgram, PTL DEF Spec, MintOnlyAfterBurn

\* The step that completes a graceful stop leaves the position burned.
THEOREM StopsBurn == Spec => StopBurnsPosition
<1>1. TypeOK /\ ProgramInv /\ SafetyInv /\ [Next]_vars
        => [exit' = "stopped" /\ ~At("down") => nft'[position] = "burned"]_vars
  <2> SUFFICES ASSUME TypeOK, ProgramInv, SafetyInv, Next, exit' = "stopped", ~At("down")
               PROVE  nft'[position] = "burned"
    OBVIOUS
  <2>1. CASE CloseReturns
    <3>1. At("lp") /\ landed /\ program = "stop" /\ Len(todo) = 1 /\ UNCHANGED nft
      BY <2>1 DEF CloseReturns, Completes, Confirmed, outside
    <3>2. Head(todo) = "burn"
      BY <3>1, LastFacts
    <3> QED
      BY <3>1, <3>2 DEF SafetyInv, LandedInv
  <2>2. CASE StopHedgeReturns
    BY <2>2 DEF StopHedgeReturns, SafetyInv, BurnInv, outside
  <2>3. CASE ~CloseReturns /\ ~StopHedgeReturns
    <3>1. exit' \in {exit, "halted", "startFailed", "stopFailed", "crashed"}
      BY <2>3 DEF Next, Engine, Lands, Restores, OpensFresh, FetchAtStartFails, Halts, Stops,
         TickStarts, TickFails, Checks, RedisAnswers, Trips, HedgeStays, HedgeActs,
         HedgeTooSmall, HedgeOrderReturns, UnhedgeReturns, OrderRaises, KeepsRange, Rebalances,
         CollectsFees, TickEnds, TransactionConfirmed, CollectUnnoticed, Continues,
         StartReturns, RebalanceReturns, MintReturns, CollectReturns, DeadlineFails,
         ReceiptUnparsed, TransactionReverts, TransactionFails, TransactionLost, AttemptRaises,
         HandlerRaises, StopHedgeRaises, TransactionLands, OrderLands, LateTransaction,
         RequestStop, Crash, Restart, Ends, ghosts
    <3> QED
      BY <3>1 DEF SafetyInv, LedgerInv
  <2> QED
    BY <2>1, <2>2, <2>3
<1> QED
  BY <1>1, Safety, TypeAndProgram, PTL DEF Spec, StopBurnsPosition

-----------------------------------------------------------------------------
(* A requested stop runs down.                                             *)

\* What a place leaves to do, in numbers.
LeftFacts ==
    /\ StepsLeft \in Nat
    /\ At("down") => StepsLeft = 0 /\ ~stopRequested
    /\ At("stopHedge") => StepsLeft = 1
    /\ At("top") => StepsLeft = 2 + 3 * MaxAttempts
    /\ pc \in {"fees", "boot"} => StepsLeft = 3 + 4 * MaxAttempts
    /\ At("rebalance") => StepsLeft = 4 + 8 * MaxAttempts
    /\ At("unhedge") => StepsLeft = 5 + 8 * MaxAttempts
    /\ pc \in {"open", "adjust"} => StepsLeft = 5 + 8 * MaxAttempts + AttemptsLeft
    /\ At("hedge") => StepsLeft = 6 + 9 * MaxAttempts
    /\ At("redis") => StepsLeft = 7 + 9 * MaxAttempts
    /\ At("tick") => StepsLeft = 8 + 9 * MaxAttempts

\* What the transactions after the current one may take.
OtherCalls == (Len(todo) - 1) * MaxAttempts

CallFacts ==
    At("lp") =>
        /\ OtherCalls \in Nat
        /\ StepsLeft = OtherCalls + AttemptsLeft + AfterCall(program)
        /\ todo = Transactions("rebalance") => OtherCalls = 3 * MaxAttempts
        /\ todo = Transactions("stop") => OtherCalls = 2 * MaxAttempts
        /\ Len(todo) = 1 => OtherCalls = 0

\* A stop request ends with the process it was made to.
DownIsCleared == At("down") => ~stopRequested

\* Nothing but the end of a process reaches "down", and it forgets the request.
LEMMA DownStep == DownIsCleared /\ [Next]_vars => DownIsCleared'
<1> SUFFICES ASSUME DownIsCleared, [Next]_vars PROVE DownIsCleared'
  OBVIOUS
<1>1. CASE UNCHANGED vars
  BY <1>1 DEF vars, DownIsCleared, At
<1>2. CASE \E e \in Exits : Ends(e)
  BY <1>2 DEF Ends, DownIsCleared
<1>3. CASE Next /\ ~(\E e \in Exits : Ends(e))
  <2>1. pc' # "down" \/ (pc' = pc /\ stopRequested' = stopRequested)
    BY <1>3
       DEF Next, Engine, Restores, OpensFresh, FetchAtStartFails, Halts, Stops, TickStarts,
           TickFails, Checks, RedisAnswers, Trips, HedgeStays, HedgeActs, HedgeTooSmall,
           HedgeOrderReturns, AfterHedge, UnhedgeReturns, OrderRaises, KeepsRange, Rebalances,
           CollectsFees, TickEnds, TransactionConfirmed, CollectUnnoticed, Continues,
           StartReturns, RebalanceReturns, MintReturns, CollectReturns, CloseReturns,
           DeadlineFails, ReceiptUnparsed, TransactionReverts, TransactionFails,
           TransactionLost, AttemptRaises, HandlerRaises, StopHedgeReturns, StopHedgeRaises,
           Lands, TransactionLands, OrderLands, LateTransaction, RequestStop, Crash, Restart,
           Goes, Begins, Returns, At, Confirmed, Completes, control, memory, Exits
  <2> QED
    BY <2>1 DEF DownIsCleared, At
<1> QED
  BY <1>1, <1>2, <1>3

\* What is left after the call of each program.
LEMMA AfterCallType ==
    \A p : /\ AfterCall(p) \in Nat
           /\ p = "stop" => AfterCall(p) = 1
           /\ p = "rebalance" => AfterCall(p) = 3 + 4 * MaxAttempts
           /\ p \in {"start", "collect"} => AfterCall(p) = 2 + 3 * MaxAttempts
<1> SUFFICES ASSUME NEW p
             PROVE  /\ AfterCall(p) \in Nat
                    /\ p = "stop" => AfterCall(p) = 1
                    /\ p = "rebalance" => AfterCall(p) = 3 + 4 * MaxAttempts
                    /\ p \in {"start", "collect"} => AfterCall(p) = 2 + 3 * MaxAttempts
  OBVIOUS
<1>1. MaxAttempts \in Nat
  BY EngineAssumption
<1>2. CASE p = "stop"
  BY <1>2 DEF AfterCall
<1>3. CASE p = "rebalance"
  BY <1>1, <1>3 DEF AfterCall
<1>4. CASE p # "stop" /\ p # "rebalance"
  BY <1>1, <1>4 DEF AfterCall
<1> QED
  BY <1>2, <1>3, <1>4

\* The numbers, from the types and the shape of the programs.
LEMMA LeftIsCounted == TypeOK /\ ProgramInv /\ DownIsCleared => LeftFacts /\ CallFacts
<1> SUFFICES ASSUME TypeOK, ProgramInv, DownIsCleared PROVE LeftFacts /\ CallFacts
  OBVIOUS
<1>1. /\ MaxAttempts \in Nat /\ AttemptsLeft \in Nat
      /\ AfterCall(program) \in Nat
  BY EngineAssumption, AfterCallType DEF TypeOK, AttemptsLeft
<1>2. CASE At("lp")
  <2>1. \/ Len(todo) = 1 \/ Len(todo) = 2
        \/ Len(todo) = 3 /\ todo # Transactions("rebalance")
        \/ Len(todo) = 4 /\ todo # Transactions("stop")
    BY <1>2, ProgramTypes, Remainders DEF ProgramInv, At
  <2>2. /\ OtherCalls \in Nat
        /\ todo = Transactions("rebalance") => OtherCalls = 3 * MaxAttempts
        /\ todo = Transactions("stop") => OtherCalls = 2 * MaxAttempts
        /\ Len(todo) = 1 => OtherCalls = 0
    <3>1. /\ Len(Transactions("rebalance")) = 4
          /\ Len(Transactions("stop")) = 3
      BY ProgramTypes, Remainders
    <3>2. CASE Len(todo) = 1
      <4>1. OtherCalls = (1 - 1) * MaxAttempts
        BY <3>2 DEF OtherCalls
      <4>2. OtherCalls = 0
        BY <1>1, <4>1
      <4> QED
        BY <3>1, <3>2, <4>2
    <3>3. CASE Len(todo) = 2
      <4>1. OtherCalls = (2 - 1) * MaxAttempts
        BY <3>3 DEF OtherCalls
      <4> QED
        BY <1>1, <3>1, <3>3, <4>1
    <3>4. CASE Len(todo) = 3 /\ todo # Transactions("rebalance")
      <4>1. OtherCalls = (3 - 1) * MaxAttempts
        BY <3>4 DEF OtherCalls
      <4> QED
        BY <1>1, <3>1, <3>4, <4>1
    <3>5. CASE Len(todo) = 4 /\ todo # Transactions("stop")
      <4>1. OtherCalls = (4 - 1) * MaxAttempts
        BY <3>5 DEF OtherCalls
      <4> QED
        BY <1>1, <3>1, <3>5, <4>1
    <3> QED
      BY <2>1, <3>2, <3>3, <3>4, <3>5
  <2>3. StepsLeft = OtherCalls + AttemptsLeft + AfterCall(program)
    BY <1>2 DEF StepsLeft, OtherCalls, At
  <2> QED
    BY <1>1, <1>2, <2>2, <2>3 DEF LeftFacts, CallFacts, At, TypeOK
<1>3. CASE ~At("lp")
  <2>1. /\ At("down") => StepsLeft = 0
        /\ At("stopHedge") => StepsLeft = 1
        /\ At("top") => StepsLeft = 2 + 3 * MaxAttempts
        /\ pc \in {"fees", "boot"} => StepsLeft = 3 + 4 * MaxAttempts
        /\ At("rebalance") => StepsLeft = 4 + 8 * MaxAttempts
        /\ At("unhedge") => StepsLeft = 5 + 8 * MaxAttempts
    BY DEF StepsLeft, At
  <2>2. /\ pc \in {"open", "adjust"} => StepsLeft = 5 + 8 * MaxAttempts + AttemptsLeft
        /\ At("hedge") => StepsLeft = 6 + 9 * MaxAttempts
        /\ At("redis") => StepsLeft = 7 + 9 * MaxAttempts
        /\ At("tick") => StepsLeft = 8 + 9 * MaxAttempts
    BY DEF StepsLeft, At
  <2>3. StepsLeft \in Nat
    BY <1>1, <1>3, <2>1, <2>2 DEF TypeOK, Places, At
  <2> QED
    BY <1>3, <2>1, <2>2, <2>3 DEF LeftFacts, CallFacts, DownIsCleared
<1> QED
  BY <1>2, <1>3

\* At every await the numbers are those.
LEMMA LeftAlways == Spec => [](LeftFacts /\ CallFacts)
<1>1. Init => DownIsCleared
  BY DEF Init, DownIsCleared, At
<1>2. Spec => []DownIsCleared
  BY <1>1, DownStep, PTL DEF Spec
<1> QED
  BY <1>2, TypeAndProgram, LeftIsCounted, PTL

\* Steps of a tick outside its calls.
LEMMA TickRunsDown ==
    ASSUME TypeOK, LeftFacts, LeftFacts', CallFacts', stopRequested,
           \/ Restores \/ OpensFresh \/ FetchAtStartFails \/ Halts \/ Stops \/ TickStarts
           \/ TickFails \/ Checks \/ RedisAnswers \/ Trips
           \/ HedgeStays \/ HedgeActs \/ HedgeTooSmall
           \/ KeepsRange \/ Rebalances \/ CollectsFees \/ TickEnds
    PROVE  StepsLeft' < StepsLeft
<1>1. MaxAttempts \in Nat \ {0} /\ attempt \in 1 .. MaxAttempts
  BY EngineAssumption DEF TypeOK
<1>2. CASE Restores \/ TickStarts \/ TickFails \/ Checks \/ RedisAnswers \/ Trips
  <2>1. \/ pc = "boot" /\ pc' = "top"
        \/ pc = "tick" /\ pc' \in {"top", "hedge", "redis"}
        \/ pc = "redis" /\ pc' \in {"top", "hedge"}
    BY <1>2 DEF Restores, TickStarts, TickFails, Checks, RedisAnswers, Trips, Goes, At
  <2> QED
    BY <1>1, <2>1 DEF At, LeftFacts
<1>3. CASE HedgeStays \/ HedgeActs \/ HedgeTooSmall \/ KeepsRange \/ TickEnds
  <2>1. \/ pc = "hedge" /\ pc' \in {"top", "rebalance"}
        \/ pc = "hedge" /\ pc' \in {"open", "adjust"} /\ attempt' = attempt
        \/ pc = "rebalance" /\ pc' = "fees"
        \/ pc = "fees" /\ pc' = "top"
    BY <1>3 DEF HedgeStays, HedgeActs, HedgeTooSmall, KeepsRange, TickEnds, Goes, At
  <2>2. CASE pc = "hedge" /\ pc' \in {"open", "adjust"} /\ attempt' = attempt
    BY <1>1, <2>2 DEF At, LeftFacts, AttemptsLeft
  <2> QED
    BY <1>1, <2>1, <2>2 DEF At, LeftFacts
<1>4. CASE FetchAtStartFails \/ Halts
  BY <1>1, <1>4 DEF FetchAtStartFails, Halts, Ends, Returns, At, LeftFacts
<1>5. CASE OpensFresh \/ CollectsFees
  <2>1. PICK p \in {"start", "collect"} : Begins(p)
    BY <1>5 DEF OpensFresh, CollectsFees
  <2>2. Len(todo') = 1 /\ pc' = "lp" /\ attempt' = 1 /\ program' = p
    BY <2>1, ProgramTypes DEF Begins
  <2>3. StepsLeft' = MaxAttempts + 2 + 3 * MaxAttempts
    BY <1>1, <2>2 DEF CallFacts, At, AttemptsLeft, AfterCall
  <2> QED
    BY <1>1, <1>5, <2>3 DEF OpensFresh, CollectsFees, At, LeftFacts
<1>6. CASE Rebalances
  <2>1. todo' = Transactions("rebalance") /\ pc' = "lp" /\ attempt' = 1 /\ program' = "rebalance"
    BY <1>6 DEF Rebalances, Begins
  <2>2. StepsLeft' = 3 * MaxAttempts + MaxAttempts + 3 + 4 * MaxAttempts
    BY <1>1, <2>1 DEF CallFacts, At, AttemptsLeft, AfterCall
  <2> QED
    BY <1>1, <1>6, <2>2 DEF Rebalances, At, LeftFacts
<1>7. CASE Stops
  <2>1. todo' = Transactions("stop") /\ pc' = "lp" /\ attempt' = 1 /\ program' = "stop"
    BY <1>7 DEF Stops, Begins
  <2>2. StepsLeft' = 2 * MaxAttempts + MaxAttempts + 1
    BY <1>1, <2>1 DEF CallFacts, At, AttemptsLeft, AfterCall
  <2> QED
    BY <1>1, <1>7, <2>2 DEF Stops, At, LeftFacts
<1> QED
  BY <1>2, <1>3, <1>4, <1>5, <1>6, <1>7

\* Steps of an order.
LEMMA OrderRunsDown ==
    ASSUME TypeOK, LeftFacts, LeftFacts',
           \/ HedgeOrderReturns \/ UnhedgeReturns \/ OrderRaises
           \/ StopHedgeReturns \/ StopHedgeRaises
    PROVE  StepsLeft' < StepsLeft
<1>1. MaxAttempts \in Nat \ {0} /\ attempt \in 1 .. MaxAttempts
  BY EngineAssumption DEF TypeOK
<1>2. CASE HedgeOrderReturns \/ UnhedgeReturns
  BY <1>1, <1>2
     DEF HedgeOrderReturns, UnhedgeReturns, AfterHedge, Returns, At, LeftFacts, AttemptsLeft
<1>3. CASE OrderRaises
  <2>1. CASE pc # "unhedge" /\ attempt < MaxAttempts
    BY <1>1, <1>3, <2>1 DEF OrderRaises, At, LeftFacts, AttemptsLeft
  <2>2. CASE ~(pc # "unhedge" /\ attempt < MaxAttempts)
    BY <1>1, <1>3, <2>2 DEF OrderRaises, Returns, At, LeftFacts, AttemptsLeft
  <2> QED
    BY <2>1, <2>2
<1>4. CASE StopHedgeReturns \/ StopHedgeRaises
  BY <1>1, <1>4 DEF StopHedgeReturns, StopHedgeRaises, Ends, Returns, At, LeftFacts
<1> QED
  BY <1>2, <1>3, <1>4

\* An LP call that is over, with its result or an exception, leaves no more
\* than what comes after it.
LEMMA CallEndRunsDown ==
    ASSUME TypeOK, ProgramInv, CallFacts, LeftFacts', At("lp"),
           \/ pc' = "down"
           \/ pc' = "top" /\ program \in {"start", "collect", "rebalance"}
           \/ pc' = "fees" /\ program = "rebalance"
           \/ pc' = "stopHedge" /\ program = "stop"
    PROVE  StepsLeft' < StepsLeft
<1>1. MaxAttempts \in Nat \ {0} /\ attempt \in 1 .. MaxAttempts
  BY EngineAssumption DEF TypeOK
<1>2. /\ OtherCalls \in Nat
      /\ StepsLeft = OtherCalls + MaxAttempts - attempt + 1 + AfterCall(program)
      /\ AfterCall(program) \in Nat
      /\ program = "stop" => AfterCall(program) = 1
      /\ program = "rebalance" => AfterCall(program) = 3 + 4 * MaxAttempts
      /\ program \in {"start", "collect"} => AfterCall(program) = 2 + 3 * MaxAttempts
  BY <1>1, AfterCallType DEF CallFacts, AttemptsLeft
<1>3. CASE pc' = "down"
  BY <1>1, <1>2, <1>3 DEF LeftFacts, At
<1>4. CASE pc' = "top" /\ program \in {"start", "collect", "rebalance"}
  BY <1>1, <1>2, <1>4 DEF LeftFacts, At
<1>5. CASE pc' = "fees" /\ program = "rebalance"
  BY <1>1, <1>2, <1>5 DEF LeftFacts, At
<1>6. CASE pc' = "stopHedge" /\ program = "stop"
  BY <1>1, <1>2, <1>6 DEF LeftFacts, At
<1> QED
  BY <1>3, <1>4, <1>5, <1>6

\* Steps of an LP call.
LEMMA CallRunsDown ==
    ASSUME TypeOK, ProgramInv, CallFacts, LeftFacts', CallFacts',
           \/ TransactionConfirmed \/ CollectUnnoticed
           \/ StartReturns \/ RebalanceReturns \/ CollectReturns \/ CloseReturns
           \/ DeadlineFails \/ ReceiptUnparsed
           \/ TransactionReverts \/ TransactionFails \/ TransactionLost
    PROVE  StepsLeft' < StepsLeft
<1>1. /\ MaxAttempts \in Nat \ {0} /\ attempt \in 1 .. MaxAttempts
      /\ AfterCall(program) \in Nat
  BY EngineAssumption, AfterCallType DEF TypeOK
<1>2. At("lp") /\ program \in {"start", "collect", "rebalance", "stop"}
  BY DEF TransactionConfirmed, CollectUnnoticed, StartReturns, RebalanceReturns, MintReturns,
     CollectReturns, CloseReturns, Completes, Confirmed, DeadlineFails, ReceiptUnparsed,
     TransactionReverts, TransactionFails, TransactionLost, ProgramInv, At
<1>3. CASE StartReturns \/ RebalanceReturns \/ CollectReturns
  <2>1. \/ pc' = "top" /\ program \in {"start", "collect", "rebalance"}
        \/ pc' = "fees" /\ program = "rebalance"
    BY <1>3
       DEF StartReturns, RebalanceReturns, MintReturns, CollectReturns, Completes, Returns
  <2> QED
    BY <1>2, <2>1, CallEndRunsDown
<1>4. CASE CloseReturns
  <2>1. pc' = "down" \/ (pc' = "stopHedge" /\ program = "stop")
    BY <1>4 DEF CloseReturns, Completes, Ends, Returns
  <2> QED
    BY <1>2, <2>1, CallEndRunsDown
<1>5. CASE HandlerRaises
  <2>1. pc' = "down" \/ (pc' = "top" /\ program \in {"start", "collect", "rebalance"})
    BY <1>5 DEF HandlerRaises, Ends, Returns
  <2> QED
    BY <1>2, <2>1, CallEndRunsDown
<1>6. CASE AttemptRaises /\ attempt < MaxAttempts
  <2>1. UNCHANGED <<pc, program, todo>> /\ attempt' = attempt + 1
    BY <1>6 DEF AttemptRaises
  <2>2. OtherCalls' = OtherCalls /\ AfterCall(program)' = AfterCall(program)
    BY <2>1 DEF OtherCalls, AfterCall
  <2>3. /\ OtherCalls \in Nat /\ AfterCall(program) \in Nat
        /\ StepsLeft = OtherCalls + (MaxAttempts - attempt + 1) + AfterCall(program)
        /\ StepsLeft' = OtherCalls + (MaxAttempts - (attempt + 1) + 1) + AfterCall(program)
    BY <1>1, <1>2, <2>1, <2>2 DEF CallFacts, AttemptsLeft, At, TypeOK
  <2> QED
    BY <1>1, <2>3
<1>7. CASE TransactionConfirmed \/ CollectUnnoticed
  <2>1. UNCHANGED <<pc, program>> /\ attempt' = 1 /\ todo' = Tail(todo) /\ Len(todo) > 1
    BY <1>7 DEF TransactionConfirmed, CollectUnnoticed, Continues
  <2>2. todo \in Seq(Ops) /\ todo # <<>>
    BY <1>2, <2>1 DEF TypeOK
  <2>3. Len(todo') = Len(todo) - 1 /\ Len(todo) \in Nat
    BY <2>1, <2>2, HeadTailProperties, LenProperties
  <2>4. OtherCalls' + MaxAttempts = OtherCalls
    BY <1>1, <2>3 DEF OtherCalls
  <2>5. AfterCall(program)' = AfterCall(program)
    BY <2>1 DEF AfterCall
  <2>6. /\ OtherCalls \in Nat /\ OtherCalls' \in Nat /\ AfterCall(program) \in Nat
        /\ StepsLeft = OtherCalls + (MaxAttempts - attempt + 1) + AfterCall(program)
        /\ StepsLeft' = OtherCalls' + MaxAttempts + AfterCall(program)
    BY <1>1, <1>2, <2>1, <2>5 DEF CallFacts, AttemptsLeft, At, TypeOK
  <2>7. StepsLeft' = OtherCalls + AfterCall(program)
    BY <1>1, <2>4, <2>6
  <2>8. MaxAttempts - attempt + 1 > 0
    BY <1>1
  <2> QED
    BY <1>1, <2>6, <2>7, <2>8
<1>8. \/ HandlerRaises \/ (AttemptRaises /\ attempt < MaxAttempts)
      \/ TransactionConfirmed \/ CollectUnnoticed
      \/ StartReturns \/ RebalanceReturns \/ CollectReturns \/ CloseReturns
  BY DEF DeadlineFails, ReceiptUnparsed, TransactionReverts, TransactionFails, TransactionLost,
     AttemptRaises
<1> QED
  BY <1>3, <1>4, <1>5, <1>6, <1>7, <1>8

\* For any number of attempts, positions and faults a requested stop ends the
\* process within 8 + 9 * MaxAttempts steps of the engine.
THEOREM StopsRunDown == Spec => StopRunsDown
<1> DEFINE Down == stopRequested => /\ StepsLeft' <= StepsLeft
                                    /\ Engine => StepsLeft' \in 0 .. StepsLeft - 1
<1>1. TypeOK /\ ProgramInv /\ (LeftFacts /\ CallFacts) /\ (LeftFacts /\ CallFacts)' /\ [Next]_vars
        => [Down]_vars
  <2> SUFFICES ASSUME TypeOK, ProgramInv, LeftFacts, CallFacts, LeftFacts', CallFacts',
                      [Next]_vars, stopRequested
               PROVE  /\ StepsLeft' <= StepsLeft
                      /\ Engine => StepsLeft' \in 0 .. StepsLeft - 1
    OBVIOUS
  <2>1. StepsLeft \in Nat /\ StepsLeft' \in Nat
    BY DEF LeftFacts
  <2>2. Engine => StepsLeft' < StepsLeft
    BY TickRunsDown, OrderRunsDown, CallRunsDown DEF Engine
  <2>3. ASSUME ~Engine PROVE StepsLeft' <= StepsLeft
    <3>1. CASE Lands \/ LateTransaction \/ RequestStop \/ UNCHANGED vars
      <4>1. UNCHANGED <<pc, program, todo, attempt>>
        BY <3>1 DEF Lands, TransactionLands, OrderLands, LateTransaction, RequestStop, control,
           vars
      <4>2. StepsLeft' = StepsLeft
        BY <4>1 DEF StepsLeft, At, AttemptsLeft, AfterCall
      <4> QED
        BY <2>1, <4>2
    <3>2. CASE Crash
      BY <2>1, <3>2 DEF Crash, Ends, Returns, LeftFacts, At
    <3>3. CASE Restart
      BY <3>3 DEF Restart, LeftFacts
    <3> QED
      BY <2>3, <3>1, <3>2, <3>3 DEF Next
  <2> QED
    BY <2>1, <2>2, <2>3
<1> QED
  BY <1>1, TypeAndProgram, LeftAlways, PTL DEF Spec, StopRunsDown

-----------------------------------------------------------------------------
(* What is lost, counted against the faults.                               *)

\* The transactions of a sequence that mint.
Mints(s) == {i \in 1 .. Len(s) : s[i].op = "mint"}

\* The NFTs of n that hold something, without the one named k.
Others(n, k) == {j \in 1 .. Len(n) : n[j] # "burned" /\ j # k}

\* Both are finite, and so counted.
LEMMA MintsCounted ==
    ASSUME NEW s \in Seq(Tx)
    PROVE  IsFiniteSet(Mints(s)) /\ Cardinality(Mints(s)) \in Nat
<1>1. Len(s) \in Nat /\ 1 \in Int
  BY LenProperties
<1>2. IsFiniteSet(1 .. Len(s))
  BY <1>1, FS_Interval
<1>3. Mints(s) \in SUBSET (1 .. Len(s))
  BY DEF Mints
<1>4. IsFiniteSet(Mints(s))
  BY <1>2, <1>3, FS_Subset
<1> QED
  BY <1>4, FS_CardinalityType

\* The NFTs likewise.
LEMMA OthersCounted ==
    ASSUME NEW n \in Seq(NftStates), NEW k
    PROVE  IsFiniteSet(Others(n, k)) /\ Cardinality(Others(n, k)) \in Nat
<1>1. Len(n) \in Nat /\ 1 \in Int
  BY LenProperties
<1>2. IsFiniteSet(1 .. Len(n))
  BY <1>1, FS_Interval
<1>3. Others(n, k) \in SUBSET (1 .. Len(n))
  BY DEF Others
<1>4. IsFiniteSet(Others(n, k))
  BY <1>2, <1>3, FS_Subset
<1> QED
  BY <1>4, FS_CardinalityType

\* A set with at most one element more counts at most one more.
LEMMA OneMore ==
    ASSUME NEW S, NEW T, NEW x, IsFiniteSet(S), T \subseteq S \cup {x}
    PROVE  Cardinality(T) <= Cardinality(S) + 1
<1>1. IsFiniteSet(S \cup {x}) /\ Cardinality(S) \in Nat
  BY FS_AddElement, FS_CardinalityType
<1>2. Cardinality(S \cup {x}) \in {Cardinality(S), Cardinality(S) + 1}
  BY FS_AddElement
<1>3. IsFiniteSet(T) /\ Cardinality(T) <= Cardinality(S \cup {x})
  BY <1>1, FS_Subset
<1>4. Cardinality(T) \in Nat
  BY <1>3, FS_CardinalityType
<1> QED
  BY <1>1, <1>2, <1>3, <1>4

\* A transaction that is lost is one mint more, or none.
LEMMA MintsOfAppend ==
    ASSUME NEW s \in Seq(Tx), NEW t \in Tx
    PROVE  /\ Cardinality(Mints(Append(s, t))) <= Cardinality(Mints(s)) + 1
           /\ t.op # "mint" => Mints(Append(s, t)) = Mints(s)
<1>1. /\ Len(Append(s, t)) = Len(s) + 1 /\ Len(s) \in Nat
      /\ \A i \in 1 .. Len(s) : Append(s, t)[i] = s[i]
      /\ Append(s, t)[Len(s) + 1] = t
  BY AppendProperties, LenProperties
<1>2. Mints(Append(s, t)) \subseteq Mints(s) \cup {Len(s) + 1}
  BY <1>1 DEF Mints
<1>3. t.op # "mint" => Mints(Append(s, t)) = Mints(s)
  BY <1>1 DEF Mints
<1> QED
  BY <1>2, <1>3, MintsCounted, OneMore

\* The first of the lost transactions leaves, and is one mint less if it minted.
LEMMA MintsOfTail ==
    ASSUME NEW s \in Seq(Tx), s # <<>>
    PROVE  /\ Cardinality(Mints(Tail(s))) <= Cardinality(Mints(s))
           /\ Head(s).op = "mint" => Cardinality(Mints(Tail(s))) <= Cardinality(Mints(s)) - 1
<1>1. /\ Tail(s) \in Seq(Tx) /\ Len(Tail(s)) = Len(s) - 1 /\ Len(s) \in Nat /\ Len(s) >= 1
      /\ \A i \in 1 .. Len(Tail(s)) : Tail(s)[i] = s[i + 1]
      /\ Head(s) = s[1]
  BY HeadTailProperties, LenProperties, EmptySeq
<1> DEFINE Rest == Mints(s) \ {1}
           up == [i \in Mints(Tail(s)) |-> i + 1]
<1>2. /\ IsFiniteSet(Mints(s)) /\ Cardinality(Mints(s)) \in Nat
      /\ IsFiniteSet(Rest) /\ Cardinality(Rest) \in Nat
  BY MintsCounted, FS_RemoveElement, FS_CardinalityType
<1>3. Cardinality(Rest) = IF 1 \in Mints(s) THEN Cardinality(Mints(s)) - 1
                                            ELSE Cardinality(Mints(s))
  BY <1>2, FS_RemoveElement
<1>4. up \in Injection(Mints(Tail(s)), Rest)
  <2>1. up \in [Mints(Tail(s)) -> Rest]
    BY <1>1 DEF Mints
  <2>2. \A i, j \in Mints(Tail(s)) : up[i] = up[j] => i = j
    BY <1>1 DEF Mints
  <2> QED
    BY <2>1, <2>2 DEF Injection, IsInjective
<1>5. Cardinality(Mints(Tail(s))) <= Cardinality(Rest)
  BY <1>2, <1>4, FS_Injection
<1>6. Cardinality(Mints(Tail(s))) \in Nat
  BY <1>1, MintsCounted
<1>7. Head(s).op = "mint" => 1 \in Mints(s)
  BY <1>1 DEF Mints
<1> HIDE DEF Rest, up
<1> QED
  BY <1>2, <1>3, <1>5, <1>6, <1>7

Pays(p) == IF p THEN 1 ELSE 0

\* The position the engine has, or restores when it is started.
Known == IF position # NoToken THEN position ELSE dbPos

\* What a transaction of a rebalance or a stop finds in the known NFT if nothing
\* has gone wrong, and what it leaves.
Needs(op) ==
    CASE op = "decrease" -> "live"
      [] op = "collect"  -> "drained"
      [] op = "burn"     -> "empty"
      [] op = "mint"     -> "burned"
Leaves(op) ==
    CASE op = "decrease" -> "drained"
      [] op = "collect"  -> "empty"
      [] op = "burn"     -> "burned"
      [] op = "mint"     -> "burned"

\* The calls that take the known position apart.
Closing == At("lp") /\ program \in {"rebalance", "stop"}

\* What the known NFT is like as long as nothing has gone wrong.
Expected ==
    IF Closing THEN IF landed THEN Leaves(Head(todo)) ELSE Needs(Head(todo))
    ELSE IF At("stopHedge") THEN "burned" ELSE "live"

\* A rebalance that collected nothing has nothing to deposit.
Unfunded ==
    /\ At("lp") /\ program = "rebalance" /\ ~funded
    /\ Head(todo) \in {"burn", "mint"} \/ (Head(todo) = "collect" /\ landed)

\* The known NFT may be given up, or be found unusable, without a further fault.
Uneasy ==
    /\ Known # NoToken
    /\ tripped \/ late # <<>> \/ nft[Known] # Expected \/ Unfunded

\* Each fault pays for one loss: of an NFT nobody knows, of one that a mint
\* still under way adds, or of the known one once it may be given up.
FaultInv ==
    /\ Cardinality(Strays) + Cardinality(Mints(late)) + Pays(Uneasy /\ Open(Known)) <= faults
    /\ Uneasy => faults > 0
    /\ tripped => At("top")

\* A mint has executed, and its call awaits the receipt or the confirmations.
Arrives == At("lp") /\ landed /\ Head(todo) = "mint"

\* What the safety invariant says of the known position.
KnownFacts ==
    /\ Known = NoToken \/ Known \in Tokens
    /\ NoToken \notin Tokens
    /\ Strays = Others(nft, Known) \ (IF Arrives THEN {Len(nft)} ELSE {})
    /\ IsFiniteSet(Strays) /\ Cardinality(Strays) \in Nat /\ Cardinality(Mints(late)) \in Nat
    /\ Running /\ ~Starting => Known = position /\ position \in Tokens
    /\ Starting => Known = NoToken /\ dbPos = NoToken
    /\ ~Running => Known = dbPos
    /\ dbPos \in {NoToken, Known}
    /\ Arrives => /\ late = <<>> /\ Len(nft) \in Tokens /\ nft[Len(nft)] = "live"
                  /\ Known = NoToken \/ nft[Known] = "burned"

\* They follow from it.
LEMMA KnownIsKnown == TypeOK /\ ProgramInv /\ SafetyInv => KnownFacts
<1> SUFFICES ASSUME TypeOK, ProgramInv, SafetyInv PROVE KnownFacts
  OBVIOUS
<1>1. Len(nft) \in Nat /\ NoToken \notin Tokens
  BY LenProperties DEF TypeOK, Tokens, NoToken
<1>2. /\ position # NoToken => position \in Tokens
      /\ dbPos # NoToken => dbPos \in Tokens
      /\ position # NoToken /\ dbPos # NoToken => dbPos = position
  BY DEF SafetyInv, PositionInv, StoreInv, StoreMatchesMemory
<1>3. /\ Known = NoToken \/ Known \in Tokens
      /\ dbPos \in {NoToken, Known}
      /\ \A k \in Tokens : k # position /\ k # dbPos <=> k # Known
  BY <1>1, <1>2 DEF Known
<1>4. Strays = Others(nft, Known) \ (IF Arrives THEN {Len(nft)} ELSE {})
  BY <1>3 DEF Strays, Others, Arriving, Arrives, Tokens, Open
<1>5. IsFiniteSet(Strays) /\ Cardinality(Strays) \in Nat /\ Cardinality(Mints(late)) \in Nat
  <2>1. IsFiniteSet(Others(nft, Known)) /\ Strays \in SUBSET Others(nft, Known)
    BY <1>4, OthersCounted DEF TypeOK
  <2>2. IsFiniteSet(Strays)
    BY <2>1, FS_Subset
  <2> QED
    BY <2>2, FS_CardinalityType, MintsCounted DEF TypeOK
<1>6. /\ Running /\ ~Starting => Known = position /\ position \in Tokens
      /\ Starting => Known = NoToken /\ dbPos = NoToken
      /\ ~Running => Known = dbPos
  BY <1>1 DEF SafetyInv, PositionInv, Known
<1>7. Arrives => /\ late = <<>> /\ Len(nft) \in Tokens /\ nft[Len(nft)] = "live"
                 /\ Known = NoToken \/ nft[Known] = "burned"
  <2> SUFFICES ASSUME Arrives
               PROVE  /\ late = <<>> /\ Len(nft) \in Tokens /\ nft[Len(nft)] = "live"
                      /\ Known = NoToken \/ nft[Known] = "burned"
    OBVIOUS
  <2>1. late = <<>> /\ Len(nft) \in Tokens /\ nft[Len(nft)] = "live"
    BY DEF Arrives, SafetyInv, LandedInv
  <2>2. Starting \/ (program = "rebalance" /\ todo = <<"mint">>)
    BY DEF Arrives, ProgramInv, Starting, At
  <2>3. ~Starting => nft[Known] = "burned"
    BY <1>6, <2>2 DEF Arrives, SafetyInv, BurnInv, Running, Starting, At
  <2> QED
    BY <1>6, <2>1, <2>3
<1> QED
  BY <1>1, <1>3, <1>4, <1>5, <1>6, <1>7 DEF KnownFacts

\* What a step that is no fault must not do: lose an NFT or make the known one
\* uneasy.
LEMMA Kept ==
    ASSUME TypeOK, TypeOK', KnownFacts, KnownFacts', FaultInv,
           Strays' \subseteq Strays,
           Cardinality(Mints(late')) <= Cardinality(Mints(late)),
           UNCHANGED faults,
           Uneasy' => Uneasy,
           Uneasy' /\ Open(Known)' => Open(Known),
           tripped' => At("top")'
    PROVE  FaultInv'
<1>1. Cardinality(Strays') <= Cardinality(Strays)
  BY FS_Subset DEF KnownFacts
<1>2. Pays(Uneasy' /\ Open(Known)') <= Pays(Uneasy /\ Open(Known))
  BY DEF Pays
<1>3. (\A p : Pays(p) \in Nat) /\ faults \in Nat
  BY DEF Pays, TypeOK
<1>4. (Cardinality(Strays) + Cardinality(Mints(late)) + Pays(Uneasy /\ Open(Known)) <= faults)'
  BY <1>1, <1>2, <1>3 DEF FaultInv, KnownFacts
<1> QED
  BY <1>4 DEF FaultInv

\* What a fault may do.
LEMMA Paid ==
    ASSUME TypeOK, TypeOK', KnownFacts, KnownFacts', FaultInv,
           faults' = faults + 1,
           Cardinality(Strays') + Cardinality(Mints(late')) + Pays(Uneasy' /\ Open(Known)')
             <= Cardinality(Strays) + Cardinality(Mints(late)) + Pays(Uneasy /\ Open(Known)) + 1,
           tripped' => At("top")'
    PROVE  FaultInv'
<1>1. \A p : Pays(p) \in {0, 1}
  BY DEF Pays
<1>2. faults \in Nat
  BY DEF TypeOK
<1>3. (Cardinality(Strays) + Cardinality(Mints(late)) + Pays(Uneasy /\ Open(Known)) <= faults)'
  BY <1>1, <1>2 DEF FaultInv, KnownFacts
<1> QED
  BY <1>2, <1>3 DEF FaultInv

\* Giving up the known position, or keeping it, changes the count of the NFTs
\* nobody knows by no more than that one.
LEMMA GivenUp ==
    ASSUME TypeOK, KnownFacts, KnownFacts', UNCHANGED nft, ~Arrives, ~Arrives',
           Known' = Known \/ Known' = NoToken
    PROVE  /\ Known' = Known => Strays' = Strays
           /\ Cardinality(Strays') <= Cardinality(Strays) + 1
           /\ Known = NoToken \/ ~Open(Known) => Strays' \subseteq Strays
<1>1. Strays = Others(nft, Known) /\ Strays' = Others(nft, Known') /\ IsFiniteSet(Strays)
  BY DEF KnownFacts
<1>2. Strays' \subseteq Strays \cup {Known}
  BY <1>1 DEF Others
<1>3. Cardinality(Strays') <= Cardinality(Strays) + 1
  BY <1>1, <1>2, OneMore
<1>4. Known = NoToken \/ ~Open(Known) => Strays' \subseteq Strays
  BY <1>1 DEF Others, Open
<1> QED
  BY <1>1, <1>3, <1>4

\* An uneasy position may be given up for nothing.
LEMMA Released ==
    ASSUME TypeOK, TypeOK', KnownFacts, KnownFacts', FaultInv, Uneasy,
           UNCHANGED <<nft, late, faults>>, ~Arrives, ~Arrives',
           Known' = Known \/ Known' = NoToken,
           tripped' => At("top")'
    PROVE  FaultInv'
<1>1. \A p : Pays(p) \in {0, 1}
  BY DEF Pays
<1>2. /\ faults \in Nat /\ faults > 0
      /\ Cardinality(Strays) + Cardinality(Mints(late)) + Pays(Open(Known)) <= faults
  BY DEF TypeOK, FaultInv, Pays
<1>3. CASE Known' = Known
  <2>1. Strays' = Strays /\ (Open(Known)' <=> Open(Known))
    BY <1>3, GivenUp DEF Open
  <2>2. Pays(Uneasy' /\ Open(Known)') <= Pays(Open(Known))
    BY <2>1 DEF Pays
  <2>3. /\ Cardinality(Strays') = Cardinality(Strays)
        /\ Cardinality(Mints(late')) = Cardinality(Mints(late))
        /\ Pays(Uneasy' /\ Open(Known)') \in {0, 1} /\ Pays(Open(Known)) \in {0, 1}
        /\ Cardinality(Strays) \in Nat /\ Cardinality(Mints(late)) \in Nat
    BY <1>1, <2>1 DEF KnownFacts
  <2>4. Cardinality(Strays') + Cardinality(Mints(late')) + Pays(Uneasy' /\ Open(Known)') <= faults'
    BY <1>2, <2>2, <2>3
  <2> QED
    BY <1>2, <2>4 DEF FaultInv
<1>4. CASE Known' = NoToken
  <2>1. ~Uneasy' /\ Pays(Uneasy' /\ Open(Known)') = 0
    BY <1>4 DEF Uneasy, Pays
  <2>2. Cardinality(Strays') <= Cardinality(Strays) + Pays(Open(Known))
    <3>1. CASE Open(Known)
      BY <1>4, <3>1, GivenUp DEF Pays
    <3>2. CASE ~Open(Known)
      <4>1. Cardinality(Strays') <= Cardinality(Strays)
        BY <1>4, <3>2, GivenUp, FS_Subset DEF KnownFacts
      <4> QED
        BY <3>2, <4>1 DEF Pays, KnownFacts
    <3> QED
      BY <3>1, <3>2
  <2>3. (Cardinality(Strays) + Cardinality(Mints(late)) + Pays(Uneasy /\ Open(Known)) <= faults)'
    BY <1>1, <1>2, <2>1, <2>2 DEF KnownFacts
  <2> QED
    BY <2>1, <2>3 DEF FaultInv
<1> QED
  BY <1>3, <1>4

\* A fault may lose the known position, and one call under way.
LEMMA FaultGivesUp ==
    ASSUME TypeOK, ProgramInv, SafetyInv, KnownFacts, FaultInv, TypeOK', KnownFacts',
           faults' = faults + 1, UNCHANGED nft, ~Arrives, ~Arrives',
           UNCHANGED late \/ (At("lp") /\ late' = Append(late, Current)),
           Known' = Known \/ Known' = NoToken,
           tripped' => At("top")'
    PROVE  FaultInv'
<1>1. /\ \A p : Pays(p) \in {0, 1}
      /\ Known' = NoToken => Pays(Uneasy' /\ Open(Known)') = 0
  BY DEF Pays, Uneasy
<1>2. late \in Seq(Tx) /\ (At("lp") => Current \in Tx)
  BY DEF TypeOK, At, ProgramInv, Current, Tx, Ops
<1>3. \/ Cardinality(Mints(late')) <= Cardinality(Mints(late))
      \/ /\ At("lp") /\ Head(todo) = "mint"
         /\ Cardinality(Mints(late')) <= Cardinality(Mints(late)) + 1
  <2>1. CASE UNCHANGED late
    BY <2>1 DEF KnownFacts
  <2>2. CASE At("lp") /\ late' = Append(late, Current)
    <3>1. Current.op = Head(todo)
      BY DEF Current
    <3>2. /\ Cardinality(Mints(late')) <= Cardinality(Mints(late)) + 1
          /\ Head(todo) # "mint" => Mints(late') = Mints(late)
      BY <1>2, <2>2, <3>1, MintsOfAppend
    <3> QED
      BY <2>2, <3>2 DEF KnownFacts
  <2> QED
    BY <2>1, <2>2
<1>4. CASE Cardinality(Mints(late')) <= Cardinality(Mints(late))
  <2>1. Cardinality(Strays') + Pays(Uneasy' /\ Open(Known)') <= Cardinality(Strays) + 1
    <3>1. CASE Known' = Known
      BY <1>1, <3>1, GivenUp DEF KnownFacts
    <3>2. CASE Known' = NoToken
      BY <1>1, <3>2, GivenUp DEF KnownFacts
    <3> QED
      BY <3>1, <3>2
  <2> QED
    BY <1>1, <1>4, <2>1, Paid DEF KnownFacts
<1>5. CASE /\ At("lp") /\ Head(todo) = "mint"
           /\ Cardinality(Mints(late')) <= Cardinality(Mints(late)) + 1
  <2>1. Known = NoToken \/ ~Open(Known)
    <3>1. CASE Starting
      BY <3>1 DEF KnownFacts
    <3>2. CASE ~Starting
      <4>1. program = "rebalance" /\ todo = <<"mint">>
        BY <1>5, <3>2 DEF ProgramInv, Starting, At
      <4> QED
        BY <1>5, <3>2, <4>1 DEF SafetyInv, BurnInv, KnownFacts, Running, At, Open
    <3> QED
      BY <3>1, <3>2
  <2>2. Cardinality(Strays') <= Cardinality(Strays)
    BY <2>1, GivenUp, FS_Subset DEF KnownFacts
  <2>3. Pays(Uneasy' /\ Open(Known)') = 0
    <3>1. CASE Known' = NoToken
      BY <1>1, <3>1
    <3>2. CASE Known' = Known /\ Known # NoToken
      <4>1. ~Open(Known)'
        BY <2>1, <3>2 DEF Open
      <4> QED
        BY <4>1 DEF Pays
    <3> QED
      BY <3>1, <3>2
  <2> QED
    BY <1>1, <1>5, <2>2, <2>3, Paid DEF KnownFacts
<1> QED
  BY <1>3, <1>4, <1>5

\* A fault may lose the NFT of a mint that has executed.
LEMMA ArrivalLost ==
    ASSUME TypeOK, KnownFacts, FaultInv, TypeOK', KnownFacts',
           faults' = faults + 1, UNCHANGED <<nft, late>>, Arrives, ~Arrives',
           Known' = Known \/ Known' = NoToken,
           tripped' => At("top")'
    PROVE  FaultInv'
<1>1. Known = NoToken \/ nft[Known] = "burned"
  BY DEF KnownFacts
<1>2. Strays' \subseteq Strays \cup {Len(nft)}
  BY <1>1 DEF KnownFacts, Others
<1>3. Cardinality(Strays') <= Cardinality(Strays) + 1
  BY <1>2, OneMore DEF KnownFacts
<1>4. ~(Uneasy' /\ Open(Known)')
  BY <1>1 DEF Uneasy, Open
<1>5. (\A p : Pays(p) \in {0, 1}) /\ Pays(Uneasy' /\ Open(Known)') = 0
  BY <1>4 DEF Pays
<1> QED
  BY <1>3, <1>5, Paid DEF KnownFacts

\* The end of a process keeps the rows: the next one knows the position and its
\* hedge from them, unless a removed hedge has taken the position's row with it.
LEMMA EndsKnown ==
    ASSUME TypeOK, SafetyInv, KnownFacts, NEW e, Ends(e), UNCHANGED store
    PROVE  /\ Known' = Known \/ Known' = NoToken
           /\ (Known' = Known /\ (HedgeIsKnown => HedgeIsKnown')) \/ (EndsRowless /\ UNCHANGED dbPos)
           /\ ~tripped' /\ ~Arrives' /\ At("down")'
<1>1. /\ pc' = "down" /\ position' = NoToken /\ ~tripped'
      /\ UNCHANGED <<dbPos, dbHedge>>
  BY DEF Ends, Returns, store
<1>2. Known' = dbPos /\ ~Arrives' /\ At("down")'
  BY <1>1 DEF Known, Arrives, At
<1>3. CASE dbPos # NoToken
  <2>1. Known' = Known
    BY <1>2, <1>3 DEF KnownFacts
  <2>2. HedgeIsKnown => dbHedge # NoHedge
    BY DEF HedgeIsKnown, SafetyInv, StoreInv, StoreMatchesMemory
  <2> QED
    BY <1>1, <1>2, <1>3, <2>1, <2>2 DEF HedgeIsKnown
<1>4. CASE dbPos = NoToken /\ unwound
  BY <1>1, <1>2, <1>4 DEF EndsRowless
<1>5. CASE dbPos = NoToken /\ ~unwound
  <2>1. ~Running \/ Starting
    BY <1>5 DEF SafetyInv, StoreInv, KnownFacts
  <2>2. Known = NoToken /\ hedge = NoHedge
    BY <1>5, <2>1 DEF SafetyInv, PositionInv, KnownFacts
  <2> QED
    BY <1>1, <1>2, <1>5, <2>2 DEF HedgeIsKnown
<1> QED
  BY <1>3, <1>4, <1>5

\* An exception, retried, logged or ending the process, likewise.
LEMMA RaisesKnown ==
    ASSUME TypeOK, SafetyInv, KnownFacts, FaultInv, At("lp"),
           AttemptRaises \/ (HandlerRaises /\ UNCHANGED store)
    PROVE  /\ Known' = Known \/ Known' = NoToken
           /\ ~tripped' /\ ~Arrives'
<1>1. UNCHANGED store
  BY DEF AttemptRaises
<1>2. ~tripped
  BY DEF FaultInv, At
<1>3. CASE UNCHANGED memory /\ (~landed' \/ pc' = "top")
  BY <1>1, <1>2, <1>3 DEF memory, store, Known, Arrives, At
<1>4. CASE \E e \in Exits : Ends(e)
  BY <1>1, <1>4, EndsKnown
<1> QED
  BY <1>3, <1>4 DEF AttemptRaises, HandlerRaises, Returns, Exits

\* Steps that touch nothing outside and expect the known NFT as before.
LEMMA QuietKept ==
    ASSUME TypeOK, TypeOK', KnownFacts, KnownFacts', FaultInv,
           UNCHANGED <<nft, late, faults>>, ~Arrives, ~Arrives',
           Known' = Known,
           Expected' = Expected \/ Known = NoToken,
           Unfunded' => Unfunded,
           tripped' => tripped /\ At("top")'
    PROVE  FaultInv'
<1>1. Strays' \subseteq Strays /\ Cardinality(Mints(late')) <= Cardinality(Mints(late))
  BY GivenUp DEF KnownFacts
<1>2. Uneasy' => Uneasy
  BY DEF Uneasy
<1>3. Open(Known)' => Open(Known)
  BY DEF Open
<1> QED
  BY <1>1, <1>2, <1>3, Kept

\* The steps of a tick and of a start outside the calls.
LEMMA TickKept ==
    ASSUME TypeOK, ProgramInv, SafetyInv, KnownFacts, FaultInv, TypeOK', KnownFacts',
           \/ Restores \/ OpensFresh \/ Restart \/ Stops \/ TickStarts \/ Checks
           \/ RedisAnswers \/ HedgeStays \/ HedgeActs \/ HedgeTooSmall
           \/ KeepsRange \/ Rebalances \/ CollectsFees \/ TickEnds
    PROVE  FaultInv'
<1>1. UNCHANGED <<nft, late, faults, dbPos, dbHedge, tripped>>
  BY DEF Restores, OpensFresh, Restart, Stops, TickStarts, Checks, RedisAnswers, HedgeStays,
     HedgeActs, HedgeTooSmall, KeepsRange, Rebalances, CollectsFees, TickEnds, memory, store,
     outside, ghosts
<1>2. CASE Restores \/ OpensFresh \/ Restart
  <2>1. ~Running /\ ~At("lp") /\ ~At("top") /\ ~At("stopHedge") /\ ~Arrives
    BY <1>2 DEF Restores, OpensFresh, Restart, Running, Arrives, At
  <2>2. position = NoToken /\ Known = dbPos /\ ~tripped
    BY <2>1 DEF SafetyInv, PositionInv, KnownFacts, FaultInv
  <2>3. CASE Restores \/ Restart
    <3>1. pc' \in {"top", "boot"} /\ Known' = Known
      BY <1>1, <2>2, <2>3 DEF Restores, Restart, Goes, Known, memory
    <3>2. Expected' = Expected /\ ~Unfunded' /\ ~Arrives'
      BY <2>1, <3>1 DEF Expected, Closing, Unfunded, Arrives, At
    <3> QED
      BY <1>1, <2>1, <2>2, <3>1, <3>2, QuietKept
  <2>4. CASE OpensFresh
    <3>1. Known = NoToken /\ Known' = Known
      BY <1>1, <2>2, <2>4 DEF OpensFresh, Known, memory
    <3>2. ~Unfunded' /\ ~Arrives'
      BY <2>4 DEF OpensFresh, Begins, Unfunded, Arrives
    <3> QED
      BY <1>1, <2>1, <2>2, <3>1, <3>2, QuietKept
  <2> QED
    BY <1>2, <2>3, <2>4
<1>3. CASE ~(Restores \/ OpensFresh \/ Restart)
  <2>1. /\ pc \in {"top", "tick", "redis", "hedge", "rebalance", "fees"}
        /\ UNCHANGED position /\ ~tripped
        /\ \/ pc' \in Places \ {"lp", "down", "boot", "stopHedge"}
           \/ /\ pc' = "lp" /\ program' \in {"stop", "rebalance"} /\ ~landed'
              /\ todo' = Transactions(program')
           \/ pc' = "lp" /\ program' = "collect" /\ ~landed'
    BY <1>3 DEF Stops, TickStarts, Checks, RedisAnswers, HedgeStays, HedgeActs, HedgeTooSmall,
       KeepsRange, Rebalances, CollectsFees, TickEnds, memory, Goes, Begins, At, Places, FaultInv
  <2>2. Known' = Known /\ ~Arrives /\ ~Arrives'
    BY <1>1, <2>1 DEF Known, Arrives, At
  <2>3. Expected = "live"
    BY <2>1 DEF Expected, Closing, At
  <2>4. Expected' = "live" /\ ~Unfunded'
    <3>1. CASE pc' \in Places \ {"lp", "down", "boot", "stopHedge"}
      BY <3>1 DEF Expected, Closing, Unfunded, At
    <3>2. CASE /\ pc' = "lp" /\ program' \in {"stop", "rebalance"} /\ ~landed'
               /\ todo' = Transactions(program')
      <4>1. Head(todo') = "decrease"
        BY <3>2, ProgramTypes, Remainders
      <4> QED
        BY <3>2, <4>1 DEF Expected, Closing, Needs, Unfunded, At
    <3>3. CASE pc' = "lp" /\ program' = "collect"
      BY <3>3 DEF Expected, Closing, Unfunded, At
    <3> QED
      BY <2>1, <3>1, <3>2, <3>3
  <2> QED
    BY <1>1, <2>1, <2>2, <2>3, <2>4, QuietKept
<1> QED
  BY <1>2, <1>3

\* A fetch that fails and a breaker that trips: one fault, one position that is
\* uneasy afterwards.  A tripped breaker ends the process with it.
LEMMA TripsKept ==
    ASSUME TypeOK, ProgramInv, SafetyInv, KnownFacts, FaultInv, TypeOK', KnownFacts',
           FetchAtStartFails \/ Halts \/ TickFails \/ Trips
    PROVE  FaultInv'
<1>1. UNCHANGED <<nft, late, store>> /\ ~Arrives
  BY DEF FetchAtStartFails, Halts, TickFails, Trips, outside, Arrives, At
<1>2. CASE FetchAtStartFails
  BY <1>1, <1>2, EndsKnown, FaultGivesUp DEF FetchAtStartFails, Fault
<1>3. CASE Halts
  <2>1. Uneasy /\ UNCHANGED faults
    BY <1>3 DEF Halts, Uneasy, KnownFacts, Running, Starting, At
  <2> QED
    BY <1>1, <1>3, <2>1, EndsKnown, Released DEF Halts
<1>4. CASE TickFails \/ Trips
  <2>1. faults' = faults + 1 /\ UNCHANGED position /\ At("top")'
    BY <1>4 DEF TickFails, Trips, Fault, Goes, At, memory
  <2>2. Known' = Known /\ ~Arrives'
    BY <1>1, <2>1 DEF Known, Arrives, At, store
  <2> QED
    BY <1>1, <2>1, <2>2, FaultGivesUp
<1> QED
  BY <1>2, <1>3, <1>4

\* An order has nothing to do with the NFTs, and the last one of a graceful stop
\* finds the position burned.
LEMMA OrderKept ==
    ASSUME TypeOK, ProgramInv, SafetyInv, KnownFacts, FaultInv, TypeOK', KnownFacts',
           \/ OrderLands \/ HedgeOrderReturns \/ UnhedgeReturns \/ OrderRaises
           \/ StopHedgeReturns \/ StopHedgeRaises
    PROVE  FaultInv'
<1>1. UNCHANGED <<nft, late>> /\ ~Arrives /\ ~tripped
  BY DEF OrderLands, Ordering, HedgeOrderReturns, UnhedgeReturns, OrderRaises,
     StopHedgeReturns, StopHedgeRaises, outside, FaultInv, Arrives, At
<1>2. CASE OrderLands
  <2>1. UNCHANGED <<pc, position, tripped, dbPos, faults>> /\ ~At("lp")
    BY <1>2 DEF OrderLands, Ordering, memory, store, ghosts, At
  <2>2. Known' = Known /\ Expected' = Expected /\ ~Unfunded' /\ ~Arrives'
    BY <2>1 DEF Known, Expected, Closing, Unfunded, Arrives, At
  <2> QED
    BY <1>1, <2>1, <2>2, QuietKept
<1>3. CASE HedgeOrderReturns \/ UnhedgeReturns \/ OrderRaises
  <2>1. /\ pc \in {"open", "adjust", "unhedge"}
        /\ pc' \in {"open", "adjust", "unhedge", "rebalance", "top"}
        /\ UNCHANGED <<position, tripped>> /\ dbPos' \in {dbPos, NoToken}
        /\ faults' \in {faults, faults + 1}
    BY <1>3 DEF HedgeOrderReturns, UnhedgeReturns, OrderRaises, OrderAnswered, OrderUnanswered,
       Fault, AfterHedge, Returns, DeletePosition, store, At
  <2>2. Known' = Known
    BY <2>1 DEF KnownFacts, Known, Running, Starting, At
  <2>3. Expected' = Expected /\ ~Unfunded' /\ ~Arrives'
    BY <2>1 DEF Expected, Closing, Unfunded, Arrives, At
  <2> QED
    BY <1>1, <2>1, <2>2, <2>3, QuietKept, FaultGivesUp
<1>4. CASE StopHedgeReturns
  <2>1. /\ pc = "stopHedge" /\ pc' = "down" /\ ~tripped'
        /\ position' = NoToken /\ dbPos' = NoToken
        /\ faults' \in {faults, faults + 1}
    BY <1>4 DEF StopHedgeReturns, At, Ends, Returns, DeletePosition, OrderAnswered, Fault
  <2>2. Known' = NoToken /\ ~Uneasy' /\ ~Arrives'
    BY <2>1 DEF Known, Uneasy, Arrives, At
  <2>3. ~Open(Known)
    BY <2>1 DEF SafetyInv, BurnInv, KnownFacts, Running, Starting, At, Open
  <2>4. Strays' \subseteq Strays
    BY <1>1, <2>2, <2>3, GivenUp
  <2> QED
    BY <1>1, <2>1, <2>2, <2>4, Kept, FaultGivesUp DEF KnownFacts
<1>5. CASE StopHedgeRaises
  <2>1. Ends("stopFailed") /\ UNCHANGED store /\ faults' = faults + 1
    BY <1>5 DEF StopHedgeRaises, OrderUnanswered, Fault
  <2> QED
    BY <1>1, <2>1, EndsKnown, FaultGivesUp
<1> QED
  BY <1>2, <1>3, <1>4, <1>5

\* A crash loses the NFT that has just been minted, or what the rows do not
\* name.
LEMMA CrashKept ==
    ASSUME TypeOK, ProgramInv, SafetyInv, KnownFacts, FaultInv, TypeOK', KnownFacts', Crash
    PROVE  FaultInv'
<1>1. Ends("crashed") /\ UNCHANGED <<nft, store>> /\ faults' = faults + 1
  BY DEF Crash, Fault
<1>2. UNCHANGED late \/ (At("lp") /\ ~landed /\ late' = Append(late, Current))
  BY DEF Crash
<1>3. (Known' = Known \/ Known' = NoToken) /\ ~tripped' /\ ~Arrives'
  BY <1>1, EndsKnown
<1>4. CASE Arrives
  BY <1>1, <1>2, <1>3, <1>4, ArrivalLost DEF Arrives
<1>5. CASE ~Arrives
  BY <1>1, <1>2, <1>3, <1>5, FaultGivesUp
<1> QED
  BY <1>4, <1>5

\* What a transaction that executes finds in its NFT and leaves in it; it leaves
\* the others alone.
LEMMA OwnEffect ==
    ASSUME TypeOK, NEW op \in Ops, NEW k, NEW f, op # "mint" => k \in Tokens,
           Executes(op, k, f), nft' = Result(op, k)
    PROVE  /\ Len(nft) \in Nat
           /\ \A j \in Tokens : op = "mint" \/ j # k => nft'[j] = nft[j]
           /\ op # "mint" => Len(nft') = Len(nft)
           /\ op = "mint" => /\ Len(nft') = Len(nft) + 1 /\ nft'[Len(nft) + 1] = "live" /\ f
           /\ op = "decrease" => nft[k] = "live" /\ nft'[k] = "drained"
           /\ op = "collect" =>
                /\ nft[k] # "burned"
                /\ nft'[k] = IF nft[k] = "drained" THEN "empty" ELSE nft[k]
           /\ op = "burn" => nft[k] = "empty" /\ nft'[k] = "burned"
<1>1. nft \in Seq(NftStates) /\ Len(nft) \in Nat
  BY LenProperties DEF TypeOK
<1>2. CASE op = "mint"
  <2>1. nft' = Append(nft, "live")
    BY <1>2 DEF Result
  <2>2. /\ Len(nft') = Len(nft) + 1 /\ nft'[Len(nft) + 1] = "live"
        /\ \A j \in 1 .. Len(nft) : nft'[j] = nft[j]
    BY <1>1, <2>1, AppendProperties DEF NftStates
  <2> QED
    BY <1>1, <1>2, <2>2 DEF Tokens, Executes
<1>3. CASE op # "mint"
  <2>1. k \in 1 .. Len(nft) /\ nft[k] \in NftStates
    BY <1>1, <1>3, ElementOfSeq DEF Tokens
  <2>2. \A s \in NftStates :
          /\ Len([nft EXCEPT ![k] = s]) = Len(nft)
          /\ \A j \in 1 .. Len(nft) :
               [nft EXCEPT ![k] = s][j] = IF j = k THEN s ELSE nft[j]
    BY <1>1, <2>1, ExceptSeq
  <2>3. CASE op = "decrease"
    <3>1. nft' = [nft EXCEPT ![k] = "drained"] /\ nft[k] = "live"
      BY <2>3 DEF Result, Executes
    <3> QED
      BY <1>1, <2>1, <2>2, <2>3, <3>1 DEF Tokens, NftStates
  <2>4. CASE op = "collect"
    <3> DEFINE s == IF nft[k] = "drained" THEN "empty" ELSE nft[k]
    <3>1. nft' = [nft EXCEPT ![k] = s] /\ nft[k] # "burned"
      BY <2>4 DEF Result, Executes
    <3>2. s \in NftStates
      BY <2>1 DEF NftStates
    <3> QED
      BY <1>1, <2>1, <2>2, <2>4, <3>1, <3>2 DEF Tokens
  <2>5. CASE op = "burn"
    <3>1. nft' = [nft EXCEPT ![k] = "burned"] /\ nft[k] = "empty"
      BY <2>5 DEF Result, Executes
    <3> QED
      BY <1>1, <2>1, <2>2, <2>5, <3>1 DEF Tokens, NftStates
  <2> QED
    BY <1>3, <2>3, <2>4, <2>5 DEF Ops
<1> QED
  BY <1>2, <1>3

\* The current transaction, when it executes, is one of the known position.
LEMMA OwnLands ==
    ASSUME TypeOK, ProgramInv, SafetyInv, KnownFacts, TransactionLands
    PROVE  /\ At("lp") /\ late = <<>> /\ Len(nft) \in Nat
           /\ Head(todo) \in Ops
           /\ Starting => Head(todo) = "mint"
           /\ ~Starting => Known = position /\ position \in Tokens
           /\ \A j \in Tokens : Head(todo) = "mint" \/ j # position => nft'[j] = nft[j]
           /\ Head(todo) # "mint" => Len(nft') = Len(nft)
           /\ Head(todo) = "mint" => Len(nft') = Len(nft) + 1
           /\ Head(todo) = "decrease" => nft[position] = "live" /\ nft'[position] = "drained"
           /\ Head(todo) = "collect" =>
                /\ nft[position] # "burned"
                /\ nft'[position] = IF nft[position] = "drained" THEN "empty" ELSE nft[position]
           /\ Head(todo) = "burn" => nft[position] = "empty" /\ nft'[position] = "burned"
<1>1. At("lp") /\ late = <<>>
  BY DEF TransactionLands
<1>2. /\ Head(todo) \in Ops
      /\ Starting => Head(todo) = "mint"
      /\ ~Starting => Known = position /\ position \in Tokens
  BY <1>1 DEF ProgramInv, Ops, Starting, Running, At, KnownFacts
<1>3. Executes(Head(todo), position, funded) /\ nft' = Result(Head(todo), position)
  BY DEF TransactionLands
<1> QED
  BY <1>1, <1>2, <1>3, OwnEffect

\* It loses nothing: a new NFT arrives at its call.
LEMMA LandsStrays ==
    ASSUME TypeOK, ProgramInv, SafetyInv, KnownFacts, KnownFacts', TransactionLands
    PROVE  Strays' \subseteq Strays /\ Known' = Known
<1>1. /\ UNCHANGED <<pc, program, todo, position, dbPos>> /\ ~landed /\ landed' = TRUE
  BY DEF TransactionLands, memory, store
<1>2. Known' = Known /\ ~Arrives
  BY <1>1 DEF Known, Arrives
<1>3. Strays = Others(nft, Known)
  BY <1>2 DEF KnownFacts
<1>4. CASE Head(todo) = "mint"
  <2>1. Arrives'
    BY <1>1, <1>4, OwnLands DEF Arrives, At
  <2>2. Strays' = Others(nft', Known) \ {Len(nft')}
    BY <1>2, <2>1 DEF KnownFacts
  <2>3. /\ Len(nft) \in Nat /\ Len(nft') = Len(nft) + 1
        /\ \A j \in 1 .. Len(nft) : nft'[j] = nft[j]
    BY <1>4, OwnLands DEF Tokens
  <2> QED
    BY <1>2, <1>3, <2>2, <2>3 DEF Others
<1>5. CASE Head(todo) # "mint"
  <2>1. Strays' \subseteq Others(nft', Known)
    BY <1>2 DEF KnownFacts
  <2>2. /\ Len(nft') = Len(nft) /\ Known = position
        /\ \A j \in 1 .. Len(nft) : j # position => nft'[j] = nft[j]
    BY <1>5, OwnLands DEF Tokens
  <2> QED
    BY <1>2, <1>3, <2>1, <2>2 DEF Others
<1> QED
  BY <1>4, <1>5

\* A transaction executes: it finds and leaves what is expected, or the position
\* was uneasy already.
LEMMA LandsKept ==
    ASSUME TypeOK, ProgramInv, SafetyInv, KnownFacts, FaultInv, TypeOK', KnownFacts',
           TransactionLands
    PROVE  FaultInv'
<1>1. /\ UNCHANGED <<pc, program, todo, position, tripped, dbPos, late, faults>>
      /\ ~landed /\ landed' = TRUE /\ funded' = TokensInHand
  BY DEF TransactionLands, memory, store, ghosts
<1>2. Strays' \subseteq Strays /\ Known' = Known
  BY LandsStrays
<1>3. pc = "lp" /\ ~tripped /\ late = <<>> /\ Head(todo) \in Ops
  BY OwnLands DEF At, FaultInv
<1>4. CASE Starting
  <2>1. ~Uneasy'
    BY <1>2, <1>4 DEF Uneasy, KnownFacts
  <2> QED
    BY <1>1, <1>2, <1>3, <2>1, Kept DEF KnownFacts
<1>5. CASE ~Starting
  <2>1. Known = position /\ position \in Tokens
    BY <1>5, OwnLands
  <2>2. Open(Known)' => Open(Known)
    BY <1>2, <1>3, <2>1, OwnLands DEF Open, Ops
  <2>3. Uneasy' => Uneasy
    <3>1. CASE program = "collect"
      <4>1. Head(todo) = "collect" /\ Expected = "live" /\ Expected' = "live" /\ ~Unfunded'
        BY <1>1, <1>3, <3>1 DEF ProgramInv, Expected, Closing, Unfunded, At
      <4>2. nft[position] = "live" => nft'[position] = "live"
        BY <4>1, OwnLands
      <4> QED
        BY <1>1, <1>2, <1>3, <2>1, <4>1, <4>2 DEF Uneasy, KnownFacts
    <3>2. CASE program \in {"rebalance", "stop"}
      <4>1. Expected = Needs(Head(todo)) /\ Expected' = Leaves(Head(todo))
        BY <1>1, <1>3, <3>2 DEF Expected, Closing, At
      <4>2. CASE Head(todo) = "decrease"
        <5>1. nft'[position] = "drained" /\ Expected' = "drained" /\ ~Unfunded'
          BY <1>1, <4>1, <4>2, OwnLands DEF Leaves, Unfunded
        <5> QED
          BY <1>1, <1>2, <1>3, <2>1, <5>1 DEF Uneasy
      <4>3. CASE Head(todo) = "collect"
        <5>1. CASE nft[position] = "drained"
          <6>1. nft'[position] = "empty" /\ funded' /\ Expected' = "empty"
            BY <1>1, <4>1, <4>3, <5>1, OwnLands DEF TokensInHand, Leaves
          <6> QED
            BY <1>1, <1>2, <1>3, <2>1, <6>1 DEF Uneasy, Unfunded
        <5>2. CASE nft[position] # "drained"
          BY <2>1, <4>1, <4>3, <5>2 DEF Uneasy, Needs, KnownFacts
        <5> QED
          BY <5>1, <5>2
      <4>4. CASE Head(todo) = "burn"
        <5>1. nft'[position] = "burned" /\ funded' = funded /\ Expected' = "burned"
          BY <1>1, <4>1, <4>4, OwnLands DEF TokensInHand, Leaves
        <5> QED
          BY <1>1, <1>2, <1>3, <2>1, <4>4, <5>1 DEF Uneasy, Unfunded, KnownFacts, At
      <4>5. CASE Head(todo) = "mint"
        <5>1. /\ nft'[position] = nft[position] /\ funded' = funded
              /\ Expected = "burned" /\ Expected' = "burned"
          BY <1>1, <2>1, <4>1, <4>5, OwnLands DEF TokensInHand, Needs, Leaves
        <5> QED
          BY <1>1, <1>2, <1>3, <2>1, <4>5, <5>1 DEF Uneasy, Unfunded, KnownFacts, At
      <4> QED
        BY <1>3, <4>2, <4>3, <4>4, <4>5 DEF Ops
    <3> QED
      BY <1>3, <1>5, <3>1, <3>2 DEF ProgramInv, Starting, At
  <2> QED
    BY <1>1, <1>2, <1>3, <2>2, <2>3, Kept DEF KnownFacts
<1> QED
  BY <1>4, <1>5

\* A call goes on: the next transaction needs what this one left.
LEMMA ContinuesKept ==
    ASSUME TypeOK, ProgramInv, SafetyInv, KnownFacts, FaultInv, TypeOK', KnownFacts',
           TransactionConfirmed \/ CollectUnnoticed
    PROVE  FaultInv'
<1>1. /\ UNCHANGED <<pc, program, position, tripped, dbPos, nft, late>>
      /\ At("lp") /\ landed /\ todo' = Tail(todo) /\ Len(todo) > 1 /\ ~landed'
  BY DEF TransactionConfirmed, CollectUnnoticed, Continues, Confirmed, memory, store, outside
<1>2. /\ program \in {"rebalance", "stop"}
      /\ \/ Head(todo) = "decrease" /\ Head(todo') = "collect"
         \/ Head(todo) = "collect" /\ Head(todo') = "burn"
         \/ Head(todo) = "burn" /\ Head(todo') = "mint"
  BY <1>1, MoreFacts
<1>3. Known' = Known /\ ~tripped /\ ~Arrives /\ ~Arrives'
  BY <1>1, <1>2 DEF Known, FaultInv, Arrives, At
<1>4. Expected' = Expected
  BY <1>1, <1>2 DEF Expected, Closing, Needs, Leaves, At
<1>5. CASE TransactionConfirmed
  <2>1. UNCHANGED <<funded, faults>>
    BY <1>5 DEF TransactionConfirmed
  <2>2. Unfunded' => Unfunded
    BY <1>1, <1>2, <2>1 DEF Unfunded, At
  <2> QED
    BY <1>1, <1>3, <1>4, <2>1, <2>2, QuietKept
<1>6. CASE CollectUnnoticed
  <2>1. faults' = faults + 1
    BY <1>6 DEF CollectUnnoticed, Fault
  <2> QED
    BY <1>1, <1>3, <2>1, FaultGivesUp
<1> QED
  BY <1>5, <1>6

\* The calls that return: a mint makes its NFT the known one, a collect keeps
\* it, the burn of a stop is the end of it.
LEMMA CallKept ==
    ASSUME TypeOK, ProgramInv, SafetyInv, KnownFacts, FaultInv, TypeOK', KnownFacts',
           StartReturns \/ RebalanceReturns \/ CollectReturns \/ CloseReturns
    PROVE  FaultInv'
<1>1. /\ At("lp") /\ landed /\ Len(todo) = 1 /\ pc = "lp" /\ ~tripped
      /\ UNCHANGED <<nft, late, faults>>
  BY DEF StartReturns, RebalanceReturns, MintReturns, CollectReturns, CloseReturns, Completes,
     Confirmed, outside, ghosts, FaultInv, At
<1>2. CASE StartReturns \/ RebalanceReturns
  <2>1. /\ program \in {"start", "rebalance"} /\ position' = Len(nft)
        /\ pc' \in {"top", "fees"} /\ UNCHANGED tripped
    BY <1>2 DEF StartReturns, RebalanceReturns, MintReturns, Completes, Returns
  <2>2. Head(todo) = "mint"
    BY <1>1, <2>1, LastFacts
  <2>3. Arrives /\ ~Arrives'
    BY <1>1, <2>1, <2>2 DEF Arrives, At
  <2>4. /\ late = <<>> /\ Len(nft) # NoToken /\ nft[Len(nft)] = "live"
        /\ Known = NoToken \/ nft[Known] = "burned"
    BY <2>3 DEF KnownFacts
  <2>5. Known' = Len(nft)
    BY <2>1, <2>4 DEF Known
  <2>6. Strays' \subseteq Strays
    BY <1>1, <2>3, <2>4, <2>5 DEF KnownFacts, Others, Tokens
  <2>7. ~Uneasy'
    <3>1. Expected' = "live" /\ ~Unfunded'
      BY <2>1 DEF Expected, Closing, Unfunded, At
    <3> QED
      BY <1>1, <2>1, <2>4, <2>5, <3>1 DEF Uneasy
  <2> QED
    BY <1>1, <2>1, <2>6, <2>7, Kept DEF KnownFacts
<1>3. CASE CollectReturns
  <2>1. /\ program = "collect" /\ pc' = "top" /\ dbPos' = position
        /\ UNCHANGED <<position, tripped>>
    BY <1>3 DEF CollectReturns, Completes, Returns, SavePosition, memory
  <2>2. Head(todo) = "collect" /\ ~Starting
    BY <1>1, <2>1, LastFacts DEF Starting
  <2>3. Known' = Known /\ ~Arrives /\ ~Arrives'
    BY <1>1, <2>1, <2>2 DEF Known, KnownFacts, Running, Arrives, At
  <2>4. Expected' = Expected /\ ~Unfunded'
    BY <1>1, <2>1 DEF Expected, Closing, Unfunded, At
  <2> QED
    BY <1>1, <2>1, <2>3, <2>4, QuietKept
<1>4. CASE CloseReturns
  <2>1. /\ program = "stop"
        /\ \/ /\ hedge = NoHedge /\ pc' = "down" /\ position' = NoToken /\ dbPos' = NoToken
              /\ ~tripped'
           \/ pc' = "stopHedge" /\ UNCHANGED <<position, tripped, dbPos>>
    BY <1>4 DEF CloseReturns, Completes, DeletePosition, Ends, Returns, memory, store
  <2>2. Head(todo) = "burn" /\ ~Starting
    BY <1>1, <2>1, LastFacts DEF Starting
  <2>3. Known = position /\ nft[position] = "burned" /\ late = <<>> /\ ~Arrives /\ ~Arrives'
    BY <1>1, <2>1, <2>2 DEF KnownFacts, SafetyInv, LandedInv, Running, Arrives, At
  <2>4. ~Uneasy' /\ ~tripped' /\ (Known' = Known \/ Known' = NoToken)
    <3>1. CASE pc' = "down" /\ position' = NoToken /\ dbPos' = NoToken /\ ~tripped'
      BY <3>1 DEF Uneasy, Known
    <3>2. CASE pc' = "stopHedge" /\ UNCHANGED <<position, tripped, dbPos>>
      <4>1. Known' = Known
        BY <3>2 DEF Known
      <4>2. Expected' = "burned" /\ ~Unfunded'
        BY <3>2 DEF Expected, Closing, Unfunded, At
      <4> QED
        BY <1>1, <2>3, <3>2, <4>1, <4>2 DEF Uneasy
    <3> QED
      BY <2>1, <3>1, <3>2
  <2>5. Strays' \subseteq Strays
    BY <1>1, <2>3, <2>4, GivenUp DEF Open
  <2> QED
    BY <1>1, <2>4, <2>5, Kept DEF KnownFacts
<1> QED
  BY <1>2, <1>3, <1>4

\* A transaction that cannot execute any more belongs to a position that is
\* uneasy.
LEMMA RevertsUneasy ==
    ASSUME TypeOK, ProgramInv, KnownFacts, TransactionReverts, ~Starting
    PROVE  Uneasy
<1>1. At("lp") /\ ~landed /\ ~Executes(Head(todo), position, funded)
  BY DEF TransactionReverts
<1>2. Known = position /\ position \in Tokens /\ position # NoToken
  BY <1>1 DEF KnownFacts, Running, At
<1>3. CASE program = "collect"
  <2>1. Head(todo) = "collect" /\ Expected = "live"
    BY <1>1, <1>3 DEF ProgramInv, Expected, Closing, At
  <2>2. nft[position] # "live"
    BY <1>1, <2>1 DEF Executes
  <2> QED
    BY <1>2, <2>1, <2>2 DEF Uneasy
<1>4. CASE program \in {"rebalance", "stop"}
  <2>1. /\ Expected = Needs(Head(todo))
        /\ Head(todo) \in {"decrease", "collect", "burn", "mint"}
        /\ Head(todo) = "mint" => program = "rebalance"
    BY <1>1, <1>4, Remainders DEF ProgramInv, Expected, Closing, At
  <2>2. CASE Head(todo) = "mint"
    BY <1>1, <1>2, <2>1, <2>2 DEF Uneasy, Unfunded, Executes
  <2>3. CASE Head(todo) = "decrease"
    BY <1>1, <1>2, <2>1, <2>3 DEF Uneasy, Needs, Executes
  <2>4. CASE Head(todo) = "collect"
    BY <1>1, <1>2, <2>1, <2>4 DEF Uneasy, Needs, Executes
  <2>5. CASE Head(todo) = "burn"
    BY <1>1, <1>2, <2>1, <2>5 DEF Uneasy, Needs, Executes
  <2> QED
    BY <2>1, <2>2, <2>3, <2>4, <2>5
<1> QED
  BY <1>1, <1>3, <1>4 DEF ProgramInv, Starting, At

\* Retrying it or giving it up costs nothing further.
LEMMA RevertKept ==
    ASSUME TypeOK, ProgramInv, SafetyInv, KnownFacts, FaultInv, TypeOK', KnownFacts',
           TransactionReverts
    PROVE  FaultInv'
<1>1. /\ At("lp") /\ ~landed /\ AttemptRaises /\ ~Arrives /\ UNCHANGED <<nft, late, faults>>
  BY DEF TransactionReverts, AttemptRaises, Arrives
<1>2. (Known' = Known \/ Known' = NoToken) /\ ~tripped' /\ ~Arrives'
  BY <1>1, RaisesKnown
<1>3. CASE Starting
  <2>1. Known = NoToken /\ Known' = NoToken
    BY <1>2, <1>3 DEF KnownFacts
  <2>2. ~Uneasy' /\ Strays' \subseteq Strays
    BY <1>1, <1>2, <2>1, GivenUp DEF Uneasy
  <2> QED
    BY <1>1, <1>2, <2>2, Kept DEF KnownFacts
<1>4. CASE ~Starting
  BY <1>1, <1>2, <1>4, RevertsUneasy, Released
<1> QED
  BY <1>3, <1>4

\* A call that fails, is lost or is not understood.
LEMMA AttemptKept ==
    ASSUME TypeOK, ProgramInv, SafetyInv, KnownFacts, FaultInv, TypeOK', KnownFacts',
           DeadlineFails \/ TransactionFails \/ TransactionLost \/ ReceiptUnparsed
    PROVE  FaultInv'
<1>1. /\ At("lp") /\ faults' = faults + 1
      /\ AttemptRaises \/ (HandlerRaises /\ UNCHANGED store)
      /\ UNCHANGED nft
      /\ UNCHANGED late \/ (~landed /\ late' = Append(late, Current))
  BY DEF DeadlineFails, TransactionFails, TransactionLost, ReceiptUnparsed, Confirmed, Fault,
     AttemptRaises, outside
<1>2. (Known' = Known \/ Known' = NoToken) /\ ~tripped' /\ ~Arrives'
  BY <1>1, RaisesKnown
<1>3. CASE Arrives
  BY <1>1, <1>2, <1>3, ArrivalLost DEF Arrives
<1>4. CASE ~Arrives
  BY <1>1, <1>2, <1>4, FaultGivesUp
<1> QED
  BY <1>3, <1>4

\* A lost transaction that executes late: only a mint adds an NFT nobody knows.
LEMMA LateFound ==
    ASSUME TypeOK, ProgramInv, SafetyInv, KnownFacts, KnownFacts', LateTransaction
    PROVE  /\ late \in Seq(Tx) /\ late # <<>> /\ late' = Tail(late)
           /\ Known' = Known /\ ~Arrives
           /\ \/ /\ Strays' \subseteq Strays
                 /\ Known # NoToken /\ Open(Known)' => Open(Known)
              \/ /\ Head(late).op = "mint" /\ Strays' \subseteq Strays \cup {Len(nft) + 1}
                 /\ Len(nft) + 1 \notin Tokens /\ (Known = NoToken \/ ~Open(Known)')
<1>1. /\ late \in Seq(Tx) /\ late # <<>> /\ late' = Tail(late)
      /\ UNCHANGED <<pc, todo, landed, position, dbPos>>
  BY DEF LateTransaction, TypeOK, control, memory, store
<1>2. /\ Head(late) = late[1] /\ 1 \in 1 .. Len(late) /\ Head(late) \in Tx
      /\ Len(nft) \in Nat
  BY <1>1, LenProperties, EmptySeq, ElementOfSeq DEF TypeOK
<1>3. Known' = Known /\ ~Arrives /\ ~Arrives'
  BY <1>1 DEF Known, Arrives, At, KnownFacts
<1>4. Strays = Others(nft, Known) /\ Strays' = Others(nft', Known)
  BY <1>3 DEF KnownFacts
<1>5. CASE /\ Head(late).op = "mint"
           /\ Executes(Head(late).op, Head(late).token, Head(late).funded)
           /\ nft' = Result(Head(late).op, Head(late).token)
  <2>1. Len(nft') = Len(nft) + 1 /\ \A j \in Tokens : nft'[j] = nft[j]
    BY <1>2, <1>5, OwnEffect DEF Tx
  <2>2. Known = NoToken \/ nft[Known] = "burned"
    BY <1>2, <1>5 DEF SafetyInv, BurnInv, Known
  <2>3. Strays' \subseteq Strays \cup {Len(nft) + 1}
    BY <1>2, <1>4, <2>1 DEF Others, Tokens
  <2>4. Known = NoToken \/ ~Open(Known)'
    BY <1>3, <2>1, <2>2 DEF Open, KnownFacts
  <2> QED
    BY <1>1, <1>2, <1>3, <1>5, <2>3, <2>4 DEF Tokens
<1>6. CASE /\ Head(late).op # "mint"
           /\ Executes(Head(late).op, Head(late).token, Head(late).funded)
           /\ nft' = Result(Head(late).op, Head(late).token)
  <2>1. Head(late).op \in Ops /\ Head(late).token \in Tokens
    BY <1>2, <1>6 DEF SafetyInv, PositionInv, Tx
  <2>2. Len(nft') = Len(nft) /\ \A j \in Tokens : nft[j] = "burned" => nft'[j] = "burned"
    BY <1>6, <2>1, Effect
  <2>3. Strays' \subseteq Strays
    BY <1>4, <2>2 DEF Others, Tokens
  <2>4. Known # NoToken /\ Open(Known)' => Open(Known)
    BY <1>3, <2>2 DEF Open, KnownFacts
  <2> QED
    BY <1>1, <1>3, <2>3, <2>4
<1>7. CASE UNCHANGED nft
  BY <1>1, <1>3, <1>4, <1>7 DEF Open
<1> QED
  BY <1>5, <1>6, <1>7 DEF LateTransaction

\* It was paid for when it was lost.
LEMMA LateKept ==
    ASSUME TypeOK, ProgramInv, SafetyInv, KnownFacts, FaultInv, TypeOK', KnownFacts',
           LateTransaction
    PROVE  FaultInv'
<1>1. UNCHANGED <<pc, tripped, faults>> /\ late # <<>>
  BY DEF LateTransaction, control, memory, ghosts
<1>2. /\ Known' = Known /\ (Uneasy' => Uneasy)
      /\ tripped' => At("top")'
  BY <1>1, LateFound DEF Uneasy, FaultInv, At
<1>3. CASE Strays' \subseteq Strays /\ (Known # NoToken /\ Open(Known)' => Open(Known))
  <2>1. Cardinality(Mints(late')) <= Cardinality(Mints(late))
    BY LateFound, MintsOfTail
  <2>2. Uneasy' /\ Open(Known)' => Open(Known)
    BY <1>2, <1>3 DEF Uneasy
  <2> QED
    BY <1>1, <1>2, <1>3, <2>1, <2>2, Kept
<1>4. CASE /\ Head(late).op = "mint" /\ Strays' \subseteq Strays \cup {Len(nft) + 1}
           /\ Known = NoToken \/ ~Open(Known)'
  <2>1. Cardinality(Strays') <= Cardinality(Strays) + 1
    BY <1>4, OneMore DEF KnownFacts
  <2>2. Cardinality(Mints(late')) <= Cardinality(Mints(late)) - 1
    BY <1>4, LateFound, MintsOfTail
  <2>3. ~(Uneasy' /\ Open(Known)')
    BY <1>2, <1>4 DEF Uneasy
  <2>4. /\ \A p : Pays(p) \in {0, 1}
        /\ Pays(Uneasy' /\ Open(Known)') = 0 /\ faults \in Nat
    BY <2>3 DEF Pays, TypeOK
  <2>5. (Cardinality(Strays) + Cardinality(Mints(late)) + Pays(Uneasy /\ Open(Known)) <= faults)'
    BY <1>1, <2>1, <2>2, <2>4 DEF FaultInv, KnownFacts
  <2> QED
    BY <1>1, <1>2, <2>5 DEF FaultInv
<1> QED
  BY <1>3, <1>4, LateFound

\* Every step keeps the account.
LEMMA FaultStep ==
    /\ TypeOK /\ ProgramInv /\ SafetyInv /\ KnownFacts
    /\ (TypeOK /\ KnownFacts)'
    /\ FaultInv /\ [Next]_vars
    => FaultInv'
<1> SUFFICES ASSUME TypeOK, ProgramInv, SafetyInv, KnownFacts, FaultInv,
                    TypeOK', KnownFacts', [Next]_vars
             PROVE  FaultInv'
  OBVIOUS
<1>1. CASE RequestStop \/ UNCHANGED vars
  <2>1. UNCHANGED <<pc, program, todo, funded, landed, position, hedge, tripped, dbPos, dbHedge,
                    nft, late, faults>>
    BY <1>1 DEF RequestStop, vars, control, store, outside, ghosts
  <2>2. Known' = Known /\ Expected' = Expected /\ Strays' = Strays
    BY <2>1 DEF Known, Expected, Closing, Needs, Leaves, Strays, Arriving, Tokens, Open, At
  <2>3. /\ Uneasy' => Uneasy
        /\ Open(Known)' => Open(Known)
        /\ tripped' => At("top")'
    BY <2>1, <2>2 DEF Uneasy, Unfunded, Open, At, FaultInv
  <2> QED
    BY <2>1, <2>2, <2>3, Kept DEF KnownFacts
<1>2. CASE Engine
  BY <1>2, TickKept, TripsKept, OrderKept, ContinuesKept, CallKept, RevertKept, AttemptKept
     DEF Engine
<1>3. CASE Lands \/ LateTransaction \/ Crash \/ Restart
  BY <1>3, LandsKept, OrderKept, LateKept, CrashKept, TickKept DEF Lands
<1> QED
  BY <1>1, <1>2, <1>3 DEF Next

\* At the start nothing is lost.
LEMMA InitFault == Init => FaultInv
<1> SUFFICES ASSUME Init PROVE FaultInv
  OBVIOUS
<1>1. Len(nft) = 0 /\ Len(late) = 0
  BY DEF Init
<1>2. Strays = {} /\ Mints(late) = {} /\ ~Uneasy
  BY <1>1 DEF Init, Strays, Tokens, Mints, Uneasy, Known
<1>3. Cardinality(Strays) = 0 /\ Cardinality(Mints(late)) = 0
  BY <1>2, FS_EmptySet
<1>4. Pays(Uneasy /\ Open(Known)) = 0
  BY <1>2 DEF Pays
<1> QED
  BY <1>2, <1>3, <1>4 DEF Init, FaultInv

-----------------------------------------------------------------------------
(* The steps that lose something.                                          *)

\* A mint that has executed reaches its call, or a fault keeps it from it.
LEMMA ArrivalEnds ==
    ASSUME ProgramInv, Next, Arrives, UNCHANGED nft
    PROVE  faults' = faults + 1 \/ Arrives' \/ position' = Len(nft)
<1>1. At("lp") /\ landed /\ pc = "lp" /\ Head(todo) = "mint"
  BY DEF Arrives, At
<1>2. CASE TransactionConfirmed \/ CollectUnnoticed
  <2>1. Len(todo) > 1
    BY <1>2 DEF TransactionConfirmed, CollectUnnoticed, Continues
  <2> QED
    BY <1>1, <2>1, MoreFacts
<1>3. CASE CollectReturns \/ CloseReturns
  <2>1. Len(todo) = 1 /\ program \in {"collect", "stop"}
    BY <1>3 DEF CollectReturns, CloseReturns, Completes
  <2>2. Head(todo) \in {"collect", "burn"}
    BY <1>1, <2>1, LastFacts
  <2> QED
    BY <1>1, <2>2
<1>4. CASE StartReturns \/ RebalanceReturns
  BY <1>4 DEF StartReturns, RebalanceReturns, MintReturns
<1>5. CASE RequestStop \/ LateTransaction
  BY <1>1, <1>5 DEF RequestStop, LateTransaction, control, Arrives, At
<1>6. CASE DeadlineFails \/ ReceiptUnparsed \/ TransactionReverts \/ TransactionFails \/ TransactionLost
  BY <1>1, <1>6 DEF DeadlineFails, ReceiptUnparsed, TransactionReverts, TransactionFails,
     TransactionLost, Fault
<1>7. CASE Crash
  BY <1>7 DEF Crash, Fault
<1>8. ~TransactionLands /\ ~OrderLands /\ ~Restart
  BY <1>1 DEF TransactionLands, OrderLands, Ordering, Restart, At
<1>9. ~(\/ Restores \/ OpensFresh \/ FetchAtStartFails \/ Halts \/ Stops \/ TickStarts
        \/ TickFails \/ Checks \/ RedisAnswers \/ Trips \/ HedgeStays \/ HedgeActs
        \/ HedgeTooSmall \/ HedgeOrderReturns \/ UnhedgeReturns \/ OrderRaises
        \/ KeepsRange \/ Rebalances \/ CollectsFees \/ TickEnds
        \/ StopHedgeReturns \/ StopHedgeRaises)
  BY <1>1 DEF Restores, OpensFresh, FetchAtStartFails, Halts, Stops, TickStarts, TickFails,
     Checks, RedisAnswers, Trips, HedgeStays, HedgeActs, HedgeTooSmall, HedgeOrderReturns,
     UnhedgeReturns, OrderRaises, KeepsRange, Rebalances, CollectsFees, TickEnds,
     StopHedgeReturns, StopHedgeRaises, At
<1> QED
  BY <1>2, <1>3, <1>4, <1>5, <1>6, <1>7, <1>8, <1>9 DEF Next, Engine, Lands

\* An open position is known until the rows cannot restore it.
LEMMA KnownEnds ==
    ASSUME TypeOK, ProgramInv, SafetyInv, KnownFacts, Next, Known # NoToken, Open(Known)
    PROVE  Known' = Known \/ EndsRowless
<1>1. CASE (\E e \in Exits : Ends(e)) /\ UNCHANGED store
  BY <1>1, EndsKnown
<1>2. CASE UNCHANGED <<position, dbPos>>
  BY <1>2 DEF Known
<1>3. CASE StartReturns \/ RebalanceReturns
  <2>1. At("lp") /\ landed /\ Len(todo) = 1 /\ program \in {"start", "rebalance"}
    BY <1>3 DEF StartReturns, RebalanceReturns, MintReturns, Completes, Confirmed
  <2>2. Arrives
    BY <2>1, LastFacts DEF Arrives
  <2> QED
    BY <2>2 DEF KnownFacts, Open
<1>4. CASE CollectReturns \/ UnhedgeReturns
  <2>1. UNCHANGED position /\ pc \in {"lp", "unhedge"} /\ (pc = "lp" => program = "collect")
    BY <1>4 DEF CollectReturns, UnhedgeReturns, Completes, Confirmed, At, memory
  <2>2. position = Known
    BY <2>1 DEF KnownFacts, Running, Starting, At
  <2> QED
    BY <2>1, <2>2 DEF Known
<1>5. CASE CloseReturns
  <2>1. At("lp") /\ landed /\ Len(todo) = 1 /\ program = "stop"
    BY <1>5 DEF CloseReturns, Completes, Confirmed
  <2>2. nft[position] = "burned" /\ Known = position
    BY <2>1, LastFacts DEF SafetyInv, LandedInv, KnownFacts, Running, Starting, At
  <2> QED
    BY <2>2 DEF Open
<1>6. CASE StopHedgeReturns
  <2>1. nft[position] = "burned" /\ Known = position
    BY <1>6 DEF StopHedgeReturns, SafetyInv, BurnInv, KnownFacts, Running, Starting, At
  <2> QED
    BY <2>1 DEF Open
<1>7. CASE Restores
  <2>1. position' = dbPos /\ Known = dbPos /\ dbPos # NoToken
    BY <1>7 DEF Restores, KnownFacts, Running, At
  <2> QED
    BY <2>1 DEF Known
<1>8. CASE \/ FetchAtStartFails \/ Halts \/ DeadlineFails \/ ReceiptUnparsed
           \/ TransactionReverts \/ TransactionFails \/ TransactionLost
           \/ StopHedgeRaises \/ Crash
  BY <1>1, <1>2, <1>8 DEF FetchAtStartFails, Halts, DeadlineFails, ReceiptUnparsed,
     TransactionReverts, TransactionFails, TransactionLost, AttemptRaises, HandlerRaises,
     StopHedgeRaises, Crash, Exits, memory, store
<1>9. CASE \/ OpensFresh \/ Stops \/ TickStarts \/ TickFails \/ Checks \/ RedisAnswers \/ Trips
           \/ HedgeStays \/ HedgeActs \/ HedgeTooSmall \/ HedgeOrderReturns \/ OrderRaises
           \/ KeepsRange \/ Rebalances \/ CollectsFees \/ TickEnds
           \/ TransactionConfirmed \/ CollectUnnoticed
           \/ TransactionLands \/ OrderLands \/ LateTransaction \/ RequestStop \/ Restart
  BY <1>2, <1>9 DEF OpensFresh, Stops, TickStarts, TickFails, Checks, RedisAnswers, Trips,
     HedgeStays, HedgeActs, HedgeTooSmall, HedgeOrderReturns, OrderRaises, KeepsRange,
     Rebalances, CollectsFees, TickEnds, TransactionConfirmed, CollectUnnoticed, Continues,
     TransactionLands, OrderLands, LateTransaction, RequestStop, Restart, memory, store
<1> QED
  BY <1>3, <1>4, <1>5, <1>6, <1>7, <1>8, <1>9 DEF Next, Engine, Lands

\* What a step that loses an NFT is.
LEMMA StrayStep ==
    ASSUME TypeOK, ProgramInv, SafetyInv, KnownFacts, TypeOK', KnownFacts', Next,
           NEW k \in Strays' \ Strays
    PROVE  \/ Arriving(k) /\ faults' = faults + 1
           \/ k \notin Tokens /\ late # <<>> /\ Head(late).op = "mint" /\ late' = Tail(late)
           \/ k = position /\ EndsRowless
<1>1. CASE TransactionLands
  BY <1>1, LandsStrays
<1>2. CASE LateTransaction
  BY <1>2, LateFound
<1>3. CASE ~TransactionLands /\ ~LateTransaction
  <2>1. UNCHANGED nft
    BY <1>3, WhatExecutes
  <2>2. k \in Tokens /\ Open(k) /\ k # Known' /\ ~Arriving(k)'
    BY <2>1 DEF KnownFacts, Others, Strays, Arriving, Arrives, Tokens, Open
  <2>3. k = Known \/ Arriving(k)
    BY <2>2 DEF KnownFacts, Others, Arriving, Arrives, Tokens, Open
  <2>4. CASE Arriving(k)
    <3>1. Arrives /\ k = Len(nft)
      BY <2>4 DEF Arriving, Arrives
    <3>2. ~Arrives'
      BY <2>1, <2>2, <3>1 DEF Arriving, Arrives
    <3>3. position' # Len(nft)
      <4>1. Len(nft) # NoToken
        BY <3>1 DEF KnownFacts
      <4> QED
        BY <2>2, <3>1, <4>1 DEF Known
    <3> QED
      BY <2>1, <2>4, <3>1, <3>2, <3>3, ArrivalEnds
  <2>5. CASE k = Known
    <3>1. Known # NoToken /\ Open(Known)
      BY <2>2, <2>5 DEF KnownFacts
    <3>2. EndsRowless
      BY <2>2, <2>5, <3>1, KnownEnds
    <3>3. k = position
      BY <2>5, <3>1, <3>2 DEF EndsRowless, Known
    <3> QED
      BY <3>2, <3>3
  <2> QED
    BY <2>3, <2>4, <2>5
<1> QED
  BY <1>1, <1>2, <1>3

\* What a step is after which the engine does not know of what the venue holds.
LEMMA OrphanStep ==
    ASSUME TypeOK, ProgramInv, SafetyInv, KnownFacts, [Next]_vars, Orphaned', ~Orphaned
    PROVE  \/ faults' = faults + 1
           \/ EndsRowless /\ HedgeIsKnown /\ (Halts \/ TransactionReverts)
<1>1. held' /\ ~HedgeIsKnown' /\ ~(At("open") /\ landed)'
  BY DEF Orphaned
<1>2. ASSUME held PROVE HedgeIsKnown \/ (At("open") /\ landed)
  BY <1>2 DEF Orphaned
<1>3. CASE OrderLands
  <2>1. pc = "adjust" /\ UNCHANGED hedge
    BY <1>1, <1>3 DEF OrderLands, Ordering, memory, At
  <2> QED
    BY <1>1, <2>1 DEF SafetyInv, PositionInv, HedgeIsKnown, At
<1>4. CASE FetchAtStartFails \/ TickFails \/ Trips \/ OrderRaises \/ CollectUnnoticed
           \/ DeadlineFails \/ ReceiptUnparsed \/ TransactionFails \/ TransactionLost
           \/ StopHedgeRaises \/ Crash
  BY <1>4 DEF FetchAtStartFails, TickFails, Trips, OrderRaises, OrderUnanswered,
     CollectUnnoticed, DeadlineFails, ReceiptUnparsed, TransactionFails, TransactionLost,
     StopHedgeRaises, Crash, Fault
<1>5. CASE HedgeOrderReturns
  BY <1>1, <1>5 DEF HedgeOrderReturns, HedgeIsKnown, Sizes, NoHedge
<1>6. CASE UnhedgeReturns \/ StopHedgeReturns
  <2>1. /\ pc \in {"unhedge", "stopHedge"} /\ UNCHANGED held
        /\ landed \/ faults' = faults + 1
    BY <1>6 DEF UnhedgeReturns, StopHedgeReturns, OrderAnswered, Fault, outside, At
  <2> QED
    BY <1>1, <2>1 DEF SafetyInv, LandedInv
<1>7. CASE Restores \/ OpensFresh \/ Restart
  <2>1. UNCHANGED <<held, dbPos, dbHedge>> /\ pc \in {"boot", "down"}
    BY <1>7 DEF Restores, OpensFresh, Restart, store, outside, At
  <2>2. dbPos # NoToken /\ dbHedge # NoHedge
    BY <1>1, <1>2, <2>1 DEF HedgeIsKnown, SafetyInv, PositionInv, Running, At
  <2> QED
    BY <1>1, <1>7, <2>1, <2>2 DEF Restores, OpensFresh, Restart, Goes, HedgeIsKnown, At
<1>8. CASE Halts \/ TransactionReverts
  <2>1. UNCHANGED <<held, store>> /\ ~At("open")
    BY <1>8 DEF Halts, TransactionReverts, AttemptRaises, outside, At
  <2>2. HedgeIsKnown /\ hedge # NoHedge
    BY <1>1, <1>2, <1>8, <2>1 DEF HedgeIsKnown, Halts, TransactionReverts, At
  <2>3. CASE \E e \in Exits : Ends(e)
    BY <1>1, <1>8, <2>1, <2>2, <2>3, EndsKnown
  <2>4. CASE UNCHANGED hedge
    BY <1>1, <2>2, <2>4 DEF HedgeIsKnown
  <2> QED
    BY <1>8, <2>3, <2>4 DEF Halts, TransactionReverts, AttemptRaises, HandlerRaises, memory, Exits
<1>9. CASE CloseReturns
  <2>1. UNCHANGED held /\ pc = "lp" /\ (hedge # NoHedge => UNCHANGED hedge)
    BY <1>9 DEF CloseReturns, Completes, Confirmed, outside, memory, At
  <2> QED
    BY <1>1, <1>2, <2>1 DEF HedgeIsKnown, At
<1>10. CASE \/ Stops \/ TickStarts \/ Checks \/ RedisAnswers \/ HedgeStays \/ HedgeActs
            \/ HedgeTooSmall \/ KeepsRange \/ Rebalances \/ CollectsFees \/ TickEnds
            \/ TransactionConfirmed \/ StartReturns \/ RebalanceReturns \/ CollectReturns
            \/ TransactionLands
  <2>1. UNCHANGED <<held, hedge>> /\ pc \notin {"open", "boot", "down"}
    BY <1>10 DEF Stops, TickStarts, Checks, RedisAnswers, HedgeStays, HedgeActs, HedgeTooSmall,
       KeepsRange, Rebalances, CollectsFees, TickEnds, TransactionConfirmed, Continues,
       StartReturns, RebalanceReturns, MintReturns, CollectReturns, Completes, Confirmed,
       TransactionLands, memory, outside, At
  <2> QED
    BY <1>1, <1>2, <2>1 DEF HedgeIsKnown, At
<1>11. CASE LateTransaction \/ RequestStop \/ UNCHANGED vars
  <2>1. UNCHANGED <<pc, landed, held, hedge, dbPos, dbHedge>>
    BY <1>11 DEF LateTransaction, RequestStop, vars, control, memory, store, outside
  <2> QED
    BY <1>1, <1>2, <2>1 DEF HedgeIsKnown, At
<1> QED
  BY <1>3, <1>4, <1>5, <1>6, <1>7, <1>8, <1>9, <1>10, <1>11 DEF Next, Engine, Lands

\* For any number of attempts, positions and faults, an NFT or a position at the
\* venue is lost only by a fault at the awaits that follow its execution, by a
\* mint that executes late, or by the end of a process without rows.
THEOREM LostInWindows == Spec => LostOnlyInWindows
<1>1. TypeOK /\ ProgramInv /\ SafetyInv /\ KnownFacts /\ (TypeOK /\ KnownFacts)' /\ [Next]_vars
        => [/\ \A k \in Strays' \ Strays :
                 \/ Arriving(k) /\ faults' = faults + 1
                 \/ k \notin Tokens /\ late # <<>> /\ Head(late).op = "mint" /\ late' = Tail(late)
                 \/ k = position /\ EndsRowless
            /\ Orphaned' /\ ~Orphaned => faults' = faults + 1 \/ EndsRowless]_vars
  BY StrayStep, OrphanStep
<1>2. Spec => [](TypeOK /\ ProgramInv /\ SafetyInv /\ KnownFacts)
  BY TypeAndProgram, Safety, KnownIsKnown, PTL
<1> QED
  BY <1>1, <1>2, PTL DEF Spec, LostOnlyInWindows

\* The number of faults never falls.
LEMMA FaultsGrow ==
    ASSUME [Next]_vars
    PROVE  faults' \in {faults, faults + 1}
  BY DEF Next, Engine, Lands, Restores, OpensFresh, FetchAtStartFails, Halts, Stops, TickStarts,
     TickFails, Checks, RedisAnswers, Trips, HedgeStays, HedgeActs, HedgeTooSmall,
     HedgeOrderReturns, UnhedgeReturns, OrderRaises, OrderAnswered, OrderUnanswered, KeepsRange,
     Rebalances, CollectsFees, TickEnds, TransactionConfirmed, CollectUnnoticed, StartReturns,
     RebalanceReturns, MintReturns, CollectReturns, CloseReturns, DeadlineFails,
     ReceiptUnparsed, TransactionReverts, TransactionFails, TransactionLost, StopHedgeReturns,
     StopHedgeRaises, TransactionLands, OrderLands, LateTransaction, RequestStop, Crash,
     Restart, Fault, ghosts, vars

\* A hedge is lost by a fault, or with a position that was uneasy.
OrphanInv == Orphaned => faults > 0

\* A step that loses a hedge is a fault, or follows one.
LEMMA OrphanKept ==
    /\ TypeOK /\ ProgramInv /\ SafetyInv /\ KnownFacts /\ FaultInv
    /\ OrphanInv /\ [Next]_vars
    => OrphanInv'
<1> SUFFICES ASSUME TypeOK, ProgramInv, SafetyInv, KnownFacts, FaultInv, OrphanInv, [Next]_vars,
                    Orphaned'
             PROVE  faults' > 0
  BY DEF OrphanInv
<1>1. faults \in Nat /\ faults' \in {faults, faults + 1}
  BY FaultsGrow DEF TypeOK
<1>2. CASE Orphaned
  BY <1>1, <1>2 DEF OrphanInv
<1>3. CASE ~Orphaned /\ faults' = faults + 1
  BY <1>1, <1>3
<1>4. CASE HedgeIsKnown /\ (Halts \/ TransactionReverts)
  <2>1. ~Starting
    BY <1>4 DEF HedgeIsKnown, SafetyInv, PositionInv, Starting, At
  <2>2. Uneasy
    BY <1>4, <2>1, RevertsUneasy DEF Halts, Uneasy, KnownFacts, Running, At
  <2> QED
    BY <1>1, <2>2 DEF FaultInv
<1> QED
  BY <1>2, <1>3, <1>4, OrphanStep

\* For any number of attempts, positions and faults, each NFT nobody knows has a
\* fault of its own behind it, and a position at the venue nobody knows has one.
THEOREM LossesArePaidFor == Spec => []LossesNeedFaults
<1>1. Spec => [](TypeOK /\ ProgramInv /\ SafetyInv /\ KnownFacts)
  BY TypeAndProgram, Safety, KnownIsKnown, PTL
<1>2. Spec => []FaultInv
  BY <1>1, InitFault, FaultStep, PTL DEF Spec
<1>3. Init => OrphanInv
  BY DEF Init, OrphanInv, Orphaned
<1>4. Spec => []OrphanInv
  BY <1>1, <1>2, <1>3, OrphanKept, PTL DEF Spec
<1>5. TypeOK /\ KnownFacts /\ FaultInv /\ OrphanInv => LossesNeedFaults
  <2> SUFFICES ASSUME TypeOK, KnownFacts, FaultInv, OrphanInv PROVE LossesNeedFaults
    OBVIOUS
  <2>1. /\ \A p : Pays(p) \in {0, 1}
        /\ faults \in Nat /\ Cardinality(Strays) \in Nat /\ Cardinality(Mints(late)) \in Nat
    BY DEF Pays, TypeOK, KnownFacts
  <2> QED
    BY <2>1 DEF FaultInv, OrphanInv, LossesNeedFaults
<1> QED
  BY <1>1, <1>2, <1>4, <1>5, PTL
=============================================================================
