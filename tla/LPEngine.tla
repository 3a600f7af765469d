------------------------------- MODULE LPEngine -------------------------------
(***************************************************************************)
(* engine.py with the state it keeps in three places: its own memory, the  *)
(* rows of utils/state_store.py, and what it owns outside the process (the *)
(* position NFTs on chain and the position at the perp venue).             *)
(*                                                                         *)
(* The engine is one asyncio task; an action is the code between two       *)
(* awaits.  The calls of execution/lp_executor.py are sequences of         *)
(* transactions, each a _send of up to MaxAttempts attempts with the       *)
(* outcomes of SendContract; the orders of hedging/perp_executor.py are    *)
(* retried the same way.  What is sent has its effect in a step of its     *)
(* own, while the task awaits the receipt, the confirmations or the        *)
(* answer.  Market data is abstracted to the decisions it leads to, the    *)
(* size at the venue (PerpHedge) to whether there is any.  The chain, the  *)
(* venue, the operator and the crashes are external; what may go wrong,    *)
(* and how often, is a parameter.                                          *)
(***************************************************************************)
EXTENDS Integers, Sequences, FiniteSets

CONSTANTS
    MaxAttempts,   \* stop_after_attempt(3)
    MaxTokens,     \* bound of the positions deliberately opened
    Faults,        \* the kinds of fault that may happen
    MaxFaults      \* how many may happen in all

FaultKinds ==
    { "fail",       \* a call fails and has had no effect
      "revert",     \* a transaction reverts (slippage, deadline)
      "lost",       \* a call has its effect, now or later, but raises
      "unparsed",   \* a confirmed transaction's receipt is not understood
      "unfilled",   \* an immediate-or-cancel order is answered but not filled
      "trip",       \* the circuit breaker trips
      "crash" }     \* the process dies

ASSUME EngineAssumption ==
    /\ MaxAttempts \in Nat \ {0}
    /\ MaxTokens \in Nat
    /\ Faults \subseteq FaultKinds
    /\ MaxFaults \in Nat

VARIABLES
    pc,              \* where the engine's task awaits
    program,         \* the LP call being made: which handler made it
    todo,            \* the transactions it has still to make
    funded,          \* its mint has tokens to deposit
    attempt,         \* the attempt of the current transaction or order
    landed,          \* and this attempt has had its effect: the task awaits
                     \* the receipt and the confirmations, or the answer
    position,        \* _position.token_id, NoToken when _position is None
    hedge,           \* the size of ILHedgeManager._hedge
    il,              \* what the IL of this tick calls for
    tripped,         \* the breaker's flags
    stopRequested,
    dbPos,           \* token_id of the row in positions, NoToken without a row
    dbHedge,         \* the row in hedge_state
    nft,             \* the position NFTs ever minted, by token id
    late,            \* transactions the executor lost track of, in nonce order
    held,            \* the venue holds a position, short or long
    exit,            \* how the last process ended
    faults,          \* faults so far
    doubt,           \* ghost: a call had an effect that its caller did not see,
                     \* or none where it saw one
    unwound          \* ghost: _process_hedge has removed a hedge

control == <<pc, program, todo, funded, attempt, landed>>
memory  == <<position, hedge, il, tripped, stopRequested>>
store   == <<dbPos, dbHedge>>
outside == <<nft, late, held>>
ghosts  == <<exit, faults, doubt, unwound>>
vars    == <<pc, program, todo, funded, attempt, landed,
             position, hedge, il, tripped, stopRequested,
             dbPos, dbHedge, nft, late, held, exit, faults, doubt, unwound>>

NoToken == 0
Sizes == {"small", "large"}      \* |delta| below 0.05, or not
NoHedge == "none"

\* The IL of a tick: below the threshold; to be hedged; to be hedged although
\* above -0.2%, where a small hedge is removed (compute_il is positive above
\* the range).
ILs == {"quiet", "hedge", "unwind"}

Ops == {"mint", "decrease", "collect", "burn"}

Programs == {"none", "start", "rebalance", "collect", "stop"}

\* Mutants of Transactions: the new position is minted before the old one is
\* burned; a stop does not burn; fees are collected before the liquidity is
\* withdrawn.
MintBeforeBurn(p) ==
    CASE p = "start"     -> <<"mint">>
      [] p = "rebalance" -> <<"decrease", "collect", "mint", "burn">>
      [] p = "collect"   -> <<"collect">>
      [] p = "stop"      -> <<"decrease", "collect", "burn">>
StopWithoutBurn(p) ==
    CASE p = "start"     -> <<"mint">>
      [] p = "rebalance" -> <<"decrease", "collect", "burn", "mint">>
      [] p = "collect"   -> <<"collect">>
      [] p = "stop"      -> <<"decrease", "collect">>
CollectBeforeDecrease(p) ==
    CASE p = "start"     -> <<"mint">>
      [] p = "rebalance" -> <<"collect", "decrease", "burn", "mint">>
      [] p = "collect"   -> <<"collect">>
      [] p = "stop"      -> <<"collect", "decrease", "burn">>

Transactions(p) ==
    CASE p = "start"     -> <<"mint">>
      [] p = "rebalance" -> <<"decrease", "collect", "burn", "mint">>
      [] p = "collect"   -> <<"collect">>
      [] p = "stop"      -> <<"decrease", "collect", "burn">>

\* liquidity in the pool; withdrawn but owed; collected; gone.
NftStates == {"live", "drained", "empty", "burned"}

Tokens == 1 .. Len(nft)
Open(k) == nft[k] # "burned"

Places ==
    { "down",        \* no process
      "boot",        \* at the top of start()
      "top",         \* at the top of run_loop's while
      "tick",        \* in _tick, awaiting the snapshot and the prices
      "redis",       \* in breaker.check, awaiting the redis key
      "hedge",       \* awaiting the fee APR; _process_hedge is next
      "open",        \* awaiting open_short
      "adjust",      \* awaiting adjust_position
      "unhedge",     \* awaiting close_position in _process_hedge
      "rebalance",   \* awaiting the gas price; the rebalance decision is next
      "fees",        \* at _maybe_collect_fees
      "lp",          \* awaiting _send, or the block for its deadline
      "stopHedge" }  \* awaiting the price, then close_position, in stop()

Exits == {"none", "halted", "stopped", "startFailed", "stopFailed", "crashed"}

Tx == [op : Ops, token : Nat, funded : BOOLEAN]

Init ==
    /\ pc = "boot"
    /\ program = "none" /\ todo = <<>> /\ funded = FALSE /\ attempt = 1 /\ landed = FALSE
    /\ position = NoToken /\ hedge = NoHedge /\ il = "quiet"
    /\ tripped = FALSE /\ stopRequested = FALSE
    /\ dbPos = NoToken /\ dbHedge = NoHedge
    /\ nft = <<>> /\ late = <<>> /\ held = FALSE
    /\ exit = "none" /\ faults = 0 /\ doubt = FALSE /\ unwound = FALSE

-----------------------------------------------------------------------------
(* Control.                                                                *)

Fault(kind) ==
    /\ kind \in Faults
    /\ faults < MaxFaults
    /\ faults' = faults + 1

At(p) == pc = p

Goes(p) ==
    /\ pc' = p
    /\ UNCHANGED <<program, todo, funded, attempt, landed>>

\* The task starts the transactions of program p.
Begins(p) ==
    /\ pc' = "lp"
    /\ program' = p
    /\ todo' = Transactions(p)
    /\ funded' = (p = "start")
    /\ attempt' = 1 /\ landed' = FALSE

\* The program is over and the task goes on at p.
Returns(p) ==
    /\ pc' = p
    /\ program' = "none" /\ todo' = <<>> /\ funded' = FALSE /\ attempt' = 1 /\ landed' = FALSE

\* The process ends: its memory is gone.
Ends(e) ==
    /\ exit' = e
    /\ Returns("down")
    /\ position' = NoToken /\ hedge' = NoHedge /\ il' = "quiet"
    /\ tripped' = FALSE /\ stopRequested' = FALSE

\* Mutant of SavePosition: INSERT OR IGNORE instead of OR REPLACE.
SavePositionOnce(k) == dbPos' = IF dbPos = NoToken THEN k ELSE dbPos

SavePosition(k) == dbPos' = k
SaveHedge(h) == dbHedge' = h
DeletePosition == dbPos' = NoToken /\ dbHedge' = NoHedge

-----------------------------------------------------------------------------
(* start().                                                                *)

Restores ==
    /\ At("boot")
    /\ dbPos # NoToken
    /\ position' = dbPos
    /\ hedge' = dbHedge
    /\ Goes("top")
    /\ UNCHANGED <<il, tripped, stopRequested, store, outside, ghosts>>

OpensFresh ==
    /\ At("boot")
    /\ dbPos = NoToken
    /\ Begins("start")
    /\ UNCHANGED <<memory, store, outside, ghosts>>

FetchAtStartFails ==
    /\ At("boot")
    /\ dbPos = NoToken
    /\ Fault("fail")
    /\ Ends("startFailed")
    /\ UNCHANGED <<store, outside, doubt, unwound>>

-----------------------------------------------------------------------------
(* run_loop() and _tick() up to the trading.                               *)

Halts ==
    /\ At("top")
    /\ tripped
    /\ Ends("halted")
    /\ UNCHANGED <<store, outside, faults, doubt, unwound>>

\* Mutant of Stops: the rows are deleted before the position is closed.
StopsForgetting ==
    /\ At("top")
    /\ ~tripped
    /\ stopRequested
    /\ Begins("stop")
    /\ dbPos' = NoToken /\ dbHedge' = NoHedge
    /\ UNCHANGED <<memory, outside, ghosts>>

Stops ==
    /\ At("top")
    /\ ~tripped
    /\ stopRequested
    /\ Begins("stop")
    /\ UNCHANGED <<memory, store, outside, ghosts>>

\* Mutant of TickStarts: the stop flag is not looked at before every tick.
TickStartsAnyway ==
    /\ At("top")
    /\ ~tripped
    /\ Goes("tick")
    /\ UNCHANGED <<memory, store, outside, ghosts>>

TickStarts ==
    /\ At("top")
    /\ ~tripped
    /\ ~stopRequested
    /\ Goes("tick")
    /\ UNCHANGED <<memory, store, outside, ghosts>>

\* A fetch of the tick raises: logged, and the loop goes on.
TickFails ==
    /\ At("tick")
    /\ Fault("fail")
    /\ Goes("top")
    /\ UNCHANGED <<memory, store, outside, exit, doubt, unwound>>

\* check() does nothing once a stop is requested; otherwise a limit trips the
\* breaker at once or the redis key is awaited.
Checks ==
    /\ At("tick")
    /\ Goes(IF stopRequested THEN "hedge" ELSE "redis")
    /\ UNCHANGED <<memory, store, outside, ghosts>>

RedisAnswers ==
    /\ At("redis")
    /\ Goes("hedge")
    /\ UNCHANGED <<memory, store, outside, ghosts>>

Trips ==
    /\ \/ At("tick") /\ ~stopRequested
       \/ At("redis")
    /\ Fault("trip")
    /\ tripped' = TRUE
    /\ Goes("top")
    /\ UNCHANGED <<position, hedge, il, stopRequested, store, outside,
                   exit, doubt, unwound>>

-----------------------------------------------------------------------------
(* _process_hedge().                                                       *)

\* evaluate() returns None: the IL is quiet, or the hedge has not drifted.
HedgeStays ==
    /\ At("hedge")
    /\ Goes("rebalance")
    /\ UNCHANGED <<memory, store, outside, ghosts>>

\* evaluate() returns an action: open without a hedge, else adjust.
HedgeActs ==
    /\ At("hedge")
    /\ il' \in ILs \ {"quiet"}
    /\ Goes(IF hedge = NoHedge THEN "open" ELSE "adjust")
    /\ UNCHANGED <<position, hedge, tripped, stopRequested, store, outside, ghosts>>

\* open_hedge refuses a notional below 100 with an exception: the tick is over.
HedgeTooSmall ==
    /\ At("hedge")
    /\ hedge = NoHedge
    /\ Goes("top")
    /\ UNCHANGED <<memory, store, outside, ghosts>>

\* should_remove_hedge, asked after the action with the size it has left.
AfterHedge(size) == IF il = "unwind" /\ size = "small" THEN "unhedge" ELSE "rebalance"

Ordering == pc \in {"open", "adjust", "unhedge", "stopHedge"}

\* The venue fills the order.  An adjustment trades the change of the delta,
\* whatever it finds: it may flatten the position, turn it round or be too
\* small to trade (PerpHedge).
OrderLands ==
    /\ Ordering /\ ~landed
    /\ landed' = TRUE
    /\ held' \in CASE pc = "open"   -> {TRUE}
                   [] pc = "adjust" -> BOOLEAN
                   [] OTHER         -> {FALSE}
    /\ UNCHANGED <<pc, program, todo, funded, attempt, memory, store, nft, late, ghosts>>

\* The order is answered, and taken to be filled; it may not have been, or not
\* in full.
OrderAnswered ==
    \/ landed /\ UNCHANGED <<faults, doubt>>
    \/ Fault("unfilled") /\ doubt' = TRUE

\* Mutant of HedgeOrderReturns: the hedge is not saved.
HedgeUnsaved ==
    /\ pc \in {"open", "adjust"}
    /\ OrderAnswered
    /\ \E size \in Sizes : hedge' = size /\ Returns(AfterHedge(size))
    /\ il' = "quiet"
    /\ UNCHANGED <<position, tripped, stopRequested, store, outside, exit, unwound>>

HedgeOrderReturns ==
    /\ pc \in {"open", "adjust"}
    /\ OrderAnswered
    /\ \E size \in Sizes :
        /\ hedge' = size
        /\ SaveHedge(size)
        /\ Returns(AfterHedge(size))
    /\ il' = "quiet"
    /\ UNCHANGED <<position, tripped, stopRequested, dbPos, outside, exit, unwound>>

UnhedgeReturns ==
    /\ At("unhedge")
    /\ OrderAnswered
    /\ hedge' = NoHedge
    /\ DeletePosition
    /\ Returns("rebalance")
    /\ unwound' = TRUE
    /\ UNCHANGED <<position, il, tripped, stopRequested, outside, exit>>

\* The order failed, or its answer did not arrive.
OrderUnanswered ==
    \/ ~landed /\ Fault("fail") /\ UNCHANGED doubt
    \/ landed /\ Fault("lost") /\ doubt' = TRUE

\* An order raises.  Opening and adjusting are retried, closing is not; the tick
\* ends with the exception.
OrderRaises ==
    /\ pc \in {"open", "adjust", "unhedge"}
    /\ OrderUnanswered
    /\ IF pc # "unhedge" /\ attempt < MaxAttempts
       THEN /\ attempt' = attempt + 1 /\ landed' = FALSE
            /\ UNCHANGED <<pc, program, todo, funded, il>>
       ELSE Returns("top") /\ il' = "quiet"
    /\ UNCHANGED <<position, hedge, tripped, stopRequested, store, outside, exit, unwound>>

-----------------------------------------------------------------------------
(* _process_rebalance() and _maybe_collect_fees().                         *)

\* Not allowed by the breaker, or not approved by the rebalance engine.
KeepsRange ==
    /\ At("rebalance")
    /\ Goes("fees")
    /\ UNCHANGED <<memory, store, outside, ghosts>>

Rebalances ==
    /\ At("rebalance")
    /\ Len(nft) < MaxTokens
    /\ Begins("rebalance")
    /\ UNCHANGED <<memory, store, outside, ghosts>>

CollectsFees ==
    /\ At("fees")
    /\ Begins("collect")
    /\ UNCHANGED <<memory, store, outside, ghosts>>

TickEnds ==
    /\ At("fees")
    /\ Goes("top")
    /\ UNCHANGED <<memory, store, outside, ghosts>>

-----------------------------------------------------------------------------
(* Transactions: _send, and what the position manager does with them.      *)

\* The transaction can execute: a decrease needs the liquidity it withdraws, a
\* burn an NFT with nothing owed, a collect and a burn an NFT that exists.
Executes(op, k, hasTokens) ==
    CASE op = "mint"     -> hasTokens
      [] op = "decrease" -> nft[k] = "live"
      [] op = "collect"  -> nft[k] # "burned"
      [] op = "burn"     -> nft[k] = "empty"

Result(op, k) ==
    CASE op = "mint"     -> Append(nft, "live")
      [] op = "decrease" -> [nft EXCEPT ![k] = "drained"]
      [] op = "collect"  -> [nft EXCEPT ![k] = IF @ = "drained" THEN "empty" ELSE @]
      [] op = "burn"     -> [nft EXCEPT ![k] = "burned"]

Current == [op |-> Head(todo), token |-> position, funded |-> funded]

\* _collect_all returns what was owed: nothing if an earlier attempt took it.
TokensInHand == IF Head(todo) = "collect" THEN nft[position] = "drained" ELSE funded

\* The current transaction executes; by nonce order everything sent before it
\* has executed or is gone.  The task still awaits its receipt and then its
\* confirmations.
TransactionLands ==
    /\ At("lp") /\ ~landed
    /\ late = <<>>
    /\ Executes(Head(todo), position, funded)
    /\ landed' = TRUE
    /\ nft' = Result(Head(todo), position)
    /\ funded' = TokensInHand
    /\ UNCHANGED <<pc, program, todo, attempt, memory, store, late, held, ghosts>>

\* It has its receipt and its confirmations.
Confirmed == At("lp") /\ landed

\* The call goes on to its next transaction.
Continues ==
    /\ Len(todo) > 1
    /\ todo' = Tail(todo)
    /\ attempt' = 1 /\ landed' = FALSE
    /\ UNCHANGED <<pc, program, memory, store, outside, exit, unwound>>

TransactionConfirmed ==
    /\ Confirmed
    /\ Continues
    /\ UNCHANGED <<funded, faults, doubt>>

\* A collect whose log is not found is taken to have collected nothing.
CollectUnnoticed ==
    /\ Confirmed
    /\ Head(todo) = "collect"
    /\ Fault("unparsed")
    /\ Continues
    /\ funded' = FALSE /\ doubt' = TRUE

Completes(p) == Confirmed /\ Len(todo) = 1 /\ program = p

\* The new NFT becomes the engine's position and is saved without an await.
MintReturns(p, next) ==
    /\ Completes(p)
    /\ position' = Len(nft)
    /\ SavePosition(Len(nft))
    /\ Returns(next)
    /\ UNCHANGED <<hedge, il, tripped, stopRequested, dbHedge, outside, ghosts>>

StartReturns == MintReturns("start", "top")
RebalanceReturns == MintReturns("rebalance", "fees")

CollectReturns ==
    /\ Completes("collect")
    /\ SavePosition(position)
    /\ Returns("top")
    /\ UNCHANGED <<memory, dbHedge, outside, ghosts>>

\* Mutant of CloseReturns: stop() does not look at the hedge.
CloseReturnsUnhedged ==
    /\ Completes("stop")
    /\ DeletePosition /\ Ends("stopped")
    /\ UNCHANGED <<outside, faults, doubt, unwound>>

\* close_position in stop(): the hedge is next, or the rows.
CloseReturns ==
    /\ Completes("stop")
    /\ IF hedge = NoHedge
       THEN DeletePosition /\ Ends("stopped") /\ UNCHANGED <<faults, doubt, unwound>>
       ELSE Returns("stopHedge") /\ UNCHANGED <<memory, store, ghosts>>
    /\ UNCHANGED outside

\* An exception leaves the handler: the loop logs that of a tick, those of
\* start() and stop() end the process.
HandlerRaises ==
    IF program \in {"rebalance", "collect"}
    THEN Returns("top") /\ UNCHANGED <<memory, exit>>
    ELSE Ends(IF program = "start" THEN "startFailed" ELSE "stopFailed")

\* Mutant of AttemptRaises: one attempt too many.
AttemptRaisesOnceMore ==
    /\ IF attempt <= MaxAttempts
       THEN /\ attempt' = attempt + 1 /\ landed' = FALSE
            /\ UNCHANGED <<pc, program, todo, funded, memory, exit>>
       ELSE HandlerRaises
    /\ UNCHANGED <<store, nft, held, unwound>>

AttemptRaises ==
    /\ IF attempt < MaxAttempts
       THEN /\ attempt' = attempt + 1 /\ landed' = FALSE
            /\ UNCHANGED <<pc, program, todo, funded, memory, exit>>
       ELSE HandlerRaises
    /\ UNCHANGED <<store, nft, held, unwound>>

\* The block for the deadline of a mint or a decrease is fetched before _send
\* and without its retries.
DeadlineFails ==
    /\ At("lp") /\ ~landed
    /\ attempt = 1
    /\ Head(todo) \in {"mint", "decrease"}
    /\ Fault("fail")
    /\ HandlerRaises
    /\ UNCHANGED <<store, outside, doubt, unwound>>

\* The log of a mint is not found, or that of a mint or a collect not decoded:
\* raised after the confirmations, and so without a retry.
ReceiptUnparsed ==
    /\ Confirmed
    /\ Head(todo) \in {"mint", "collect"}
    /\ Fault("unparsed")
    /\ doubt' = TRUE
    /\ HandlerRaises
    /\ UNCHANGED <<store, outside, unwound>>

\* The transaction cannot execute any more and reverts.
TransactionReverts ==
    /\ At("lp") /\ ~landed
    /\ late = <<>>
    /\ ~Executes(Head(todo), position, funded)
    /\ AttemptRaises
    /\ UNCHANGED <<late, faults, doubt>>

TransactionFails ==
    /\ At("lp") /\ ~landed
    /\ \/ Fault("fail")
       \/ late = <<>> /\ Fault("revert")
    /\ AttemptRaises
    /\ UNCHANGED <<late, doubt>>

\* No answer tells what becomes, or became, of the transaction: it may execute
\* later, or has executed.
TransactionLost ==
    /\ At("lp")
    /\ Fault("lost")
    /\ late' = IF landed THEN late ELSE Append(late, Current)
    /\ doubt' = TRUE
    /\ AttemptRaises

\* A lost transaction executes, or reverts or is dropped.
LateTransaction ==
    /\ late # <<>>
    /\ late' = Tail(late)
    /\ \/ /\ Executes(Head(late).op, Head(late).token, Head(late).funded)
          /\ nft' = Result(Head(late).op, Head(late).token)
       \/ UNCHANGED nft
    /\ UNCHANGED <<control, memory, store, held, ghosts>>

-----------------------------------------------------------------------------
(* The end of stop().                                                      *)

StopHedgeReturns ==
    /\ At("stopHedge")
    /\ OrderAnswered
    /\ DeletePosition
    /\ Ends("stopped")
    /\ UNCHANGED <<outside, unwound>>

\* The oracle or the venue raises: stop() has no retry and the process ends.
StopHedgeRaises ==
    /\ At("stopHedge")
    /\ OrderUnanswered
    /\ Ends("stopFailed")
    /\ UNCHANGED <<store, outside, unwound>>

-----------------------------------------------------------------------------
(* The operator and the machine.                                           *)

RequestStop ==
    /\ ~At("down")
    /\ stopRequested' = TRUE
    /\ UNCHANGED <<control, position, hedge, il, tripped, store, outside, ghosts>>

\* A call under way at the crash may have had its effect, or a transaction have
\* it later.
Crash ==
    /\ ~At("down")
    /\ Fault("crash")
    /\ \/ doubt' = (doubt \/ landed) /\ UNCHANGED late
       \/ At("lp") /\ ~landed /\ late' = Append(late, Current) /\ doubt' = TRUE
    /\ Ends("crashed")
    /\ UNCHANGED <<store, nft, held, unwound>>

\* A process that did not stop gracefully is started again.
Restart ==
    /\ At("down")
    /\ exit # "stopped"
    /\ dbPos # NoToken \/ Len(nft) < MaxTokens
    /\ Goes("boot")
    /\ UNCHANGED <<memory, store, outside, ghosts>>

Engine ==
    \/ Restores \/ OpensFresh \/ FetchAtStartFails
    \/ Halts \/ Stops \/ TickStarts \/ TickFails
    \/ Checks \/ RedisAnswers \/ Trips
    \/ HedgeStays \/ HedgeActs \/ HedgeTooSmall
    \/ HedgeOrderReturns \/ UnhedgeReturns \/ OrderRaises
    \/ KeepsRange \/ Rebalances \/ CollectsFees \/ TickEnds
    \/ TransactionConfirmed \/ CollectUnnoticed
    \/ StartReturns \/ RebalanceReturns \/ CollectReturns \/ CloseReturns
    \/ DeadlineFails \/ ReceiptUnparsed
    \/ TransactionReverts \/ TransactionFails \/ TransactionLost
    \/ StopHedgeReturns \/ StopHedgeRaises

\* What is sent takes effect.
Lands == TransactionLands \/ OrderLands

Next == Engine \/ Lands \/ LateTransaction \/ RequestStop \/ Crash \/ Restart

Spec == Init /\ [][Next]_vars

\* The transaction has executed and too few blocks follow: _wait_confirmations
\* polls without a timeout (lp_executor.py 176-181).
AwaitsBlocks == At("lp") /\ landed

\* The event loop runs the engine's task and every request of it ends, but the
\* wait for blocks need not; what is sent takes effect in time, unless a fault
\* says otherwise, and a transaction that is out executes or is dropped.
FairSpec ==
    /\ Spec
    /\ WF_vars(~AwaitsBlocks /\ Engine) /\ WF_vars(Lands) /\ WF_vars(LateTransaction)

\* Besides, blocks are produced, and there is an operator who wants the engine
\* stopped: restarts it when it is down and requests a stop when it is up.
OperatedSpec == FairSpec /\ WF_vars(Engine) /\ WF_vars(Restart) /\ WF_vars(RequestStop)

-----------------------------------------------------------------------------
(* Properties.                                                             *)

TypeOK ==
    /\ pc \in Places
    /\ program \in Programs
    /\ todo \in Seq(Ops)
    /\ funded \in BOOLEAN
    /\ attempt \in 1 .. MaxAttempts
    /\ landed \in BOOLEAN
    /\ position \in Nat
    /\ hedge \in Sizes \cup {NoHedge}
    /\ il \in ILs
    /\ tripped \in BOOLEAN
    /\ stopRequested \in BOOLEAN
    /\ dbPos \in Nat
    /\ dbHedge \in Sizes \cup {NoHedge}
    /\ nft \in Seq(NftStates)
    /\ late \in Seq(Tx)
    /\ held \in BOOLEAN
    /\ exit \in Exits
    /\ faults \in Nat
    /\ doubt \in BOOLEAN
    /\ unwound \in BOOLEAN

\* The rows a restart would restore are what the running engine believes: a row
\* that exists is never behind memory at an await, so a crash anywhere loses
\* nothing that was saved (engine.py 107-122, 195-212, 258-262, 272-274).
StoreMatchesMemory ==
    /\ position # NoToken /\ dbPos # NoToken => dbPos = position
    /\ hedge # NoHedge => dbHedge = hedge

\* Without doubt, and unless a hedge was removed (which deletes the position's
\* row, engine.py 212), what the venue holds is the hedge of the store, at every
\* await but that of the answer which opens it.  The converse is no property of
\* the code: an adjustment may have flattened the hedge (perp_executor.py
\* 127-146).
HedgeIsRecorded ==
    ~doubt /\ ~unwound /\ held => dbHedge # NoHedge \/ (At("open") /\ landed)

\* The NFT of a mint whose receipt and confirmations the task awaits.
Arriving(k) == At("lp") /\ landed /\ Head(todo) = "mint" /\ k = Len(nft)

\* The NFTs that hold something and that neither the engine nor the store knows
\* or is about to.
Strays == {k \in Tokens : Open(k) /\ k # position /\ k # dbPos /\ ~Arriving(k)}

\* A hedge the engine has, or restores when it is started: the hedge's row is
\* read only with the position's (engine.py 79-87).
HedgeIsKnown ==
    \/ hedge # NoHedge
    \/ pc \in {"down", "boot"} /\ dbPos # NoToken /\ dbHedge # NoHedge

\* The venue holds a position that the engine would neither adjust nor close.
Orphaned == held /\ ~HedgeIsKnown /\ ~(At("open") /\ landed)

\* The process ends while a removed hedge has taken the position's row with it.
EndsRowless == dbPos = NoToken /\ unwound /\ pc' = "down"

\* At the awaits of the receipt and the confirmations (lp_executor.py 158, 168)
\* an NFT is open that no row and no variable of the engine names, and so is the
\* position of an order not yet answered; a fault there is one of three ways to
\* lose it.  The others are a mint given up that executes late, and the end of a
\* process that has removed a hedge, whatever ends it.  No retry, rebalance,
\* fee collection, stop or restart loses a position or a hedge by itself
\* (engine.py 79-139, 195-212, 255-274).
LostOnlyInWindows ==
    [][/\ \A k \in Strays' \ Strays :
            \/ Arriving(k) /\ faults' = faults + 1
            \/ k \notin Tokens /\ late # <<>> /\ Head(late).op = "mint" /\ late' = Tail(late)
            \/ k = position /\ EndsRowless
       /\ Orphaned' /\ ~Orphaned => faults' = faults + 1 \/ EndsRowless]_vars

\* Every NFT nobody knows has a fault of its own behind it, and a position at the
\* venue that nobody knows has one: no fault, however it is retried, followed by
\* late executions or met by a restart without rows, loses two positions, and no
\* row that is deleted with a hedge loses anything by itself (lp_executor.py
\* 141-171, perp_executor.py 51-94, engine.py 125-159 and 205-212).
LossesNeedFaults ==
    /\ Cardinality(Strays) <= faults
    /\ Orphaned => faults > 0

\* A rebalance or a fresh start never adds liquidity while the position the
\* engine knows still exists, even when answers are lost and transactions
\* execute late (lp_executor.py 106-123).
MintOnlyAfterBurn ==
    [][Len(nft') > Len(nft) /\ position # NoToken
         => nft[position] = "burned"]_vars

\* A graceful stop that completes has burned the position and removed the rows;
\* without doubt it also leaves no other NFT open and the venue flat
\* (engine.py 125-139).
StopIsComplete ==
    At("down") /\ exit = "stopped" =>
        /\ dbPos = NoToken /\ dbHedge = NoHedge
        /\ ~doubt /\ ~unwound => ~held /\ \A k \in Tokens : ~Open(k)

\* The step that completes a graceful stop leaves the engine's NFT burned,
\* whatever answers were lost.
StopBurnsPosition ==
    [][exit' = "stopped" /\ ~At("down") => nft'[position] = "burned"]_vars

\* A requested stop ends the process, or waits for ever for blocks on top of a
\* transaction: everything else in its way is bounded retries (engine.py
\* 150-153, lp_executor.py 173-181).
StopEndsProcess == stopRequested ~> At("down") \/ []AwaitsBlocks

\* What the engine still does once a stop is requested: what is left of the
\* attempts of the call under way, the rest of its tick, and at the top of the
\* loop the three transactions of the stop and the closing of the hedge.
AfterCall(p) ==
    CASE p = "stop"      -> 1
      [] p = "rebalance" -> 3 + 4 * MaxAttempts
      [] OTHER           -> 2 + 3 * MaxAttempts

AttemptsLeft == MaxAttempts - attempt + 1

StepsLeft ==
    CASE At("lp")               -> (Len(todo) - 1) * MaxAttempts + AttemptsLeft + AfterCall(program)
      [] At("stopHedge")        -> 1
      [] At("top")              -> 2 + 3 * MaxAttempts
      [] pc \in {"fees", "boot"} -> 3 + 4 * MaxAttempts
      [] At("rebalance")        -> 4 + 8 * MaxAttempts
      [] At("unhedge")          -> 5 + 8 * MaxAttempts
      [] pc \in {"open", "adjust"} -> 5 + 8 * MaxAttempts + AttemptsLeft
      [] At("hedge")            -> 6 + 9 * MaxAttempts
      [] At("redis")            -> 7 + 9 * MaxAttempts
      [] At("tick")             -> 8 + 9 * MaxAttempts
      [] At("down")             -> 0

\* Once a stop is requested every step of the engine leaves it fewer, whatever
\* fails, and nothing gives it more: the process ends within 8 + 9 * MaxAttempts
\* steps of its own, at whatever await of a tick the request finds it.  This is
\* what the bound of StopEndsProcess rests on (engine.py 125-153, 167-184).
StopRunsDown ==
    [][stopRequested =>
        /\ StepsLeft' <= StepsLeft
        /\ Engine => StepsLeft' \in 0 .. StepsLeft - 1]_vars

\* As long as no fault happens a requested stop closes everything, at whatever
\* await of a start or a tick it arrives, and blocks are produced (engine.py
\* 125-153).
StopCloses == stopRequested ~> exit = "stopped" \/ faults > 0 \/ []AwaitsBlocks

\* "engine recovers open positions after restart" (README.md 15), "hedge gone,
\* keep position" (engine.py 212): a start opens a fresh position only if no
\* other one is open, as long as no call was left in doubt.
RestartRecovers ==
    ~doubt /\ program = "start" => \A k \in Tokens : Open(k) => Arriving(k)

\* "graceful stop, closes positions" (circuit_breaker.py 5): an operator who
\* keeps restarting and stopping an engine in which a bounded number of calls
\* failed gets it stopped.
StopEventuallyCloses == <>(exit = "stopped")
=============================================================================
