------------------------------- MODULE TxSender -------------------------------
(***************************************************************************)
(* execution/nonce_manager.py and LPExecutor._send: asyncio tasks that     *)
(* each make one _send call, of up to MaxAttempts attempts, through one    *)
(* NonceManager shared by the executors of a wallet.                       *)
(*                                                                         *)
(* The node and the chain are external: a mempool that takes a transaction *)
(* only if its nonce is not used and not pending (the priority fee of      *)
(* every attempt is the same, so a replacement is always underpriced), and *)
(* a chain that executes transactions in nonce order.  The node's answers  *)
(* may be lost, a transaction may be evicted from the mempool, and blocks  *)
(* may cease to be produced.                                               *)
(***************************************************************************)
EXTENDS Integers, Sequences

CONSTANTS
    Tasks,         \* coroutines in _send
    MaxAttempts,   \* stop_after_attempt(3)
    Confirmations, \* min_confirmations
    MaxNonce,      \* bound of the node's answer, for model checking
    MaxDrops       \* bound of the evictions, for model checking

ASSUME SenderAssumption ==
    /\ MaxAttempts \in Nat \ {0}
    /\ Confirmations \in Nat
    /\ MaxNonce \in Nat
    /\ MaxDrops \in Nat

VARIABLES
    nonce,     \* NonceManager._nonce, NoNonce for None
    lock,      \* the task inside NonceManager._lock, NoTask when free
    pc,        \* where each task awaits
    attempt,   \* the attempt each task is making
    mine,      \* the nonce of the current attempt of each task
    mempool,   \* transactions pending at the node
    chain,     \* transactions executed, in nonce order
    buried,    \* how many of them have min_confirmations blocks on top
    drops,     \* evictions so far
    doubt,     \* ghost: the tasks that ended an attempt without a definite answer
    epoch,     \* ghost: how many times the manager has been reset
    issued     \* ghost: the nonces given out since the last reset

managerVars == <<nonce, lock, epoch, issued>>
nodeVars == <<mempool, chain, buried, drops>>
vars == <<nonce, lock, pc, attempt, mine, mempool, chain, buried, drops, doubt, epoch,
          issued>>

NoNonce == -1
NoTask == "no task"

ASSUME NoTaskAssumption == NoTask \notin Tasks

Places ==
    { "gas",       \* awaiting the latest block for the gas parameters
      "next",      \* awaiting the manager's lock in next()
      "fetch",     \* in next(), holding the lock, awaiting the pending count
      "send",      \* nonce in hand, awaiting send_raw_transaction
      "receipt",   \* awaiting the receipt
      "confirm",   \* executed; awaiting the confirmations
      "reset",     \* in the except branch, awaiting the lock in reset()
      "done",
      "failed" }

Tx == [task : Tasks, attempt : 1 .. MaxAttempts, nonce : Nat]
Executed == [task : Tasks, attempt : 1 .. MaxAttempts, ok : BOOLEAN]

Init ==
    /\ nonce = NoNonce
    /\ lock = NoTask
    /\ pc = [t \in Tasks |-> "gas"]
    /\ attempt = [t \in Tasks |-> 1]
    /\ mine = [t \in Tasks |-> NoNonce]
    /\ mempool = {}
    /\ chain = <<>>
    /\ buried = 0
    /\ drops = 0
    /\ doubt = {}
    /\ epoch = 0
    /\ issued = {}

-----------------------------------------------------------------------------
(* The node.                                                               *)

\* A nonce is used up by a transaction that executed, pending with one in the
\* mempool; a gap before it does not make the node refuse.
Accepts(n) == n >= Len(chain) /\ \A tx \in mempool : tx.nonce # n

\* get_transaction_count(account, "pending"): executed transactions and the
\* pending ones that follow them without a gap.
IsPendingCount(n) ==
    /\ n >= Len(chain)
    /\ \A m \in Len(chain) .. n - 1 : \E tx \in mempool : tx.nonce = m
    /\ \A tx \in mempool : tx.nonce # n

Mine(tx) ==
    /\ tx.nonce = Len(chain)
    /\ mempool' = mempool \ {tx}
    /\ \E ok \in BOOLEAN :
        chain' = Append(chain, [task |-> tx.task, attempt |-> tx.attempt, ok |-> ok])
    /\ UNCHANGED <<managerVars, pc, attempt, mine, buried, drops, doubt>>

Evict(tx) ==
    /\ drops < MaxDrops
    /\ drops' = drops + 1
    /\ mempool' = mempool \ {tx}
    /\ UNCHANGED <<managerVars, pc, attempt, mine, chain, buried, doubt>>

\* Blocks are produced: more transactions are deep enough.
Buries ==
    /\ buried' \in buried + 1 .. Len(chain)
    /\ UNCHANGED <<managerVars, pc, attempt, mine, mempool, chain, drops, doubt>>

Node == Buries \/ \E tx \in mempool : Mine(tx) \/ Evict(tx)

-----------------------------------------------------------------------------
(* One attempt.                                                            *)

Goes(t, from, to) == pc[t] = from /\ pc' = [pc EXCEPT ![t] = to]

\* Mutant of Raises: one attempt too many.
RaisesOnceMore(t, from) ==
    /\ Goes(t, from, IF attempt[t] <= MaxAttempts THEN "gas" ELSE "failed")
    /\ attempt' = IF attempt[t] <= MaxAttempts
                  THEN [attempt EXCEPT ![t] = @ + 1] ELSE attempt

\* Mutant of Raises: the attempts are not counted.
RaisesUncounted(t, from) ==
    /\ Goes(t, from, IF attempt[t] < MaxAttempts THEN "gas" ELSE "failed")
    /\ UNCHANGED attempt

\* The exception leaves _send: tenacity makes the next attempt or gives up.
Raises(t, from) ==
    /\ Goes(t, from, IF attempt[t] < MaxAttempts THEN "gas" ELSE "failed")
    /\ attempt' = IF attempt[t] < MaxAttempts
                  THEN [attempt EXCEPT ![t] = @ + 1] ELSE attempt

LosesTrack(t) == doubt' = doubt \cup {t}

GasParams(t) ==
    /\ Goes(t, "gas", "next")
    /\ UNCHANGED <<managerVars, attempt, mine, nodeVars, doubt>>

GasParamsFail(t) ==
    /\ Raises(t, "gas")
    /\ UNCHANGED <<managerVars, mine, nodeVars, doubt>>

\* The manager hands out n; the lock is free again when next() returns.
Issues(t, n) ==
    /\ nonce' = n + 1
    /\ mine' = [mine EXCEPT ![t] = n]
    /\ issued' = issued \cup {n}
    /\ UNCHANGED epoch

\* next(): with a known counter there is no await inside the lock.
NextKnown(t) ==
    /\ lock = NoTask
    /\ nonce # NoNonce
    /\ Issues(t, nonce)
    /\ Goes(t, "next", "send")
    /\ UNCHANGED <<lock, attempt, nodeVars, doubt>>

\* Mutant of NextUnknown: the node is asked outside the lock.
NextUnlocked(t) ==
    /\ lock = NoTask
    /\ nonce = NoNonce
    /\ Goes(t, "next", "fetch")
    /\ UNCHANGED <<managerVars, attempt, mine, nodeVars, doubt>>

NextUnknown(t) ==
    /\ lock = NoTask
    /\ nonce = NoNonce
    /\ lock' = t
    /\ Goes(t, "next", "fetch")
    /\ UNCHANGED <<nonce, epoch, issued, attempt, mine, nodeVars, doubt>>

FetchAnswers(t) ==
    /\ \E n \in 0 .. MaxNonce : IsPendingCount(n) /\ Issues(t, n)
    /\ lock' = NoTask
    /\ Goes(t, "fetch", "send")
    /\ UNCHANGED <<attempt, nodeVars, doubt>>

\* Mutant of FetchFails: acquire and release without a finally.
FetchFailsLocked(t) ==
    /\ Raises(t, "fetch")
    /\ UNCHANGED <<managerVars, mine, nodeVars, doubt>>

\* The exception releases the lock and is not in _send's try: no reset.
FetchFails(t) ==
    /\ lock' = NoTask
    /\ Raises(t, "fetch")
    /\ UNCHANGED <<nonce, epoch, issued, mine, nodeVars, doubt>>

Submits(t) ==
    /\ Accepts(mine[t])
    /\ mempool' = mempool \cup
         {[task |-> t, attempt |-> attempt[t], nonce |-> mine[t]]}

SendAccepted(t) ==
    /\ Submits(t)
    /\ Goes(t, "send", "receipt")
    /\ UNCHANGED <<managerVars, attempt, mine, chain, buried, drops, doubt>>

\* The node took the transaction but its answer did not arrive.
SendAnswerLost(t) ==
    /\ Submits(t)
    /\ LosesTrack(t)
    /\ Goes(t, "send", "reset")
    /\ UNCHANGED <<managerVars, attempt, mine, chain, buried, drops>>

\* Mutant of SendFails: the send is outside the try that resets the manager.
SendFailsUnreset(t) ==
    /\ Raises(t, "send")
    /\ UNCHANGED <<managerVars, mine, nodeVars, doubt>>

\* Signing failed, the node was not reached, or it refused the transaction.
SendFails(t) ==
    /\ Goes(t, "send", "reset")
    /\ UNCHANGED <<managerVars, attempt, mine, nodeVars, doubt>>

Receipt(t, ok) ==
    \E i \in 1 .. Len(chain) :
        chain[i] = [task |-> t, attempt |-> attempt[t], ok |-> ok]

ReceiptSuccess(t) ==
    /\ Receipt(t, TRUE)
    /\ Goes(t, "receipt", "confirm")
    /\ UNCHANGED <<managerVars, attempt, mine, nodeVars, doubt>>

\* Mutant of ReceiptReverted: the status of the receipt is not looked at.
RevertUnnoticed(t) ==
    /\ Receipt(t, FALSE)
    /\ Goes(t, "receipt", "confirm")
    /\ UNCHANGED <<managerVars, attempt, mine, nodeVars, doubt>>

ReceiptReverted(t) ==
    /\ Receipt(t, FALSE)
    /\ Goes(t, "receipt", "reset")
    /\ UNCHANGED <<managerVars, attempt, mine, nodeVars, doubt>>

\* The 120 s passed or the node failed, whatever the transaction did.
ReceiptFails(t) ==
    /\ LosesTrack(t)
    /\ Goes(t, "receipt", "reset")
    /\ UNCHANGED <<managerVars, attempt, mine, nodeVars>>

\* reset(), and then the exception.
Reset(t) ==
    /\ lock = NoTask
    /\ nonce' = NoNonce
    /\ epoch' = epoch + 1
    /\ issued' = {}
    /\ Raises(t, "reset")
    /\ UNCHANGED <<lock, mine, nodeVars, doubt>>

\* A poll of the block number finds the transaction deep enough; one or no
\* confirmation is not waited for.
DeepEnough(t) ==
    \/ Confirmations <= 1
    \/ \E i \in 1 .. buried : chain[i].task = t /\ chain[i].attempt = attempt[t]

\* Mutant of Confirmed: a call is retried although it was confirmed.
ConfirmedRetried(t) ==
    /\ DeepEnough(t)
    /\ Raises(t, "confirm")
    /\ UNCHANGED <<managerVars, mine, nodeVars, doubt>>

\* A poll that finds it less deep changes nothing, and there is no last one.
Confirmed(t) ==
    /\ DeepEnough(t)
    /\ Goes(t, "confirm", "done")
    /\ UNCHANGED <<managerVars, attempt, mine, nodeVars, doubt>>

\* The node failed while the confirmations were awaited: the call is retried
\* although its transaction has executed, and the manager is not reset.
ConfirmFails(t) ==
    /\ LosesTrack(t)
    /\ Raises(t, "confirm")
    /\ UNCHANGED <<managerVars, mine, nodeVars>>

\* What a task does when each of its requests is answered, or refused in time.
Proceeds(t) ==
    \/ GasParams(t) \/ GasParamsFail(t)
    \/ NextKnown(t) \/ NextUnknown(t)
    \/ FetchAnswers(t) \/ FetchFails(t)
    \/ SendAccepted(t) \/ SendAnswerLost(t) \/ SendFails(t)
    \/ ReceiptSuccess(t) \/ ReceiptReverted(t) \/ ReceiptFails(t)
    \/ Reset(t)
    \/ Confirmed(t)

Task(t) == Proceeds(t) \/ ConfirmFails(t)

Next == Node \/ \E t \in Tasks : Task(t)

Spec == Init /\ [][Next]_vars

\* Each request of a task is answered or times out, and the event loop comes
\* back to it.  Nothing is asked of the node: neither that it produces blocks
\* nor that a poll of the block number ever fails.
FairSpec == Spec /\ \A t \in Tasks : WF_vars(Proceeds(t))

-----------------------------------------------------------------------------
(* Properties.                                                             *)

TypeOK ==
    /\ nonce \in Nat \cup {NoNonce}
    /\ lock \in Tasks \cup {NoTask}
    /\ pc \in [Tasks -> Places]
    /\ attempt \in [Tasks -> 1 .. MaxAttempts]
    /\ mine \in [Tasks -> Nat \cup {NoNonce}]
    /\ mempool \subseteq Tx
    /\ chain \in Seq(Executed)
    /\ buried \in 0 .. Len(chain)
    /\ drops \in Nat
    /\ doubt \subseteq Tasks
    /\ epoch \in Nat
    /\ issued \subseteq Nat

InFlight == {t \in Tasks : pc[t] \in {"send", "receipt", "reset"}}

Ended(t) == pc[t] \in {"done", "failed"}

\* Between two resets next() never gives out a nonce twice, although it awaits
\* the node between reading the counter and advancing it (nonce_manager.py
\* 22-30).
NoncesDistinctBetweenResets ==
    [][epoch' = epoch => \A t \in Tasks :
         mine'[t] # mine[t] => mine'[t] \notin issued]_vars

\* When no transaction is in flight the counter is not ahead of the chain, so
\* that the next transaction of the wallet does not wait behind a gap: every
\* way out of an attempt that did not use its nonce resets the counter
\* (lp_executor.py 155-165).
NoGapWhenQuiet ==
    InFlight = {} => nonce = NoNonce \/ nonce <= Len(chain)

\* A call that returned has executed, and one that never lost track of a
\* transaction executed at most once and has nothing left in the mempool
\* (lp_executor.py 141-171).
EndedCallIsAccountedFor ==
    \A t \in Tasks :
        LET executions == {i \in 1 .. Len(chain) : chain[i].task = t /\ chain[i].ok}
        IN  /\ pc[t] = "done" => executions # {}
            /\ Ended(t) /\ t \notin doubt =>
                /\ \A i, j \in executions : i = j
                /\ pc[t] = "failed" => executions = {}
                /\ \A tx \in mempool : tx.task # t

\* The transaction has executed and is not deep enough: the polling loop, which
\* has no timeout, goes round (lp_executor.py 176-181).
AwaitsBlocks(t) == pc[t] = "confirm" /\ ~DeepEnough(t)

\* Every call ends, or hangs where only blocks are missing: nothing else of the
\* node or of another call can hold it, for the lock is always released, also
\* while another call hangs, and the attempts are bounded (lp_executor.py
\* 140-181, nonce_manager.py 20-36).
EveryCallEnds == \A t \in Tasks : <>Ended(t) \/ <>[]AwaitsBlocks(t)

\* What a call can still do: six steps of an attempt at most, and those of the
\* attempts after it.
StepsLeft(t) ==
    6 * (MaxAttempts - attempt[t]) +
        CASE pc[t] = "gas" -> 6
          [] pc[t] = "next" -> 5
          [] pc[t] = "fetch" -> 4
          [] pc[t] = "send" -> 3
          [] pc[t] = "receipt" -> 2
          [] pc[t] \in {"confirm", "reset"} -> 1
          [] OTHER -> 0

\* A call ends within six steps per attempt: each of its steps, with the lock or
\* without, answered or not, leaves it fewer, and nothing that the node or
\* another call does gives it more.  The polls of the confirmations that change
\* nothing are no steps.  With EveryCallEnds for the awaits this is why no call
\* is retried for ever (lp_executor.py 140-171).
CallsRunDown ==
    [][\A t \in Tasks :
        /\ StepsLeft(t)' <= StepsLeft(t)
        /\ Task(t) => StepsLeft(t)' \in 0 .. StepsLeft(t) - 1]_vars

\* "Atomic counter per account so concurrent txs don't stomp each other"
\* (nonce_manager.py 2): two attempts on the wire never carry the same nonce.
NoStomping ==
    \A t, u \in Tasks :
        /\ t # u
        /\ pc[t] \in {"send", "receipt"}
        /\ pc[u] \in {"send", "receipt"}
        => mine[t] # mine[u]

-----------------------------------------------------------------------------
(* The calls as their awaiting code sees them.                             *)

OutcomeOf(t) == IF Ended(t) THEN pc[t] ELSE "running"

EffectsOf(t) ==
    {a \in 1 .. MaxAttempts :
        \E i \in 1 .. Len(chain) :
            chain[i] = [task |-> t, attempt |-> a, ok |-> TRUE]}

Contract == INSTANCE SendContract WITH
    outcome <- [t \in Tasks |-> OutcomeOf(t)],
    doubt   <- doubt,
    effects <- [t \in Tasks |-> EffectsOf(t)]

\* _send implements its contract: retries may repeat the effect of a call only
\* once the fate of an attempt is unknown, and a call that ended in no doubt
\* has no effect afterwards.
ImplementsContract == Contract!Spec
=============================================================================
