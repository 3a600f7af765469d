---------------------------- MODULE TxSenderProofs ----------------------------
(* Safety of TxSender for any number of tasks, attempts and evictions.         *)
EXTENDS TxSender, SequenceTheorems, TLAPS

\* Where the current attempt has put nothing on the wire yet.
Fresh == {"gas", "next", "fetch", "send"}

\* The lock is held exactly by the task that awaits the pending count.
LockInv == \A t \in Tasks : pc[t] = "fetch" <=> lock = t

\* The counter is unknown while it is being fetched, and ahead of everything
\* it gave out since the last reset.
CounterInv ==
    /\ lock # NoTask => nonce = NoNonce
    /\ nonce = NoNonce => issued = {}
    /\ \A n \in issued : n < nonce

\* A counter ahead of the chain was last advanced by a task that has yet to see
\* its transaction executed or to reset the counter.
GapInv ==
    nonce # NoNonce =>
        \/ nonce <= Len(chain)
        \/ \E t \in InFlight : mine[t] = nonce - 1

\* What is pending or executed belongs to an attempt already made; that of the
\* current attempt carries the nonce the task holds.
MempoolInv ==
    \A tx \in mempool :
        /\ tx.attempt <= attempt[tx.task]
        /\ tx.attempt = attempt[tx.task] =>
             pc[tx.task] \notin Fresh /\ tx.nonce = mine[tx.task]

ChainInv ==
    \A i \in 1 .. Len(chain) :
        /\ chain[i].attempt <= attempt[chain[i].task]
        /\ chain[i].attempt = attempt[chain[i].task] =>
             pc[chain[i].task] \notin Fresh /\ i - 1 = mine[chain[i].task]

NonceInv == LockInv /\ CounterInv /\ GapInv /\ MempoolInv /\ ChainInv

\* Initially no nonce is cached, in hand or on the wire.
LEMMA InitNonceInv == Init => TypeOK /\ NonceInv
<1> SUFFICES ASSUME Init PROVE TypeOK /\ NonceInv
  OBVIOUS
<1> USE SenderAssumption, NoTaskAssumption
<1>1. chain \in Seq(Executed) /\ Len(chain) = 0
  BY EmptySeq DEF Init
<1>2. TypeOK
  BY <1>1 DEF Init, TypeOK, Places
<1>3. NonceInv
  BY <1>1 DEF Init, NonceInv, LockInv, CounterInv, GapInv, MempoolInv, ChainInv
<1> QED
  BY <1>2, <1>3

\* Every variable keeps its type.
LEMMA TypeStep == TypeOK /\ [Next]_vars => TypeOK'
<1> SUFFICES ASSUME TypeOK, [Next]_vars PROVE TypeOK'
  OBVIOUS
<1> USE SenderAssumption
<1>1. ASSUME NEW tx \in mempool, Mine(tx) PROVE TypeOK'
  <2>1. PICK ok \in BOOLEAN :
          chain' = Append(chain, [task |-> tx.task, attempt |-> tx.attempt, ok |-> ok])
    BY <1>1 DEF Mine
  <2>2. [task |-> tx.task, attempt |-> tx.attempt, ok |-> ok] \in Executed
    BY DEF TypeOK, Tx, Executed
  <2>3. chain' \in Seq(Executed)
    BY <2>1, <2>2 DEF TypeOK
  <2>4. buried' \in 0 .. Len(chain')
    BY <1>1, <2>1, <2>2, LenProperties, AppendProperties DEF TypeOK, Mine
  <2> QED
    BY <1>1, <2>3, <2>4 DEF TypeOK, Mine, managerVars
<1>2. ASSUME NEW tx \in mempool, Evict(tx) PROVE TypeOK'
  BY <1>2 DEF TypeOK, Evict, managerVars
<1>3. ASSUME NEW t \in Tasks, Task(t) PROVE TypeOK'
  <2> USE DEF TypeOK, managerVars, nodeVars, Goes, Raises, Places
  <2>1. CASE GasParams(t)
    BY <2>1 DEF GasParams
  <2>2. CASE GasParamsFail(t)
    BY <2>2 DEF GasParamsFail
  <2>3. CASE NextKnown(t)
    BY <2>3 DEF NextKnown, Issues
  <2>4. CASE NextUnknown(t)
    BY <2>4 DEF NextUnknown
  <2>5. CASE FetchAnswers(t)
    BY <2>5 DEF FetchAnswers, Issues
  <2>6. CASE FetchFails(t)
    BY <2>6 DEF FetchFails
  <2>7. CASE SendAccepted(t) \/ SendAnswerLost(t)
    <3>0. mine[t] >= Len(chain) /\ Len(chain) \in Nat
      BY <2>7, LenProperties DEF SendAccepted, SendAnswerLost, Submits, Accepts
    <3>1. mine[t] \in Nat
      BY <3>0 DEF NoNonce
    <3>2. mempool' \subseteq Tx
      BY <2>7, <3>1 DEF SendAccepted, SendAnswerLost, Submits, Tx
    <3> QED
      BY <2>7, <3>2 DEF SendAccepted, SendAnswerLost, LosesTrack
  <2>8. CASE SendFails(t)
    BY <2>8 DEF SendFails
  <2>9. CASE ReceiptSuccess(t) \/ ReceiptReverted(t) \/ ReceiptFails(t)
    BY <2>9 DEF ReceiptSuccess, ReceiptReverted, ReceiptFails, LosesTrack
  <2>10. CASE Reset(t)
    BY <2>10 DEF Reset
  <2>11. CASE Confirmed(t)
    BY <2>11 DEF Confirmed
  <2>12. CASE ConfirmFails(t)
    BY <2>12 DEF ConfirmFails, LosesTrack
  <2>13. \/ GasParams(t) \/ GasParamsFail(t) \/ NextKnown(t) \/ NextUnknown(t)
         \/ FetchAnswers(t) \/ FetchFails(t)
         \/ SendAccepted(t) \/ SendAnswerLost(t) \/ SendFails(t)
         \/ ReceiptSuccess(t) \/ ReceiptReverted(t) \/ ReceiptFails(t)
         \/ Reset(t) \/ Confirmed(t) \/ ConfirmFails(t)
    BY <1>3 DEF Task, Proceeds
  <2> HIDE DEF TypeOK
  <2> QED
    BY <2>1, <2>2, <2>3, <2>4, <2>5, <2>6, <2>7, <2>8, <2>9, <2>10, <2>11, <2>12,
       <2>13
<1>4. CASE UNCHANGED vars
  BY <1>4 DEF TypeOK, vars
<1>5. ASSUME Buries PROVE TypeOK'
  BY <1>5, LenProperties DEF TypeOK, Buries, managerVars
<1> QED
  BY <1>1, <1>2, <1>3, <1>4, <1>5 DEF Next, Node

\* A block executes a transaction: its index is the nonce its sender holds.
LEMMA MineStep ==
    ASSUME TypeOK, NonceInv, NEW tx \in mempool, Mine(tx)
    PROVE  NonceInv'
<1>1. PICK ok \in BOOLEAN :
        chain' = Append(chain, [task |-> tx.task, attempt |-> tx.attempt, ok |-> ok])
  BY DEF Mine
<1> DEFINE e == [task |-> tx.task, attempt |-> tx.attempt, ok |-> ok]
<1>2. Len(chain) \in Nat /\ e \in Executed /\ e.task = tx.task /\ e.attempt = tx.attempt
  BY LenProperties DEF TypeOK, Tx, Executed
<1> HIDE DEF e
<1>3. /\ Len(chain') = Len(chain) + 1
      /\ \A i \in 1 .. Len(chain) : chain'[i] = chain[i]
      /\ chain'[Len(chain) + 1] = e
  BY <1>1, <1>2, AppendProperties DEF TypeOK, e
<1>4. UNCHANGED <<nonce, lock, issued, pc, attempt, mine>> /\ mempool' \subseteq mempool
  BY DEF Mine, managerVars
<1>5. LockInv' /\ CounterInv'
  BY <1>4 DEF NonceInv, LockInv, CounterInv
<1>6. GapInv'
  BY <1>2, <1>3, <1>4 DEF NonceInv, GapInv, InFlight, TypeOK, NoNonce
<1>7. MempoolInv'
  BY <1>4 DEF NonceInv, MempoolInv
<1>8. ChainInv'
  <2>1. /\ e.attempt <= attempt[e.task]
        /\ e.attempt = attempt[e.task] =>
             pc[e.task] \notin Fresh /\ Len(chain) = mine[e.task]
    BY <1>2 DEF NonceInv, MempoolInv, Mine
  <2> SUFFICES ASSUME NEW i \in 1 .. Len(chain')
               PROVE  /\ chain'[i].attempt <= attempt[chain'[i].task]
                      /\ chain'[i].attempt = attempt[chain'[i].task] =>
                           /\ pc[chain'[i].task] \notin Fresh
                           /\ i - 1 = mine[chain'[i].task]
    BY <1>4 DEF ChainInv
  <2>2. CASE i \in 1 .. Len(chain)
    BY <1>3, <2>2 DEF NonceInv, ChainInv
  <2>3. CASE i = Len(chain) + 1
    BY <1>2, <1>3, <2>1, <2>3
  <2> QED
    BY <1>2, <1>3, <2>2, <2>3
<1> QED
  BY <1>5, <1>6, <1>7, <1>8 DEF NonceInv

\* A transaction leaves the mempool unexecuted.
LEMMA EvictStep ==
    ASSUME NonceInv, NEW tx \in mempool, Evict(tx)
    PROVE  NonceInv'
  BY DEF Evict, managerVars, NonceInv, LockInv, CounterInv, GapInv, InFlight,
         MempoolInv, ChainInv

\* Blocks are produced: nothing else changes.
LEMMA BuriesStep ==
    ASSUME NonceInv, Buries
    PROVE  NonceInv'
  BY DEF Buries, managerVars, NonceInv, LockInv, CounterInv, GapInv, InFlight,
         MempoolInv, ChainInv

\* The types of what is pending and executed.
LEMMA WireTypes ==
    TypeOK => /\ \A tx \in mempool : tx.task \in Tasks /\ tx.attempt \in Nat
              /\ \A i \in 1 .. Len(chain) : chain[i].task \in Tasks /\ chain[i].attempt \in Nat
<1> SUFFICES ASSUME TypeOK
             PROVE  /\ \A tx \in mempool : tx.task \in Tasks /\ tx.attempt \in Nat
                    /\ \A i \in 1 .. Len(chain) :
                         chain[i].task \in Tasks /\ chain[i].attempt \in Nat
  OBVIOUS
<1>1. \A tx \in mempool : tx.task \in Tasks /\ tx.attempt \in Nat
  BY SenderAssumption DEF TypeOK, Tx
<1>2. ASSUME NEW i \in 1 .. Len(chain)
      PROVE  chain[i].task \in Tasks /\ chain[i].attempt \in Nat
  <2>1. chain \in Seq(Executed)
    BY DEF TypeOK
  <2>2. chain[i] \in Executed
    BY <2>1, ElementOfSeq
  <2> QED
    BY <2>2, SenderAssumption DEF Executed
<1> QED
  BY <1>1, <1>2

\* An attempt that ends leaves everything it put on the wire behind it.
LEMMA RaisesStep ==
    ASSUME TypeOK, NonceInv, NEW t \in Tasks, NEW from \in Places, Raises(t, from),
           UNCHANGED <<mine, mempool, chain>>
    PROVE  MempoolInv' /\ ChainInv'
<1>1. /\ \A tx \in mempool : tx.task \in Tasks /\ tx.attempt \in Nat
      /\ \A i \in 1 .. Len(chain) : chain[i].task \in Tasks /\ chain[i].attempt \in Nat
  BY WireTypes
<1>2. \A u \in Tasks :
        /\ attempt[u] \in Nat
        /\ attempt'[u] \in Nat
        /\ \/ attempt'[u] > attempt[u]
           \/ attempt'[u] = attempt[u] /\ (pc'[u] = pc[u] \/ pc'[u] \notin Fresh)
  <2>1. CASE attempt[t] < MaxAttempts
    BY <2>1, SenderAssumption DEF Raises, Goes, TypeOK
  <2>2. CASE ~(attempt[t] < MaxAttempts)
    BY <2>2, SenderAssumption DEF Raises, Goes, TypeOK, Fresh
  <2> QED
    BY <2>1, <2>2
<1>3. MempoolInv'
  <2> SUFFICES ASSUME NEW tx \in mempool
               PROVE  /\ tx.attempt <= attempt'[tx.task]
                      /\ tx.attempt = attempt'[tx.task] =>
                           pc'[tx.task] \notin Fresh /\ tx.nonce = mine[tx.task]
    BY DEF MempoolInv
  <2> QED
    BY <1>1, <1>2 DEF NonceInv, MempoolInv
<1>4. ChainInv'
  <2> SUFFICES ASSUME NEW i \in 1 .. Len(chain)
               PROVE  /\ chain[i].attempt <= attempt'[chain[i].task]
                      /\ chain[i].attempt = attempt'[chain[i].task] =>
                           pc'[chain[i].task] \notin Fresh /\ i - 1 = mine[chain[i].task]
    BY DEF ChainInv
  <2> QED
    BY <1>1, <1>2 DEF NonceInv, ChainInv
<1> QED
  BY <1>3, <1>4

\* A task goes on with its attempt; it holds the nonce it held before, or had
\* put nothing on the wire with it.
LEMMA GoesStep ==
    ASSUME TypeOK, NonceInv, NEW t \in Tasks,
           pc'[t] \in Fresh => pc[t] \in Fresh,
           pc[t] \in Fresh \/ mine'[t] = mine[t],
           \A u \in Tasks \ {t} : pc'[u] = pc[u] /\ mine'[u] = mine[u],
           UNCHANGED <<attempt, mempool, chain>>
    PROVE  MempoolInv' /\ ChainInv'
<1>1. /\ \A tx \in mempool : tx.task \in Tasks
      /\ \A i \in 1 .. Len(chain) : chain[i].task \in Tasks
  BY WireTypes
<1>2. MempoolInv'
  BY <1>1 DEF NonceInv, MempoolInv
<1>3. ChainInv'
  BY <1>1 DEF NonceInv, ChainInv
<1> QED
  BY <1>2, <1>3

\* The node takes the transaction of a task.
LEMMA SubmitsStep ==
    ASSUME TypeOK, NonceInv, NEW t \in Tasks, NEW to \in {"receipt", "reset"},
           Submits(t), Goes(t, "send", to), UNCHANGED <<attempt, mine, chain>>
    PROVE  MempoolInv' /\ ChainInv'
<1>1. /\ \A tx \in mempool : tx.task \in Tasks
      /\ \A i \in 1 .. Len(chain) : chain[i].task \in Tasks
  BY WireTypes
<1> DEFINE new == [task |-> t, attempt |-> attempt[t], nonce |-> mine[t]]
<1>2. mempool' = mempool \cup {new}
  BY DEF Submits
<1>3. pc'[t] \notin Fresh /\ \A u \in Tasks \ {t} : pc'[u] = pc[u]
  BY DEF Goes, TypeOK, Fresh
<1>4. MempoolInv'
  <2>1. /\ new.attempt <= attempt[new.task]
        /\ pc'[new.task] \notin Fresh /\ new.nonce = mine[new.task]
    BY <1>3, SenderAssumption DEF TypeOK
  <2> HIDE DEF new
  <2>2. \A tx \in mempool :
          /\ tx.attempt <= attempt[tx.task]
          /\ tx.attempt = attempt[tx.task] =>
               pc'[tx.task] \notin Fresh /\ tx.nonce = mine[tx.task]
    BY <1>1, <1>3 DEF NonceInv, MempoolInv
  <2> QED
    BY <1>2, <2>1, <2>2 DEF MempoolInv
<1>5. ChainInv'
  BY <1>1, <1>3 DEF NonceInv, ChainInv
<1> QED
  BY <1>4, <1>5

\* A task takes a step.
LEMMA TaskStep ==
    ASSUME TypeOK, NonceInv, NEW t \in Tasks, Task(t)
    PROVE  NonceInv'
<1> USE SenderAssumption, NoTaskAssumption
<1> DEFINE Wire == MempoolInv' /\ ChainInv'
           Counter == LockInv' /\ CounterInv' /\ GapInv'
<1>1. CASE GasParams(t)
  <2>1. Wire
    BY <1>1, GoesStep DEF GasParams, Goes, TypeOK, Fresh, managerVars, nodeVars
  <2>2. Counter
    BY <1>1 DEF GasParams, Goes, TypeOK, managerVars, nodeVars, NonceInv,
       LockInv, CounterInv, GapInv, InFlight
  <2> QED
    BY <2>1, <2>2 DEF NonceInv
<1>2. CASE GasParamsFail(t)
  <2>1. Wire
    BY <1>2, RaisesStep DEF GasParamsFail, Places, nodeVars
  <2>2. Counter
    BY <1>2 DEF GasParamsFail, Raises, Goes, TypeOK, managerVars, nodeVars, NonceInv,
       LockInv, CounterInv, GapInv, InFlight
  <2> QED
    BY <2>1, <2>2 DEF NonceInv
<1>3. CASE NextKnown(t)
  <2>1. Wire
    BY <1>3, GoesStep DEF NextKnown, Issues, Goes, TypeOK, Fresh, nodeVars
  <2>2. LockInv' /\ CounterInv'
    BY <1>3 DEF NextKnown, Issues, Goes, TypeOK, NonceInv, LockInv, CounterInv, NoNonce
  <2>3. GapInv'
    BY <1>3 DEF NextKnown, Issues, Goes, TypeOK, GapInv, InFlight, NoNonce
  <2> QED
    BY <2>1, <2>2, <2>3 DEF NonceInv
<1>4. CASE NextUnknown(t)
  <2>1. Wire
    BY <1>4, GoesStep DEF NextUnknown, Goes, TypeOK, Fresh, nodeVars
  <2>2. Counter
    BY <1>4 DEF NextUnknown, Goes, TypeOK, nodeVars, NonceInv,
       LockInv, CounterInv, GapInv, InFlight
  <2> QED
    BY <2>1, <2>2 DEF NonceInv
<1>5. CASE FetchAnswers(t)
  <2>1. Wire
    BY <1>5, GoesStep DEF FetchAnswers, Issues, Goes, TypeOK, Fresh, nodeVars
  <2>2. LockInv' /\ CounterInv'
    BY <1>5 DEF FetchAnswers, Issues, Goes, TypeOK, NonceInv, LockInv, CounterInv, NoNonce
  <2>3. GapInv'
    BY <1>5 DEF FetchAnswers, Issues, Goes, TypeOK, GapInv, InFlight, NoNonce
  <2> QED
    BY <2>1, <2>2, <2>3 DEF NonceInv
<1>6. CASE FetchFails(t)
  <2>1. Wire
    BY <1>6, RaisesStep DEF FetchFails, Places, nodeVars
  <2>2. Counter
    BY <1>6 DEF FetchFails, Raises, Goes, TypeOK, nodeVars, NonceInv,
       LockInv, CounterInv, GapInv, InFlight
  <2> QED
    BY <2>1, <2>2 DEF NonceInv
<1>7. CASE SendAccepted(t) \/ SendAnswerLost(t)
  <2>1. Wire
    BY <1>7, SubmitsStep DEF SendAccepted, SendAnswerLost
  <2>2. Counter
    BY <1>7 DEF SendAccepted, SendAnswerLost, Goes, TypeOK, managerVars, NonceInv,
       LockInv, CounterInv, GapInv, InFlight
  <2> QED
    BY <2>1, <2>2 DEF NonceInv
<1>8. CASE SendFails(t) \/ ReceiptReverted(t) \/ ReceiptFails(t)
  <2>1. Wire
    BY <1>8, GoesStep DEF SendFails, ReceiptReverted, ReceiptFails, Goes, TypeOK,
       Fresh, managerVars, nodeVars
  <2>2. Counter
    BY <1>8 DEF SendFails, ReceiptReverted, ReceiptFails, Goes, TypeOK, managerVars,
       nodeVars, NonceInv, LockInv, CounterInv, GapInv, InFlight
  <2> QED
    BY <2>1, <2>2 DEF NonceInv
<1>9. CASE ReceiptSuccess(t)
  <2>1. Wire
    BY <1>9, GoesStep DEF ReceiptSuccess, Goes, TypeOK, Fresh, managerVars, nodeVars
  <2>2. LockInv' /\ CounterInv'
    BY <1>9 DEF ReceiptSuccess, Goes, TypeOK, managerVars, NonceInv, LockInv, CounterInv
  <2>3. mine[t] < Len(chain)
    \* The receipt is that of this attempt, so its nonce is used.
    BY <1>9, LenProperties DEF ReceiptSuccess, Receipt, NonceInv, ChainInv, TypeOK
  <2>4. GapInv'
    BY <1>9, <2>3, LenProperties DEF ReceiptSuccess, Goes, TypeOK, managerVars, nodeVars,
       NonceInv, GapInv, InFlight, NoNonce
  <2> QED
    BY <2>1, <2>2, <2>4 DEF NonceInv
<1>10. CASE Reset(t)
  <2>1. Wire
    BY <1>10, RaisesStep DEF Reset, Places, nodeVars
  <2>2. Counter
    BY <1>10 DEF Reset, Raises, Goes, TypeOK, nodeVars, NonceInv,
       LockInv, CounterInv, GapInv, InFlight
  <2> QED
    BY <2>1, <2>2 DEF NonceInv
<1>11. CASE Confirmed(t)
  <2>1. Wire
    BY <1>11, GoesStep DEF Confirmed, Goes, TypeOK, Fresh, managerVars, nodeVars
  <2>2. Counter
    BY <1>11 DEF Confirmed, Goes, TypeOK, managerVars, nodeVars, NonceInv,
       LockInv, CounterInv, GapInv, InFlight
  <2> QED
    BY <2>1, <2>2 DEF NonceInv
<1>12. CASE ConfirmFails(t)
  <2>1. Wire
    BY <1>12, RaisesStep DEF ConfirmFails, Places, nodeVars
  <2>2. Counter
    BY <1>12 DEF ConfirmFails, Raises, Goes, TypeOK, managerVars, nodeVars, NonceInv,
       LockInv, CounterInv, GapInv, InFlight
  <2> QED
    BY <2>1, <2>2 DEF NonceInv
<1> QED
  BY <1>1, <1>2, <1>3, <1>4, <1>5, <1>6, <1>7, <1>8, <1>9, <1>10, <1>11, <1>12 DEF Task, Proceeds

\* Every step keeps the invariant.
LEMMA NextNonceInv == TypeOK /\ NonceInv /\ [Next]_vars => NonceInv'
<1>1. ASSUME TypeOK, NonceInv, UNCHANGED vars PROVE NonceInv'
  BY <1>1 DEF vars, NonceInv, LockInv, CounterInv, GapInv, InFlight, MempoolInv, ChainInv
<1> QED
  BY <1>1, MineStep, EvictStep, BuriesStep, TaskStep DEF Next, Node

-----------------------------------------------------------------------------

\* Every variable of the sender keeps its type: in particular no call makes
\* more than MaxAttempts attempts (lp_executor.py 55-56).
THEOREM Typing == Spec => []TypeOK
<1>1. Init => TypeOK
  BY InitNonceInv
<1> QED
  BY <1>1, TypeStep, PTL DEF Spec

\* The inductive invariant that relates the lock, the counter, the mempool and
\* the chain.
THEOREM Invariance == Spec => []NonceInv
<1>1. Init => TypeOK /\ NonceInv
  BY InitNonceInv
<1>2. TypeOK /\ NonceInv /\ [Next]_vars => (TypeOK /\ NonceInv)'
  BY TypeStep, NextNonceInv
<1> QED
  BY <1>1, <1>2, PTL DEF Spec

\* A call that is not in flight leaves no gap behind it, however the attempts,
\* resets and evictions of the others interleave.
THEOREM NoGaps == Spec => []NoGapWhenQuiet
<1>1. NonceInv => NoGapWhenQuiet
  BY DEF NonceInv, GapInv, NoGapWhenQuiet
<1> QED
  BY <1>1, Invariance, PTL

\* Between two resets the manager gives out no nonce twice.
THEOREM NoncesDistinct == Spec => NoncesDistinctBetweenResets
<1> DEFINE New == epoch' = epoch => \A t \in Tasks : mine'[t] # mine[t] => mine'[t] \notin issued
<1>1. TypeOK /\ NonceInv /\ [Next]_vars => [New]_vars
  <2> SUFFICES ASSUME TypeOK, NonceInv, Next,
                      NEW u \in Tasks, mine'[u] # mine[u]
               PROVE  mine'[u] \notin issued
    BY DEF NonceInv
  <2>1. PICK t \in Tasks : NextKnown(t) \/ FetchAnswers(t)
    BY DEF Next, Node, Mine, Evict, Buries, managerVars, Task, Proceeds, GasParams, GasParamsFail, NextUnknown, FetchFails,
       SendAccepted, SendAnswerLost, SendFails, ReceiptSuccess, ReceiptReverted, ReceiptFails,
       Reset, Confirmed, ConfirmFails
  <2>2. CASE NextKnown(t)
    BY <2>2 DEF NextKnown, Issues, TypeOK, NonceInv, CounterInv
  <2>3. CASE FetchAnswers(t)
    BY <2>3, NoTaskAssumption DEF FetchAnswers, Goes, NonceInv, LockInv, CounterInv
  <2> QED
    BY <2>1, <2>2, <2>3
<1> QED
  BY <1>1, Typing, Invariance, PTL DEF Spec, NoncesDistinctBetweenResets

-----------------------------------------------------------------------------
(* Every call runs down.                                                   *)

\* What is left is a number of steps.
StepsCount == \A t \in Tasks : StepsLeft(t) \in Nat

\* By the types, as no attempt is beyond the last.
LEMMA StepsLeftType == TypeOK => StepsCount
<1> SUFFICES ASSUME TypeOK, NEW t \in Tasks PROVE StepsLeft(t) \in Nat
  BY DEF StepsCount
<1>1. MaxAttempts - attempt[t] \in Nat
  BY SenderAssumption DEF TypeOK
<1>2. pc[t] \in Places
  BY DEF TypeOK
<1> QED
  BY <1>1, <1>2 DEF StepsLeft, Places

\* The steps of one task give no other task more.
LEMMA OthersKeep ==
    ASSUME TypeOK, NEW t \in Tasks, NEW u \in Tasks, t # u,
           pc'[u] = pc[u], attempt'[u] = attempt[u]
    PROVE  StepsLeft(u)' = StepsLeft(u)
  BY DEF StepsLeft

\* A step on within an attempt.
LEMMA GoesRunsDown ==
    ASSUME TypeOK, NEW t \in Tasks, UNCHANGED attempt,
           \/ Goes(t, "gas", "next") \/ Goes(t, "next", "fetch") \/ Goes(t, "next", "send")
           \/ Goes(t, "fetch", "send") \/ Goes(t, "send", "receipt") \/ Goes(t, "send", "reset")
           \/ Goes(t, "receipt", "confirm") \/ Goes(t, "receipt", "reset")
           \/ Goes(t, "confirm", "done")
    PROVE  StepsLeft(t)' < StepsLeft(t)
<1>1. /\ attempt'[t] = attempt[t] /\ MaxAttempts - attempt[t] \in Nat
      /\ pc'[t] # pc[t]
  BY SenderAssumption DEF TypeOK, Goes
<1>2. \/ pc[t] = "gas" /\ pc'[t] = "next"
      \/ pc[t] = "next" /\ pc'[t] = "fetch"
      \/ pc[t] = "next" /\ pc'[t] = "send"
      \/ pc[t] = "fetch" /\ pc'[t] = "send"
      \/ pc[t] = "send" /\ pc'[t] = "receipt"
      \/ pc[t] = "send" /\ pc'[t] = "reset"
      \/ pc[t] = "receipt" /\ pc'[t] = "confirm"
      \/ pc[t] = "receipt" /\ pc'[t] = "reset"
      \/ pc[t] = "confirm" /\ pc'[t] = "done"
  BY DEF TypeOK, Goes
<1> QED
  BY <1>1, <1>2 DEF StepsLeft

\* An exception uses up the attempt or ends the call.
LEMMA RaisesRunsDown ==
    ASSUME TypeOK, NEW t \in Tasks,
           Raises(t, "gas") \/ Raises(t, "fetch") \/ Raises(t, "reset") \/ Raises(t, "confirm")
    PROVE  StepsLeft(t)' < StepsLeft(t)
<1>1. /\ attempt[t] \in Nat /\ MaxAttempts \in Nat
      /\ pc[t] \in {"gas", "fetch", "reset", "confirm"}
  BY SenderAssumption DEF TypeOK, Raises, Goes
<1>2. CASE attempt[t] < MaxAttempts
  <2>1. pc'[t] = "gas" /\ attempt'[t] = attempt[t] + 1
    BY <1>2 DEF TypeOK, Raises, Goes
  <2> QED
    BY <1>1, <2>1 DEF StepsLeft
<1>3. CASE ~(attempt[t] < MaxAttempts)
  <2>1. pc'[t] = "failed" /\ attempt'[t] = attempt[t]
    BY <1>3 DEF TypeOK, Raises, Goes
  <2> QED
    BY <1>1, <2>1 DEF StepsLeft
<1> QED
  BY <1>2, <1>3

\* Every step of a task is one or the other.
LEMMA TaskRunsDown ==
    ASSUME TypeOK, NEW t \in Tasks, Task(t)
    PROVE  /\ StepsLeft(t)' < StepsLeft(t)
           /\ \A u \in Tasks \ {t} : StepsLeft(u)' = StepsLeft(u)
<1>1. StepsLeft(t)' < StepsLeft(t)
  BY GoesRunsDown, RaisesRunsDown
     DEF Task, Proceeds, GasParams, GasParamsFail, NextKnown, NextUnknown, FetchAnswers, FetchFails,
         SendAccepted, SendAnswerLost, SendFails, ReceiptSuccess, ReceiptReverted, ReceiptFails,
         Reset, Confirmed, ConfirmFails
<1>2. ASSUME NEW u \in Tasks \ {t}
      PROVE  pc'[u] = pc[u] /\ attempt'[u] = attempt[u]
  BY DEF TypeOK, Goes, Raises, Task, Proceeds, GasParams, GasParamsFail, NextKnown, NextUnknown,
         FetchAnswers, FetchFails, SendAccepted, SendAnswerLost, SendFails, ReceiptSuccess,
         ReceiptReverted, ReceiptFails, Reset, Confirmed, ConfirmFails
<1> QED
  BY <1>1, <1>2, OthersKeep

\* For any number of tasks and attempts a call ends within six steps of its own
\* per attempt, whatever the others and the node do.
THEOREM EveryCallRunsDown == Spec => CallsRunDown
<1>1. ASSUME TypeOK, StepsCount, StepsCount', [Next]_vars, NEW t \in Tasks
      PROVE  /\ StepsLeft(t)' <= StepsLeft(t)
             /\ Task(t) => StepsLeft(t)' \in 0 .. StepsLeft(t) - 1
  <2>1. StepsLeft(t) \in Nat /\ StepsLeft(t)' \in Nat
    BY <1>1 DEF StepsCount
  <2>2. CASE Node \/ UNCHANGED vars
    <3>1. UNCHANGED <<pc, attempt>>
      BY <2>2 DEF Node, Mine, Evict, Buries, vars
    <3>2. StepsLeft(t)' = StepsLeft(t)
      BY <3>1 DEF StepsLeft
    <3>3. ~Task(t)
      BY <1>1, <3>1, <3>2, <2>1, TaskRunsDown
    <3> QED
      BY <2>1, <3>2, <3>3
  <2>3. CASE \E u \in Tasks : Task(u)
    <3>1. PICK u \in Tasks : Task(u)
      BY <2>3
    <3>2. StepsLeft(t)' <= StepsLeft(t)
      BY <1>1, <2>1, <3>1, TaskRunsDown
    <3>3. Task(t) => StepsLeft(t)' < StepsLeft(t)
      BY <1>1, TaskRunsDown
    <3> QED
      BY <2>1, <3>2, <3>3
  <2> QED
    BY <1>1, <2>2, <2>3 DEF Next
<1>2. TypeOK /\ StepsCount /\ StepsCount' /\ [Next]_vars =>
        [\A t \in Tasks :
            /\ StepsLeft(t)' <= StepsLeft(t)
            /\ Task(t) => StepsLeft(t)' \in 0 .. StepsLeft(t) - 1]_vars
  BY <1>1
<1> QED
  BY <1>2, Typing, StepsLeftType, PTL DEF Spec, CallsRunDown

-----------------------------------------------------------------------------
(* TxSender implements SendContract, for any number of tasks and attempts.     *)

\* An attempt puts one transaction on the wire: it is pending once or executed.
OnceInv ==
    /\ \A tx, ty \in mempool :
         tx.task = ty.task /\ tx.attempt = ty.attempt => tx = ty
    /\ \A tx \in mempool : \A i \in 1 .. Len(chain) :
         ~(chain[i].task = tx.task /\ chain[i].attempt = tx.attempt)

\* Of a task that never lost track of a transaction, only the current attempt
\* has a transaction pending, and only while its receipt is awaited...
PendingInv ==
    \A tx \in mempool :
        tx.task \notin doubt =>
            tx.attempt = attempt[tx.task] /\ pc[tx.task] = "receipt"

\* ... and only the current attempt has executed, and has not been given up.
ExecutedInv ==
    \A i \in 1 .. Len(chain) :
        chain[i].ok /\ chain[i].task \notin doubt =>
            /\ chain[i].attempt = attempt[chain[i].task]
            /\ pc[chain[i].task] \in {"receipt", "confirm", "done"}

\* The attempt whose confirmations are awaited has executed.
ConfirmInv == \A t \in Tasks : pc[t] \in {"confirm", "done"} => Receipt(t, TRUE)

ContractInv == OnceInv /\ PendingInv /\ ExecutedInv /\ ConfirmInv

\* What a step of a task does to its own place, and that it leaves the others
\* alone.
LEMMA TaskFacts ==
    ASSUME TypeOK, NEW t \in Tasks, Task(t)
    PROVE  /\ \A u \in Tasks \ {t} :
                /\ pc'[u] = pc[u] /\ attempt'[u] = attempt[u]
                /\ u \in doubt' <=> u \in doubt
           /\ doubt \subseteq doubt'
           /\ UNCHANGED chain
           /\ pc[t] \notin {"done", "failed"}
           /\ pc[t] = "receipt" =>
                \/ t \in doubt'
                \/ Receipt(t, TRUE) /\ pc'[t] = "confirm" /\ UNCHANGED attempt
                \/ Receipt(t, FALSE)
           /\ pc[t] = "confirm" => t \in doubt' \/ (pc'[t] = "done" /\ UNCHANGED attempt)
           /\ pc'[t] = "confirm" => Receipt(t, TRUE) /\ UNCHANGED attempt
           /\ pc'[t] = "done" => pc[t] = "confirm" /\ UNCHANGED attempt
           /\ \/ UNCHANGED mempool
              \/ /\ Submits(t) /\ pc[t] = "send" /\ UNCHANGED attempt
                 /\ pc'[t] = "receipt" \/ t \in doubt'
<1> USE DEF TypeOK, managerVars, nodeVars, Goes
<1>1. CASE GasParams(t)
  BY <1>1 DEF GasParams
<1>2. CASE GasParamsFail(t)
  BY <1>2 DEF GasParamsFail, Raises
<1>3. CASE NextKnown(t)
  BY <1>3 DEF NextKnown, Issues
<1>4. CASE NextUnknown(t)
  BY <1>4 DEF NextUnknown
<1>5. CASE FetchAnswers(t)
  BY <1>5 DEF FetchAnswers, Issues
<1>6. CASE FetchFails(t)
  BY <1>6 DEF FetchFails, Raises
<1>7. CASE SendAccepted(t)
  BY <1>7 DEF SendAccepted
<1>8. CASE SendAnswerLost(t)
  BY <1>8 DEF SendAnswerLost, LosesTrack
<1>9. CASE SendFails(t)
  BY <1>9 DEF SendFails
<1>10. CASE ReceiptSuccess(t)
  BY <1>10 DEF ReceiptSuccess
<1>11. CASE ReceiptReverted(t)
  BY <1>11 DEF ReceiptReverted
<1>12. CASE ReceiptFails(t)
  BY <1>12 DEF ReceiptFails, LosesTrack
<1>13. CASE Reset(t)
  BY <1>13 DEF Reset, Raises
<1>14. CASE Confirmed(t)
  BY <1>14 DEF Confirmed
<1>15. CASE ConfirmFails(t)
  BY <1>15 DEF ConfirmFails, Raises, LosesTrack
<1> QED
  BY <1>1, <1>2, <1>3, <1>4, <1>5, <1>6, <1>7, <1>8, <1>9, <1>10, <1>11, <1>12, <1>13,
     <1>14, <1>15 DEF Task, Proceeds

\* A block executes a transaction.
LEMMA MineContract ==
    ASSUME TypeOK, NonceInv, ContractInv, NEW tx \in mempool, Mine(tx)
    PROVE  ContractInv'
<1>1. PICK ok \in BOOLEAN :
        chain' = Append(chain, [task |-> tx.task, attempt |-> tx.attempt, ok |-> ok])
  BY DEF Mine
<1> DEFINE e == [task |-> tx.task, attempt |-> tx.attempt, ok |-> ok]
<1>2. Len(chain) \in Nat /\ e \in Executed /\ e.task = tx.task /\ e.attempt = tx.attempt
  BY LenProperties DEF TypeOK, Tx, Executed
<1> HIDE DEF e
<1>3. /\ Len(chain') = Len(chain) + 1
      /\ \A i \in 1 .. Len(chain) : chain'[i] = chain[i]
      /\ chain'[Len(chain) + 1] = e
  BY <1>1, <1>2, AppendProperties DEF TypeOK, e
<1>4. UNCHANGED <<pc, attempt, doubt>> /\ mempool' = mempool \ {tx}
  BY DEF Mine
<1>5. \A i \in 1 .. Len(chain') :
        i \in 1 .. Len(chain) \/ (i = Len(chain) + 1 /\ chain'[i] = e)
  BY <1>2, <1>3
<1>6. OnceInv'
  BY <1>2, <1>3, <1>4, <1>5 DEF ContractInv, OnceInv
<1>7. PendingInv'
  BY <1>4 DEF ContractInv, PendingInv
<1>8. ExecutedInv'
  BY <1>2, <1>3, <1>4, <1>5 DEF ContractInv, ExecutedInv, PendingInv
<1>9. ConfirmInv'
  BY <1>2, <1>3, <1>4 DEF ContractInv, ConfirmInv, Receipt
<1> QED
  BY <1>6, <1>7, <1>8, <1>9 DEF ContractInv

\* A transaction leaves the mempool unexecuted.
LEMMA EvictContract ==
    ASSUME ContractInv, NEW tx \in mempool, Evict(tx)
    PROVE  ContractInv'
  BY DEF Evict, ContractInv, OnceInv, PendingInv, ExecutedInv, ConfirmInv, Receipt

\* Nor does a block on top of it matter to what executed.
LEMMA BuriesContract ==
    ASSUME ContractInv, Buries
    PROVE  ContractInv'
  BY DEF Buries, ContractInv, OnceInv, PendingInv, ExecutedInv, ConfirmInv, Receipt

\* Two transactions of one attempt are not both on the chain.
LEMMA ExecutedOnce ==
    ASSUME TypeOK, NonceInv, NEW t \in Tasks,
           NEW i \in 1 .. Len(chain), NEW j \in 1 .. Len(chain),
           chain[i].task = t, chain[i].attempt = attempt[t],
           chain[j].task = t, chain[j].attempt = attempt[t]
    PROVE  i = j
<1>1. i - 1 = mine[t] /\ j - 1 = mine[t]
  BY DEF NonceInv, ChainInv
<1> QED
  BY <1>1, LenProperties DEF TypeOK

\* A task takes a step.
LEMMA TaskContract ==
    ASSUME TypeOK, NonceInv, ContractInv, NEW t \in Tasks, Task(t)
    PROVE  ContractInv'
<1>1. /\ \A tx \in mempool : tx.task \in Tasks
      /\ \A i \in 1 .. Len(chain) : chain[i].task \in Tasks
  BY WireTypes
<1>2. UNCHANGED chain
  BY TaskFacts
<1> DEFINE new == [task |-> t, attempt |-> attempt[t], nonce |-> mine[t]]
<1>3. \/ UNCHANGED mempool
      \/ /\ mempool' = mempool \cup {new} /\ pc[t] = "send" /\ UNCHANGED attempt
         /\ pc'[t] = "receipt" \/ t \in doubt'
  BY TaskFacts DEF Submits
<1>4. new.task = t /\ new.attempt = attempt[t]
  OBVIOUS
<1> HIDE DEF new
<1>5. pc[t] = "send" =>
        /\ \A tx \in mempool : ~(tx.task = t /\ tx.attempt = attempt[t])
        /\ \A i \in 1 .. Len(chain) : ~(chain[i].task = t /\ chain[i].attempt = attempt[t])
  BY DEF NonceInv, MempoolInv, ChainInv, Fresh
<1>6. OnceInv'
  BY <1>2, <1>3, <1>4, <1>5 DEF ContractInv, OnceInv
<1>7. PendingInv'
  <2> SUFFICES ASSUME NEW tx \in mempool', tx.task \notin doubt'
               PROVE  tx.attempt = attempt'[tx.task] /\ pc'[tx.task] = "receipt"
    BY DEF PendingInv
  <2>1. CASE tx \in mempool /\ tx.task # t
    BY <1>1, <2>1, TaskFacts DEF ContractInv, PendingInv
  <2>2. CASE tx \in mempool /\ tx.task = t
    <3>1. tx.attempt = attempt[t] /\ pc[t] = "receipt" /\ t \notin doubt'
      BY <2>2, TaskFacts DEF ContractInv, PendingInv
    <3>2. Receipt(t, TRUE) \/ Receipt(t, FALSE)
      BY <3>1, TaskFacts
    <3> QED
      BY <2>2, <3>1, <3>2 DEF Receipt, ContractInv, OnceInv
  <2>3. CASE tx \notin mempool
    BY <1>3, <1>4, <2>3
  <2> QED
    BY <2>1, <2>2, <2>3
<1>8. ExecutedInv'
  <2> SUFFICES ASSUME NEW i \in 1 .. Len(chain), chain[i].ok, chain[i].task \notin doubt'
               PROVE  /\ chain[i].attempt = attempt'[chain[i].task]
                      /\ pc'[chain[i].task] \in {"receipt", "confirm", "done"}
    BY <1>2 DEF ExecutedInv
  <2>1. CASE chain[i].task # t
    BY <1>1, <2>1, TaskFacts DEF ContractInv, ExecutedInv
  <2>2. CASE chain[i].task = t
    <3>1. /\ chain[i].attempt = attempt[t] /\ pc[t] \in {"receipt", "confirm", "done"}
          /\ t \notin doubt'
      BY <2>2, TaskFacts DEF ContractInv, ExecutedInv
    <3>2. ~Receipt(t, FALSE)
      BY <2>2, <3>1, ExecutedOnce DEF Receipt
    <3> QED
      BY <2>2, <3>1, <3>2, TaskFacts
  <2> QED
    BY <2>1, <2>2
<1>9. ConfirmInv'
  <2> SUFFICES ASSUME NEW u \in Tasks, pc'[u] \in {"confirm", "done"}
               PROVE  Receipt(u, TRUE)'
    BY DEF ConfirmInv
  <2>1. Receipt(u, TRUE) /\ attempt'[u] = attempt[u]
    BY TaskFacts DEF ContractInv, ConfirmInv
  <2> QED
    BY <1>2, <2>1 DEF Receipt
<1> QED
  BY <1>6, <1>7, <1>8, <1>9 DEF ContractInv

\* The invariant the refinement rests on.
THEOREM ContractInvariance == Spec => []ContractInv
<1>1. Init => ContractInv
  BY EmptySeq DEF Init, ContractInv, OnceInv, PendingInv, ExecutedInv, ConfirmInv
<1>2. TypeOK /\ NonceInv /\ ContractInv /\ [Next]_vars => ContractInv'
  <2>1. ASSUME ContractInv, UNCHANGED vars PROVE ContractInv'
    BY <2>1 DEF vars, ContractInv, OnceInv, PendingInv, ExecutedInv, ConfirmInv, Receipt
  <2> QED
    BY <2>1, MineContract, EvictContract, BuriesContract, TaskContract DEF Next, Node
<1> QED
  BY <1>1, <1>2, Typing, Invariance, PTL DEF Spec

\* A returned call has executed; one that never lost track of a transaction
\* executed at most once, not at all if it raised, and has nothing pending.
THEOREM EndedCallsAccountedFor == Spec => []EndedCallIsAccountedFor
<1>1. TypeOK /\ NonceInv /\ ContractInv => EndedCallIsAccountedFor
  <2> SUFFICES ASSUME TypeOK, NonceInv, ContractInv, NEW t \in Tasks
               PROVE  LET executions == {i \in 1 .. Len(chain) : chain[i].task = t /\ chain[i].ok}
                      IN  /\ pc[t] = "done" => executions # {}
                          /\ Ended(t) /\ t \notin doubt =>
                               /\ \A i, j \in executions : i = j
                               /\ pc[t] = "failed" => executions = {}
                               /\ \A tx \in mempool : tx.task # t
    BY DEF EndedCallIsAccountedFor
  <2> DEFINE executions == {i \in 1 .. Len(chain) : chain[i].task = t /\ chain[i].ok}
  <2>1. ASSUME pc[t] = "done" PROVE executions # {}
    <3>1. PICK i \in 1 .. Len(chain) :
            chain[i] = [task |-> t, attempt |-> attempt[t], ok |-> TRUE]
      BY <2>1 DEF ContractInv, ConfirmInv, Receipt
    <3>2. i \in executions
      BY <3>1
    <3> QED
      BY <3>2
  <2>2. t \notin doubt => \A i, j \in executions : i = j
    BY ExecutedOnce DEF ContractInv, ExecutedInv
  <2>3. t \notin doubt /\ pc[t] = "failed" => executions = {}
    BY DEF ContractInv, ExecutedInv
  <2>4. t \notin doubt /\ Ended(t) => \A tx \in mempool : tx.task # t
    BY DEF ContractInv, PendingInv, Ended
  <2> QED
    BY <2>1, <2>2, <2>3, <2>4
<1> QED
  BY <1>1, Typing, Invariance, ContractInvariance, PTL

-----------------------------------------------------------------------------
(* The refinement.                                                         *)

\* The contract's variables, as the sender shows them.
Outcomes == [t \in Tasks |-> OutcomeOf(t)]
Effects == [t \in Tasks |-> EffectsOf(t)]

\* No call has ended, lost track of anything or had an effect.
LEMMA InitContract == Init => Contract!Init
<1> SUFFICES ASSUME Init PROVE Contract!Init
  OBVIOUS
<1>1. \A t \in Tasks : OutcomeOf(t) = "running"
  BY DEF Init, OutcomeOf, Ended
<1>2. Len(chain) = 0
  BY EmptySeq DEF Init
<1>3. \A t \in Tasks : EffectsOf(t) = {}
  BY <1>2 DEF EffectsOf
<1> QED
  BY <1>1, <1>3 DEF Init, Contract!Init

\* What a task has not put on the chain is not among its effects.
LEMMA NoEffects ==
    ASSUME TypeOK, ContractInv, NEW t \in Tasks, t \notin doubt,
           pc[t] \notin {"receipt", "confirm", "done"}
    PROVE  EffectsOf(t) = {}
  BY DEF EffectsOf, ContractInv, ExecutedInv

\* A block that executes a transaction successfully gives its call an effect;
\* one in which it reverts shows nothing.
LEMMA MineRefines ==
    ASSUME TypeOK, NonceInv, ContractInv, NEW tx \in mempool, Mine(tx)
    PROVE  Contract!Next \/ UNCHANGED <<Outcomes, doubt, Effects>>
<1>1. PICK ok \in BOOLEAN :
        chain' = Append(chain, [task |-> tx.task, attempt |-> tx.attempt, ok |-> ok])
  BY DEF Mine
<1> DEFINE e == [task |-> tx.task, attempt |-> tx.attempt, ok |-> ok]
<1>2. /\ Len(chain) \in Nat /\ e \in Executed
      /\ tx.task \in Tasks /\ tx.attempt \in 1 .. MaxAttempts
  BY LenProperties DEF TypeOK, Tx, Executed
<1>3. /\ Len(chain') = Len(chain) + 1
      /\ \A i \in 1 .. Len(chain) : chain'[i] = chain[i]
      /\ chain'[Len(chain) + 1] = e
  BY <1>1, <1>2, AppendProperties DEF TypeOK
<1>4. UNCHANGED <<Outcomes, doubt>>
  BY DEF Mine, Outcomes, OutcomeOf, Ended
<1>5. \A t \in Tasks :
        EffectsOf(t)' = EffectsOf(t) \cup
          {a \in 1 .. MaxAttempts : ok /\ t = tx.task /\ a = tx.attempt}
  <2> SUFFICES ASSUME NEW t \in Tasks, NEW a \in 1 .. MaxAttempts
               PROVE  a \in EffectsOf(t)' <=>
                        a \in EffectsOf(t) \/ (ok /\ t = tx.task /\ a = tx.attempt)
    BY DEF EffectsOf
  <2>1. e = [task |-> t, attempt |-> a, ok |-> TRUE] <=> ok /\ t = tx.task /\ a = tx.attempt
    OBVIOUS
  <2> HIDE DEF e
  <2>2. \A i : i \in 1 .. Len(chain') <=> i \in 1 .. Len(chain) \/ i = Len(chain) + 1
    BY <1>2, <1>3
  <2> QED
    BY <1>3, <2>1, <2>2 DEF EffectsOf
<1>6. CASE ok
  <2>1. tx.attempt \notin EffectsOf(tx.task)
    BY DEF EffectsOf, ContractInv, OnceInv
  <2>2. tx.task \in doubt \/ (OutcomeOf(tx.task) = "running" /\ EffectsOf(tx.task) = {})
    BY <1>2 DEF EffectsOf, ContractInv, OnceInv, PendingInv, ExecutedInv, OutcomeOf, Ended
  <2>3. Effects' = [Effects EXCEPT ![tx.task] = @ \cup {tx.attempt}]
    BY <1>2, <1>5, <1>6 DEF Effects
  <2>4. Contract!Execute(tx.task, tx.attempt)
    BY <1>2, <1>4, <2>1, <2>2, <2>3 DEF Contract!Execute, Outcomes, Effects
  <2> QED
    BY <1>2, <2>4 DEF Contract!Next
<1>7. CASE ~ok
  BY <1>4, <1>5, <1>7 DEF Effects
<1> QED
  BY <1>6, <1>7

\* An attempt that raises without losing track of its transaction fails the
\* call if it was the last, and shows nothing if not.
LEMMA RaisesRefines ==
    ASSUME TypeOK, ContractInv, NEW t \in Tasks, NEW from \in {"gas", "fetch", "reset"},
           Raises(t, from), UNCHANGED <<chain, doubt>>
    PROVE  Contract!Next \/ UNCHANGED <<Outcomes, doubt, Effects>>
<1>1. UNCHANGED <<doubt, Effects>>
  BY DEF Effects, EffectsOf
<1>2. OutcomeOf(t) = "running" /\ (t \in doubt \/ EffectsOf(t) = {})
  BY NoEffects DEF Raises, Goes, OutcomeOf, Ended
<1>3. CASE attempt[t] < MaxAttempts
  BY <1>1, <1>3 DEF Raises, Goes, TypeOK, Outcomes, OutcomeOf, Ended
<1>4. CASE ~(attempt[t] < MaxAttempts)
  <2>1. Outcomes' = [Outcomes EXCEPT ![t] = "failed"]
    BY <1>4 DEF Raises, Goes, TypeOK, Outcomes, OutcomeOf, Ended
  <2>2. Contract!Fail(t)
    BY <1>1, <1>2, <2>1 DEF Contract!Fail, Outcomes, Effects
  <2> QED
    BY <2>2 DEF Contract!Next
<1> QED
  BY <1>3, <1>4

\* A task that goes on with its attempt shows nothing.
LEMMA GoesRefines ==
    ASSUME TypeOK, NEW t \in Tasks, NEW from \in Places \ {"done", "failed"},
           NEW to \in Places \ {"done", "failed"},
           Goes(t, from, to), UNCHANGED <<chain, doubt>>
    PROVE  UNCHANGED <<Outcomes, doubt, Effects>>
  BY DEF Goes, TypeOK, Outcomes, OutcomeOf, Ended, Effects, EffectsOf

\* A task that loses track of its transaction is in doubt from then on.
LEMMA LosesTrackRefines ==
    ASSUME TypeOK, NEW t \in Tasks, LosesTrack(t), UNCHANGED chain,
           ~Ended(t),
           \/ Outcomes' = Outcomes
           \/ Outcomes' = [Outcomes EXCEPT ![t] = "failed"]
    PROVE  Contract!Next
<1>1. UNCHANGED Effects
  BY DEF Effects, EffectsOf
<1>2. doubt' = doubt \cup {t}
  BY DEF LosesTrack
<1>3. Outcomes[t] = "running"
  BY DEF Outcomes, OutcomeOf
<1>4. Contract!LoseTrack(t)
  BY <1>1, <1>2, <1>3 DEF Contract!LoseTrack, Outcomes, Effects
<1> QED
  BY <1>4 DEF Contract!Next

\* A task takes a step.
LEMMA TaskRefines ==
    ASSUME TypeOK, NonceInv, ContractInv, NEW t \in Tasks, Task(t)
    PROVE  Contract!Next \/ UNCHANGED <<Outcomes, doubt, Effects>>
<1>1. CASE \/ GasParams(t) \/ NextKnown(t) \/ NextUnknown(t) \/ FetchAnswers(t)
           \/ SendAccepted(t) \/ SendFails(t) \/ ReceiptSuccess(t) \/ ReceiptReverted(t)
  <2>1. PICK from \in Places \ {"done", "failed"}, to \in Places \ {"done", "failed"} :
          Goes(t, from, to)
    BY <1>1 DEF GasParams, NextKnown, NextUnknown, FetchAnswers, SendAccepted, SendFails,
       ReceiptSuccess, ReceiptReverted, Places
  <2>2. UNCHANGED <<chain, doubt>>
    BY <1>1 DEF GasParams, NextKnown, NextUnknown, FetchAnswers, SendAccepted, SendFails,
       ReceiptSuccess, ReceiptReverted, nodeVars
  <2> QED
    BY <2>1, <2>2, GoesRefines
<1>2. CASE GasParamsFail(t) \/ FetchFails(t) \/ Reset(t)
  BY <1>2, RaisesRefines DEF GasParamsFail, FetchFails, Reset, nodeVars
<1>3. CASE SendAnswerLost(t) \/ ReceiptFails(t)
  <2>1. UNCHANGED Outcomes /\ ~Ended(t)
    BY <1>3 DEF SendAnswerLost, ReceiptFails, Goes, TypeOK, Outcomes, OutcomeOf, Ended
  <2> QED
    BY <1>3, <2>1, LosesTrackRefines DEF SendAnswerLost, ReceiptFails, nodeVars
<1>4. CASE ConfirmFails(t)
  <2>1. CASE attempt[t] < MaxAttempts
    BY <1>4, <2>1, LosesTrackRefines DEF ConfirmFails, Raises, Goes, TypeOK, Outcomes,
       OutcomeOf, Ended, nodeVars
  <2>2. CASE ~(attempt[t] < MaxAttempts)
    BY <1>4, <2>2, LosesTrackRefines DEF ConfirmFails, Raises, Goes, TypeOK, Outcomes,
       OutcomeOf, Ended, nodeVars
  <2> QED
    BY <2>1, <2>2
<1>5. CASE Confirmed(t)
  <2>1. UNCHANGED <<doubt, Effects>>
    BY <1>5 DEF Confirmed, nodeVars, Effects, EffectsOf
  <2>2. Outcomes' = [Outcomes EXCEPT ![t] = "done"] /\ OutcomeOf(t) = "running"
    BY <1>5 DEF Confirmed, Goes, TypeOK, Outcomes, OutcomeOf, Ended
  <2>3. attempt[t] \in EffectsOf(t)
    BY <1>5 DEF Confirmed, Goes, ContractInv, ConfirmInv, Receipt, EffectsOf, TypeOK
  <2>4. Contract!Succeed(t)
    BY <2>1, <2>2, <2>3 DEF Contract!Succeed, Outcomes, Effects
  <2> QED
    BY <2>4 DEF Contract!Next
<1> QED
  BY <1>1, <1>2, <1>3, <1>4, <1>5 DEF Task, Proceeds

\* _send, run by any number of tasks over one nonce manager, keeps its contract.
THEOREM SendImplementsContract == Spec => ImplementsContract
<1>1. TypeOK /\ NonceInv /\ ContractInv /\ [Next]_vars
        => [Contract!Next]_(Contract!contractVars)
  <2> SUFFICES ASSUME TypeOK, NonceInv, ContractInv, [Next]_vars
               PROVE  Contract!Next \/ UNCHANGED <<Outcomes, doubt, Effects>>
    BY DEF Contract!contractVars, Outcomes, Effects
  <2>1. ASSUME NEW tx \in mempool, Evict(tx) PROVE UNCHANGED <<Outcomes, doubt, Effects>>
    BY <2>1 DEF Evict, Outcomes, OutcomeOf, Ended, Effects, EffectsOf
  <2>2. ASSUME UNCHANGED vars PROVE UNCHANGED <<Outcomes, doubt, Effects>>
    BY <2>2 DEF vars, Outcomes, OutcomeOf, Ended, Effects, EffectsOf
  <2>3. ASSUME Buries PROVE UNCHANGED <<Outcomes, doubt, Effects>>
    BY <2>3 DEF Buries, Outcomes, OutcomeOf, Ended, Effects, EffectsOf
  <2> QED
    BY <2>1, <2>2, <2>3, MineRefines, TaskRefines DEF Next, Node
<1> QED
  BY <1>1, InitContract, Typing, Invariance, ContractInvariance, PTL
     DEF Spec, ImplementsContract, Contract!Spec
=============================================================================
