----------------------------- MODULE SendContract -----------------------------
(***************************************************************************)
(* What LPExecutor._send promises the code that awaits it: the abstract    *)
(* specification that TxSender implements and that the modules of the LP   *)
(* calls build on.                                                         *)
(*                                                                         *)
(* A call may take effect on chain once per attempt.  It is in doubt from  *)
(* the moment an attempt ended without an answer that says what became of  *)
(* its transaction.  Without doubt a call takes effect at most once, a     *)
(* call that raises has had no effect, and nothing happens after its end.  *)
(***************************************************************************)
EXTENDS Naturals

CONSTANTS Tasks, MaxAttempts

VARIABLES
    outcome,   \* "running", or how the call ended: "done" or "failed"
    doubt,     \* the calls some attempt of which ended without a definite answer
    effects    \* the attempts whose transaction executed successfully

contractVars == <<outcome, doubt, effects>>

Init ==
    /\ outcome = [t \in Tasks |-> "running"]
    /\ doubt = {}
    /\ effects = [t \in Tasks |-> {}]

Execute(t, a) ==
    /\ a \notin effects[t]
    /\ t \in doubt \/ (outcome[t] = "running" /\ effects[t] = {})
    /\ effects' = [effects EXCEPT ![t] = @ \cup {a}]
    /\ UNCHANGED <<outcome, doubt>>

LoseTrack(t) ==
    /\ outcome[t] = "running"
    /\ doubt' = doubt \cup {t}
    /\ outcome' \in {outcome, [outcome EXCEPT ![t] = "failed"]}
    /\ UNCHANGED effects

Succeed(t) ==
    /\ outcome[t] = "running"
    /\ effects[t] # {}
    /\ outcome' = [outcome EXCEPT ![t] = "done"]
    /\ UNCHANGED <<doubt, effects>>

Fail(t) ==
    /\ outcome[t] = "running"
    /\ t \in doubt \/ effects[t] = {}
    /\ outcome' = [outcome EXCEPT ![t] = "failed"]
    /\ UNCHANGED <<doubt, effects>>

Next ==
    \E t \in Tasks :
        \/ \E a \in 1 .. MaxAttempts : Execute(t, a)
        \/ LoseTrack(t)
        \/ Succeed(t)
        \/ Fail(t)

Spec == Init /\ [][Next]_contractVars
=============================================================================
