---------------------------- MODULE RunLifecycle ----------------------------
(***************************************************************************)
(* What the run history promises to the callers of agent_status,           *)
(* agent_result and agent_runs: the durable status of each run follows the *)
(* state machine of run_manager.go, at most MaxConcurrent runs are running *)
(* and only a restart, which ends every live run at once, interrupts one.  *)
(***************************************************************************)
EXTENDS Naturals, FiniteSets

CONSTANTS Runs, MaxConcurrent

VARIABLE status

Live == {"queued", "running"}
Terminal == {"completed", "failed", "cancelled", "timeout", "interrupted"}
Running == {r \in Runs : status[r] = "running"}

Init == status = [r \in Runs |-> "none"]

Accept(r) ==
  /\ status[r] = "none"
  /\ status' = [status EXCEPT ![r] = "queued"]

Begin(r) ==
  /\ status[r] = "queued"
  /\ Cardinality(Running) < MaxConcurrent
  /\ status' = [status EXCEPT ![r] = "running"]

Withdraw(r) ==
  /\ status[r] = "queued"
  /\ status' = [status EXCEPT ![r] = "cancelled"]

End(r) ==
  /\ status[r] = "running"
  /\ \E s \in Terminal \ {"interrupted"} : status' = [status EXCEPT ![r] = s]

Restart ==
  status' = [r \in Runs |-> IF status[r] \in Live THEN "interrupted" ELSE status[r]]

Next ==
  \/ Restart
  \/ \E r \in Runs : Accept(r) \/ Begin(r) \/ Withdraw(r) \/ End(r)

Spec == Init /\ [][Next]_status
=============================================================================
