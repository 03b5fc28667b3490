-------------------------------- MODULE Rpc --------------------------------
(***************************************************************************)
(* What the private session promises to the GUI, without pipes, frames or  *)
(* threads: a request is called once, the helper executes it at most once  *)
(* and never two at a time, and what the caller is told is either what the *)
(* helper computed for that very request, or that the call failed.  A      *)
(* failed call says nothing about the operation: it may not have started,  *)
(* may still run, or may have finished.                                    *)
(***************************************************************************)
CONSTANT Requests

VARIABLES outcome,  \* what the caller of each request was told
          op        \* how far the helper got with each request

rpcVars == <<outcome, op>>

Outcomes == {"none", "pending", "result", "error", "failed"}
OpStates == {"none", "running", "ok", "error"}

Init == /\ outcome = [r \in Requests |-> "none"]
        /\ op = [r \in Requests |-> "none"]

\* A caller issues request r; calls are serialized.
Call(r) == /\ outcome[r] = "none"
           /\ \A q \in Requests : outcome[q] # "pending"
           /\ outcome' = [outcome EXCEPT ![r] = "pending"]
           /\ UNCHANGED op

\* The helper begins r: only a request that was called, once, and alone.
Start(r) == /\ outcome[r] # "none"
            /\ op[r] = "none"
            /\ \A q \in Requests : op[q] # "running"
            /\ op' = [op EXCEPT ![r] = "running"]
            /\ UNCHANGED outcome

Finish(r) == /\ op[r] = "running"
             /\ \E s \in {"ok", "error"} : op' = [op EXCEPT ![r] = s]
             /\ UNCHANGED outcome

\* The caller learns the outcome the helper reached for r.
Return(r) == /\ outcome[r] = "pending"
             /\ \/ op[r] = "ok" /\ outcome' = [outcome EXCEPT ![r] = "result"]
                \/ op[r] = "error" /\ outcome' = [outcome EXCEPT ![r] = "error"]
             /\ UNCHANGED op

Fail(r) == /\ outcome[r] = "pending"
           /\ outcome' = [outcome EXCEPT ![r] = "failed"]
           /\ UNCHANGED op

Next == \E r \in Requests : Call(r) \/ Start(r) \/ Finish(r) \/ Return(r) \/ Fail(r)

Spec == Init /\ [][Next]_rpcVars
=============================================================================
