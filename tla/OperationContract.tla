-------------------------- MODULE OperationContract --------------------------
(***************************************************************************)
(* What a tool operation promises its reviewer, with no requests, Runs,    *)
(* registry, clock or crashes: the state machine drawn in the docstring of *)
(* backend/tool_operations.py, and the one write an approval may cause.    *)
(***************************************************************************)
EXTENDS Naturals

CONSTANT Ops

VARIABLES status,   \* the status of each operation
          writes    \* how many times its tool has written

vars == <<status, writes>>

Init ==
  /\ status = [o \in Ops |-> "absent"]
  /\ writes = [o \in Ops |-> 0]

Move(o, from, to) ==
  /\ status[o] = from
  /\ status' = [status EXCEPT ![o] = to]
  /\ UNCHANGED writes

\* The write happens inside the claim, and there is only one.
Write(o) ==
  /\ status[o] = "executing"
  /\ writes[o] = 0
  /\ writes' = [writes EXCEPT ![o] = 1]
  /\ UNCHANGED status

\* An operation may be reported as succeeded only after its write.
Succeed(o) ==
  /\ writes[o] = 1
  /\ Move(o, "executing", "succeeded")

Next ==
  \E o \in Ops :
    \/ Move(o, "absent", "pending")
    \/ Move(o, "pending", "rejected")
    \/ Move(o, "pending", "expired")
    \/ Move(o, "pending", "executing")
    \/ Write(o)
    \/ Succeed(o)
    \/ Move(o, "executing", "failed")

Spec == Init /\ [][Next]_vars
=============================================================================
