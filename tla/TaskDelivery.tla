----------------------------- MODULE TaskDelivery -----------------------------
(***************************************************************************)
(* What the skill pipeline promises about a registered task: it is         *)
(* delivered to the extractor or dead-lettered, and it never disappears.   *)
(***************************************************************************)
CONSTANT Tasks

VARIABLE status

Init == status = [t \in Tasks |-> "absent"]

Becomes(t, old, new) == status[t] = old /\ status' = [status EXCEPT ![t] = new]

Register(t)   == Becomes(t, "absent", "pending")
Deliver(t)    == Becomes(t, "pending", "delivered")
DeadLetter(t) == Becomes(t, "pending", "dead")

Next == \E t \in Tasks : Register(t) \/ Deliver(t) \/ DeadLetter(t)

Spec == Init /\ [][Next]_status
=============================================================================
