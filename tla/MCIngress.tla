----------------------------- MODULE MCIngress -----------------------------
(* Ingress with two messages, posted in two batches that cross. *)
EXTENDS Ingress, TLC

CONSTANTS m1, m2, r1, r2, ann

(* A second job of a message could only come of storing it twice. *)
JobIds == {m1, m2} \X {1, 2}
Jobsof == [m \in {m1, m2} |-> {m} \X {1, 2}]
Locks == [j \in JobIds |-> ann]

Crossed == r1 :> <<m1, m2>> @@ r2 :> <<m2, m1>>
=============================================================================
