---------------------------- MODULE InstanceLock ----------------------------
(***************************************************************************)
(* What DeploymentMutation.hold() promises to its callers: for one          *)
(* deployment instance, identified by its UID, the processes of at most one *)
(* operation are at work at any time.                                       *)
(***************************************************************************)
CONSTANTS Ops, Uids

\* active[u]: the operations that were given instance u and whose command, or
\* a subprocess that it has started, may still write
VARIABLE active

Init == active = [u \in Uids |-> {}]

Enter(o, u) == active[u] = {} /\ active' = [active EXCEPT ![u] = {o}]

Leave(o, u) == o \in active[u] /\ active' = [active EXCEPT ![u] = {}]

Next == \E o \in Ops, u \in Uids : Enter(o, u) \/ Leave(o, u)

Spec == Init /\ [][Next]_active
=============================================================================
