-------------------------- MODULE MCRequestLedger --------------------------
(* Small instances of RequestLedger.                                        *)
EXTENDS RequestLedger, TLC

CONSTANTS r1, r2, f1, f2, p1, p2, o1, o2, alice, user

\* One waiting place and one concurrent unit per caller.
Tight == [closed |-> FALSE, maxWaiting |-> 2,
          rules |-> [r \in Roles |-> [waiting |-> 1, concurrent |-> 1]]]
Closed == [Tight EXCEPT !.closed = TRUE]

\* A batch of two fits the caller's waiting places, two batches do not.
Batches == [closed |-> FALSE, maxWaiting |-> 3,
            rules |-> [r \in Roles |-> [waiting |-> 2, concurrent |-> 2]]]

\* No rule: every caller is unlimited, anonymous ones too.
Unruled == [closed |-> FALSE, maxWaiting |-> NoLimit, rules |-> [r \in Roles |-> NoLimit]]

AllConfigs == {Tight, Closed, Batches, Unruled}

\* Two requests of one candidate compete for one place on one pod, while the
\* frontend or the engine restarts, and the model is closed in the end.
Competing ==
    /\ config \in {NoConfig, Tight, Closed}
    /\ config = Closed => version = MaxVersion
    /\ \E p \in Pods : p \notin backends /\ backend[p] = 0
    /\ ownerEpoch <= 1 \/ \A p \in Pods : backend[p] <= 1
    /\ \A id \in Ids : slot[<<id, 2>>] = NoSlot

\* One request, of up to two candidates, on two pods: with limits, or without them
\* and under one membership.
Batched ==
    /\ config \in {NoConfig, Batches, Unruled}
    /\ \E id \in Ids : /\ request[id] = NoRequest /\ id \notin retained
                       /\ \A x \in SlotsOf(id) : slot[x] = NoSlot
    /\ config = Unruled => membershipVersion <= 0
    /\ ownerEpoch <= 1 /\ \A p \in Pods : backend[p] <= 1

\* The behaviours that stay within one of the two shapes of load.
SpecBounded == Init /\ [][Next /\ (Competing \/ Batched)']_vars

LedgerSymmetry ==
    Permutations({r1, r2}) \cup Permutations({o1, o2}) \cup Permutations({p1, p2})
=============================================================================
