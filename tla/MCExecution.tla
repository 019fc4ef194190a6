---------------------------- MODULE MCExecution ----------------------------
(* Small instances of Execution.                                            *)
EXTENDS Execution, TLC

CONSTANTS r1, f1, p1, p2, o1, o2, user

\* A waiting limit, so that requests are tracked by the ledger, and no rules: the
\* claims are about ownership, not about limits.
Tracked == [closed |-> FALSE, maxWaiting |-> 1, rules |-> [r \in Roles |-> NoLimit]]
OneConfig == {Tracked}

OwnerSymmetry == Permutations({o1, o2})

\* The same system with a pod that may serve before the control plane lists it.
Early == INSTANCE Execution WITH Pods <- {p2}, ListedFirst <- FALSE, MaxOwnerEpoch <- 1

IsEarly == DOMAIN process = {p2}

SpecEither ==
    /\ InitExecution \/ Early!InitExecution
    /\ [][IF IsEarly THEN Early!NextExecution ELSE NextExecution]_allVars

\* A slot held by an engine can still be released: its execution task is alive,
\* or its process is not, and the next registration or the removal of the pod
\* ends it.
ListedClaimsAreBacked == ~IsEarly => ClaimsAreBacked

\* While the frontend holds a handed stage, nobody else can end its slot: the
\* next engine finds the reservation the previous one has left.
ListedHandoffIsHeld == ~IsEarly => HandoffIsHeld
=============================================================================
