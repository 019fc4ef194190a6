-------------------------- MODULE MCAdmissionQueue --------------------------
(***************************************************************************)
(* Small instances of AdmissionQueue: two requests of one caller with all   *)
(* failures, and three requests of three callers in two priority bands      *)
(* without failures.  The set of requests tells which one a behaviour is of.*)
(***************************************************************************)
EXTENDS Naturals, TLC

CONSTANTS r1, r2, r3, f1, p1, o1, o2, o3, user, admin, NoLimit, NoConfig, None

VARIABLES
    request, slot, retained,
    waiting, waitingOf, active, activeOf,
    version, config, membershipVersion, frontends, backends,
    ownerEpoch, owner, backend,
    task, left, seen, queue, last, local, closed, grant, late

\* One execution per caller, room for n waiting requests.
Limited(n, roles) ==
    [closed |-> FALSE, maxWaiting |-> n,
     rules |-> [r \in roles |-> [waiting |-> n, concurrent |-> 1]]]

Pair == {r1, r2}
PairConfig == Limited(2, {user})
PairConfigs == {PairConfig}
PairCaller == [id \in Pair |-> 1]
PairRole == [id \in Pair |-> user]
PairPriority == [r \in {user} |-> 0]
PairExecution == r1 :> o1 @@ r2 :> o2
ThenRemoved == 0 :> PairConfig @@ 1 :> NoConfig
Unchanging == 0 :> PairConfig

\* Two requests of one caller, and a model that is removed.
Two == INSTANCE AdmissionQueue WITH
    Ids <- Pair, MaxUnits <- 1, Callers <- {1}, Anonymous <- 0, Roles <- {user},
    Frontends <- {f1}, Pods <- {p1}, Owners <- {o1, o2}, Configs <- PairConfigs,
    MaxVersion <- 1, MaxOwnerEpoch <- 1, MaxEngineEpoch <- 1,
    Caller <- PairCaller, Role <- PairRole, Priority <- PairPriority,
    Settings <- ThenRemoved, ThisFrontend <- f1, ThisPod <- p1, Execution <- PairExecution

\* The same requests under settings that do not change.
Fixed == INSTANCE AdmissionQueue WITH
    Ids <- Pair, MaxUnits <- 1, Callers <- {1}, Anonymous <- 0, Roles <- {user},
    Frontends <- {f1}, Pods <- {p1}, Owners <- {o1, o2}, Configs <- PairConfigs,
    MaxVersion <- 0, MaxOwnerEpoch <- 1, MaxEngineEpoch <- 1,
    Caller <- PairCaller, Role <- PairRole, Priority <- PairPriority,
    Settings <- Unchanging, ThisFrontend <- f1, ThisPod <- p1, Execution <- PairExecution

Trio == {r1, r2, r3}
TrioConfig == Limited(3, {user, admin})
TrioConfigs == {TrioConfig}
TrioCaller == r1 :> 1 @@ r2 :> 2 @@ r3 :> 3
TrioRole == r1 :> user @@ r2 :> user @@ r3 :> admin
TrioPriority == user :> 0 @@ admin :> 1
TrioSettings == 0 :> TrioConfig
TrioExecution == r1 :> o1 @@ r2 :> o2 @@ r3 :> o3

\* Three callers, one of them in a higher priority band.
Three == INSTANCE AdmissionQueue WITH
    Ids <- Trio, MaxUnits <- 1, Callers <- {1, 2, 3}, Anonymous <- 0, Roles <- {user, admin},
    Frontends <- {f1}, Pods <- {p1}, Owners <- {o1, o2, o3}, Configs <- TrioConfigs,
    MaxVersion <- 0, MaxOwnerEpoch <- 1, MaxEngineEpoch <- 1,
    Caller <- TrioCaller, Role <- TrioRole, Priority <- TrioPriority,
    Settings <- TrioSettings, ThisFrontend <- f1, ThisPod <- p1, Execution <- TrioExecution

OfThree == DOMAIN task = Trio

\* All failures with two requests, or none with three: the order of dispatch, from
\* every earlier state of the rotation.
Spec ==
    /\ Two!InitQueue \/ Three!InitQueue
    /\ [][IF OfThree THEN \E id \in Trio : Three!Undisturbed(id)
                     ELSE Two!NextQueue]_(Two!allVars)

Live == Fixed!LiveQueue

----------------------------------------------------------------------------
\* Capacity that the ledger has given to this process and no engine holds has a
\* task that will give it back, also when an enqueue, a grant or a retry has lost
\* its reply.
CapacityIsOwned == IF OfThree THEN Three!CapacityIsOwned ELSE Two!CapacityIsOwned

\* Requests are granted in turn, and under a reservation that exists.  While an entry
\* is in the queue no later entry of its caller has a grant; grant_ready lists every
\* eligible entry once, a higher band before a lower one, and within a band the
\* callers cyclically from the one after the last served; and a request is submitted
\* only while the ledger holds a reservation for it, whatever was retried, deferred
\* or left unanswered before.
GrantsAreSound ==
    [][IF OfThree
       THEN Three!CallerOrder' /\ Three!CandidatesInTurn /\ Three!GrantIsReserved
       ELSE Two!CallerOrder' /\ Two!CandidatesInTurn /\ Two!GrantIsReserved]_(Two!allVars)

\* No request waits in the shared limits for ever: its slot leaves the frontend's
\* hands, into an engine or out of the ledger, whatever reply was lost.
WaitingEnds == Fixed!WaitingEnds
=============================================================================
