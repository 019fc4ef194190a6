--------------------------- MODULE RequestLedger ---------------------------
(***************************************************************************)
(* The shared reservation ledger of one public model.  The code keeps it in *)
(* one Redis hash and changes it only through the atomic script             *)
(* request-ledger/src/transition.lua, so every action below is one run of   *)
(* the script.  Hash fields become variables:                               *)
(*                                                                          *)
(*   r:<id>                       request[id] and slot[<<id, k>>]           *)
(*   c:<id>                       id \in retained                           *)
(*   waiting, w:<caller>          waiting, waitingOf[caller]                *)
(*   active, a:<caller>           active, activeOf[caller]                  *)
(*   version, config              version, config                           *)
(*   membership_version,          membershipVersion,                        *)
(*   frontends, backends          frontends, backends                       *)
(*   owner_epoch, o:<frontend>    ownerEpoch, owner[frontend]               *)
(*   b:<pod>                      backend[pod]                              *)
(*                                                                          *)
(* A missing counter or epoch reads as 0, as count() has it.  The operators *)
(* named ...Reply are the script's early returns in their order; an action  *)
(* is the script's effect when it returns "ok" and changes something.       *)
(*                                                                          *)
(* A definition marked "mutant of D" is D with a plausible mistake in it.   *)
(* No action uses it; it stands before D so that it can replace D to show   *)
(* that a property notices the mistake.                                     *)
(***************************************************************************)
EXTENDS Integers, FiniteSets

CONSTANTS
    Ids,             \* request ids (UUIDs)
    MaxUnits,        \* largest number of candidates in one request
    Callers,         \* authenticated callers
    Anonymous,       \* the caller ''
    Roles,           \* trusted caller roles
    Frontends,       \* frontend pods
    Pods,            \* model-server pods
    Owners,          \* execution identities chosen by model servers
    Configs,         \* admission settings the control plane may publish
    NoLimit,         \* an absent optional limit
    NoConfig,        \* no settings published yet
    None,            \* an absent slot owner or pod
    MaxVersion,      \* bound on snapshot versions
    MaxOwnerEpoch,   \* bound on allocated frontend epochs
    MaxEngineEpoch   \* bound on engine process epochs of a pod

Limit == (Nat \ {0}) \cup {NoLimit}

\* AdmissionConfig: a role without a rule has NoLimit in its place; when no
\* role has one, the rule list is empty and every caller is unlimited.
Rule == [waiting : Nat \ {0}, concurrent : Nat \ {0}]
Config == [closed : BOOLEAN, maxWaiting : Limit, rules : [Roles -> Rule \cup {NoLimit}]]

ASSUME LedgerAssumption ==
    /\ IsFiniteSet(Ids)
    /\ MaxUnits \in Nat
    /\ Configs \subseteq Config
    /\ NoLimit \notin Nat \cup Rule
    /\ NoConfig \notin Config
    /\ None \notin Owners \cup Pods
    /\ Anonymous \notin Callers
    /\ MaxVersion \in Nat /\ MaxOwnerEpoch \in Nat /\ MaxEngineEpoch \in Nat

VARIABLES
    request, slot, retained,
    waiting, waitingOf, active, activeOf,
    version, config, membershipVersion, frontends, backends,
    ownerEpoch, owner, backend

requestVars == <<request, slot>>
counterVars == <<waiting, waitingOf, active, activeOf>>
publicationVars == <<version, config, membershipVersion, frontends, backends>>
epochVars == <<ownerEpoch, owner, backend>>
vars == <<requestVars, retained, counterVars, publicationVars, epochVars>>

AnyCaller == Callers \cup {Anonymous}
SlotIndex == 1 .. MaxUnits
Slots == Ids \X SlotIndex

SlotState == {"absent", "waiting", "reserved", "accepted", "handoff",
              "cancelling", "completed"}

Queued == {"waiting", "reserved"}                              \* counted in waiting, w:
Charged == {"reserved", "accepted", "handoff", "cancelling"}   \* counted in active, a:
Engine == {"accepted", "cancelling"}                           \* owned by a model server
\* Mutant of Unsubmitted: a slot between two execution owners is forgotten.
UnsubmittedNoHandoff == {"waiting", "reserved"}
Unsubmitted == {"waiting", "reserved", "handoff"}              \* owned by the frontend
Open == Queued \cup Charged                                    \* not yet completed

NoSlot == [state |-> "absent", owner |-> None, pod |-> None, epoch |-> 0,
           finished |-> {}]
NoRequest == [exists |-> FALSE, caller |-> Anonymous, role |-> None,
              frontend |-> None, epoch |-> 0, remaining |-> 0,
              accepted |-> FALSE, cancelled |-> FALSE, retired |-> FALSE]

NewRequest(c, r, f, e, units) ==
    [exists |-> TRUE, caller |-> c, role |-> r, frontend |-> f, epoch |-> e,
     remaining |-> units, accepted |-> FALSE, cancelled |-> FALSE, retired |-> FALSE]
NewSlot == [NoSlot EXCEPT !.state = "waiting"]

SlotRecord == [state : SlotState, owner : Owners \cup {None},
               pod : Pods \cup {None}, epoch : Nat, finished : SUBSET Owners]
RequestRecord == [exists : BOOLEAN, caller : AnyCaller, role : Roles \cup {None},
                  frontend : Frontends \cup {None}, epoch : Nat, remaining : Int,
                  accepted : BOOLEAN, cancelled : BOOLEAN, retired : BOOLEAN]

----------------------------------------------------------------------------
(* Reading the hash *)

CallerOf(x) == request[x[1]].caller
SlotsIn(states) == {x \in Slots : slot[x].state \in states}
SlotsOf(id) == {x \in Slots : x[1] = id}
ByCaller(S, c) == {x \in S : CallerOf(x) = c}

Unfinished(id) == request[id].exists /\ request[id].remaining # 0

\* Terminal evidence retained for a consumer: c:<id> without live work.
Concluded(id) == id \in retained /\ ~Unfinished(id)

CurrentOwner(f, e) == f \in frontends /\ owner[f] = e

Exceeds(n, limit) == limit # NoLimit /\ n > limit

\* rule_for: an empty rule list admits everybody without limits.
Ruled == \E role \in Roles : config.rules[role] # NoLimit
Permitted(role, caller) == Ruled => caller # Anonymous /\ config.rules[role] # NoLimit
WaitingLimit(role) == IF Ruled THEN config.rules[role].waiting ELSE NoLimit
ConcurrentLimit(role) == IF Ruled THEN config.rules[role].concurrent ELSE NoLimit

----------------------------------------------------------------------------
(* Writing the hash *)

\* Mutant of Disposable: a fence outlives the process it protects.
DisposableNeverRetired(r) == r.remaining = 0 /\ ~r.cancelled

\* save: a finished record is removed unless it must stay as the fence of a
\* cancelled entry.
Disposable(r) == r.remaining = 0 /\ (~r.cancelled \/ r.retired)

Save(req, slots, saved) ==
    LET dropped == {id \in saved : Disposable(req[id])}
    IN  /\ request' = [id \in Ids |-> IF id \in dropped THEN NoRequest ELSE req[id]]
        /\ slot' = [x \in Slots |-> IF x[1] \in dropped THEN NoSlot ELSE slots[x]]

\* Mutant of Uncharge: a reserved slot is not taken out of the waiting counters.
UnchargeWaitingOnly(S) ==
    LET queued == S \cap SlotsIn({"waiting"})
        charged == S \cap SlotsIn(Charged)
    IN  /\ waiting' = waiting - Cardinality(queued)
        /\ waitingOf' = [c \in AnyCaller |-> waitingOf[c] - Cardinality(ByCaller(queued, c))]
        /\ active' = active - Cardinality(charged)
        /\ activeOf' = [c \in AnyCaller |-> activeOf[c] - Cardinality(ByCaller(charged, c))]

\* finish_slot on every slot of S: each leaves the counters its state is in.
Uncharge(S) ==
    LET queued == S \cap SlotsIn(Queued)
        charged == S \cap SlotsIn(Charged)
    IN  /\ waiting' = waiting - Cardinality(queued)
        /\ waitingOf' = [c \in AnyCaller |-> waitingOf[c] - Cardinality(ByCaller(queued, c))]
        /\ active' = active - Cardinality(charged)
        /\ activeOf' = [c \in AnyCaller |-> activeOf[c] - Cardinality(ByCaller(charged, c))]

\* The slots of C, accepted by a model server, are asked to stop.
Cancelling(C) ==
    [x \in Slots |-> IF x \in C THEN [slot[x] EXCEPT !.state = "cancelling"] ELSE slot[x]]

\* Finish the open slots of S, then save the requests in saved.  marked and req
\* are the slots and records with the other changes of the transition.
Release(S, marked, req, saved) ==
    LET open == S \cap SlotsIn(Open)
    IN  /\ Uncharge(open)
        /\ Save([id \in Ids |->
                    [req[id] EXCEPT !.remaining = @ - Cardinality(open \cap SlotsOf(id))]],
                [x \in Slots |->
                    IF x \in open THEN [marked[x] EXCEPT !.state = "completed"] ELSE marked[x]],
                saved)

\* cancel_slot on every slot of S: unsubmitted work is finished, accepted work
\* stays charged until its execution owner reports.
Cancel(S, req, saved) ==
    Release(S \cap SlotsIn(Unsubmitted), Cancelling(S \cap SlotsIn({"accepted"})), req, saved)

\* retire_frontends: the requests whose frontend process is gone.
Retired(ids) ==
    [id \in Ids |-> IF id \in ids THEN [request[id] EXCEPT !.retired = TRUE] ELSE request[id]]
RequestsOf(ids) == {x \in Slots : x[1] \in ids}

\* finish_backend_slots: work whose engine process has provably ended, because
\* its pod left the membership or has a newer process.
OnRemovedPods(B) == {x \in SlotsIn(Engine) : slot[x].pod \notin B}
OnEarlierProcess(p, e) == {x \in SlotsIn(Engine) : slot[x].pod = p /\ slot[x].epoch < e}
IdsOf(S) == {x[1] : x \in S}

----------------------------------------------------------------------------
(* Transitions on the publication and on process epochs *)

RecoverBackend(p, e) ==
    /\ p \in backends
    /\ e >= backend[p]
    /\ LET S == OnEarlierProcess(p, e)
       IN  Release(S, slot, request, IdsOf(S))
    /\ backend' = [backend EXCEPT ![p] = e]
    /\ UNCHANGED <<retained, publicationVars, ownerEpoch, owner>>

\* The part that publish and publish_membership share: a newer membership
\* retires the requests of removed frontends and ends the work of removed pods.
ApplyMembership(v, F, B) ==
    IF v > membershipVersion
    THEN LET departed == {id \in Ids : request[id].exists /\ request[id].frontend \notin F}
             ended == OnRemovedPods(B)
         IN  /\ membershipVersion' = v
             /\ frontends' = F
             /\ backends' = B
             /\ owner' = [f \in Frontends |-> IF f \in F THEN owner[f] ELSE 0]
             /\ backend' = [p \in Pods |-> IF p \in B THEN backend[p] ELSE 0]
             /\ Release((RequestsOf(departed) \cap SlotsIn(Unsubmitted)) \cup ended,
                        Cancelling(RequestsOf(departed) \cap SlotsIn({"accepted"})),
                        Retired(departed), departed \cup IdsOf(ended))
    ELSE UNCHANGED <<membershipVersion, frontends, backends, owner, backend,
                     requestVars, counterVars>>

Publish(v, cfg, F, B) ==
    /\ v > version \/ v > membershipVersion
    /\ IF v > version
       THEN version' = v /\ config' = cfg
       ELSE UNCHANGED <<version, config>>
    /\ ApplyMembership(v, F, B)
    /\ UNCHANGED <<retained, ownerEpoch>>

PublishMembership(v, F, B) ==
    /\ v > membershipVersion
    /\ ApplyMembership(v, F, B)
    /\ UNCHANGED <<retained, version, config, ownerEpoch>>

AllocateOwner(f) ==
    /\ config # NoConfig
    /\ f \in frontends
    /\ ownerEpoch < MaxOwnerEpoch
    /\ ownerEpoch' = ownerEpoch + 1
    /\ UNCHANGED <<requestVars, retained, counterVars, publicationVars, owner, backend>>

RegisterOwnerReply(f, e) ==
    IF config = NoConfig THEN "unavailable"
    ELSE IF f \notin frontends \/ e < owner[f] THEN "closed"
    ELSE "ok"

RegisterOwner(f, e) ==
    /\ RegisterOwnerReply(f, e) = "ok"
    /\ e > owner[f]
    /\ owner' = [owner EXCEPT ![f] = e]
    /\ LET departed == {id \in Ids : /\ request[id].exists
                                     /\ request[id].frontend = f
                                     /\ request[id].epoch # e}
       IN  Cancel(RequestsOf(departed), Retired(departed), departed)
    /\ UNCHANGED <<retained, publicationVars, ownerEpoch, backend>>

----------------------------------------------------------------------------
(* Transitions on one request, sent by its frontend *)

\* The script after the short-circuit for retained terminal evidence.  Without
\* it, it is a mutant of EnqueueReply.
LiveEnqueueReply(id, f, e, c, r, units) ==
    IF config = NoConfig THEN "unavailable"
    ELSE IF config.closed \/ ~CurrentOwner(f, e) THEN "closed"
    ELSE IF request[id].exists
         THEN IF request[id].cancelled \/ request[id].retired THEN "closed" ELSE "ok"
    ELSE IF ~Permitted(r, c) THEN "role"
    ELSE IF \/ units < 1
            \/ Exceeds(units, config.maxWaiting)
            \/ Exceeds(units, WaitingLimit(r))
            \/ Exceeds(units, ConcurrentLimit(r)) THEN "batch"
    ELSE IF \/ Exceeds(waiting + units, config.maxWaiting)
            \/ Exceeds(waitingOf[c] + units, WaitingLimit(r)) THEN "full"
    ELSE "ok"

EnqueueReply(id, f, e, c, r, units) ==
    IF Concluded(id) THEN "closed" ELSE LiveEnqueueReply(id, f, e, c, r, units)

Enqueue(id, f, e, c, r, units) ==
    /\ EnqueueReply(id, f, e, c, r, units) = "ok"
    /\ ~request[id].exists
    /\ request' = [request EXCEPT ![id] = NewRequest(c, r, f, e, units)]
    /\ slot' = [x \in Slots |-> IF x[1] = id /\ x[2] <= units THEN NewSlot ELSE slot[x]]
    /\ waiting' = waiting + units
    /\ waitingOf' = [waitingOf EXCEPT ![c] = @ + units]
    /\ UNCHANGED <<active, activeOf, retained, publicationVars, epochVars>>

\* An enqueue whose reply was lost is fenced by a record without slots, also
\* when the cancellation is executed first.
CancelEntry(id, f, e, c) ==
    /\ ~Concluded(id)
    /\ config # NoConfig
    /\ request[id].exists \/ CurrentOwner(f, e)
    /\ LET entry == IF request[id].exists THEN request[id] ELSE NewRequest(c, None, f, e, 0)
       IN  Cancel(SlotsOf(id),
                  [request EXCEPT ![id] = [entry EXCEPT !.cancelled = TRUE]], {id})
    /\ UNCHANGED <<retained, publicationVars, epochVars>>

RetainCompletionReply(id) ==
    IF Concluded(id) THEN "closed"
    ELSE IF config = NoConfig THEN "unavailable"
    ELSE IF \/ ~Unfinished(id)
            \/ request[id].cancelled \/ request[id].retired \/ request[id].accepted
            \/ ~CurrentOwner(request[id].frontend, request[id].epoch) THEN "closed"
    ELSE "ok"

RetainCompletion(id) ==
    /\ RetainCompletionReply(id) = "ok"
    /\ retained' = retained \cup {id}
    /\ UNCHANGED <<requestVars, counterVars, publicationVars, epochVars>>

FinishedReply(id) ==
    IF id \notin retained
    THEN IF request[id].exists THEN "untracked" ELSE "unknown"
    ELSE IF Unfinished(id) THEN "pending" ELSE "completed"

Acknowledge(id) ==
    /\ Concluded(id)
    /\ retained' = retained \ {id}
    /\ UNCHANGED <<requestVars, counterVars, publicationVars, epochVars>>

SlotsOfIn(id, states) == SlotsOf(id) \cap SlotsIn(states)

\* Mutant of Busy: the batch itself is left out of the comparison.
BusyWithoutBatch(caller, needed, limit) == Exceeds(activeOf[caller], limit)
Busy(caller, needed, limit) == Exceeds(activeOf[caller] + needed, limit)

DispatchReply(id) ==
    IF Concluded(id) THEN "closed"
    ELSE IF config = NoConfig THEN "unavailable"
    ELSE IF config.closed \/ ~request[id].exists THEN "closed"
    ELSE IF request[id].cancelled \/ request[id].retired THEN "closed"
    ELSE IF ~Permitted(request[id].role, request[id].caller) THEN "role"
    ELSE LET needed == Cardinality(SlotsOfIn(id, {"waiting"}))
             limit == ConcurrentLimit(request[id].role)
         IN  IF Exceeds(needed, limit) THEN "batch"
             ELSE IF Busy(request[id].caller, needed, limit) THEN "busy"
             ELSE "ok"

Dispatch(id) ==
    /\ DispatchReply(id) = "ok"
    /\ LET needed == SlotsOfIn(id, {"waiting"})
       IN  /\ Save(request,
                   [x \in Slots |-> IF x \in needed THEN [slot[x] EXCEPT !.state = "reserved"]
                                    ELSE slot[x]], {id})
           /\ active' = active + Cardinality(needed)
           /\ activeOf' = [activeOf EXCEPT ![request[id].caller] = @ + Cardinality(needed)]
    /\ UNCHANGED <<waiting, waitingOf, retained, publicationVars, epochVars>>

RetryReply(id) ==
    IF Concluded(id) THEN "closed"
    ELSE IF config = NoConfig THEN "unavailable"
    ELSE IF ~request[id].exists THEN "closed"
    ELSE IF request[id].accepted THEN "accepted"
    ELSE "ok"

Retry(id) ==
    /\ RetryReply(id) = "ok"
    /\ LET returned == SlotsOfIn(id, {"reserved"})
       IN  /\ Save(request,
                   [x \in Slots |-> IF x \in returned THEN [slot[x] EXCEPT !.state = "waiting"]
                                    ELSE slot[x]], {id})
           /\ active' = active - Cardinality(returned)
           /\ activeOf' = [activeOf EXCEPT ![request[id].caller] = @ - Cardinality(returned)]
    /\ UNCHANGED <<waiting, waitingOf, retained, publicationVars, epochVars>>

----------------------------------------------------------------------------
(* Transitions on one slot, sent by its frontend or by a model server *)

\* The slot an effect applies to: the request is live and has this candidate.
Addressed(x) ==
    /\ ~Concluded(x[1])
    /\ config # NoConfig
    /\ request[x[1]].exists
    /\ slot[x].state # "absent"

\* Mutant of Obsolete: a finished execution may claim the slot again.
ObsoleteProcess(x, o, p, e) == e < backend[p]

\* finished_owners records the executions that have already reported.
Obsolete(x, o, p, e) == e < backend[p] \/ o \in slot[x].finished

AcceptReply(x, o, p, e) ==
    IF Concluded(x[1]) THEN "closed"
    ELSE IF config = NoConfig THEN "unavailable"
    ELSE IF ~Addressed(x) THEN "closed"
    ELSE IF p \notin backends THEN "backend_unavailable"
    ELSE IF Obsolete(x, o, p, e) THEN "closed"
    ELSE IF slot[x].state = "accepted" /\ slot[x].owner = o THEN "ok"
    ELSE IF slot[x].state \notin {"reserved", "handoff"} THEN "closed"
    ELSE "ok"

Accept(x, o, p, e) ==
    /\ AcceptReply(x, o, p, e) = "ok"
    /\ slot[x].state \in {"reserved", "handoff"}
    /\ IF slot[x].state = "reserved"
       THEN /\ waiting' = waiting - 1
            /\ waitingOf' = [waitingOf EXCEPT ![CallerOf(x)] = @ - 1]
       ELSE UNCHANGED <<waiting, waitingOf>>
    /\ backend' = [backend EXCEPT ![p] = e]
    /\ Save([request EXCEPT ![x[1]].accepted = TRUE],
            [slot EXCEPT ![x].state = "accepted", ![x].owner = o,
                         ![x].pod = p, ![x].epoch = e], {x[1]})
    /\ UNCHANGED <<active, activeOf, retained, publicationVars, ownerEpoch, owner>>

Drop(x) ==
    /\ Addressed(x)
    /\ Cancel({x}, request, {x[1]})
    /\ UNCHANGED <<retained, publicationVars, epochVars>>

\* Mutant of OwnedBy: any model server may end the slot.
OwnedByAnyone(x, o) == slot[x].state \in Engine
OwnedBy(x, o) == slot[x].state \in Engine /\ slot[x].owner = o

RejectBeforeSubmission(x, o) ==
    /\ Addressed(x)
    /\ LET rejected == o \notin slot[x].finished
                       /\ (slot[x].state \in Unsubmitted \/ OwnedBy(x, o))
       IN  Release(IF rejected THEN {x} ELSE {}, slot, request, {x[1]})
    /\ UNCHANGED <<retained, publicationVars, epochVars>>

Complete(x, o, finalStage) ==
    /\ Addressed(x)
    /\ OwnedBy(x, o)
    /\ LET final == finalStage \/ slot[x].state = "cancelling"
           reported == [slot EXCEPT ![x].finished = @ \cup {o},
                                    ![x].state = IF final THEN @ ELSE "handoff"]
       IN  Release(IF final THEN {x} ELSE {}, reported, request, {x[1]})
    /\ UNCHANGED <<retained, publicationVars, epochVars>>

StatusReply(x) ==
    IF Concluded(x[1]) THEN "completed"
    ELSE IF config = NoConfig THEN "unavailable"
    ELSE IF ~Addressed(x) THEN "closed"
    ELSE slot[x].state

----------------------------------------------------------------------------
(* The ledger under commands in any order *)

Init ==
    /\ request = [id \in Ids |-> NoRequest]
    /\ slot = [x \in Slots |-> NoSlot]
    /\ retained = {}
    /\ waiting = 0 /\ active = 0
    /\ waitingOf = [c \in AnyCaller |-> 0]
    /\ activeOf = [c \in AnyCaller |-> 0]
    /\ version = -1 /\ membershipVersion = -1
    /\ config = NoConfig
    /\ frontends = {} /\ backends = {}
    /\ ownerEpoch = 0
    /\ owner = [f \in Frontends |-> 0]
    /\ backend = [p \in Pods |-> 0]

Publication ==
    \E v \in 0 .. MaxVersion, F \in SUBSET Frontends, B \in SUBSET Pods :
        \/ \E cfg \in Configs : Publish(v, cfg, F, B)
        \/ PublishMembership(v, F, B)

ProcessEpoch ==
    \/ \E p \in Pods, e \in 1 .. MaxEngineEpoch : RecoverBackend(p, e)
    \/ \E f \in Frontends : AllocateOwner(f)
    \/ \E f \in Frontends, e \in 1 .. ownerEpoch : RegisterOwner(f, e)

RequestTransition ==
    \/ \E id \in Ids, f \in Frontends, e \in 1 .. ownerEpoch, c \in AnyCaller :
        \/ \E r \in Roles, units \in SlotIndex : Enqueue(id, f, e, c, r, units)
        \/ CancelEntry(id, f, e, c)
    \/ \E id \in Ids :
        \/ RetainCompletion(id) \/ Acknowledge(id)
        \/ Dispatch(id) \/ Retry(id)

SlotTransition ==
    \E x \in Slots :
        \/ Drop(x)
        \/ \E o \in Owners :
            \/ \E p \in Pods, e \in 1 .. MaxEngineEpoch : Accept(x, o, p, e)
            \/ RejectBeforeSubmission(x, o)
            \/ \E finalStage \in BOOLEAN : Complete(x, o, finalStage)

Next == Publication \/ ProcessEpoch \/ RequestTransition \/ SlotTransition

Spec == Init /\ [][Next]_vars

----------------------------------------------------------------------------
(* Properties *)

\* Every field of the hash has the shape the script writes.
TypeOK ==
    /\ request \in [Ids -> RequestRecord]
    /\ slot \in [Slots -> SlotRecord]
    /\ retained \subseteq Ids
    /\ waiting \in Int /\ active \in Int
    /\ waitingOf \in [AnyCaller -> Int] /\ activeOf \in [AnyCaller -> Int]
    /\ version \in Nat \cup {-1} /\ membershipVersion \in Nat \cup {-1}
    /\ config \in Config \cup {NoConfig}
    /\ frontends \subseteq Frontends /\ backends \subseteq Pods
    /\ ownerEpoch \in Nat
    /\ owner \in [Frontends -> Nat] /\ backend \in [Pods -> Nat]

\* The four counters are exactly the numbers of slots they stand for, whatever
\* the order of enqueues, cancellations, lost owners, handoffs and recoveries:
\* no transition of the script leaks or double-releases a reservation.
CountersExact ==
    /\ waiting = Cardinality(SlotsIn(Queued))
    /\ active = Cardinality(SlotsIn(Charged))
    /\ \A c \in AnyCaller :
        /\ waitingOf[c] = Cardinality(ByCaller(SlotsIn(Queued), c))
        /\ activeOf[c] = Cardinality(ByCaller(SlotsIn(Charged), c))

\* "remaining" of a stored record counts its unfinished slots, so save() removes
\* r:<id> only when all of them have ended, and the only finished records kept
\* are the fences of cancelled entries.
RemainingExact ==
    \A id \in Ids :
        /\ request[id].remaining = Cardinality(SlotsOfIn(id, Open))
        /\ ~request[id].exists => \A x \in SlotsOf(id) : slot[x].state = "absent"
        /\ request[id].exists /\ request[id].remaining = 0 =>
              request[id].cancelled /\ ~request[id].retired

\* Every slot that may still reach an engine belongs to the registered process
\* of a member frontend, and to a request that is neither cancelled nor retired:
\* registration and membership leave no live work of a dead frontend behind.
LiveWorkHasOwner ==
    \A x \in SlotsIn(Open \ {"cancelling"}) :
        LET r == request[x[1]]
        IN  /\ ~r.cancelled /\ ~r.retired
            /\ r.frontend \in Frontends
            /\ CurrentOwner(r.frontend, r.epoch)

\* A slot held by an engine names a member pod, a process epoch the ledger has
\* seen, and an execution that has not reported its end: a duplicate accept of
\* a finished execution cannot take the slot back.
EngineWorkIsLocated ==
    \A x \in SlotsIn(Engine) :
        /\ slot[x].pod \in backends
        /\ slot[x].epoch <= backend[slot[x].pod]
        /\ slot[x].owner \notin slot[x].finished

\* What a step may do to engine-owned work, to the limits and to conclusions.
EngineWorkKept ==
    \A x \in Slots : slot[x].state \in Engine =>
        \/ slot'[x].state \in Engine /\ slot'[x].owner = slot[x].owner
        \/ \E finalStage \in BOOLEAN : Complete(x, slot[x].owner, finalStage)
        \/ RejectBeforeSubmission(x, slot[x].owner)
        \/ slot[x].pod \notin backends'
        \/ slot[x].epoch < backend'[slot[x].pod]

WithinLimits ==
    \A x \in Slots, c \in AnyCaller : c = CallerOf(x)' =>
        LET r == request'[x[1]].role
        IN  /\ slot[x].state \notin Queued /\ slot'[x].state \in Queued =>
                  /\ ~Exceeds(Cardinality(SlotsIn(Queued)'), config.maxWaiting)
                  /\ ~Exceeds(Cardinality(ByCaller(SlotsIn(Queued), c)'), WaitingLimit(r))
            /\ slot[x].state \notin Charged /\ slot'[x].state \in Charged =>
                  ~Exceeds(Cardinality(ByCaller(SlotsIn(Charged), c)'), ConcurrentLimit(r))

ConclusionsKept ==
    \A id \in Ids : Concluded(id) /\ id \in retained' =>
        Concluded(id)' /\ \A x \in SlotsOf(id) : slot'[x].state \notin Open

\* Engine-owned work stays charged to its owner until that owner reports its
\* end or rejects it, its pod leaves the membership, or a newer engine process
\* of the pod has registered; cancelling or losing the frontend is not enough.
EngineWorkStaysCharged == [][EngineWorkKept]_vars

\* A step that queues or reserves more slots stays within the limits in force,
\* measured on the slots themselves: the model's waiting limit and the
\* caller's waiting and concurrency limits hold across all frontends.
LimitsRespected == [][WithinLimits]_vars

\* Retained terminal evidence is never taken back: after "finished" reported
\* completion, no delayed enqueue, accept or retry revives the request before
\* the consumer acknowledges it.
ConclusionIsFinal == [][ConclusionsKept]_vars
=============================================================================
