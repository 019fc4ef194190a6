--------------------------- MODULE AdmissionQueue ---------------------------
(***************************************************************************)
(* The waiting queue that one frontend process keeps for one model          *)
(* (admission/src/registry.rs and permit.rs), over the shared ledger of     *)
(* RequestLedger.  The ledger decides how much may run; the queue decides   *)
(* whose turn it is.                                                        *)
(*                                                                          *)
(*   task[id]     the request task and the permit it holds                  *)
(*   left[id]     the caller of enter() has stopped waiting                 *)
(*   seen[id]     the version of the settings that enter() has read         *)
(*   queue        ModelState.waiting                                        *)
(*   last[prio]   ModelState.last_caller, -1 before the first one           *)
(*   local        ModelState.version                                        *)
(*   closed       RegistryState.closed                                      *)
(*   grant        the holder of the dispatch lock in grant_ready            *)
(*   late         ledger commands whose sender did not get the reply        *)
(*                                                                          *)
(* Callers are numbers, in the order of their names, and 0 is the anonymous *)
(* one.  Every request has one candidate and is tracked by the ledger; the  *)
(* process has registered and stays a member, and so does its backend.      *)
(***************************************************************************)
EXTENDS RequestLedger, Sequences, SequencesExt

CONSTANTS
    Caller,      \* the caller of each request
    Role,        \* its trusted role
    Priority,    \* the priority of each role's rule
    Settings,    \* the settings of each published version; NoConfig: model removed
    ThisFrontend, ThisPod, \* this process and a backend of the model
    Execution    \* the execution identity that serves each request

VARIABLES task, left, seen, queue, last, local, closed, grant, late

ledger == vars
queueVars == <<task, left, seen, queue, last, local, closed, grant, late>>
allVars == <<ledger, queueVars>>

Candidate(id) == <<id, 1>>

\* entering, enqueueing: enter_waiting before and after its publication.
\* fencing: the enqueue is unknown and must be cancelled.  held: the permit is
\* held, the input in preparation.  ready, checking: in dispatch(), before and
\* after its turn in grant_ready.  granted: submitting.
\* accepted: the backend has answered.  dropped: the permit is dropped.
TaskState == {"idle", "entering", "enqueueing", "fencing", "held", "ready",
              "checking", "granted", "accepted", "dropped", "done"}
Holding == {"held", "ready", "checking", "granted"}

NoGrant == [by |-> None, stage |-> "free", version |-> 0, todo |-> <<>>]

Become(id, state) == task' = [task EXCEPT ![id] = state]

----------------------------------------------------------------------------
(* The order of dispatch *)

Entry(id) == [id |-> id, ready |-> FALSE, reserved |-> FALSE, error |-> FALSE,
              delayed |-> FALSE]   \* delayed: retry_at has not come
Without(id) == SelectSeq(queue, LAMBDA entry : entry.id # id)
Position(id) == {i \in DOMAIN queue : queue[i].id = id}
Rewritten(entry) ==
    [i \in DOMAIN queue |-> IF queue[i].id = entry.id THEN entry ELSE queue[i]]

RulesOf(cfg) == \E role \in Roles : cfg.rules[role] # NoLimit
Ordered(cfg) == cfg.maxWaiting # NoLimit \/ RulesOf(cfg)
HasRule(cfg, id) == cfg.rules[Role[id]] # NoLimit
LocalConfig == IF closed THEN NoConfig ELSE Settings[local]

\* Mutant of Leads: an entry in preparation does not hold back the later ones.
LeadsReady(cfg, i) ==
    Ordered(cfg) => \A j \in 1 .. i - 1 :
        Caller[queue[j].id] # Caller[queue[i].id] \/ ~queue[j].ready

\* A caller's first entry stands for the caller, ready or not.
Leads(cfg, i) ==
    Ordered(cfg) => \A j \in 1 .. i - 1 : Caller[queue[j].id] # Caller[queue[i].id]

Eligible(cfg, i) ==
    /\ Leads(cfg, i)
    /\ queue[i].ready /\ ~queue[i].delayed /\ ~queue[i].reserved /\ ~queue[i].error
    /\ RulesOf(cfg) => HasRule(cfg, queue[i].id)

Band(cfg, id) == IF HasRule(cfg, id) THEN Priority[Role[id]] ELSE 0

Bands == {Priority[r] : r \in Roles} \cup {0}

\* A stable sort by caller.
InBand(cfg, band) ==
    SetToSortSeq({i \in DOMAIN queue : Eligible(cfg, i) /\ Band(cfg, queue[i].id) = band},
                 LAMBDA i, j : \/ Caller[queue[i].id] < Caller[queue[j].id]
                               \/ Caller[queue[i].id] = Caller[queue[j].id] /\ i < j)

\* partition_point: the entries of callers up to the one served last.
Offset(entries, band) ==
    Cardinality({n \in DOMAIN entries : Caller[queue[entries[n]].id] <= last[band]})

RotatedLeft(s, n) == SubSeq(s, n + 1, Len(s)) \o SubSeq(s, 1, n)

\* The eligible entries, higher bands first, each band rotated past its last caller.
Candidates(cfg) ==
    LET bands == SetToSortSeq(Bands, LAMBDA a, b : a > b)
        turn(band) == RotatedLeft(InBand(cfg, band), Offset(InBand(cfg, band), band))
        order == FlattenSeq([n \in DOMAIN bands |-> turn(bands[n])])
    IN  [n \in DOMAIN order |-> queue[order[n]].id]

----------------------------------------------------------------------------
(* Commands, run by the ledger *)

Command(kind, id) == [kind |-> kind, id |-> id]

\* A removed model is published as closed.
Published(v) ==
    IF Settings[v] = NoConfig
    THEN [closed |-> TRUE, maxWaiting |-> NoLimit, rules |-> [r \in Roles |-> NoLimit]]
    ELSE Settings[v]

RunPublish(v) ==
    IF v > version THEN Publish(v, Published(v), frontends, backends) ELSE UNCHANGED ledger

EntryReply(id) == EnqueueReply(id, ThisFrontend, owner[ThisFrontend], Caller[id], Role[id], 1)

RunEnqueue(id) ==
    IF EntryReply(id) = "ok" /\ ~request[id].exists
    THEN Enqueue(id, ThisFrontend, owner[ThisFrontend], Caller[id], Role[id], 1)
    ELSE UNCHANGED ledger

RunCancelEntry(id) ==
    IF Concluded(id) THEN UNCHANGED ledger
    ELSE CancelEntry(id, ThisFrontend, owner[ThisFrontend], Caller[id])

RunDispatch(id) == IF DispatchReply(id) = "ok" THEN Dispatch(id) ELSE UNCHANGED ledger
RunRetry(id) == IF RetryReply(id) = "ok" THEN Retry(id) ELSE UNCHANGED ledger
RunDrop(id) == IF Addressed(Candidate(id)) THEN Drop(Candidate(id)) ELSE UNCHANGED ledger

\* A submission reaches the model server.
RunAccept(id) ==
    IF /\ AcceptReply(Candidate(id), Execution[id], ThisPod, 1) = "ok"
       /\ slot[Candidate(id)].state \in {"reserved", "handoff"}
    THEN Accept(Candidate(id), Execution[id], ThisPod, 1)
    ELSE UNCHANGED ledger

RunLate(c) ==
    /\ c \in late
    /\ \/ c.kind = "enqueue" /\ RunEnqueue(c.id)
       \/ c.kind = "cancel_entry" /\ RunCancelEntry(c.id)
       \/ c.kind = "dispatch" /\ RunDispatch(c.id)
       \/ c.kind = "retry" /\ RunRetry(c.id)
       \/ c.kind = "drop" /\ RunDrop(c.id)
       \/ c.kind = "accept" /\ RunAccept(c.id)
    /\ late' = late \ {c}
    /\ UNCHANGED <<task, left, seen, queue, last, local, closed, grant>>

LoseLate(c) ==
    /\ c \in late
    /\ late' = late \ {c}
    /\ UNCHANGED <<ledger, task, left, seen, queue, last, local, closed, grant>>

----------------------------------------------------------------------------
(* Settings *)

\* replace: the process takes over newer settings.
Replace(v) ==
    /\ v > local
    /\ local' = v
    /\ UNCHANGED <<ledger, task, left, seen, queue, last, closed, grant, late>>

\* The retry loop of replace, here or in another frontend that is ahead of this
\* one, has the settings stored.
StoreSettings(v) ==
    /\ v > version
    /\ RunPublish(v)
    /\ UNCHANGED queueVars

\* close: at shutdown the process stops admitting.
CloseRegistry ==
    /\ ~closed
    /\ closed' = TRUE
    /\ UNCHANGED <<ledger, task, left, seen, queue, last, local, grant, late>>

----------------------------------------------------------------------------
(* Entering the queue *)

Enter(id) ==
    /\ task[id] = "idle"
    /\ LocalConfig # NoConfig
    /\ RulesOf(LocalConfig) => Caller[id] # Anonymous /\ HasRule(LocalConfig, id)
    /\ seen' = [seen EXCEPT ![id] = local]
    /\ Become(id, "entering")
    /\ UNCHANGED <<ledger, left, queue, last, local, closed, grant, late>>

\* The detached task goes on when the caller's wait expires.
Leave(id) ==
    /\ task[id] \in {"entering", "enqueueing"}
    /\ ~left[id]
    /\ left' = [left EXCEPT ![id] = TRUE]
    /\ UNCHANGED <<ledger, task, seen, queue, last, local, closed, grant, late>>

PublishEntry(id) ==
    /\ task[id] = "entering"
    /\ \/ RunPublish(seen[id]) /\ Become(id, "enqueueing")
       \/ UNCHANGED ledger /\ Become(id, "done")
    /\ UNCHANGED <<left, seen, queue, last, local, closed, grant, late>>

\* A permit nobody waits for, or of a model closed meanwhile, is dropped at once.
EnqueueReplied(id) ==
    /\ task[id] = "enqueueing"
    /\ RunEnqueue(id)
    /\ IF EntryReply(id) # "ok"
       THEN Become(id, "done") /\ UNCHANGED queue
       ELSE IF left[id] \/ LocalConfig = NoConfig
            THEN Become(id, "dropped") /\ UNCHANGED queue
            ELSE Become(id, "held") /\ queue' = Append(queue, Entry(id))
    /\ UNCHANGED <<left, seen, last, local, closed, grant, late>>

\* Mutant of EnqueueLost: a failed enqueue is taken for one that did not happen.
EnqueueForgotten(id) ==
    /\ task[id] = "enqueueing"
    /\ late' = late \cup {Command("enqueue", id)}
    /\ Become(id, "done")
    /\ UNCHANGED <<ledger, left, seen, queue, last, local, closed, grant>>

EnqueueLost(id) ==
    /\ task[id] = "enqueueing"
    /\ late' = late \cup {Command("enqueue", id)}
    /\ Become(id, "fencing")
    /\ UNCHANGED <<ledger, left, seen, queue, last, local, closed, grant>>

\* cancel_entry, again and again until the ledger has answered.
Fence(id) ==
    /\ task[id] = "fencing"
    /\ RunCancelEntry(id)
    /\ Become(id, "done")
    /\ UNCHANGED <<left, seen, queue, last, local, closed, grant, late>>

FenceLost(id) ==
    /\ task[id] = "fencing"
    /\ late' = late \cup {Command("cancel_entry", id)}
    /\ UNCHANGED <<ledger, task, left, seen, queue, last, local, closed, grant>>

----------------------------------------------------------------------------
(* Waiting for a turn *)

\* The permit is dropped: the entry leaves the queue, the cancellation follows.
Abandon(id) == Become(id, "dropped") /\ queue' = Without(id)

\* The input is prepared and dispatch() begins.
Ready(id) ==
    /\ task[id] = "held"
    /\ IF LocalConfig = NoConfig
       THEN Abandon(id)
       ELSE /\ Become(id, "ready")
            /\ \A i \in Position(id) : queue' = Rewritten([queue[i] EXCEPT !.ready = TRUE])
    /\ UNCHANGED <<ledger, left, seen, last, local, closed, grant, late>>

\* The delay after a refused submission is over.
DelayEnds(id) ==
    /\ \E i \in Position(id) :
        queue[i].delayed /\ queue' = Rewritten([queue[i] EXCEPT !.delayed = FALSE])
    /\ UNCHANGED <<ledger, task, left, seen, last, local, closed, grant, late>>

\* A deadline, a disconnect or a failed command ends the request.  Inside
\* grant_ready it frees the dispatch lock with a command unanswered; during the
\* submission it leaves one on its way.
Expire(id) ==
    /\ task[id] \in Holding
    /\ Abandon(id)
    /\ grant' = IF grant.by = id THEN NoGrant ELSE grant
    /\ late' = late \cup
               (IF grant.by = id /\ grant.todo # <<>> THEN {Command("dispatch", grant.todo[1])} ELSE {})
               \cup (IF task[id] = "granted" THEN {Command("accept", id)} ELSE {})
    /\ UNCHANGED <<ledger, left, seen, last, local, closed>>

\* grant_ready, one task at a time: take the lock and read the settings ...
TakeLock(id) ==
    /\ task[id] = "ready"
    /\ grant.by = None
    /\ LocalConfig # NoConfig
    /\ grant' = [by |-> id, stage |-> "publishing", version |-> local, todo |-> <<>>]
    /\ UNCHANGED <<ledger, task, left, seen, queue, last, local, closed, late>>

\* ... publish them, choose the candidates under the state lock ...
Choose(id) ==
    /\ grant.by = id
    /\ grant.stage = "publishing"
    /\ RunPublish(grant.version)
    /\ IF LocalConfig = NoConfig
       THEN grant' = NoGrant /\ Abandon(id)
       ELSE /\ grant' = [grant EXCEPT !.stage = "dispatching", !.todo = Candidates(LocalConfig)]
            /\ UNCHANGED <<task, queue>>
    /\ UNCHANGED <<left, seen, last, local, closed, late>>

\* ... and reserve the first one that the ledger grants.
TryCandidate(id) ==
    /\ grant.by = id
    /\ grant.todo # <<>>
    /\ LET c == grant.todo[1]
           reply == DispatchReply(c)
       IN  /\ RunDispatch(c)
           /\ IF reply = "ok"
              THEN grant' = NoGrant /\ Become(id, "checking")
              ELSE grant' = [grant EXCEPT !.todo = Tail(@)] /\ UNCHANGED task
           /\ queue' = [i \in DOMAIN queue |->
                            IF queue[i].id # c \/ reply = "busy" THEN queue[i]
                            ELSE IF reply = "ok" THEN [queue[i] EXCEPT !.reserved = TRUE]
                            ELSE [queue[i] EXCEPT !.error = TRUE]]
    /\ UNCHANGED <<left, seen, last, local, closed, late>>

NoCandidate(id) ==
    /\ grant.by = id
    /\ grant.stage = "dispatching"
    /\ grant.todo = <<>>
    /\ grant' = NoGrant
    /\ Become(id, "checking")
    /\ UNCHANGED <<ledger, left, seen, queue, last, local, closed, late>>

\* granted: the task sees the grant, or an error, that some task has recorded.
Observe(id) ==
    /\ task[id] = "checking"
    /\ \E i \in Position(id) :
        IF \/ LocalConfig = NoConfig
           \/ queue[i].error
           \/ RulesOf(LocalConfig) /\ ~HasRule(LocalConfig, id)
        THEN Abandon(id)
        ELSE /\ Become(id, IF queue[i].reserved THEN "granted" ELSE "ready")
             /\ UNCHANGED queue
    /\ UNCHANGED <<ledger, left, seen, last, local, closed, grant, late>>

----------------------------------------------------------------------------
(* Submission *)

BackendAccepts(id) ==
    /\ task[id] = "granted"
    /\ Accept(Candidate(id), Execution[id], ThisPod, 1)
    /\ UNCHANGED queueVars

\* accepted: the backend's headers arrive; the caller has had its turn.
Accepted(id) ==
    /\ task[id] = "granted"
    /\ slot[Candidate(id)].state \notin Unsubmitted
    /\ Become(id, "accepted")
    /\ queue' = Without(id)
    /\ last' = [last EXCEPT ![IF LocalConfig = NoConfig THEN 0 ELSE Band(LocalConfig, id)]
                               = Caller[id]]
    /\ UNCHANGED <<ledger, left, seen, local, closed, grant, late>>

\* retry after an explicit refusal: the entry keeps its place in the queue.
Deferred(id) ==
    \A i \in Position(id) :
        queue' = Rewritten([queue[i] EXCEPT !.ready = FALSE, !.reserved = FALSE, !.delayed = TRUE])

RetryReplied(id) ==
    /\ task[id] = "granted"
    /\ slot[Candidate(id)].state \in Unsubmitted
    /\ RunRetry(id)
    /\ IF RetryReply(id) = "ok" THEN Become(id, "held") /\ Deferred(id) ELSE Abandon(id)
    /\ UNCHANGED <<left, seen, last, local, closed, grant, late>>

RetryLost(id) ==
    /\ task[id] = "granted"
    /\ slot[Candidate(id)].state \in Unsubmitted
    /\ late' = late \cup {Command("retry", id)}
    /\ Abandon(id)
    /\ UNCHANGED <<ledger, left, seen, last, local, closed, grant>>

\* The stream ends and with it the permit.
OutputEnds(id) ==
    /\ task[id] = "accepted"
    /\ Abandon(id)
    /\ UNCHANGED <<ledger, left, seen, last, local, closed, grant, late>>

\* The execution reports the end of the work to the ledger.
BackendCompletes(id) ==
    /\ Addressed(Candidate(id)) /\ OwnedBy(Candidate(id), Execution[id])
    /\ Complete(Candidate(id), Execution[id], TRUE)
    /\ UNCHANGED queueVars

\* Drop for AdmissionPermit: cancel until the ledger has answered.
Cleanup(id) ==
    /\ task[id] = "dropped"
    /\ RunDrop(id)
    /\ Become(id, "done")
    /\ UNCHANGED <<left, seen, queue, last, local, closed, grant, late>>

\* Mutant of CleanupLost: the permit sends its cancellation only once.
CleanupOnce(id) ==
    /\ task[id] = "dropped"
    /\ late' = late \cup {Command("drop", id)}
    /\ Become(id, "done")
    /\ UNCHANGED <<ledger, left, seen, queue, last, local, closed, grant>>

CleanupLost(id) ==
    /\ task[id] = "dropped"
    /\ late' = late \cup {Command("drop", id)}
    /\ UNCHANGED <<ledger, task, left, seen, queue, last, local, closed, grant>>

----------------------------------------------------------------------------
\* The model has been published, this process has registered, and it may have
\* served requests before.
InitQueue ==
    /\ request = [id \in Ids |-> NoRequest]
    /\ slot = [x \in Slots |-> NoSlot]
    /\ retained = {}
    /\ waiting = 0 /\ active = 0
    /\ waitingOf = [c \in AnyCaller |-> 0]
    /\ activeOf = [c \in AnyCaller |-> 0]
    /\ version = 0 /\ membershipVersion = 0
    /\ config = Settings[0]
    /\ frontends = {ThisFrontend} /\ backends = {ThisPod}
    /\ ownerEpoch = 1
    /\ owner = [f \in Frontends |-> IF f = ThisFrontend THEN 1 ELSE 0]
    /\ backend = [p \in Pods |-> 0]
    /\ task = [id \in Ids |-> "idle"]
    /\ left = [id \in Ids |-> FALSE]
    /\ local = 0 /\ closed = FALSE
    /\ seen = [id \in Ids |-> 0]
    /\ queue = <<>>
    /\ last \in [Bands -> AnyCaller \cup {-1}]
    /\ grant = NoGrant
    /\ late = {}

\* A request that nothing interrupts and whose commands are all answered.
Undisturbed(id) ==
    \/ Enter(id) \/ PublishEntry(id) \/ EnqueueReplied(id) \/ Ready(id)
    \/ TakeLock(id) \/ Choose(id) \/ TryCandidate(id) \/ NoCandidate(id) \/ Observe(id)
    \/ Accepted(id) \/ OutputEnds(id) \/ Cleanup(id)
    \/ BackendAccepts(id) \/ BackendCompletes(id)

Disturbed(id) ==
    \/ Leave(id) \/ EnqueueLost(id) \/ Fence(id) \/ FenceLost(id) \/ Expire(id)
    \/ CleanupLost(id)
    \/ RetryReplied(id) \/ RetryLost(id) \/ DelayEnds(id)

NextQueue ==
    \/ \E id \in Ids : Undisturbed(id) \/ Disturbed(id)
    \/ \E c \in late : RunLate(c) \/ LoseLate(c)
    \/ \E v \in 1 .. MaxVersion : Replace(v) \/ StoreSettings(v)
    \/ CloseRegistry

SpecQueue == InitQueue /\ [][NextQueue]_allVars

\* Tasks run, every wait has a deadline, and a command that is repeated without
\* end is answered some time.
LiveQueue ==
    /\ SpecQueue
    /\ \A id \in Ids :
        /\ WF_allVars(EnqueueReplied(id) \/ EnqueueLost(id))
        /\ WF_allVars(Fence(id)) /\ WF_allVars(Expire(id)) /\ WF_allVars(Cleanup(id))

----------------------------------------------------------------------------
(* Properties *)

\* Capacity that the ledger has given to this process and no engine holds has a
\* task that will give it back: the request itself, its fence, or the cleanup
\* of its permit, also when an enqueue, a grant or a retry has lost its reply.
CapacityIsOwned ==
    \A id \in Ids : slot[Candidate(id)].state \in Unsubmitted =>
        task[id] \notin {"idle", "entering", "done"}

\* A request is submitted only under a reservation that the ledger holds for it
\* at that moment: the grant that another task has recorded in the queue is not a
\* stale one, whatever was retried, deferred or left unanswered before.
GrantIsReserved ==
    \A id \in Ids : task[id] # "granted" /\ task'[id] = "granted" =>
        slot[Candidate(id)].state = "reserved"

\* A caller's requests keep their order: while an entry is in the queue, no later
\* entry of its caller has a grant.  For settings that limit the model.
CallerOrder ==
    (\A v \in 0 .. MaxVersion : Settings[v] # NoConfig => Ordered(Settings[v])) =>
        \A i, j \in DOMAIN queue :
            i < j /\ Caller[queue[i].id] = Caller[queue[j].id] => ~queue[j].reserved

\* The turn of a caller after the one its band has served last, cyclically.
Turn(cfg, id) ==
    LET callers == 1 + CHOOSE c \in AnyCaller : \A d \in AnyCaller : d <= c
    IN  (Caller[id] - last[Band(cfg, id)] - 1) % callers

\* grant_ready lists every eligible entry once, a higher band before a lower one,
\* and within a band the callers cyclically from the one after the last served,
\* also when the rotation starts at, before or after all waiting callers.
CandidatesInTurn ==
    grant.stage # "dispatching" /\ grant'.stage = "dispatching" =>
        LET c == grant'.todo
            band(n) == Band(LocalConfig, c[n])
            turn(n) == Turn(LocalConfig, c[n])
        IN  /\ {c[n] : n \in DOMAIN c} =
                   {queue[i].id : i \in {j \in DOMAIN queue : Eligible(LocalConfig, j)}}
            /\ \A m, n \in DOMAIN c : m < n =>
                /\ c[m] # c[n]
                /\ band(m) > band(n) \/ (band(m) = band(n) /\ turn(m) <= turn(n))

\* No request waits in the shared limits for ever: its slot leaves the frontend's
\* hands, into an engine or out of the ledger, whatever reply was lost.
WaitingEnds ==
    \A id \in Ids :
        slot[Candidate(id)].state \in Unsubmitted ~> slot[Candidate(id)].state \notin Unsubmitted
=============================================================================
