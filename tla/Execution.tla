----------------------------- MODULE Execution -----------------------------
(***************************************************************************)
(* Requests executed through the ledger: the frontend that owns a           *)
(* reservation, the model servers that claim it, the engines that run it.   *)
(* The ledger is RequestLedger itself; its commands are sent by the tasks   *)
(* below, over a connection that may lose a reply and leave the command to  *)
(* be executed later or never.                                              *)
(*                                                                          *)
(*   call[x]       what the frontend knows of the candidate x (its permit)  *)
(*   exec[o]       the task started by start_execution with identity o      *)
(*   process[p]    the model-server process in pod p and its engine         *)
(*   late          ledger commands whose sender did not get the reply       *)
(***************************************************************************)
EXTENDS RequestLedger

CONSTANT ListedFirst   \* whether a pod is listed as a member before it first serves

VARIABLES call, exec, process, late

ledger == vars
tasks == <<call, exec, process, late>>
allVars == <<ledger, tasks>>

\* waiting: queued at the frontend.  granted: may be submitted.  called: a stage
\* is submitted.  handed: the stage ended and the next may be submitted.  busy:
\* the first stage was explicitly refused, or no target could be selected.  over: the permit is dropped, its
\* cancellation still to be sent.  released: nothing left to do.
CallState == {"waiting", "granted", "called", "handed", "busy", "over", "released"}

\* claiming: the accept loop.  preparing: claimed, the engine not yet called.
\* submitting: begin_submission has succeeded.  running: the engine has answered.
\* uncertain: the engine's answer is unknown, its process must stop.  settling:
\* finish_shared.  refused: the ledger does not know the pod.  lost: the process
\* ended before the task did.
ExecState == {"unused", "calling", "claiming", "preparing", "submitting", "running",
              "uncertain", "settling", "refused", "done", "lost"}
InTask == {"claiming", "preparing", "submitting", "running", "uncertain", "settling"}

ReservationEnd == {"NotSubmitted", "StageTerminated", "RequestTerminated"}

\* closing: admission is closed, the engine is still alive.  stopped: the
\* supervisor has confirmed the end of the engine.  gone: the pod has ended.
\* removed: the control plane no longer lists it.
ProcessState == {"down", "registering", "serving", "closing", "stopped", "gone", "removed"}
EngineAlive(p) == process[p].state \in {"serving", "closing"}

ExecRecord == [state : ExecState, slot : Slots \cup {None}, pod : Pods \cup {None},
               epoch : Nat, final : BOOLEAN, initial : BOOLEAN,
               cancelled : BOOLEAN, native : BOOLEAN, end : ReservationEnd]
ProcessRecord == [state : ProcessState, epoch : Nat]

NoExec == [state |-> "unused", slot |-> None, pod |-> None, epoch |-> 0, final |-> TRUE,
           initial |-> TRUE, cancelled |-> FALSE, native |-> FALSE, end |-> "NotSubmitted"]

\* A ledger command of execution o: its accept, or the report of its end.
Accepting(o) == [kind |-> "accept", owner |-> o]
Ending(o) == [kind |-> exec[o].end, owner |-> o]
CommandRecord == [kind : {"accept"} \cup ReservationEnd, owner : Owners]

----------------------------------------------------------------------------
(* Commands of an execution, run by the ledger *)

RunAccept(o) ==
    LET t == exec[o]
    IN  IF /\ AcceptReply(t.slot, o, t.pod, t.epoch) = "ok"
           /\ slot[t.slot].state \in {"reserved", "handoff"}
        THEN Accept(t.slot, o, t.pod, t.epoch)
        ELSE UNCHANGED ledger

\* Mutant of RunEnd: the end of every stage is reported as that of the last one.
RunEndFinal(o, end) ==
    LET t == exec[o]
    IN  IF ~Addressed(t.slot) THEN UNCHANGED ledger
        ELSE IF end = "NotSubmitted" THEN RejectBeforeSubmission(t.slot, o)
        ELSE IF OwnedBy(t.slot, o) THEN Complete(t.slot, o, TRUE) ELSE UNCHANGED ledger

RunEnd(o, end) ==
    LET t == exec[o]
    IN  IF ~Addressed(t.slot) THEN UNCHANGED ledger
        ELSE IF end = "NotSubmitted" THEN RejectBeforeSubmission(t.slot, o)
        ELSE IF OwnedBy(t.slot, o)
             THEN Complete(t.slot, o, t.final \/ end = "RequestTerminated")
             ELSE UNCHANGED ledger

\* A command whose sender saw the connection fail is executed afterwards.
RunLate(c) ==
    /\ c \in late
    /\ IF c.kind = "accept" THEN RunAccept(c.owner) ELSE RunEnd(c.owner, c.kind)
    /\ late' = late \ {c}
    /\ UNCHANGED <<call, exec, process>>

LoseLate(c) ==
    /\ c \in late
    /\ late' = late \ {c}
    /\ UNCHANGED <<ledger, call, exec, process>>

----------------------------------------------------------------------------
(* The frontend: AdmissionPermit and the workflow that holds it *)

EnqueueCall(id, f, c, r, units) ==
    /\ \A x \in SlotsOf(id) : call[x] = "released" /\ \A o \in Owners : exec[o].slot # x
    /\ owner[f] = ownerEpoch /\ ownerEpoch > 0
    /\ Enqueue(id, f, ownerEpoch, c, r, units)
    /\ call' = [x \in Slots |-> IF x[1] = id /\ x[2] <= units THEN "waiting" ELSE call[x]]
    /\ UNCHANGED <<exec, process, late>>

DispatchCall(id) ==
    /\ \A x \in SlotsOf(id) : call[x] \in {"waiting", "released"}
    /\ \E x \in SlotsOf(id) : call[x] = "waiting"
    /\ Dispatch(id)
    /\ call' = [x \in Slots |-> IF x[1] = id /\ call[x] = "waiting" THEN "granted" ELSE call[x]]
    /\ UNCHANGED <<exec, process, late>>

\* admitted_generate: submit the first stage, or the next one after a handoff.
Call(o, x, p, final) ==
    /\ exec[o].state = "unused"
    /\ call[x] \in {"granted", "handed"}
    /\ call' = [call EXCEPT ![x] = "called"]
    /\ exec' = [exec EXCEPT ![o] = [NoExec EXCEPT !.state = "calling", !.slot = x, !.pod = p,
                                                  !.final = final,
                                                  !.initial = (call[x] = "granted")]]
    /\ UNCHANGED <<ledger, process, late>>

\* The router has no eligible target left in this round.
RouteBusy(x) ==
    /\ call[x] = "granted"
    /\ call' = [call EXCEPT ![x] = "busy"]
    /\ UNCHANGED <<ledger, exec, process, late>>

\* Only the explicit refusal of a first stage may be submitted again.
Answered(o, answer) ==
    LET x == exec[o].slot
    IN  IF call[x] # "called" THEN call
        ELSE [call EXCEPT ![x] = IF answer = "busy" /\ ~exec[o].initial THEN "over" ELSE answer]

\* retry: a refused batch returns its reservation unless a sibling was accepted.
RetryCall(id) ==
    /\ \E x \in SlotsOf(id) : call[x] = "busy"
    /\ IF RetryReply(id) = "ok"
       THEN /\ Retry(id)
            /\ call' = [x \in Slots |-> IF x[1] = id /\ call[x] \in {"busy", "granted"}
                                        THEN "waiting" ELSE call[x]]
       ELSE /\ UNCHANGED ledger
            /\ call' = [x \in Slots |-> IF x[1] = id /\ call[x] = "busy" THEN "over" ELSE call[x]]
    /\ UNCHANGED <<exec, process, late>>

\* The consumer disconnects, a deadline elapses, an output fails or is complete.
EndCall(x) ==
    /\ call[x] \notin {"over", "released"}
    /\ call' = [call EXCEPT ![x] = "over"]
    /\ UNCHANGED <<ledger, exec, process, late>>

\* The cancellation sent by the dropped permit, repeated until it is answered.
DropCall(x) ==
    /\ call[x] = "over"
    /\ IF Addressed(x) THEN Drop(x) ELSE UNCHANGED ledger
    /\ call' = [call EXCEPT ![x] = "released"]
    /\ UNCHANGED <<exec, process, late>>

\* The frontend process ends and its successor registers a new epoch.
RestartFrontend(f) ==
    /\ AllocateOwner(f)
    /\ call' = [x \in Slots |-> "released"]
    /\ UNCHANGED <<exec, process, late>>

RegisterFrontend(f) ==
    /\ ownerEpoch > 0
    /\ RegisterOwner(f, ownerEpoch)
    /\ UNCHANGED tasks

----------------------------------------------------------------------------
(* The execution task *)

Become(o, state) == exec' = [exec EXCEPT ![o].state = state]
Settling(o, end) ==
    exec' = [exec EXCEPT ![o].state = "settling", ![o].end = end, ![o].native = FALSE]

\* The call reaches the process and gets an instance slot.
Arrive(o) ==
    LET p == exec[o].pod
    IN  /\ exec[o].state = "calling"
        /\ process[p].state = "serving"
        /\ exec' = [exec EXCEPT ![o].state = "claiming", ![o].epoch = process[p].epoch]
        /\ UNCHANGED <<ledger, call, process, late>>

\* The instance is full ("busy"), closed or unreachable.
Refuse(o) ==
    /\ exec[o].state = "calling"
    /\ \E answer \in {"busy", "over"} :
        /\ answer = "busy" => process[exec[o].pod].state = "serving"
        /\ call' = Answered(o, answer)
    /\ Become(o, "done")
    /\ UNCHANGED <<ledger, process, late>>

Claim(o) ==
    LET t == exec[o]
        reply == AcceptReply(t.slot, o, t.pod, t.epoch)
    IN  /\ t.state = "claiming"
        /\ RunAccept(o)
        /\ \/ reply = "ok" /\ Become(o, "preparing") /\ UNCHANGED call
           \/ reply = "backend_unavailable" /\ Become(o, "refused") /\ call' = Answered(o, "busy")
           \/ reply = "closed" /\ Settling(o, "NotSubmitted") /\ UNCHANGED call
        /\ UNCHANGED <<process, late>>

\* Mutant of ClaimLost: an abandoned claim is not fenced.
ClaimLostUnfenced(o) ==
    /\ exec[o].state = "claiming"
    /\ late' = late \cup {Accepting(o)}
    /\ IF exec[o].cancelled THEN Become(o, "done") ELSE UNCHANGED exec
    /\ UNCHANGED <<ledger, call, process>>

\* The reply is lost: try again, unless nobody waits for the result any more.
ClaimLost(o) ==
    /\ exec[o].state = "claiming"
    /\ late' = late \cup {Accepting(o)}
    /\ IF exec[o].cancelled THEN Settling(o, "NotSubmitted") ELSE UNCHANGED exec
    /\ UNCHANGED <<ledger, call, process>>

\* The caller disconnects or aborts, or the ledger reports the slot cancelled.
Cancelled(o) ==
    /\ exec[o].state \in InTask
    /\ ~exec[o].cancelled
    /\ \/ call[exec[o].slot] # "called"
       \/ exec[o].state # "claiming" /\ StatusReply(exec[o].slot) \in {"cancelling", "closed", "completed"}
    /\ exec' = [exec EXCEPT ![o].cancelled = TRUE]
    /\ UNCHANGED <<ledger, call, process, late>>

\* begin_submission: preparation and cancellation exclude each other.
Submit(o) ==
    /\ exec[o].state = "preparing"
    /\ ~exec[o].cancelled
    /\ EngineAlive(exec[o].pod)
    /\ exec' = [exec EXCEPT ![o].state = "submitting", ![o].native = TRUE]
    /\ UNCHANGED <<ledger, call, process, late>>

\* Preparation fails, is cancelled, or the engine stops before submission.
PreparationEnds(o) ==
    /\ exec[o].state = "preparing"
    /\ Settling(o, "NotSubmitted")
    /\ UNCHANGED <<ledger, call, process, late>>

EngineStarts(o) ==
    /\ exec[o].state = "submitting"
    /\ EngineAlive(exec[o].pod)
    /\ Become(o, "running")
    /\ UNCHANGED <<ledger, call, process, late>>

EngineRejects(o) ==
    /\ exec[o].state = "submitting"
    /\ EngineAlive(exec[o].pod)
    /\ Settling(o, "NotSubmitted")
    /\ UNCHANGED <<ledger, call, process, late>>

\* The engine reports the end of the request, aborted or not.
EngineCompletes(o) ==
    /\ exec[o].state = "running"
    /\ EngineAlive(exec[o].pod)
    /\ Settling(o, "StageTerminated")
    /\ UNCHANGED <<ledger, call, process, late>>

Close(p) ==
    IF process[p].state = "serving" THEN [process EXCEPT ![p].state = "closing"] ELSE process

\* Mutant of CompletionUnknown: an unknown answer is taken for the end.
CompletionAssumed(o) ==
    /\ exec[o].state \in {"submitting", "running"}
    /\ EngineAlive(exec[o].pod)
    /\ exec' = [exec EXCEPT ![o].state = "settling", ![o].end = "RequestTerminated"]
    /\ process' = Close(exec[o].pod)
    /\ UNCHANGED <<ledger, call, late>>

\* The engine client fails: whether the request still runs is unknown.
CompletionUnknown(o) ==
    /\ exec[o].state \in {"submitting", "running"}
    /\ EngineAlive(exec[o].pod)
    /\ Become(o, "uncertain")
    /\ process' = Close(exec[o].pod)
    /\ UNCHANGED <<ledger, call, late>>

AbortFails(o) ==
    /\ exec[o].state = "running"
    /\ exec[o].cancelled
    /\ process[exec[o].pod].state = "serving"
    /\ process' = Close(exec[o].pod)
    /\ UNCHANGED <<ledger, call, exec, late>>

\* wait_stopped: the end of the engine is the end of the request.
StopObserved(o) ==
    /\ exec[o].state \in {"submitting", "running", "uncertain"}
    /\ process[exec[o].pod].state = "stopped"
    /\ Settling(o, "RequestTerminated")
    /\ UNCHANGED <<ledger, call, process, late>>

\* finish_shared: the report is repeated until the ledger has answered.
Settle(o) ==
    /\ exec[o].state = "settling"
    /\ RunEnd(o, exec[o].end)
    /\ Become(o, "done")
    /\ call' = Answered(o, IF exec[o].end = "StageTerminated" /\ ~exec[o].final
                           THEN "handed" ELSE "over")
    /\ UNCHANGED <<process, late>>

SettleLost(o) ==
    /\ exec[o].state = "settling"
    /\ late' = late \cup {Ending(o)}
    /\ UNCHANGED <<ledger, call, exec, process>>

----------------------------------------------------------------------------
(* The model-server process and its pod *)

\* The tasks of a process end with it.
Lost(p) ==
    [o \in Owners |->
        IF exec[o].pod = p /\ exec[o].state \in InTask
        THEN [exec[o] EXCEPT !.state = "lost", !.native = FALSE] ELSE exec[o]]

\* register_backend: the store issues the epoch, then recovers the ledger.
Boot(p) ==
    /\ process[p].state = "down"
    /\ process[p].epoch < MaxEngineEpoch
    /\ process' = [process EXCEPT ![p].state = "registering", ![p].epoch = @ + 1]
    /\ UNCHANGED <<ledger, call, exec, late>>

\* Mutant of Register: the new process does not end its predecessor's work.
RegisterWithoutRecovery(p) ==
    /\ process[p].state = "registering"
    /\ process' = [process EXCEPT ![p].state = "serving"]
    /\ UNCHANGED <<ledger, call, exec, late>>

Register(p) ==
    LET e == process[p].epoch
    IN  /\ process[p].state = "registering"
        /\ IF p \in backends /\ e >= backend[p] THEN RecoverBackend(p, e) ELSE UNCHANGED ledger
        /\ process' = [process EXCEPT ![p].state = "serving"]
        /\ UNCHANGED <<call, exec, late>>

\* A shutdown signal, an unhealthy client or a failed server closes admission.
Drain(p) ==
    /\ process[p].state = "serving"
    /\ process' = Close(p)
    /\ UNCHANGED <<ledger, call, exec, late>>

\* Drained, or past the deadline: the engine is stopped and its end confirmed.
StopEngine(p) ==
    /\ process[p].state = "closing"
    /\ process' = [process EXCEPT ![p].state = "stopped"]
    /\ exec' = [o \in Owners |->
                  IF exec[o].pod = p THEN [exec[o] EXCEPT !.native = FALSE] ELSE exec[o]]
    /\ UNCHANGED <<ledger, call, late>>

\* The process exits after the drain, or crashes with its engine.
Exit(p) ==
    /\ process[p].state \in {"registering", "serving", "closing", "stopped"}
    /\ process' = [process EXCEPT ![p].state = "down"]
    /\ exec' = Lost(p)
    /\ UNCHANGED <<ledger, call, late>>

EndPod(p) ==
    /\ process[p].state = "down"
    /\ process' = [process EXCEPT ![p].state = "gone"]
    /\ UNCHANGED <<ledger, call, exec, late>>

\* backendInstances: a listed pod stays listed until it has ended; a new pod
\* may serve before it is listed.
PublishPods(cfg, B) ==
    /\ membershipVersion < MaxVersion
    /\ config = NoConfig \/ B # backends
    /\ \A p \in backends \ B : process[p].state = "gone"
    /\ \A p \in B : process[p].state # "removed"
    /\ ListedFirst => \A p \in B \ backends : process[p].epoch = 0
    /\ Publish(membershipVersion + 1, cfg, Frontends, B)
    /\ process' = [p \in Pods |-> IF p \in backends \ B
                                  THEN [process[p] EXCEPT !.state = "removed"] ELSE process[p]]
    /\ UNCHANGED <<call, exec, late>>

----------------------------------------------------------------------------
InitExecution ==
    /\ Init
    /\ call = [x \in Slots |-> "released"]
    /\ exec = [o \in Owners |-> NoExec]
    /\ process = [p \in Pods |-> [state |-> "down", epoch |-> 0]]
    /\ late = {}

Frontend ==
    \/ \E id \in Ids :
        \/ \E f \in Frontends, c \in AnyCaller, r \in Roles, units \in SlotIndex :
              EnqueueCall(id, f, c, r, units)
        \/ DispatchCall(id) \/ RetryCall(id)
    \/ \E o \in Owners, x \in Slots, p \in Pods, final \in BOOLEAN : Call(o, x, p, final)
    \/ \E x \in Slots : RouteBusy(x) \/ EndCall(x) \/ DropCall(x)
    \/ \E f \in Frontends : RestartFrontend(f) \/ RegisterFrontend(f)

Task(o) ==
    \/ Arrive(o) \/ Refuse(o) \/ Claim(o) \/ ClaimLost(o) \/ Cancelled(o)
    \/ Submit(o) \/ PreparationEnds(o) \/ EngineStarts(o) \/ EngineRejects(o)
    \/ EngineCompletes(o) \/ CompletionUnknown(o) \/ AbortFails(o) \/ StopObserved(o)
    \/ Settle(o) \/ SettleLost(o)

Process(p) ==
    Boot(p) \/ Register(p) \/ Drain(p) \/ StopEngine(p) \/ Exit(p) \/ EndPod(p)

NextExecution ==
    \/ Frontend
    \/ \E o \in Owners : Task(o)
    \/ \E p \in Pods : Process(p)
    \/ \E c \in late : RunLate(c) \/ LoseLate(c)
    \/ \E cfg \in Configs, B \in SUBSET Pods : PublishPods(cfg, B)

SpecExecution == InitExecution /\ [][NextExecution]_allVars

\* What the code's scheduling justifies: every task keeps running and retries its
\* ledger commands on a store that answers again, an engine answers or fails, a
\* closed engine is stopped by its supervisor, a process that is down is started
\* again or its pod ends, and the control plane publishes the end of a pod.
Fairness ==
    /\ \A o \in Owners :
        /\ WF_allVars(Arrive(o) \/ Refuse(o))
        /\ WF_allVars(Claim(o))
        /\ WF_allVars(Submit(o) \/ PreparationEnds(o))
        /\ WF_allVars(EngineStarts(o) \/ EngineRejects(o) \/ CompletionUnknown(o))
        /\ WF_allVars(EngineCompletes(o))
        /\ WF_allVars(StopObserved(o))
        /\ WF_allVars(Settle(o))
    /\ \A p \in Pods :
        /\ WF_allVars(Register(p))
        /\ WF_allVars(StopEngine(p))
        /\ WF_allVars(process[p].state = "stopped" /\ Exit(p))
        /\ WF_allVars(Boot(p) \/ EndPod(p))
        /\ WF_allVars(\E cfg \in Configs, B \in SUBSET Pods :
                         p \in backends \ B /\ PublishPods(cfg, B))
    /\ \A x \in Slots : WF_allVars(DropCall(x))
    /\ \A f \in Frontends : WF_allVars(RegisterFrontend(f))

LiveExecution == SpecExecution /\ Fairness

----------------------------------------------------------------------------
(* Properties *)

\* The permits, tasks and processes are in the states the code has names for.
TypeOKExecution ==
    /\ call \in [Slots -> CallState]
    /\ exec \in [Owners -> ExecRecord]
    /\ process \in [Pods -> ProcessRecord]
    /\ late \subseteq CommandRecord

\* Work that an engine may be running is charged in the ledger to exactly the
\* execution that submitted it, through cancellations, lost replies, frontend
\* restarts and late commands: no limit is exceeded by work already released.
NativeWorkIsCharged ==
    \A o \in Owners : exec[o].native =>
        /\ slot[exec[o].slot].state \in Engine
        /\ slot[exec[o].slot].owner = o

\* A slot held by an engine can still be released: its execution task is alive,
\* or its process is not, and the next registration or the removal of the pod
\* ends it.
ClaimsAreBacked ==
    \A x \in SlotsIn(Engine) :
        LET p == slot[x].pod
        IN  \/ exec[slot[x].owner].state \in InTask
            \/ process[p].state \in {"down", "registering", "gone"}

\* A batch that AdmissionPermit::retry puts back is definitely unaccepted: an
\* execution that reported its pod as unlisted does not own a slot afterwards.
RefusalIsDefinite ==
    \A x \in SlotsIn(Engine) : exec[slot[x].owner].state # "refused"

\* While the frontend holds a handed stage, nobody else can end its slot: the
\* next engine finds the reservation the previous one has left.
HandoffIsHeld ==
    \A x \in Slots : call[x] \in {"granted", "handed"} =>
        slot[x].state = IF call[x] = "granted" THEN "reserved" ELSE "handoff"

\* Whatever fails and however a client behaves, every claim is given back, and
\* the slot of a dropped permit ends: neither a crashed process nor a lost
\* command keeps a caller's capacity for ever.
ClaimsEnd ==
    \A x \in Slots :
        /\ slot[x].state \in Engine ~> slot[x].state \notin Engine
        /\ call[x] = "over" ~> slot[x].state \notin Open
=============================================================================
