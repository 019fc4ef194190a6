------------------------ MODULE ExecutionStepProofs -------------------------
(*****************************************************************************)
(* Executions over the ledger: the invariant of tasks and processes, that    *)
(* they drive the ledger through its transitions alone, what a step may do   *)
(* to a task without breaking the invariant, and types.                      *)
(*****************************************************************************)
EXTENDS Execution, RequestLedgerStepProofs

\* The task states in which the ledger has given the slot to the task.
Held == {"preparing", "submitting", "running", "uncertain"}

\* The process states in which tasks run.
Up == {"serving", "closing", "stopped"}

Begun(o) == exec[o].state \notin {"unused", "calling"}

\* A task runs in the process of its pod that has started it.
Located(o) ==
    /\ exec[o].state # "unused" => exec[o].slot \in Slots /\ exec[o].pod \in Pods
    /\ exec[o].native => exec[o].state \in Held
    /\ exec[o].state \in InTask => /\ process[exec[o].pod].state \in Up
                                   /\ process[exec[o].pod].epoch = exec[o].epoch

\* A task that holds its slot has not given it back.
Charging(o) ==
    exec[o].state \in Held =>
        slot[exec[o].slot].state \in Engine /\ slot[exec[o].slot].owner = o

\* The ledger and the execution agree on who runs a slot where.
Owned(x) ==
    slot[x].state \in Engine =>
        /\ slot[x].owner \in Owners /\ Begun(slot[x].owner)
        /\ exec[slot[x].owner].slot = x
        /\ exec[slot[x].owner].pod = slot[x].pod
        /\ exec[slot[x].owner].epoch = slot[x].epoch

\* A late accept carries the epoch of a process; a late report was sent by a
\* task that is over but for the answer.
Sent(c) ==
    /\ Begun(c.owner)
    /\ c.kind = "accept" => exec[c.owner].epoch \in 1 .. MaxEngineEpoch
    /\ c.kind # "accept" => exec[c.owner].state \in {"settling", "done", "lost"}

Numbered(p) ==
    /\ process[p].epoch <= MaxEngineEpoch
    /\ process[p].state \in Up \cup {"registering"} => process[p].epoch >= 1

TaskInv ==
    /\ \A o \in Owners : Located(o) /\ Charging(o)
    /\ \A x \in Slots : Owned(x)
    /\ \A c \in late : Sent(c)
    /\ \A p \in Pods : Numbered(p)

LedgerOwned == LedgerInv /\ OwnerInv
ExecInv == LedgerOwned /\ TypeOKExecution /\ TaskInv

----------------------------------------------------------------------------
(* The commands of an execution are transitions of the ledger *)

\* What the invariant says of a task that has claimed or may claim a slot.
LEMMA TaskFacts ==
  ASSUME TypeOKExecution, TaskInv, NEW o \in Owners, exec[o].state # "unused"
  PROVE  /\ exec[o] \in ExecRecord /\ exec[o].slot \in Slots /\ exec[o].pod \in Pods
         /\ exec[o].state \in InTask =>
              /\ process[exec[o].pod].state \in Up
              /\ process[exec[o].pod].epoch = exec[o].epoch
              /\ exec[o].epoch \in 1 .. MaxEngineEpoch
         /\ exec[o].state \in Held =>
              slot[exec[o].slot].state \in Engine /\ slot[exec[o].slot].owner = o
<1>1. exec[o] \in ExecRecord /\ exec[o].slot \in Slots /\ exec[o].pod \in Pods
  BY DEF TypeOKExecution, TaskInv, Located
<1>2. process[exec[o].pod] \in ProcessRecord /\ Numbered(exec[o].pod)
  BY <1>1 DEF TypeOKExecution, TaskInv
<1>3. ASSUME exec[o].state \in InTask
      PROVE  /\ process[exec[o].pod].state \in Up
             /\ process[exec[o].pod].epoch = exec[o].epoch
             /\ exec[o].epoch \in 1 .. MaxEngineEpoch
  <2>1. process[exec[o].pod].state \in Up /\ process[exec[o].pod].epoch = exec[o].epoch
    BY <1>3 DEF TaskInv, Located
  <2>2. process[exec[o].pod].epoch \in Nat
    BY <1>2 DEF ProcessRecord
  <2>3. 1 <= process[exec[o].pod].epoch /\ process[exec[o].pod].epoch <= MaxEngineEpoch
    BY <1>2, <2>1 DEF Numbered
  <2>. QED BY <2>1, <2>2, <2>3, LedgerAssumption
<1>4. exec[o].state \in Held => slot[exec[o].slot].state \in Engine /\ slot[exec[o].slot].owner = o
  BY DEF TaskInv, Charging
<1>. QED BY <1>1, <1>3, <1>4

\* An accept, in time or late, is a transition of the ledger.
LEMMA AcceptRuns ==
  ASSUME TypeOKExecution, TaskInv, NEW o \in Owners, Begun(o),
         exec[o].epoch \in 1 .. MaxEngineEpoch, RunAccept(o)
  PROVE  [Next]_vars
<1>1. exec[o].slot \in Slots /\ exec[o].pod \in Pods
  BY TaskFacts DEF Begun
<1>. QED BY <1>1 DEF RunAccept, Next, SlotTransition, ledger

\* So is the report of an end.
LEMMA EndRuns ==
  ASSUME TypeOKExecution, TaskInv, NEW o \in Owners, Begun(o), NEW end, RunEnd(o, end)
  PROVE  [Next]_vars
<1>1. exec[o].slot \in Slots /\ exec[o].final \in BOOLEAN
  BY TaskFacts DEF Begun, ExecRecord
<1>2. (exec[o].final \/ end = "RequestTerminated") \in BOOLEAN
  BY <1>1
<1>. QED BY <1>1, <1>2 DEF RunEnd, Next, SlotTransition, ledger

\* Every step of the frontend, of a task, of a process, of the connection and of
\* the control plane is a transition of the ledger or leaves it alone.
LEMMA ExecutionDrivesLedger ==
  ASSUME LedgerInv, TypeOKExecution, TaskInv, [NextExecution]_allVars
  PROVE  [Next]_vars
<1>1. CASE UNCHANGED vars
  BY <1>1
<1>2. CASE Frontend
  <2>1. ASSUME NEW id \in Ids, NEW f \in Frontends, NEW c \in AnyCaller, NEW r \in Roles,
               NEW units \in SlotIndex, EnqueueCall(id, f, c, r, units)
        PROVE  Next
    <3>1. ownerEpoch \in 1 .. ownerEpoch
      BY <2>1 DEF EnqueueCall, LedgerInv, TypeOK
    <3>. QED BY <2>1, <3>1 DEF EnqueueCall, Next, RequestTransition
  <2>2. ASSUME NEW id \in Ids, DispatchCall(id) \/ RetryCall(id)
        PROVE  [Next]_vars
    BY <2>2 DEF DispatchCall, RetryCall, Next, RequestTransition, ledger
  <2>3. ASSUME NEW x \in Slots, DropCall(x) PROVE [Next]_vars
    BY <2>3 DEF DropCall, Next, SlotTransition, ledger
  <2>4. ASSUME NEW f \in Frontends, RestartFrontend(f) PROVE Next
    BY <2>4 DEF RestartFrontend, Next, ProcessEpoch
  <2>5. ASSUME NEW f \in Frontends, RegisterFrontend(f) PROVE Next
    <3>1. ownerEpoch \in 1 .. ownerEpoch
      BY <2>5 DEF RegisterFrontend, LedgerInv, TypeOK
    <3>. QED BY <2>5, <3>1 DEF RegisterFrontend, Next, ProcessEpoch
  <2>6. ASSUME \/ \E o \in Owners, x \in Slots, p \in Pods, final \in BOOLEAN : Call(o, x, p, final)
               \/ \E x \in Slots : RouteBusy(x) \/ EndCall(x)
        PROVE  UNCHANGED vars
    BY <2>6 DEF Call, RouteBusy, EndCall, ledger
  <2>. QED BY <1>2, <2>1, <2>2, <2>3, <2>4, <2>5, <2>6 DEF Frontend
<1>3. ASSUME NEW o \in Owners, Task(o) PROVE [Next]_vars
  <2>1. CASE Claim(o)
    <3>1. Begun(o) /\ exec[o].epoch \in 1 .. MaxEngineEpoch /\ RunAccept(o)
      BY <2>1, TaskFacts DEF Claim, Begun, InTask
    <3>. QED BY <3>1, AcceptRuns
  <2>2. CASE Settle(o)
    <3>1. Begun(o) /\ RunEnd(o, exec[o].end)
      BY <2>2 DEF Settle, Begun
    <3>. QED BY <3>1, EndRuns
  <2>3. CASE ~Claim(o) /\ ~Settle(o)
    BY <1>3, <2>3 DEF Task, Arrive, Refuse, ClaimLost, Cancelled, Submit, PreparationEnds,
                      EngineStarts, EngineRejects, EngineCompletes, CompletionUnknown,
                      AbortFails, StopObserved, SettleLost, ledger
  <2>. QED BY <2>1, <2>2, <2>3
<1>4. ASSUME NEW p \in Pods, Process(p) PROVE [Next]_vars
  <2>1. CASE Register(p)
    <3>1. process[p].epoch \in 1 .. MaxEngineEpoch
      BY <2>1, LedgerAssumption DEF Register, TaskInv, Numbered, TypeOKExecution, ProcessRecord
    <3>. QED BY <2>1, <3>1 DEF Register, Next, ProcessEpoch, ledger
  <2>2. CASE ~Register(p)
    BY <1>4, <2>2 DEF Process, Boot, Drain, StopEngine, Exit, EndPod, ledger
  <2>. QED BY <2>1, <2>2
<1>5. ASSUME NEW c \in late, RunLate(c) \/ LoseLate(c) PROVE [Next]_vars
  <2>1. CASE LoseLate(c)
    BY <2>1 DEF LoseLate, ledger
  <2>2. CASE RunLate(c)
    <3>1. c.owner \in Owners /\ Sent(c)
      BY DEF TypeOKExecution, CommandRecord, TaskInv
    <3>2. CASE c.kind = "accept"
      BY <2>2, <3>1, <3>2, AcceptRuns DEF RunLate, Sent
    <3>3. CASE c.kind # "accept"
      BY <2>2, <3>1, <3>3, EndRuns DEF RunLate, Sent
    <3>. QED BY <3>2, <3>3
  <2>. QED BY <1>5, <2>1, <2>2
<1>6. ASSUME NEW cfg \in Configs, NEW B \in SUBSET Pods, PublishPods(cfg, B) PROVE Next
  <2>1. membershipVersion + 1 \in 0 .. MaxVersion
    BY <1>6, LedgerAssumption DEF PublishPods, LedgerInv, TypeOK
  <2>2. Publish(membershipVersion + 1, cfg, Frontends, B)
    BY <1>6 DEF PublishPods
  <2>3. Frontends \in SUBSET Frontends
    OBVIOUS
  <2>. QED BY <2>1, <2>2, <2>3 DEF Next, Publication
<1>. QED BY <1>1, <1>2, <1>3, <1>4, <1>5, <1>6 DEF NextExecution, allVars, ledger

----------------------------------------------------------------------------
(* What a step leaves of the tasks *)

Ended == {"settling", "done", "lost"}

\* A task keeps its slot, pod and process, and does not come back from its end.
Continues ==
    \A o \in Owners : Begun(o) =>
        /\ Begun(o)' /\ exec'[o].slot = exec[o].slot
        /\ exec'[o].pod = exec[o].pod /\ exec'[o].epoch = exec[o].epoch
        /\ exec[o].state \in Ended => exec'[o].state \in Ended

\* A slot is taken only by a task that asked for it, in the name of its process.
TakenBy(x, o) ==
    /\ o \in Owners /\ Begun(o) /\ exec[o].slot = x /\ slot'[x].owner = o
    /\ slot'[x].pod = exec[o].pod /\ slot'[x].epoch = exec[o].epoch
Claims ==
    \A x \in Slots : slot'[x].state \in Engine =>
        (slot[x].state \in Engine /\ Stays(x)) \/ TakenBy(x, slot'[x].owner)

\* A process may stop serving while its tasks run on.
Closes ==
    \A p \in Pods : /\ process'[p].epoch = process[p].epoch
                    /\ \/ process'[p].state = process[p].state
                       \/ process[p].state \in Up /\ process'[p].state \in Up

\* The ledger's view and the commands under way fit the tasks after such a step.
LEMMA Carried ==
  ASSUME TypeOKExecution, TaskInv, Continues, Claims
  PROVE  (\A x \in Slots : Owned(x)') /\ (\A c \in late : Sent(c)')
<1>1. ASSUME NEW x \in Slots, slot'[x].state \in Engine PROVE Owned(x)'
  <2>1. CASE slot[x].state \in Engine /\ Stays(x)
    <3>1. /\ slot[x].owner \in Owners /\ Begun(slot[x].owner)
          /\ exec[slot[x].owner].slot = x
          /\ exec[slot[x].owner].pod = slot[x].pod
          /\ exec[slot[x].owner].epoch = slot[x].epoch
      BY <2>1 DEF TaskInv, Owned
    <3>. QED BY <2>1, <3>1 DEF Stays, Owned, Continues
  <2>2. CASE TakenBy(x, slot'[x].owner)
    BY <2>2 DEF TakenBy, Owned, Continues
  <2>. QED BY <1>1, <2>1, <2>2 DEF Claims
<1>2. ASSUME NEW c \in late PROVE Sent(c)'
  <2>1. c.owner \in Owners /\ Sent(c)
    BY DEF TypeOKExecution, CommandRecord, TaskInv
  <2>. QED BY <2>1 DEF Sent, Continues, Ended
<1>3. \A x \in Slots : Owned(x)'
  BY <1>1 DEF Owned
<1>. QED BY <1>2, <1>3

\* A step of one task.
LEMMA TaskMoves ==
  ASSUME TypeOKExecution, TaskInv, NEW o \in Owners,
         \A i \in Owners \ {o} : exec'[i] = exec[i], Located(o)', Charging(o)',
         Begun(o) => /\ Begun(o)' /\ exec'[o].slot = exec[o].slot
                     /\ exec'[o].pod = exec[o].pod /\ exec'[o].epoch = exec[o].epoch
                     /\ exec[o].state \in Ended => exec'[o].state \in Ended,
         Closes, Claims, \A x \in SlotsIn(Engine) : slot[x].owner # o => Stays(x),
         \A c \in late' : c \in late \/ Sent(c)'
  PROVE  TaskInv'
<1>1. Continues
  BY DEF Continues, Begun
<1>2. (\A x \in Slots : Owned(x)') /\ (\A c \in late' : Sent(c)')
  BY <1>1, Carried
<1>3. ASSUME NEW i \in Owners, i # o PROVE Located(i)' /\ Charging(i)'
  <2>1. exec'[i] = exec[i] /\ Located(i) /\ Charging(i)
    BY <1>3 DEF TaskInv
  <2>2. Located(i)'
    BY <2>1 DEF Located, Closes, InTask
  <2>3. Charging(i)'
    <3>1. CASE exec[i].state \in Held
      <4>1. exec[i].slot \in Slots
        BY <2>1, <3>1 DEF Located, Held
      <4>2. exec[i].slot \in SlotsIn(Engine) /\ slot[exec[i].slot].owner = i
        BY <2>1, <3>1, <4>1 DEF Charging, SlotsIn
      <4>. QED BY <1>3, <2>1, <4>2 DEF Charging, Stays
    <3>. QED BY <2>1, <3>1 DEF Charging
  <2>. QED BY <2>2, <2>3
<1>4. \A p \in Pods : Numbered(p)'
  BY DEF TaskInv, Numbered, Closes
<1>. QED BY <1>2, <1>3, <1>4 DEF TaskInv

\* A step that leaves the tasks and processes alone, but for one command.
LEMMA TasksStand ==
  ASSUME TypeOKExecution, TaskInv, exec' = exec, process' = process, late' \subseteq late,
         Claims, \A o \in Owners : exec[o].state \in Held => Stays(exec[o].slot)
  PROVE  TaskInv'
<1>1. Continues
  BY DEF Continues, Begun
<1>2. (\A x \in Slots : Owned(x)') /\ (\A c \in late' : Sent(c)')
  BY <1>1, Carried
<1>3. \A o \in Owners : Located(o)' /\ Charging(o)'
  BY DEF TaskInv, Located, Charging, Stays
<1>4. \A p \in Pods : Numbered(p)'
  BY DEF TaskInv, Numbered
<1>. QED BY <1>2, <1>3, <1>4 DEF TaskInv

\* The slot of a task that holds it is an engine slot of the task.
LEMMA HeldSlot ==
  ASSUME TypeOKExecution, TaskInv, NEW o \in Owners, exec[o].state \in Held
  PROVE  exec[o].slot \in SlotsIn(Engine) /\ slot[exec[o].slot].owner = o
BY TaskFacts DEF Held, SlotsIn

\* What an accept does to the slots.
LEMMA AcceptEffect ==
  ASSUME LedgerInv, TypeOKExecution, TaskInv, NEW o \in Owners, Begun(o), RunAccept(o)
  PROVE  /\ Claims /\ \A x \in SlotsIn(Engine) : Stays(x)
         /\ AcceptReply(exec[o].slot, o, exec[o].pod, exec[o].epoch) = "ok" =>
              slot'[exec[o].slot].state \in Engine /\ slot'[exec[o].slot].owner = o
<1> DEFINE x == exec[o].slot
           p == exec[o].pod
           e == exec[o].epoch
<1>1. x \in Slots /\ p \in Pods
  BY TaskFacts DEF Begun
<1>2. CASE Accept(x, o, p, e)
  <2>1. /\ slot[x].state \in {"reserved", "handoff"}
        /\ slot'[x].state = "accepted" /\ slot'[x].owner = o
        /\ slot'[x].pod = p /\ slot'[x].epoch = e
        /\ \A y \in Slots : y # x => slot'[y] = slot[y]
    <3>. HIDE DEF x, p, e
    <3>. QED BY <1>1, <1>2, AcceptStep
  <2>. QED BY <1>1, <2>1 DEF Claims, TakenBy, Stays, SlotsIn, Engine
<1>3. CASE UNCHANGED vars /\ ~(AcceptReply(x, o, p, e) = "ok" /\ slot[x].state \in {"reserved", "handoff"})
  <2>1. slot' = slot
    BY <1>3 DEF vars, requestVars
  <2>2. AcceptReply(x, o, p, e) = "ok" => slot[x].state = "accepted" /\ slot[x].owner = o
    BY <1>3 DEF AcceptReply
  <2>. QED BY <1>1, <2>1, <2>2 DEF Claims, Stays, SlotsIn, Engine
<1>. QED BY <1>2, <1>3 DEF RunAccept, ledger

\* What the report of an end does to the slots.
LEMMA EndEffect ==
  ASSUME LedgerInv, TypeOKExecution, TaskInv, NEW o \in Owners, Begun(o), NEW end, RunEnd(o, end)
  PROVE  Claims /\ \A x \in SlotsIn(Engine) : slot[x].owner # o => Stays(x)
<1> DEFINE x == exec[o].slot
<1>1. x \in Slots /\ exec[o].final \in BOOLEAN
  BY TaskFacts DEF Begun, ExecRecord
<1>2. (exec[o].final \/ end = "RequestTerminated") \in BOOLEAN
  BY <1>1
<1>3. CASE RejectBeforeSubmission(x, o)
  <2>1. NoClaim /\ \A y \in SlotsIn(Engine) : ~(y = x /\ slot[y].owner = o) => Stays(y)
    BY <1>1, <1>3, RejectStep
  <2>. QED BY <2>1 DEF NoClaim, Claims
<1>4. CASE Complete(x, o, exec[o].final \/ end = "RequestTerminated")
  <2>1. NoClaim /\ slot[x].owner = o /\ \A y \in SlotsIn(Engine) : y # x => Stays(y)
    BY <1>1, <1>2, <1>4, CompleteStep
  <2>. QED BY <2>1 DEF NoClaim, Claims
<1>5. CASE UNCHANGED vars
  <2>1. slot' = slot
    BY <1>5 DEF vars, requestVars
  <2>. QED BY <2>1 DEF Claims, Stays, SlotsIn
<1>. QED BY <1>3, <1>4, <1>5 DEF RunEnd, ledger

----------------------------------------------------------------------------
(* Types *)

\* The frontend's answers, a task's moves and the processes keep their shapes.
LEMMA TaskType ==
  ASSUME TypeOKExecution, TaskInv, NEW o \in Owners, Task(o)
  PROVE  TypeOKExecution'
<1>1. /\ exec \in [Owners -> ExecRecord] /\ process \in [Pods -> ProcessRecord]
      /\ call \in [Slots -> CallState] /\ late \subseteq CommandRecord
      /\ exec[o] \in ExecRecord
  BY DEF TypeOKExecution
<1>2. ASSUME NEW s \in ExecState, Become(o, s) PROVE exec' \in [Owners -> ExecRecord]
  BY <1>1, <1>2 DEF Become, ExecRecord
<1>3. ASSUME NEW e \in ReservationEnd, Settling(o, e) PROVE exec' \in [Owners -> ExecRecord]
  <2>1. [exec[o] EXCEPT !.state = "settling", !.end = e, !.native = FALSE] \in ExecRecord
    BY <1>1, <1>3 DEF ExecRecord, ExecState
  <2>2. exec' = [exec EXCEPT ![o] = [exec[o] EXCEPT !.state = "settling", !.end = e,
                                                   !.native = FALSE]]
    BY <1>1, <1>3 DEF Settling, ExecRecord
  <2>. QED BY <1>1, <2>1, <2>2
<1>4. ASSUME NEW a \in CallState PROVE Answered(o, a) \in [Slots -> CallState]
  <2>1. "over" \in CallState
    BY DEF CallState
  <2>. QED BY <1>1, <1>4, <2>1 DEF Answered
<1>5. ASSUME exec[o].pod \in Pods PROVE Close(exec[o].pod) \in [Pods -> ProcessRecord]
  BY <1>1, <1>5 DEF Close, ProcessRecord, ProcessState
<1>6. exec[o].state # "unused" => exec[o].pod \in Pods
  BY DEF TaskInv, Located
<1>7. CASE Arrive(o)
  <2>1. process[exec[o].pod].epoch \in Nat
    BY <1>1, <1>6, <1>7 DEF Arrive, ProcessRecord
  <2>2. exec' \in [Owners -> ExecRecord]
    <3>1. [exec[o] EXCEPT !.state = "claiming", !.epoch = process[exec[o].pod].epoch]
            \in ExecRecord
      BY <1>1, <2>1 DEF ExecRecord, ExecState
    <3>2. exec' = [exec EXCEPT ![o] = [exec[o] EXCEPT !.state = "claiming",
                                                     !.epoch = process[exec[o].pod].epoch]]
      BY <1>1, <1>7 DEF Arrive, ExecRecord
    <3>. QED BY <1>1, <3>1, <3>2
  <2>. QED BY <1>1, <1>7, <2>2 DEF Arrive, TypeOKExecution
<1>8. CASE Refuse(o)
  BY <1>1, <1>2, <1>4, <1>8 DEF Refuse, ExecState, CallState, TypeOKExecution
<1>9. CASE Claim(o)
  BY <1>1, <1>2, <1>3, <1>4, <1>9
     DEF Claim, ExecState, CallState, ReservationEnd, TypeOKExecution
<1>10. CASE ClaimLost(o)
  <2>1. late' \subseteq CommandRecord
    BY <1>1, <1>10 DEF ClaimLost, Accepting, CommandRecord
  <2>. QED BY <1>1, <1>3, <1>10, <2>1 DEF ClaimLost, ReservationEnd, TypeOKExecution
<1>11. CASE Cancelled(o) \/ Submit(o)
  <2>1. exec' \in [Owners -> ExecRecord]
    <3>1. /\ [exec[o] EXCEPT !.cancelled = TRUE] \in ExecRecord
          /\ [exec[o] EXCEPT !.state = "submitting", !.native = TRUE] \in ExecRecord
      BY <1>1 DEF ExecRecord, ExecState
    <3>2. \/ exec' = [exec EXCEPT ![o] = [exec[o] EXCEPT !.cancelled = TRUE]]
          \/ exec' = [exec EXCEPT ![o] = [exec[o] EXCEPT !.state = "submitting", !.native = TRUE]]
      BY <1>1, <1>11 DEF Cancelled, Submit, ExecRecord
    <3>. QED BY <1>1, <3>1, <3>2
  <2>. QED BY <1>1, <1>11, <2>1 DEF Cancelled, Submit, TypeOKExecution
<1>12. CASE PreparationEnds(o) \/ EngineRejects(o) \/ EngineCompletes(o) \/ StopObserved(o)
  BY <1>1, <1>3, <1>12 DEF PreparationEnds, EngineRejects, EngineCompletes, StopObserved,
                           ReservationEnd, TypeOKExecution
<1>13. CASE EngineStarts(o)
  BY <1>1, <1>2, <1>13 DEF EngineStarts, ExecState, TypeOKExecution
<1>14. CASE CompletionUnknown(o)
  BY <1>1, <1>2, <1>5, <1>6, <1>14 DEF CompletionUnknown, ExecState, TypeOKExecution
<1>15. CASE AbortFails(o)
  BY <1>1, <1>5, <1>6, <1>15 DEF AbortFails, TypeOKExecution
<1>16. CASE Settle(o)
  BY <1>1, <1>2, <1>4, <1>16 DEF Settle, ExecState, CallState, TypeOKExecution
<1>17. CASE SettleLost(o)
  <2>1. late' \subseteq CommandRecord
    <3>1. exec[o].end \in ReservationEnd
      BY <1>1 DEF ExecRecord
    <3>2. Ending(o) \in CommandRecord
      BY <3>1 DEF Ending, CommandRecord
    <3>. QED BY <1>1, <1>17, <3>2 DEF SettleLost
  <2>. QED BY <1>1, <1>17, <2>1 DEF SettleLost, TypeOKExecution
<1>. QED BY <1>7, <1>8, <1>9, <1>10, <1>11, <1>12, <1>13, <1>14, <1>15, <1>16, <1>17
         DEF Task

LEMMA FrontendType ==
  ASSUME TypeOKExecution, Frontend
  PROVE  TypeOKExecution'
<1>1. /\ exec \in [Owners -> ExecRecord] /\ call \in [Slots -> CallState]
  BY DEF TypeOKExecution
<1>2. ASSUME NEW o \in Owners, NEW x \in Slots, NEW p \in Pods, NEW final \in BOOLEAN,
             Call(o, x, p, final)
      PROVE  TypeOKExecution'
  <2>1. exec' \in [Owners -> ExecRecord]
    <3>1. [NoExec EXCEPT !.state = "calling", !.slot = x, !.pod = p, !.final = final,
                         !.initial = (call[x] = "granted")] \in ExecRecord
      BY <1>2 DEF NoExec, ExecRecord, ExecState, ReservationEnd
    <3>. QED BY <1>1, <1>2, <3>1 DEF Call
  <2>2. call' \in [Slots -> CallState]
    BY <1>1, <1>2 DEF Call, CallState
  <2>. QED BY <1>2, <2>1, <2>2 DEF Call, TypeOKExecution
<1>3. ASSUME call' \in [Slots -> CallState], UNCHANGED <<exec, process, late>>
      PROVE  TypeOKExecution'
  BY <1>3 DEF TypeOKExecution
<1>4. ASSUME NEW id \in Ids, DispatchCall(id) \/ RetryCall(id) PROVE TypeOKExecution'
  <2>1. call' \in [Slots -> CallState]
    BY <1>1, <1>4 DEF DispatchCall, RetryCall, CallState
  <2>. QED BY <1>3, <1>4, <2>1 DEF DispatchCall, RetryCall
<1>5. ASSUME NEW id \in Ids, NEW f \in Frontends, NEW c \in AnyCaller, NEW r \in Roles,
             NEW units \in SlotIndex, EnqueueCall(id, f, c, r, units)
      PROVE  TypeOKExecution'
  <2>1. call' \in [Slots -> CallState]
    BY <1>1, <1>5 DEF EnqueueCall, CallState
  <2>. QED BY <1>3, <1>5, <2>1 DEF EnqueueCall
<1>6. ASSUME NEW x \in Slots, RouteBusy(x) \/ EndCall(x) \/ DropCall(x) PROVE TypeOKExecution'
  <2>1. call' \in [Slots -> CallState]
    BY <1>1, <1>6 DEF RouteBusy, EndCall, DropCall, CallState
  <2>. QED BY <1>3, <1>6, <2>1 DEF RouteBusy, EndCall, DropCall
<1>7. ASSUME NEW f \in Frontends, RestartFrontend(f) \/ RegisterFrontend(f)
      PROVE  TypeOKExecution'
  <2>1. call' \in [Slots -> CallState]
    BY <1>1, <1>7 DEF RestartFrontend, RegisterFrontend, CallState, tasks
  <2>. QED BY <1>3, <1>7, <2>1 DEF RestartFrontend, RegisterFrontend, tasks
<1>. QED BY <1>2, <1>4, <1>5, <1>6, <1>7 DEF Frontend

LEMMA ProcessType ==
  ASSUME TypeOKExecution, NEW p \in Pods, Process(p)
  PROVE  TypeOKExecution'
<1>1. /\ exec \in [Owners -> ExecRecord] /\ process \in [Pods -> ProcessRecord]
      /\ process[p] \in ProcessRecord
  BY DEF TypeOKExecution
<1>2. ASSUME NEW s \in ProcessState, process' = [process EXCEPT ![p].state = s]
      PROVE  process' \in [Pods -> ProcessRecord]
  BY <1>1, <1>2 DEF ProcessRecord
<1>3. process' \in [Pods -> ProcessRecord]
  <2>1. CASE Boot(p)
    BY <1>1, <2>1 DEF Boot, ProcessRecord, ProcessState
  <2>2. CASE Register(p) \/ StopEngine(p) \/ Exit(p) \/ EndPod(p)
    BY <1>2, <2>2 DEF Register, StopEngine, Exit, EndPod, ProcessState
  <2>3. CASE Drain(p)
    BY <1>1, <1>2, <2>3 DEF Drain, Close, ProcessState
  <2>. QED BY <2>1, <2>2, <2>3 DEF Process
<1>4. exec' \in [Owners -> ExecRecord]
  <2>1. CASE Exit(p)
    <3>1. ASSUME NEW o \in Owners
          PROVE  [exec[o] EXCEPT !.state = "lost", !.native = FALSE] \in ExecRecord
      <4>1. exec[o] \in ExecRecord
        BY <1>1
      <4>. QED BY <4>1 DEF ExecRecord, ExecState
    <3>. QED BY <1>1, <2>1, <3>1 DEF Exit, Lost
  <2>2. CASE StopEngine(p)
    <3>1. \A o \in Owners : [exec[o] EXCEPT !.native = FALSE] \in ExecRecord
      BY <1>1 DEF ExecRecord
    <3>. QED BY <1>1, <2>2, <3>1 DEF StopEngine
  <2>. QED BY <1>1, <2>1, <2>2 DEF Process, Boot, Register, Drain, EndPod
<1>. QED BY <1>3, <1>4 DEF Process, Boot, Register, Drain, StopEngine, Exit, EndPod,
                           TypeOKExecution

LEMMA TypeStepExecution ==
  ASSUME TypeOKExecution, TaskInv, [NextExecution]_allVars
  PROVE  TypeOKExecution'
<1>1. ASSUME NEW c \in late, RunLate(c) \/ LoseLate(c) PROVE TypeOKExecution'
  BY <1>1 DEF RunLate, LoseLate, TypeOKExecution
<1>2. ASSUME NEW cfg \in Configs, NEW B \in SUBSET Pods, PublishPods(cfg, B)
      PROVE  TypeOKExecution'
  <2>1. process' \in [Pods -> ProcessRecord]
    BY <1>2 DEF PublishPods, TypeOKExecution, ProcessRecord, ProcessState
  <2>. QED BY <1>2, <2>1 DEF PublishPods, TypeOKExecution
<1>3. CASE UNCHANGED allVars
  BY <1>3 DEF allVars, tasks, TypeOKExecution
<1>. QED BY <1>1, <1>2, <1>3, TaskType, FrontendType, ProcessType DEF NextExecution

=============================================================================
