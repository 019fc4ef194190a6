-------------------------- MODULE ExecutionProofs ---------------------------
(*****************************************************************************)
(* Executions over the ledger, for any number of requests, frontends, pods   *)
(* and executions.  The tasks and processes of Execution drive the ledger    *)
(* through its transitions alone, so that everything proved of RequestLedger *)
(* holds of the whole system; and work that an engine may be running is      *)
(* always charged to the execution that submitted it.                        *)
(*****************************************************************************)
EXTENDS ExecutionStepProofs

----------------------------------------------------------------------------
(* The frontend *)

\* Commands of the frontend leave every task its slot.
LEMMA Quiet ==
  ASSUME TypeOKExecution, TaskInv, exec' = exec, process' = process, late' \subseteq late,
         NoClaim, \A x \in SlotsIn(Engine) : Stays(x)
  PROVE  TaskInv'
<1>1. Claims
  BY DEF NoClaim, Claims
<1>2. \A o \in Owners : exec[o].state \in Held => Stays(exec[o].slot)
  BY HeldSlot
<1>. QED BY <1>1, <1>2, TasksStand

LEMMA SlotsStand ==
  ASSUME slot' = slot
  PROVE  NoClaim /\ Claims /\ \A x \in SlotsIn(Engine) : Stays(x)
BY DEF NoClaim, Claims, Stays, SlotsIn

LEMMA FrontendTasks ==
  ASSUME LedgerInv, TypeOKExecution, TaskInv, Frontend
  PROVE  TaskInv'
<1>1. ASSUME NEW id \in Ids, NEW f \in Frontends, NEW c \in AnyCaller, NEW r \in Roles,
             NEW units \in SlotIndex, EnqueueCall(id, f, c, r, units)
      PROVE  TaskInv'
  <2>1. NoClaim /\ \A x \in SlotsIn(Engine) : Stays(x)
    BY <1>1, EnqueueStep DEF EnqueueCall
  <2>. QED BY <1>1, <2>1, Quiet DEF EnqueueCall
<1>2. ASSUME NEW id \in Ids, DispatchCall(id) PROVE TaskInv'
  <2>1. \A x \in Slots : \/ slot'[x] = slot[x]
                         \/ slot[x].state = "waiting" /\ slot'[x].state = "reserved"
    BY <1>2, DispatchStep DEF DispatchCall
  <2>2. NoClaim /\ \A x \in SlotsIn(Engine) : Stays(x)
    BY <2>1 DEF NoClaim, Stays, SlotsIn, Engine
  <2>. QED BY <1>2, <2>2, Quiet DEF DispatchCall
<1>3. ASSUME NEW id \in Ids, RetryCall(id) PROVE TaskInv'
  <2>1. Retry(id) \/ slot' = slot
    BY <1>3 DEF RetryCall, ledger, vars, requestVars
  <2>2. NoClaim /\ \A x \in SlotsIn(Engine) : Stays(x)
    BY <2>1, RetryStep, SlotsStand
  <2>. QED BY <1>3, <2>2, Quiet DEF RetryCall
<1>4. ASSUME NEW x \in Slots, DropCall(x) PROVE TaskInv'
  <2>1. Drop(x) \/ slot' = slot
    BY <1>4 DEF DropCall, ledger, vars, requestVars
  <2>2. NoClaim /\ \A y \in SlotsIn(Engine) : Stays(y)
    BY <2>1, DropStep, SlotsStand
  <2>. QED BY <1>4, <2>2, Quiet DEF DropCall
<1>5. ASSUME NEW f \in Frontends, RegisterFrontend(f) PROVE TaskInv'
  <2>1. ownerEpoch \in Nat /\ RegisterOwner(f, ownerEpoch) /\ UNCHANGED <<exec, process, late>>
    BY <1>5 DEF RegisterFrontend, tasks, LedgerInv, TypeOK
  <2>2. NoClaim /\ \A y \in SlotsIn(Engine) : Stays(y)
    BY <2>1, RegisterOwnerStep
  <2>. QED BY <2>1, <2>2, Quiet
<1>6. ASSUME slot' = slot, UNCHANGED <<exec, process, late>> PROVE TaskInv'
  BY <1>6, SlotsStand, Quiet
<1>7. ASSUME NEW x \in Slots, RouteBusy(x) \/ EndCall(x) PROVE TaskInv'
  BY <1>6, <1>7 DEF RouteBusy, EndCall, ledger, vars, requestVars
<1>8. ASSUME NEW f \in Frontends, RestartFrontend(f) PROVE TaskInv'
  BY <1>6, <1>8 DEF RestartFrontend, AllocateOwner, requestVars
<1>9. ASSUME NEW o \in Owners, NEW x \in Slots, NEW p \in Pods, NEW final \in BOOLEAN,
             Call(o, x, p, final)
      PROVE  TaskInv'
  <2>1. /\ exec \in [Owners -> ExecRecord] /\ exec[o].state = "unused"
        /\ exec'[o] = [NoExec EXCEPT !.state = "calling", !.slot = x, !.pod = p, !.final = final,
                                     !.initial = (call[x] = "granted")]
        /\ \A i \in Owners \ {o} : exec'[i] = exec[i]
        /\ slot' = slot /\ UNCHANGED <<process, late>>
    BY <1>9 DEF Call, TypeOKExecution, ledger, vars, requestVars
  <2>2. /\ exec'[o].state = "calling" /\ exec'[o].slot = x /\ exec'[o].pod = p
        /\ exec'[o].native = FALSE
    BY <2>1 DEF NoExec
  <2>3. Located(o)' /\ Charging(o)' /\ ~Begun(o)
    BY <2>1, <2>2 DEF Located, Charging, Held, InTask, Begun
  <2>4. Closes
    BY <2>1 DEF Closes
  <2>. QED BY <2>1, <2>3, <2>4, SlotsStand, TaskMoves
<1>. QED BY <1>1, <1>2, <1>3, <1>4, <1>5, <1>7, <1>8, <1>9 DEF Frontend

----------------------------------------------------------------------------
(* The task *)

\* What a step makes of the task, when the ledger is left alone.
Proceeds(o) ==
    /\ \A i \in Owners \ {o} : exec'[i] = exec[i]
    /\ exec'[o].slot = exec[o].slot /\ exec'[o].pod = exec[o].pod
    /\ exec'[o].epoch = exec[o].epoch
    /\ exec'[o].native => exec'[o].state \in Held

\* A task that runs in its process goes on, or ends.
LEMMA TaskProceeds ==
  ASSUME TypeOKExecution, TaskInv, NEW o \in Owners, exec[o].state \in InTask,
         slot' = slot, Closes, Proceeds(o), exec'[o].state \notin {"unused", "calling"},
         exec'[o].state \in Held => exec[o].state \in Held,
         exec[o].state = "settling" => exec'[o].state \in Ended,
         \A c \in late' : c \in late \/ Sent(c)'
  PROVE  TaskInv'
<1>1. /\ exec[o].slot \in Slots /\ exec[o].pod \in Pods /\ Begun(o)
      /\ process[exec[o].pod].state \in Up /\ process[exec[o].pod].epoch = exec[o].epoch
      /\ exec[o].state \in Held => slot[exec[o].slot].state \in Engine
                                 /\ slot[exec[o].slot].owner = o
  BY TaskFacts DEF InTask, Begun
<1>2. Located(o)'
  BY <1>1 DEF Located, Proceeds, Closes
<1>3. Charging(o)'
  BY <1>1 DEF Charging, Proceeds
<1>4. Begun(o)' /\ (exec[o].state \in Ended => exec'[o].state \in Ended)
  BY DEF Begun, Ended, InTask
<1>. QED BY <1>1, <1>2, <1>3, <1>4, SlotsStand, TaskMoves DEF Proceeds

\* The steps that neither call the ledger nor lose a reply.
LEMMA LocalTasks ==
  ASSUME TypeOKExecution, TaskInv, NEW o \in Owners,
         \/ Cancelled(o) \/ Submit(o) \/ PreparationEnds(o) \/ EngineStarts(o)
         \/ EngineRejects(o) \/ EngineCompletes(o) \/ CompletionUnknown(o) \/ AbortFails(o)
         \/ StopObserved(o)
  PROVE  TaskInv'
<1>1. exec \in [Owners -> ExecRecord] /\ exec[o] \in ExecRecord
  BY DEF TypeOKExecution
<1>2. /\ exec[o].state \in InTask /\ slot' = slot /\ late' = late
  BY DEF Cancelled, Submit, PreparationEnds, EngineStarts, EngineRejects, EngineCompletes,
         CompletionUnknown, AbortFails, StopObserved, InTask, ledger, vars, requestVars
<1>3. exec[o].pod \in Pods /\ (exec[o].native => exec[o].state \in Held)
  BY <1>2 DEF InTask, TaskInv, Located
<1>4. Closes
  <2>1. CASE process' = process
    BY <2>1 DEF Closes
  <2>2. CASE process' = Close(exec[o].pod)
    BY <1>3, <2>2 DEF Close, Closes, Up, TypeOKExecution, ProcessRecord
  <2>. QED BY <2>1, <2>2 DEF Cancelled, Submit, PreparationEnds, EngineStarts, EngineRejects,
              EngineCompletes, CompletionUnknown, AbortFails, StopObserved
<1>5. ASSUME exec[o].state \in {"preparing", "submitting", "running", "uncertain"},
             NEW e \in ReservationEnd, Settling(o, e)
      PROVE  TaskInv'
  <2>1. Proceeds(o) /\ exec'[o].state = "settling"
    BY <1>1, <1>5 DEF Settling, Proceeds, ExecRecord
  <2>. QED BY <1>2, <1>4, <1>5, <2>1, TaskProceeds DEF Held
<1>6. ASSUME exec[o].state \in {"submitting", "running"}, NEW s \in {"running", "uncertain"},
             Become(o, s)
      PROVE  TaskInv'
  <2>1. Proceeds(o) /\ exec'[o].state = s
    BY <1>1, <1>6 DEF Become, Proceeds, ExecRecord, Held
  <2>. QED BY <1>2, <1>4, <1>6, <2>1, TaskProceeds DEF Held
<1>7. CASE Cancelled(o)
  <2>1. Proceeds(o) /\ exec'[o].state = exec[o].state
    BY <1>1, <1>3, <1>7 DEF Cancelled, Proceeds, ExecRecord
  <2>. QED BY <1>2, <1>4, <2>1, TaskProceeds DEF InTask, Ended
<1>8. CASE Submit(o)
  <2>1. Proceeds(o) /\ exec'[o].state = "submitting" /\ exec[o].state = "preparing"
    BY <1>1, <1>8 DEF Submit, Proceeds, ExecRecord, Held
  <2>. QED BY <1>2, <1>4, <2>1, TaskProceeds DEF Held
<1>9. CASE AbortFails(o)
  <2>1. Proceeds(o) /\ exec'[o].state = exec[o].state
    BY <1>1, <1>3, <1>9 DEF AbortFails, Proceeds
  <2>. QED BY <1>2, <1>4, <2>1, TaskProceeds DEF InTask, Ended
<1>. QED BY <1>5, <1>6, <1>7, <1>8, <1>9
         DEF PreparationEnds, EngineStarts, EngineRejects, EngineCompletes, CompletionUnknown,
             StopObserved, ReservationEnd

\* The steps that begin a task, or in which it talks to the ledger.
LEMMA LedgerTasks ==
  ASSUME LedgerInv, TypeOKExecution, TaskInv, NEW o \in Owners,
         \/ Arrive(o) \/ Refuse(o) \/ Claim(o) \/ ClaimLost(o) \/ Settle(o) \/ SettleLost(o)
  PROVE  TaskInv'
<1>1. /\ exec \in [Owners -> ExecRecord] /\ exec[o] \in ExecRecord
      /\ exec[o].slot \in Slots /\ exec[o].pod \in Pods
      /\ ~exec[o].native /\ Closes
  <2>1. exec[o].state \in {"calling", "claiming", "settling"} /\ process' = process
    BY DEF Arrive, Refuse, Claim, ClaimLost, Settle, SettleLost
  <2>. QED BY <2>1 DEF TypeOKExecution, TaskInv, Located, Held, Closes
<1>2. ASSUME NEW s \in ExecState, Become(o, s) PROVE Proceeds(o) /\ exec'[o].state = s
  BY <1>1, <1>2 DEF Become, Proceeds, ExecRecord
<1>3. ASSUME NEW e \in ReservationEnd, Settling(o, e)
      PROVE  Proceeds(o) /\ exec'[o].state = "settling"
  BY <1>1, <1>3 DEF Settling, Proceeds, ExecRecord
<1>4. CASE Arrive(o)
  <2>1. /\ exec'[o].state = "claiming" /\ exec'[o].epoch = process[exec[o].pod].epoch
        /\ exec'[o].slot = exec[o].slot /\ exec'[o].pod = exec[o].pod
        /\ exec'[o].native = exec[o].native /\ \A i \in Owners \ {o} : exec'[i] = exec[i]
    BY <1>1, <1>4 DEF Arrive, ExecRecord
  <2>2. process' = process /\ process[exec[o].pod].state = "serving" /\ slot' = slot
        /\ late' = late /\ ~Begun(o)
    BY <1>4 DEF Arrive, Begun, ledger, vars, requestVars
  <2>3. Located(o)' /\ Charging(o)'
    BY <1>1, <2>1, <2>2 DEF Located, Charging, Held, InTask, Up
  <2>. QED BY <1>1, <2>1, <2>2, <2>3, SlotsStand, TaskMoves
<1>5. CASE Refuse(o)
  <2>1. Proceeds(o) /\ exec'[o].state = "done"
    BY <1>2, <1>5 DEF Refuse, ExecState
  <2>2. slot' = slot /\ late' = late /\ ~Begun(o)
    BY <1>5 DEF Refuse, Begun, ledger, vars, requestVars
  <2>3. Located(o)' /\ Charging(o)'
    BY <1>1, <2>1 DEF Located, Charging, Held, InTask, Proceeds
  <2>. QED BY <1>1, <2>1, <2>2, <2>3, SlotsStand, TaskMoves DEF Proceeds
<1>6. CASE Claim(o)
  <2> DEFINE reply == AcceptReply(exec[o].slot, o, exec[o].pod, exec[o].epoch)
  <2>1. /\ Begun(o) /\ RunAccept(o) /\ process' = process /\ late' = late
        /\ exec[o].state = "claiming"
    BY <1>6 DEF Claim, Begun
  <2>2. /\ process[exec[o].pod].state \in Up /\ process[exec[o].pod].epoch = exec[o].epoch
    BY <2>1, TaskFacts DEF InTask
  <2>3. /\ Claims /\ \A x \in SlotsIn(Engine) : Stays(x)
        /\ reply = "ok" => slot'[exec[o].slot].state \in Engine /\ slot'[exec[o].slot].owner = o
    BY <2>1, AcceptEffect
  <2>4. /\ Proceeds(o) /\ exec'[o].state \in {"preparing", "refused", "settling"}
        /\ exec'[o].state = "preparing" => reply = "ok"
    BY <1>2, <1>3, <1>6 DEF Claim, ExecState, ReservationEnd
  <2>5. Located(o)'
    BY <1>1, <2>1, <2>2, <2>4 DEF Located, Proceeds
  <2>6. Charging(o)'
    BY <2>3, <2>4 DEF Charging, Proceeds, Held
  <2>7. Begun(o)' /\ exec[o].state \notin Ended
    BY <2>1, <2>4 DEF Begun, Ended
  <2>. QED BY <1>1, <2>1, <2>3, <2>4, <2>5, <2>6, <2>7, TaskMoves DEF Proceeds
<1>7. CASE ClaimLost(o)
  <2>1. /\ exec[o].state = "claiming" /\ slot' = slot /\ late' = late \cup {Accepting(o)}
    BY <1>7 DEF ClaimLost, ledger, vars, requestVars
  <2>2. Proceeds(o) /\ exec'[o].state \in {"claiming", "settling"}
    BY <1>1, <1>3, <1>7, <2>1 DEF ClaimLost, ReservationEnd, Proceeds
  <2>3. exec[o].epoch \in 1 .. MaxEngineEpoch
    BY <2>1, TaskFacts DEF InTask
  <2>4. Sent(Accepting(o))'
    BY <2>2, <2>3 DEF Sent, Accepting, Begun, Proceeds
  <2>. QED BY <1>1, <2>1, <2>2, <2>4, TaskProceeds DEF InTask, Held
<1>8. CASE Settle(o)
  <2>1. Begun(o) /\ exec[o].state = "settling" /\ RunEnd(o, exec[o].end) /\ late' = late
    BY <1>8 DEF Settle, Begun
  <2>2. Claims /\ \A x \in SlotsIn(Engine) : slot[x].owner # o => Stays(x)
    BY <2>1, EndEffect
  <2>3. Proceeds(o) /\ exec'[o].state = "done"
    BY <1>2, <1>8 DEF Settle, ExecState
  <2>4. Located(o)' /\ Charging(o)'
    BY <1>1, <2>3 DEF Located, Charging, Held, InTask, Proceeds
  <2>5. Begun(o)' /\ exec'[o].state \in Ended
    BY <2>3 DEF Begun, Ended
  <2>. QED BY <1>1, <2>1, <2>2, <2>3, <2>4, <2>5, TaskMoves DEF Proceeds
<1>9. CASE SettleLost(o)
  <2>1. /\ exec[o].state = "settling" /\ slot' = slot /\ late' = late \cup {Ending(o)}
        /\ exec' = exec
    BY <1>9 DEF SettleLost, ledger, vars, requestVars
  <2>2. Proceeds(o) /\ exec'[o].state = "settling"
    BY <1>1, <2>1 DEF Proceeds
  <2>3. Ending(o).owner = o /\ Ending(o).kind # "accept"
    BY <1>1 DEF Ending, ExecRecord, ReservationEnd
  <2>4. ASSUME NEW c \in late' PROVE c \in late \/ Sent(c)'
    BY <2>1, <2>3, <2>4 DEF Sent, Begun
  <2>. QED BY <1>1, <2>1, <2>2, <2>4, TaskProceeds DEF InTask, Held, Ended
<1>. QED BY <1>4, <1>5, <1>6, <1>7, <1>8, <1>9

----------------------------------------------------------------------------
(* The processes, the membership and the late commands *)

\* A task goes on as it was, perhaps without its engine, or is lost.
Survives(o) ==
    /\ exec'[o].slot = exec[o].slot /\ exec'[o].pod = exec[o].pod
    /\ exec'[o].epoch = exec[o].epoch /\ (exec'[o].native => exec[o].native)
    /\ \/ exec'[o].state = exec[o].state
       \/ exec[o].state \in InTask /\ exec'[o].state = "lost" /\ ~exec'[o].native

LEMMA ProcessesMove ==
  ASSUME TypeOKExecution, TaskInv, late' = late, Claims, \A p \in Pods : Numbered(p)',
         \A o \in Owners :
            /\ Survives(o)
            /\ exec'[o].state \in InTask =>
                  /\ process'[exec[o].pod].state \in Up
                  /\ process'[exec[o].pod].epoch = process[exec[o].pod].epoch
            /\ exec'[o].state \in Held => Stays(exec[o].slot)
  PROVE  TaskInv'
<1>1. Continues
  BY DEF Continues, Survives, Begun, Ended, InTask
<1>2. (\A x \in Slots : Owned(x)') /\ (\A c \in late' : Sent(c)')
  BY <1>1, Carried
<1>3. ASSUME NEW o \in Owners PROVE Located(o)' /\ Charging(o)'
  <2>1. Survives(o) /\ Located(o) /\ Charging(o)
    BY DEF TaskInv
  <2>2. Located(o)'
    BY <2>1 DEF Located, Survives, InTask
  <2>3. Charging(o)'
    BY <2>1 DEF Charging, Survives, Stays, Held
  <2>. QED BY <2>2, <2>3
<1>. QED BY <1>2, <1>3 DEF TaskInv

LEMMA ProcessTasks ==
  ASSUME LedgerInv, TypeOKExecution, TaskInv, NEW p \in Pods, Process(p)
  PROVE  TaskInv'
<1>1. /\ process \in [Pods -> ProcessRecord] /\ process[p] \in ProcessRecord
      /\ \A q \in Pods : Numbered(q)
      /\ \A o \in Owners : exec[o] \in ExecRecord /\ exec[o].pod \in Pods \cup {None}
  BY DEF TypeOKExecution, TaskInv, ExecRecord
<1>2. ASSUME NEW o \in Owners, exec[o].state \in InTask
      PROVE  exec[o].pod \in Pods /\ process[exec[o].pod].state \in Up
  BY <1>2, TaskFacts DEF InTask
<1>3. late' = late
  BY DEF Process, Boot, Register, Drain, StopEngine, Exit, EndPod
<1>4. ASSUME slot' = slot
      PROVE  Claims /\ \A o \in Owners : exec[o].state \in Held => Stays(exec[o].slot)
  BY <1>4, SlotsStand, HeldSlot
<1>5. exec' = exec => \A o \in Owners : Survives(o)
  BY DEF Survives
<1>6. CASE Boot(p) \/ EndPod(p)
  <2>1. /\ process[p].state \notin Up /\ \A q \in Pods \ {p} : process'[q] = process[q]
        /\ exec' = exec /\ slot' = slot
    BY <1>1, <1>6 DEF Boot, EndPod, Up, ledger, vars, requestVars
  <2>2. Numbered(p)'
    BY <1>1, <1>6, LedgerAssumption DEF Boot, EndPod, Numbered, ProcessRecord, Up
  <2>3. \A q \in Pods : Numbered(q)'
    BY <1>1, <2>1, <2>2 DEF Numbered
  <2>4. \A o \in Owners : exec[o].state \in InTask => process'[exec[o].pod] = process[exec[o].pod]
    BY <1>2, <2>1
  <2>. QED BY <1>2, <1>3, <1>4, <1>5, <2>1, <2>3, <2>4, ProcessesMove
<1>7. CASE Drain(p)
  <2>1. Closes /\ exec' = exec /\ slot' = slot
    BY <1>1, <1>7 DEF Drain, Close, Closes, ProcessRecord, Up, ledger, vars, requestVars
  <2>2. \A q \in Pods : Numbered(q)'
    BY <1>1, <2>1 DEF Numbered, Closes
  <2>. QED BY <1>2, <1>3, <1>4, <1>5, <2>1, <2>2, ProcessesMove DEF Closes
<1>8. CASE Register(p)
  <2>1. /\ process[p].state = "registering" /\ process'[p].epoch = process[p].epoch
        /\ process'[p].state = "serving" /\ \A q \in Pods \ {p} : process'[q] = process[q]
        /\ exec' = exec /\ process[p].epoch \in Nat
        /\ RecoverBackend(p, process[p].epoch) \/ slot' = slot
    BY <1>1, <1>8 DEF Register, ProcessRecord, ledger, vars, requestVars
  <2>2. \A q \in Pods : Numbered(q)'
    BY <1>1, <2>1 DEF Numbered, Up
  <2>3. \A o \in Owners : exec[o].state \in InTask =>
            exec[o].pod # p /\ process'[exec[o].pod] = process[exec[o].pod]
    BY <1>2, <2>1 DEF Up
  <2>4. /\ NoClaim
        /\ \A x \in SlotsIn(Engine) : slot[x].pod # p => Stays(x)
    BY <2>1, RecoverBackendStep, SlotsStand
  <2>5. ASSUME NEW o \in Owners, exec[o].state \in Held PROVE Stays(exec[o].slot)
    <3>1. exec[o].slot \in SlotsIn(Engine) /\ slot[exec[o].slot].owner = o
      BY <2>5, HeldSlot
    <3>2. slot[exec[o].slot].pod = exec[o].pod
      BY <3>1 DEF TaskInv, Owned, SlotsIn
    <3>. QED BY <2>3, <2>4, <2>5, <3>1, <3>2 DEF Held, InTask
  <2>6. Claims
    BY <2>4 DEF NoClaim, Claims
  <2>. QED BY <1>2, <1>3, <1>5, <2>1, <2>2, <2>3, <2>5, <2>6, ProcessesMove
<1>9. CASE StopEngine(p)
  <2>1. Closes /\ slot' = slot
    BY <1>1, <1>9 DEF StopEngine, Closes, ProcessRecord, Up, ledger, vars, requestVars
  <2>2. \A q \in Pods : Numbered(q)'
    BY <1>1, <2>1 DEF Numbered, Closes
  <2>3. \A o \in Owners : Survives(o) /\ exec'[o].state = exec[o].state
    BY <1>1, <1>9 DEF StopEngine, Survives, ExecRecord
  <2>. QED BY <1>2, <1>3, <1>4, <2>1, <2>2, <2>3, ProcessesMove DEF Closes
<1>10. CASE Exit(p)
  <2>1. /\ process'[p].epoch = process[p].epoch /\ process'[p].state = "down"
        /\ \A q \in Pods \ {p} : process'[q] = process[q]
        /\ exec' = Lost(p) /\ slot' = slot
    BY <1>1, <1>10 DEF Exit, ProcessRecord, ledger, vars, requestVars
  <2>2. \A q \in Pods : Numbered(q)'
    BY <1>1, <2>1 DEF Numbered, Up
  <2>3. ASSUME NEW o \in Owners
        PROVE  /\ Survives(o) /\ (exec'[o].state \in InTask => exec[o].pod # p)
               /\ exec'[o].state \in InTask => exec[o].state \in InTask
    <3>1. CASE exec[o].pod = p /\ exec[o].state \in InTask
      BY <1>1, <2>1, <3>1 DEF Lost, Survives, ExecRecord, InTask
    <3>2. CASE ~(exec[o].pod = p /\ exec[o].state \in InTask)
      BY <1>1, <2>1, <3>2 DEF Lost, Survives
    <3>. QED BY <3>1, <3>2
  <2>4. \A o \in Owners : exec'[o].state \in Held => exec[o].state \in Held
    BY <2>3 DEF Survives, Held
  <2>. QED BY <1>2, <1>3, <1>4, <2>1, <2>2, <2>3, <2>4, ProcessesMove
<1>. QED BY <1>6, <1>7, <1>8, <1>9, <1>10 DEF Process

\* A pod is unlisted only when its process has ended, and with it its tasks.
LEMMA PublishTasks ==
  ASSUME LedgerInv, OwnerInv, TypeOKExecution, TaskInv,
         NEW cfg \in Configs, NEW B \in SUBSET Pods, PublishPods(cfg, B)
  PROVE  TaskInv'
<1> DEFINE v == membershipVersion + 1
<1>1. v \in Nat /\ v > membershipVersion /\ ApplyMembership(v, Frontends, B)
  BY DEF PublishPods, Publish, LedgerInv, TypeOK
<1>2. /\ backends' = B /\ NoClaim
      /\ \A x \in SlotsIn(Engine) : slot[x].pod \in backends' => Stays(x)
  BY <1>1, ApplyMembershipStep DEF ApplyMembership
<1>3. /\ exec' = exec /\ late' = late
      /\ process \in [Pods -> ProcessRecord] /\ \A p \in Pods : Numbered(p)
      /\ \A p \in backends \ B : process[p].state = "gone"
      /\ process' = [p \in Pods |-> IF p \in backends \ B
                                    THEN [process[p] EXCEPT !.state = "removed"] ELSE process[p]]
  BY DEF PublishPods, TypeOKExecution, TaskInv
<1>4. \A p \in Pods : Numbered(p)' /\ (process[p].state \in Up => process'[p] = process[p])
  BY <1>3 DEF Numbered, ProcessRecord, Up
<1>5. ASSUME NEW o \in Owners, exec[o].state \in InTask
      PROVE  exec[o].pod \in Pods /\ process[exec[o].pod].state \in Up
  BY <1>5, TaskFacts DEF InTask
<1>6. ASSUME NEW o \in Owners, exec[o].state \in Held PROVE Stays(exec[o].slot)
  <2>1. exec[o].slot \in SlotsIn(Engine) /\ slot[exec[o].slot].owner = o
    BY <1>6, HeldSlot
  <2>2. slot[exec[o].slot].pod = exec[o].pod
    BY <2>1 DEF TaskInv, Owned, SlotsIn
  <2>3. exec[o].pod \in backends
    BY <2>1, <2>2 DEF OwnerInv, EngineWorkIsLocated
  <2>4. process[exec[o].pod].state # "gone"
    BY <1>5, <1>6 DEF Held, InTask, Up
  <2>. QED BY <1>2, <1>3, <2>1, <2>2, <2>3, <2>4
<1>7. Claims /\ \A o \in Owners : Survives(o)
  BY <1>2, <1>3 DEF NoClaim, Claims, Survives
<1>. QED BY <1>3, <1>4, <1>5, <1>6, <1>7, ProcessesMove

\* A command that is executed late can take a free slot for its task, which the
\* task has asked for, or end work that its task does not hold any more.
LEMMA LateTasks ==
  ASSUME LedgerInv, TypeOKExecution, TaskInv, NEW c \in late, RunLate(c) \/ LoseLate(c)
  PROVE  TaskInv'
<1>1. /\ exec' = exec /\ process' = process /\ late' \subseteq late
      /\ c.owner \in Owners /\ Sent(c)
  BY DEF RunLate, LoseLate, TypeOKExecution, CommandRecord, TaskInv
<1>2. CASE LoseLate(c)
  <2>1. slot' = slot
    BY <1>2 DEF LoseLate, ledger, vars, requestVars
  <2>. QED BY <1>1, <2>1, SlotsStand, Quiet
<1>3. CASE RunLate(c) /\ c.kind = "accept"
  <2>1. Claims /\ \A x \in SlotsIn(Engine) : Stays(x)
    BY <1>1, <1>3, AcceptEffect DEF RunLate, Sent
  <2>. QED BY <1>1, <2>1, HeldSlot, TasksStand
<1>4. CASE RunLate(c) /\ c.kind # "accept"
  <2>1. Begun(c.owner) /\ RunEnd(c.owner, c.kind) /\ exec[c.owner].state \notin Held
    BY <1>1, <1>4 DEF RunLate, Sent, Held
  <2>2. Claims /\ \A x \in SlotsIn(Engine) : slot[x].owner # c.owner => Stays(x)
    BY <1>1, <2>1, EndEffect
  <2>3. \A o \in Owners : exec[o].state \in Held => Stays(exec[o].slot)
    BY <2>1, <2>2, HeldSlot
  <2>. QED BY <1>1, <2>2, <2>3, TasksStand
<1>. QED BY <1>2, <1>3, <1>4

----------------------------------------------------------------------------
(* The whole system *)

LEMMA InitExec == InitExecution => ExecInv
<1> SUFFICES ASSUME InitExecution PROVE ExecInv
  OBVIOUS
<1>1. LedgerOwned
  BY InitLedger, InitOwner DEF InitExecution, LedgerOwned
<1>2. NoExec \in ExecRecord /\ [state |-> "down", epoch |-> 0] \in ProcessRecord
  BY DEF NoExec, ExecRecord, ExecState, ReservationEnd, ProcessRecord, ProcessState
<1>3. TypeOKExecution
  BY <1>2 DEF InitExecution, TypeOKExecution, CallState
<1>4. \A o \in Owners : Located(o) /\ Charging(o)
  BY DEF InitExecution, NoExec, Located, Charging, Held, InTask
<1>5. \A x \in Slots : Owned(x)
  BY DEF InitExecution, Init, NoSlot, Owned, Engine
<1>6. \A p \in Pods : Numbered(p)
  BY LedgerAssumption DEF InitExecution, Numbered, Up
<1>7. \A c \in late : Sent(c)
  BY DEF InitExecution
<1>. QED BY <1>1, <1>3, <1>4, <1>5, <1>6, <1>7 DEF ExecInv, TaskInv

LEMMA NextExec == ExecInv /\ [NextExecution]_allVars => ExecInv' /\ [Next]_vars
<1> SUFFICES ASSUME ExecInv, [NextExecution]_allVars PROVE ExecInv' /\ [Next]_vars
  OBVIOUS
<1>1. LedgerInv /\ OwnerInv /\ TypeOKExecution /\ TaskInv
  BY DEF ExecInv, LedgerOwned
<1>2. [Next]_vars
  BY <1>1, ExecutionDrivesLedger
<1>3. LedgerOwned'
  BY <1>1, <1>2, NextLedger, NextOwner DEF LedgerOwned
<1>4. TypeOKExecution'
  BY <1>1, TypeStepExecution
<1>5. TaskInv'
  <2>1. ASSUME NEW o \in Owners, Task(o) PROVE TaskInv'
    BY <1>1, <2>1, LocalTasks, LedgerTasks DEF Task
  <2>2. CASE UNCHANGED allVars
    <3>1. slot' = slot /\ UNCHANGED <<exec, process, late>>
      BY <2>2 DEF allVars, tasks, ledger, vars, requestVars
    <3>. QED BY <1>1, <3>1, SlotsStand, Quiet
  <2>. QED BY <1>1, <2>1, <2>2, FrontendTasks, ProcessTasks, PublishTasks, LateTasks
           DEF NextExecution
<1>. QED BY <1>2, <1>3, <1>4, <1>5 DEF ExecInv

\* The tasks, processes and connections use the ledger only through its
\* transitions: whatever they do, the ledger behaves as RequestLedger says, and so
\* its counters are exact and its limits hold in the whole system.
THEOREM ExecutionImplementsLedger == SpecExecution => Spec
<1>1. InitExecution => ExecInv /\ Init
  BY InitExec DEF InitExecution
<1>2. ExecInv /\ [NextExecution]_allVars => ExecInv' /\ [Next]_vars
  BY NextExec
<1>. QED BY <1>1, <1>2, PTL DEF SpecExecution, Spec

\* Every permit, task and process is in a state the code has a name for.
THEOREM ExecutionType == SpecExecution => []TypeOKExecution
<1>1. ExecInv => TypeOKExecution
  BY DEF ExecInv
<1>. QED BY <1>1, InitExec, NextExec, PTL DEF SpecExecution

\* Work that an engine may be running (begin_submission has succeeded and the end
\* is not known) is charged in the ledger to the execution that submitted it.
THEOREM NativeWorkCharged == SpecExecution => []NativeWorkIsCharged
<1>1. ExecInv => NativeWorkIsCharged
  BY DEF ExecInv, TaskInv, Located, Charging, NativeWorkIsCharged
<1>. QED BY <1>1, InitExec, NextExec, PTL DEF SpecExecution

=============================================================================
