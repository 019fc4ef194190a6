-------------------------- MODULE PlatformInstall ---------------------------
(***************************************************************************)
(* PlatformLifecycle._prepare_installation: five stages in a thread pool    *)
(* and the calling thread prepare what the platform's chart needs.  Stages  *)
(* wait for the futures of others, the delivery of source images waits for  *)
(* a future that the calling thread resolves, and any of them may fail, or  *)
(* the caller be interrupted.                                               *)
(*                                                                          *)
(* The commands of all threads belong to one CommandExecution, the first    *)
(* section.  A thread enters the operation as a stage, runs commands, each  *)
(* a process group, and leaves.  The first failure that leaves a stage      *)
(* cancels the operation: every registered process group is stopped and     *)
(* every stage ends with that first failure.                                *)
(***************************************************************************)
EXTENDS Naturals, FiniteSets, Sequences

CONSTANTS Threads, None

(* CommandExecution *)

VARIABLES
    at,        \* where each thread is in its stage
    cmd,       \* the number of commands each thread has started
    err,       \* the exception that propagates in the thread, or that left it
    live,      \* the process groups that exist, <<thread, number>>
    callbacks, \* _callbacks: the process groups registered to be stopped
    cancelled, \* _cancelled
    error,     \* _error
    stops      \* what a thread in cancel() still has to see stopped

execVars == <<at, cmd, err, live, callbacks, cancelled, error, stops>>

Proc(t) == <<t, cmd[t]>>

\* the threads of `inside` have entered, those of the other stages not yet
ExecInit(inside) ==
    /\ at = [t \in Threads |-> IF t \in inside THEN "work" ELSE "out"]
    /\ cmd = [t \in Threads |-> 0]
    /\ err = [t \in Threads |-> None]
    /\ live = {} /\ callbacks = {}
    /\ cancelled = FALSE /\ error = None
    /\ stops = [t \in Threads |-> {}]

Go(t, where, exception) ==
    /\ at' = [at EXCEPT ![t] = where]
    /\ err' = [err EXCEPT ![t] = exception]

\* run_stage, __enter__: a stage of a cancelled operation does not begin
Enter(t) ==
    /\ at[t] = "out"
    /\ IF cancelled THEN Go(t, "raised", error) ELSE Go(t, "work", None)
    /\ UNCHANGED <<cmd, live, callbacks, cancelled, error, stops>>

\* process(): check(), then Popen; not yet registered
Spawn(t) ==
    /\ at[t] = "work"
    /\ IF cancelled
       THEN Go(t, "failing", error) /\ UNCHANGED <<cmd, live>>
       ELSE /\ Go(t, "spawned", None)
            /\ cmd' = [cmd EXCEPT ![t] = @ + 1]
            /\ live' = live \union {<<t, cmd[t] + 1>>}
    /\ UNCHANGED <<callbacks, cancelled, error, stops>>

\* Mutant of Register: it does not look whether the operation is cancelled.
RegisterBlind(t) ==
    /\ at[t] = "spawned"
    /\ Go(t, "running", None) /\ callbacks' = callbacks \union {Proc(t)}
    /\ UNCHANGED <<cmd, live, cancelled, error, stops>>

\* register(): a process that was born while the operation was cancelled is
\* stopped by its own thread
Register(t) ==
    /\ at[t] = "spawned"
    /\ IF cancelled
       THEN Go(t, "stopping", error) /\ UNCHANGED callbacks
       ELSE Go(t, "running", None) /\ callbacks' = callbacks \union {Proc(t)}
    /\ UNCHANGED <<cmd, live, cancelled, error, stops>>

\* The process has ended, by itself or stopped, communicate() returns and the
\* caller judges the exit status; a process that was stopped may as well have
\* completed its write before.
Completed(t, ok) ==
    /\ at[t] = "running"
    /\ live' = live \ {Proc(t)}
    /\ IF ok THEN Go(t, "work", None) ELSE Go(t, "failing", t)
    /\ callbacks' = callbacks \ {Proc(t)}
    /\ UNCHANGED <<cmd, cancelled, error, stops>>

\* TimeoutExpired: cleanup(stop) before the exception goes on
Timeout(t) ==
    /\ at[t] = "running" /\ Proc(t) \in live
    /\ Go(t, "stopping", t)
    /\ UNCHANGED <<cmd, live, callbacks, cancelled, error, stops>>

\* stop(): interrupt signal, grace, SIGKILL, wait; called by the owner of the
\* process or by a thread in cancel()
Stop(p) ==
    /\ p \in live
    /\ \E t \in Threads : p \in stops[t] \/ (at[t] = "stopping" /\ p = Proc(t))
    /\ live' = live \ {p}
    /\ UNCHANGED <<at, cmd, err, callbacks, cancelled, error, stops>>

Stopped(t) ==
    /\ at[t] = "stopping" /\ Proc(t) \notin live
    /\ Go(t, "failing", err[t])
    /\ callbacks' = callbacks \ {Proc(t)}
    /\ UNCHANGED <<cmd, live, cancelled, error, stops>>

\* __exit__ with an exception, cancel(): the first failure is kept and what is
\* registered at that moment is stopped
Cancel(t) ==
    /\ at[t] = "failing"
    /\ IF cancelled
       THEN Go(t, "raised", error) /\ UNCHANGED <<cancelled, error, stops>>
       ELSE /\ cancelled' = TRUE /\ error' = err[t]
            /\ stops' = [stops EXCEPT ![t] = callbacks]
            /\ Go(t, "cancelling", err[t])
    /\ UNCHANGED <<cmd, live, callbacks>>

\* every callback of cancel() has returned; what leaves is the first failure
Cancelled(t) ==
    /\ at[t] = "cancelling" /\ stops[t] \intersect live = {}
    /\ Go(t, "raised", error)
    /\ stops' = [stops EXCEPT ![t] = {}]
    /\ UNCHANGED <<cmd, live, callbacks, cancelled, error>>

\* __exit__ without an exception: check()
Exit(t) ==
    /\ at[t] = "work"
    /\ IF cancelled THEN Go(t, "raised", error) ELSE Go(t, "returned", None)
    /\ UNCHANGED <<cmd, live, callbacks, cancelled, error, stops>>

\* When cancel() is over, no thread waits any more for a process that runs on:
\* a process that was started meanwhile is stopped by the thread that started it.
CancelIsComplete ==
    cancelled /\ (\A t \in Threads : at[t] # "cancelling") =>
        \A t \in Threads : at[t] = "running" => Proc(t) \notin live

----------------------------------------------------------------------------
(* The stages of the installation *)

CONSTANTS Main, Network, LeaderWorker, Applications, Prometheus, Logs,
          Dependencies, Interrupt,
          Scenarios \* bound: which two threads run commands that take time or fail,
                    \* and whether images are built and the log charts deferred

Workers == {Network, LeaderWorker, Applications, Prometheus, Logs}

VARIABLES
    slow,          \* the threads whose commands take time; those of the others succeed at once
    source,        \* command.editable is given: images are built and delivered
    deferred,      \* the log charts need Prometheus first
    queue,         \* submitted stages that no worker has taken yet
    step,          \* step[t]: the steps of its body that t has completed
    dependencies,  \* the future: "pending", "done", or the exception it got
    genuine,       \* history: who failed by itself, before the operation was cancelled
    ended          \* the pool is joined: the scopes of the command may be closed

vars == <<at, cmd, err, live, callbacks, cancelled, error, stops,
          slow, source, deferred, queue, step, dependencies, genuine, ended>>

MaxWorkers == 5

Run == [op |-> "run", on |-> None]
Wait(f) == [op |-> "wait", on |-> f]
Do(op) == [op |-> op, on |-> None]

PrepareNetwork == <<Run, Run>>

PrepareApplications ==
    <<Run, Wait(Network), Wait(LeaderWorker), Run>>
        \o (IF source THEN <<Wait(Dependencies), Run>> ELSE <<>>)

\* the calling thread: exporters, Prometheus, targets, logs, network,
\* LeaderWorkerSet, then the delivery of the applications
Prepare ==
    <<Run, Wait(Prometheus)>>
        \o (IF deferred THEN <<Do("submit")>> ELSE <<>>)
        \o <<Run, Wait(Logs), Wait(Network), Wait(LeaderWorker),
             Do("resolve"), Wait(Applications)>>

Stage(t) ==
    CASE t = Main -> Prepare
      [] t = Network -> PrepareNetwork
      [] t = Applications -> PrepareApplications
      [] OTHER -> <<Run>>

Body(t) == SelectSeq(Stage(t), LAMBDA s : s.op = "run" => t \in slow)

Init ==
    /\ ExecInit({Main})
    /\ \E s \in Scenarios : slow = s.slow /\ source = s.source /\ deferred = s.deferred
    /\ queue = <<Network, LeaderWorker, Applications, Prometheus>>
                   \o (IF deferred THEN <<>> ELSE <<Logs>>)
    /\ step = [t \in Threads |-> 0]
    /\ dependencies = "pending" /\ genuine = {} /\ ended = FALSE

More(t) == step[t] < Len(Body(t))
Now(t) == Body(t)[step[t] + 1]

Idle == UNCHANGED <<slow, source, deferred, dependencies, genuine, ended>>

Advance(t) == step' = [step EXCEPT ![t] = @ + 1]

Left(t) == at[t] \in {"raised", "returned"}

\* a worker of the pool takes the oldest stage
Start(t) ==
    /\ queue # <<>> /\ t = Head(queue) /\ queue' = Tail(queue)
    /\ Cardinality({w \in Workers : at[w] # "out" /\ ~Left(w)}) < MaxWorkers
    /\ Enter(t) /\ Idle /\ UNCHANGED step

Command(t) ==
    /\ at[t] = "work" /\ More(t) /\ Now(t).op = "run"
    /\ Spawn(t) /\ Idle /\ UNCHANGED <<queue, step>>

Finish(t, ok) ==
    /\ Completed(t, ok)
    /\ IF ok THEN Advance(t) ELSE UNCHANGED step
    /\ genuine' = IF ok \/ cancelled THEN genuine ELSE genuine \union {t}
    /\ UNCHANGED <<slow, source, deferred, dependencies, ended, queue>>

Expire(t) ==
    /\ Timeout(t)
    /\ genuine' = IF cancelled THEN genuine ELSE genuine \union {t}
    /\ UNCHANGED <<slow, source, deferred, dependencies, ended, queue, step>>

\* future.result(): returns, or raises in the waiting stage what the future got
Result(t) ==
    LET f == Now(t).on
        failure == IF f = Dependencies THEN dependencies \in Threads \union {Interrupt}
                   ELSE at[f] = "raised"
        cause == IF f = Dependencies THEN dependencies ELSE err[f]
        value == IF f = Dependencies THEN dependencies = "done" ELSE at[f] = "returned"
    IN
    /\ at[t] = "work" /\ More(t) /\ Now(t).op = "wait"
    /\ \/ value /\ Advance(t) /\ UNCHANGED <<at, err>>
       \/ failure /\ Go(t, "failing", cause) /\ UNCHANGED step
    /\ UNCHANGED <<cmd, live, callbacks, cancelled, error, stops, queue>> /\ Idle

SubmitLogs ==
    /\ at[Main] = "work" /\ More(Main) /\ Now(Main).op = "submit"
    /\ queue' = Append(queue, Logs) /\ Advance(Main)
    /\ UNCHANGED execVars /\ Idle

Resolve ==
    /\ at[Main] = "work" /\ More(Main) /\ Now(Main).op = "resolve"
    /\ dependencies' = "done" /\ Advance(Main)
    /\ UNCHANGED execVars /\ UNCHANGED <<slow, source, deferred, genuine, ended, queue>>

\* the stage is over
Return(t) == ~More(t) /\ Exit(t) /\ Idle /\ UNCHANGED <<queue, step>>

Interrupted ==
    /\ More(Main)
    /\ \/ at[Main] = "work" /\ Go(Main, "failing", Interrupt)
       \/ at[Main] = "running" /\ Go(Main, "stopping", Interrupt)
    /\ UNCHANGED <<cmd, live, callbacks, cancelled, error, stops, queue, step>> /\ Idle

\* Mutant of Handle: it cancels and leaves the future pending.
HandleNoFuture ==
    /\ at[Main] = "failing" /\ dependencies = "pending"
    /\ dependencies' = "forgotten"
    /\ UNCHANGED execVars /\ UNCHANGED <<slow, source, deferred, genuine, ended, queue, step>>

\* except BaseException: the delivery must not wait for a future nobody resolves
Handle ==
    /\ at[Main] = "failing" /\ dependencies = "pending"
    /\ dependencies' = err[Main]
    /\ UNCHANGED execVars /\ UNCHANGED <<slow, source, deferred, genuine, ended, queue, step>>

Fail(t) ==
    /\ t = Main => dependencies # "pending"
    /\ \/ Cancel(t)
       \/ Cancelled(t)
    /\ Idle /\ UNCHANGED <<queue, step>>

\* finally: workers.shutdown(wait=True), also for the stages still queued
Shutdown ==
    /\ Left(Main) /\ ~ended /\ queue = <<>>
    /\ \A w \in Workers : at[w] = "out" \/ Left(w)
    /\ ended' = TRUE
    /\ UNCHANGED execVars /\ UNCHANGED <<slow, source, deferred, dependencies, genuine, queue, step>>

Step(t) ==
    \/ Start(t) \/ Command(t)
    \/ Register(t) /\ Idle /\ UNCHANGED <<queue, step>>
    \/ Proc(t) \notin live /\ \E ok \in BOOLEAN : Finish(t, ok)
    \/ Result(t) \/ Return(t)
    \/ Stopped(t) /\ Idle /\ UNCHANGED <<queue, step>>
    \/ Fail(t)

Kill == \E p \in live : Stop(p) /\ Idle /\ UNCHANGED <<queue, step>>

FinishAny(t) == \E ok \in BOOLEAN : Finish(t, ok)

Next ==
    \/ \E t \in Threads : Step(t) \/ Expire(t) \/ FinishAny(t)
    \/ Kill \/ SubmitLogs \/ Resolve \/ Interrupted \/ Handle \/ Shutdown

\* threads and signals make progress; commands may run for ever
Spec ==
    /\ Init /\ [][Next]_vars
    /\ \A t \in Threads : WF_vars(Step(t))
    /\ WF_vars(Kill) /\ WF_vars(SubmitLogs) /\ WF_vars(Resolve)
    /\ WF_vars(Handle) /\ WF_vars(Shutdown)

\* workers.shutdown(wait=True): once the command goes on to install the chart or
\* to close its scopes, no process and no stage of the preparation is left.
NothingOutlivesPreparation ==
    ended => live = {} /\ \A w \in Workers : at[w] = "out" \/ Left(w)

\* The preparation succeeds only if each stage did, whichever future the calling
\* thread happened to wait for.
NoFailureIsLost ==
    at[Main] = "returned" => ~cancelled /\ \A w \in Workers : at[w] = "returned"

\* The failure reported is one that happened by itself, never that of a command
\* which was stopped because of it.
ReportedIsGenuine ==
    at[Main] = "raised" /\ err[Main] # Interrupt => err[Main] \in genuine

Withdrawn == cancelled
Joined == ended

\* Where every command ends the preparation ends: the pool has a worker for each
\* stage, so that none waits for a future whose stage waits for a worker.
PreparationEnds == <>Joined
=============================================================================
