------------------------------- MODULE MCLive -------------------------------
(***************************************************************************)
(* What has to happen eventually, in the components whose scheduling the   *)
(* code determines. The components share no state, so one run checks them  *)
(* side by side: part names the component that moves, and x1 to x16 are    *)
(* its variables.                                                          *)
(***************************************************************************)
EXTENDS Integers, Sequences, FiniteSets, TLC

CONSTANT None

\* the component that moves, and its variables in the order of its vars
VARIABLES part, x1, x2, x3, x4, x5, x6, x7, x8, x9, x10, x11, x12, x13, x14,
          x15, x16

all == <<part, x1, x2, x3, x4, x5, x6, x7, x8, x9, x10, x11, x12, x13, x14, x15,
        x16>>

Threads ==
    {"main", "network", "leader_worker", "applications", "prometheus", "logs"}

Scenario(who, later) == [slow |-> who, source |-> TRUE, deferred |-> later]

Line(kind, calls, results) ==
    [kind |-> kind, calls |-> calls, results |-> results, listed |-> TRUE]

RawLines == {Line("message", {1}, {}), Line("message", {}, {1}),
             Line("execution", {}, {}), Line("malformed", {}, {})}

\* Two commands on one machine.
M == INSTANCE DeploymentMutation WITH
        Ops <- {"a", "b"},
        Host <- [o \in {"a", "b"} |-> "here"],
        MaxUid <- 1,
        MaxStatus <- 0,
        root <- x1, pc <- x2, seen <- x3, pinned <- x4, receipt <- x5,
        child <- x6, file <- x7, wire <- x8, reply <- x9, did <- x10,
        env <- x11

\* A collector that is stopped or killed.
G == INSTANCE GpuUsage WITH
        Collectors <- {1},
        Interval <- 2,
        Deadline <- 4,
        Readings <- {0},
        MaxTime <- 3,
        Stoppable <- {1},
        MaxSteps <- 1,
        wall <- x1, mono <- x2, steps <- x3, phase <- x4, tick <- x5,
        file <- x6, torn <- x7, stop <- x8

\* A reader, and an agent that writes three lines.
S == INSTANCE SessionRecords WITH
        Raw <- RawLines,
        MaxLines <- 2,
        Limit <- 2,
        Length <- 2,
        file <- x1, tail <- x2, list <- x3, shown <- x4

\* Two installations of one release.
R == INSTANCE ApplicationRelease WITH
        Installers <- {"a", "b"},
        Components <- {"frontend"},
        Versions <- {"v1"},
        Seconds <- 1,
        HistoryMax <- 1,
        MaxRollbacks <- 0,
        Interruptible <- FALSE,
        dir <- x1, job <- x2, uids <- x3, inflight <- x4, history <- x5,
        rollbacks <- x6, using <- x7, inst <- x8

\* An init container.
D == INSTANCE ApplicationDownload WITH
        Files <- {"engine", "python", "rust"},
        Reference <- "selected",
        Other <- "other",
        MaxFaults <- 2,
        at <- x1, staging <- x2, current <- x3, todo <- x4, faults <- x5

\* An installation whose commands may run for ever.
C == INSTANCE PlatformInstall WITH
        Threads <- Threads,
        Main <- "main",
        Network <- "network",
        LeaderWorker <- "leader_worker",
        Applications <- "applications",
        Prometheus <- "prometheus",
        Logs <- "logs",
        Dependencies <- "dependencies",
        Interrupt <- "interrupt",
        Scenarios <- {Scenario({"applications"}, FALSE)},
        at <- x1, cmd <- x2, err <- x3, live <- x4, callbacks <- x5,
        cancelled <- x6, error <- x7, stops <- x8, slow <- x9, source <- x10,
        deferred <- x11, queue <- x12, step <- x13, dependencies <- x14,
        genuine <- x15, ended <- x16

\* An installation whose commands end.
I == INSTANCE PlatformInstall WITH
        Threads <- Threads,
        Main <- "main",
        Network <- "network",
        LeaderWorker <- "leader_worker",
        Applications <- "applications",
        Prometheus <- "prometheus",
        Logs <- "logs",
        Dependencies <- "dependencies",
        Interrupt <- "interrupt",
        Scenarios <- {Scenario({"prometheus", "logs"}, TRUE)},
        at <- x1, cmd <- x2, err <- x3, live <- x4, callbacks <- x5,
        cancelled <- x6, error <- x7, stops <- x8, slow <- x9, source <- x10,
        deferred <- x11, queue <- x12, step <- x13, dependencies <- x14,
        genuine <- x15, ended <- x16

\* a step of one of the parts
Lock(A) == part = "lock" /\ A /\ UNCHANGED <<part, x12, x13, x14, x15, x16>>
Collector(A) == part = "collector" /\ A /\ UNCHANGED <<part, x9, x10, x11,
            x12, x13, x14, x15, x16>>
Records(A) == part = "records" /\ A /\ UNCHANGED <<part, x5, x6, x7, x8, x9,
            x10, x11, x12, x13, x14, x15, x16>>
Release(A) == part = "release" /\ A /\ UNCHANGED <<part, x9, x10, x11, x12,
            x13, x14, x15, x16>>
Download(A) == part = "download" /\ A /\ UNCHANGED <<part, x6, x7, x8, x9,
            x10, x11, x12, x13, x14, x15, x16>>
Cancel(A) == part = "cancel" /\ A /\ UNCHANGED part
Install(A) == part = "install" /\ A /\ UNCHANGED part

Init == \/ /\ part = "lock" /\ M!Init
           /\ x12 = None /\ x13 = None /\ x14 = None /\ x15 = None
           /\ x16 = None
        \/ /\ part = "collector" /\ G!Init
           /\ x9 = None /\ x10 = None /\ x11 = None /\ x12 = None
           /\ x13 = None /\ x14 = None /\ x15 = None /\ x16 = None
        \/ /\ part = "records" /\ S!Init
           /\ x5 = None /\ x6 = None /\ x7 = None /\ x8 = None /\ x9 = None
           /\ x10 = None /\ x11 = None /\ x12 = None /\ x13 = None
           /\ x14 = None /\ x15 = None /\ x16 = None
        \/ /\ part = "release" /\ R!Init
           /\ x9 = None /\ x10 = None /\ x11 = None /\ x12 = None
           /\ x13 = None /\ x14 = None /\ x15 = None /\ x16 = None
        \/ /\ part = "download" /\ D!Init
           /\ x6 = None /\ x7 = None /\ x8 = None /\ x9 = None /\ x10 = None
           /\ x11 = None /\ x12 = None /\ x13 = None /\ x14 = None
           /\ x15 = None /\ x16 = None
        \/ part = "cancel" /\ C!Init
        \/ part = "install" /\ I!Init

Next == \/ Lock(M!Next)
        \/ Collector(G!Next)
        \/ Records(S!Next)
        \/ Release(R!Next)
        \/ Download(D!Next)
        \/ Cancel(C!Next)
        \/ Install(I!Next)

\* The fairness of each component, for its part.  Threads, processes and the API
\* server make progress; nobody has to crash, to write or to ask.  A condition over
\* several parts is that of each of them: a part is never left.
Fairness ==
    /\ \A o \in {"a", "b"} :
          /\ WF_all(Lock(M!Command(o)) \/ Release(R!Cleanup(o)))
          /\ WF_all(Lock(M!Choose(o)))
          /\ WF_all(Lock(M!ChildExits(o)))
          /\ WF_all(Lock(M!GiveUpOnError(o)))
    /\ \A t \in Threads :
          /\ WF_all(Cancel(C!Step(t)) \/ Install(I!Step(t)))
          /\ WF_all(Install(I!FinishAny(t)))
    /\ WF_all(Lock(M!Serve) \/ Cancel(C!Kill) \/ Install(I!Kill) \/ Release(R!Tick))
    /\ WF_all(Cancel(C!SubmitLogs) \/ Install(I!SubmitLogs) \/ Release(R!JobFails))
    /\ WF_all(Cancel(C!Resolve) \/ Install(I!Resolve) \/ Release(R!JobGone))
    /\ WF_all(Cancel(C!Handle) \/ Install(I!Handle))
    /\ WF_all(Cancel(C!Shutdown) \/ Install(I!Shutdown))
    /\ WF_all(Collector(G!Work(1)) \/ Records(S!ShowNext) \/ Download(D!Step))

Spec == Init /\ [][Next]_all /\ Fairness

\* A holder that has no process left does not keep the instance locked while a
\* command on its machine waits for it.
OrphansAreRecovered ==
    (part = "lock" /\ M!Orphaned("a")) ~> (part = "lock" => M!Recovered("a"))

\* The one name of release imports becomes free again, also when its installer
\* was killed or never learned that it owns the Job.
SlotIsFreed == []<>(part = "release" => R!Free)

\* What was begun comes to an end.  A collector that is asked to stop stops in whatever
\* state of its loop; a reader that asks for page after page reaches the end of the
\* evidence while the agent writes on; when faults end the application is installed; a
\* cancelled preparation ends though its commands would run for ever; and one whose
\* commands end does so too, since the pool has a worker for each stage.
WorkEnds ==
    /\ (part = "collector" /\ G!Stopping(1)) ~> (part = "collector" => ~G!Stopping(1))
    /\ (part = "records" /\ S!Reading) ~> (part = "records" => ~S!Reading)
    /\ (part = "cancel" /\ C!Withdrawn) ~> (part = "cancel" => C!Joined)
    /\ <>(part = "download" => D!Started)
    /\ <>(part = "install" => I!Joined)
=============================================================================
