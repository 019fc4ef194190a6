--------------------------- MODULE MCApplications ---------------------------
(***************************************************************************)
(* The applications of the platform and their installation: builds and     *)
(* releases, the init containers that download them, the stages of an      *)
(* installation and the choice of download sources. The components share   *)
(* no state, so one run checks them side by side: part names the component *)
(* that moves, and x1 to x16 are its variables.                            *)
(***************************************************************************)
EXTENDS Integers, Sequences, FiniteSets, TLC

CONSTANT None

\* the component that moves, and its variables in the order of its vars
VARIABLES part, x1, x2, x3, x4, x5, x6, x7, x8, x9, x10, x11, x12, x13, x14,
          x15, x16

all == <<part, x1, x2, x3, x4, x5, x6, x7, x8, x9, x10, x11, x12, x13, x14, x15,
        x16>>

CONSTANTS i1, i2, v1, v2, v3

\* the installers and the versions of a release are alike; no other part has them
Symmetric == Permutations({i1, i2}) \union Permutations({v1, v2, v3})

PartsOf(c) == CASE c = "control-plane" -> {"go"}
                [] c = "frontend" -> {"rust"}
                [] OTHER -> {"python", "rust"}

Threads ==
    {"main", "network", "leader_worker", "applications", "prometheus", "logs"}

Scenario(who, build, later) == [slow |-> who, source |-> build, deferred |-> later]

Scenarios == {
    Scenario({"main", "applications"}, TRUE, FALSE),
    Scenario({"prometheus", "applications"}, TRUE, TRUE),
    Scenario({"network", "logs"}, FALSE, TRUE),
    Scenario({"leader_worker", "prometheus"}, TRUE, FALSE),
    Scenario({"leader_worker", "applications"}, TRUE, FALSE)}

\* Two installations of any of three releases; Helm keeps two.
R == INSTANCE ApplicationRelease WITH
        Installers <- {i1, i2},
        Components <- {"frontend"},
        Versions <- {v1, v2, v3},
        Seconds <- 1,
        HistoryMax <- 2,
        MaxRollbacks <- 1,
        Interruptible <- FALSE,
        dir <- x1, job <- x2, uids <- x3, inflight <- x4, history <- x5,
        rollbacks <- x6, using <- x7, inst <- x8

\* Two installations whose Job may end within the removal of an old release.
RC == INSTANCE ApplicationRelease WITH
        Installers <- {i1, i2},
        Components <- {"frontend"},
        Versions <- {v1, v2},
        Seconds <- 1,
        HistoryMax <- 1,
        MaxRollbacks <- 0,
        Interruptible <- TRUE,
        dir <- x1, job <- x2, uids <- x3, inflight <- x4, history <- x5,
        rollbacks <- x6, using <- x7, inst <- x8

\* Two builds of two components over a release, cut at any step.
B == INSTANCE ApplicationBuild WITH
        Components <- <<"control-plane", "frontend">>,
        PartsOf <- PartsOf,
        MaxBuilds <- 2,
        Contents <- {1},
        Images <- {"image"},
        input <- x1, store <- x2, evidence <- x3, archives <- x4,
        records <- x5, job <- x6

\* Chains of partial publications of one component.
BP == INSTANCE ApplicationBuild WITH
        Components <- <<"model-server">>,
        PartsOf <- PartsOf,
        MaxBuilds <- 2,
        Contents <- {1, 2},
        Images <- {"cuda"},
        input <- x1, store <- x2, evidence <- x3, archives <- x4,
        records <- x5, job <- x6

\* An init container that is killed or loses its transfer twice.
D == INSTANCE ApplicationDownload WITH
        Files <- {"engine", "python", "rust"},
        Reference <- "selected",
        Other <- "other",
        MaxFaults <- 2,
        at <- x1, staging <- x2, current <- x3, todo <- x4, faults <- x5

\* The stages of a platform installation.
I == INSTANCE PlatformInstall WITH
        Threads <- Threads,
        Main <- "main",
        Network <- "network",
        LeaderWorker <- "leader_worker",
        Applications <- "applications",
        Prometheus <- "prometheus",
        Logs <- "logs",
        Dependencies <- "dependencies",
        Interrupt <- "interrupt",
        Scenarios <- Scenarios,
        at <- x1, cmd <- x2, err <- x3, live <- x4, callbacks <- x5,
        cancelled <- x6, error <- x7, stops <- x8, slow <- x9, source <- x10,
        deferred <- x11, queue <- x12, step <- x13, dependencies <- x14,
        genuine <- x15, ended <- x16

\* A registry with one mirror and an index with two, over two builds.
M == INSTANCE SourceSelection WITH
        Registries <- {"ghcr"},
        Variables <- {"goproxy"},
        Mirrors <- [ghcr |-> <<"m1">>, goproxy |-> <<"m1", "m2">>],
        Times <- {10, 60},
        MaxBuilds <- 2,
        completed <- x1, pending <- x2, answers <- x3, builds <- x4

Init == \/ /\ part = "release" /\ R!Init
           /\ x9 = None /\ x10 = None /\ x11 = None /\ x12 = None
           /\ x13 = None /\ x14 = None /\ x15 = None /\ x16 = None
        \/ /\ part = "cut" /\ RC!Init
           /\ x9 = None /\ x10 = None /\ x11 = None /\ x12 = None
           /\ x13 = None /\ x14 = None /\ x15 = None /\ x16 = None
        \/ /\ part = "batch" /\ B!Init
           /\ x7 = None /\ x8 = None /\ x9 = None /\ x10 = None /\ x11 = None
           /\ x12 = None /\ x13 = None /\ x14 = None /\ x15 = None
           /\ x16 = None
        \/ /\ part = "parts" /\ BP!Init
           /\ x7 = None /\ x8 = None /\ x9 = None /\ x10 = None /\ x11 = None
           /\ x12 = None /\ x13 = None /\ x14 = None /\ x15 = None
           /\ x16 = None
        \/ /\ part = "download" /\ D!Init
           /\ x6 = None /\ x7 = None /\ x8 = None /\ x9 = None /\ x10 = None
           /\ x11 = None /\ x12 = None /\ x13 = None /\ x14 = None
           /\ x15 = None /\ x16 = None
        \/ part = "install" /\ I!Init
        \/ /\ part = "mirrors" /\ M!Init
           /\ x5 = None /\ x6 = None /\ x7 = None /\ x8 = None /\ x9 = None
           /\ x10 = None /\ x11 = None /\ x12 = None /\ x13 = None
           /\ x14 = None /\ x15 = None /\ x16 = None

Next == \/ /\ part = "release" /\ R!Next
           /\ UNCHANGED <<part, x9, x10, x11, x12, x13, x14, x15, x16>>
        \/ /\ part = "cut" /\ RC!Next
           /\ UNCHANGED <<part, x9, x10, x11, x12, x13, x14, x15, x16>>
        \/ /\ part = "batch" /\ B!Next
           /\ UNCHANGED <<part, x7, x8, x9, x10, x11, x12, x13, x14, x15, x16>>
        \/ /\ part = "parts" /\ BP!Next
           /\ UNCHANGED <<part, x7, x8, x9, x10, x11, x12, x13, x14, x15, x16>>
        \/ /\ part = "download" /\ D!Next
           /\ UNCHANGED <<part, x6, x7, x8, x9, x10, x11, x12, x13, x14, x15,
                          x16>>
        \/ part = "install" /\ I!Next /\ UNCHANGED part
        \/ /\ part = "mirrors" /\ M!Next
           /\ UNCHANGED <<part, x5, x6, x7, x8, x9, x10, x11, x12, x13, x14, x15,
                          x16>>

Spec == Init /\ [][Next]_all

\* The files of every release that Helm may run or roll back to, and of every Pod
\* that still runs, are complete at the origin: the selection of one installation is
\* never collected by another one.  When an installer has ended, nothing writes to
\* the origin for it any more, although a request of its own may still create its Job.
OriginIsIntact ==
    /\ part = "release" => R!SelectedIsPublished /\ R!EndedIsQuiet
    /\ part = "cut" => RC!EndedIsQuiet

\* The evidence of every part of a publication is true of its files, through any chain
\* of partial publications; a recorded build names publications that hold, for the
\* parts that were asked for, the bytes and the environment that were asked for.
BuildsAreTrue ==
    [][/\ part = "parts" => BP!EvidenceIsTrue'
       /\ part = "batch" => B!RecordIsRequested]_all

\* The application starts only with all the files of the selected publication,
\* each of its size, whatever earlier attempts have left in the volume.
StartedIsComplete == part = "download" => D!StartedIsComplete

\* A preparation ends as a whole.  When cancel() is over no thread waits for a process
\* that runs on; when the command goes on no process and no stage is left; it succeeds
\* only if each stage did; and the failure that it reports is one that happened by
\* itself, never that of a command which was stopped because of it.
PreparationIsWhole ==
    part = "install" => /\ I!CancelIsComplete /\ I!NothingOutlivesPreparation
                        /\ I!NoFailureIsLost /\ I!ReportedIsGenuine

\* Builds do not change sources from one to the next: an automatic choice of the
\* last installation, or of the attempt before the first, is kept when it answers,
\* however much faster another one has become; and a build never downloads from a
\* source that has not answered while another one has.
AnsweringChoiceIsKept ==
    [][part = "mirrors" => M!AnsweringChoiceIsKept /\ M!ChosenAnswers]_all
=============================================================================
