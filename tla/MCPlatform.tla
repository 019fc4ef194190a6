----------------------------- MODULE MCPlatform -----------------------------
(***************************************************************************)
(* The commands on a cluster: the parts of the platform that they share    *)
(* with other owners, the deployments, and the cache of the models these   *)
(* serve. The components share no state, so one run checks them side by    *)
(* side: part names the component that moves, and x1 to x12 are its        *)
(* variables.                                                              *)
(***************************************************************************)
EXTENDS Integers, Sequences, FiniteSets, TLC

CONSTANT None

\* the component that moves, and its variables in the order of its vars
VARIABLES part, x1, x2, x3, x4, x5, x6, x7, x8, x9, x10, x11, x12

all == <<part, x1, x2, x3, x4, x5, x6, x7, x8, x9, x10, x11, x12>>

\* volumes, nodes, addresses, instances: two of a kind that are alike
CONSTANTS one, two, dcgm, mx

Symmetric == Permutations({one, two}) \union Permutations({dcgm, mx})

Expressions ==
    [key : {"name", "team"}, operator : {"Exists", "DoesNotExist", "In", "NotIn"},
     values : {{"v"}}]
LabelSelectors ==
    [labels : UNION {[D -> {"v", "w"}] : D \in SUBSET {"name", "team"}},
     expressions : {{}} \union {{e} : e \in Expressions}]
NamespaceSelectors ==
    {None, [labels |-> [team |-> "v"], expressions |-> {}],
     [labels |-> [name |-> "v"], expressions |-> {}]}

KindOf == [deploy |-> "deploy", other |-> "deploy", stop |-> "stop",
           remove |-> "delete", bench |-> "bench"]

\* two revisions share the weights and differ in the configuration
RevisionOf == [a |-> "r1", b |-> "r2", c |-> "r1"]
BlobOf == [r1 |-> [weights |-> "w", config |-> "c1"],
           r2 |-> [weights |-> "w", config |-> "c2"]]

\* The Gateway controller, with two ports to choose from.
G == INSTANCE GatewayController WITH
        Ports <- {1, 2},
        MaxExternal <- 3,
        own <- x1, shared <- x2, plat <- x3, classes <- x4, users <- x5,
        op <- x6, young <- x7, refusal <- x8, external <- x9

\* MetalLB in every cluster of two nodes.
B == INSTANCE LoadBalancer WITH
        Addresses <- {one, two},
        Nodes <- {"n1", "n2"},
        MaxExternal <- 3,
        rel <- x1, stored <- x2, crds <- x3, objects <- x4, config <- x5,
        services <- x6, k3s <- x7, cloud <- x8, op <- x9, young <- x10,
        refusal <- x11, external <- x12

\* The LeaderWorkerSet controller beside those of two other owners.
L == INSTANCE LeaderWorker WITH
        Deployments <- {one, two},
        MaxExternal <- 3,
        rel <- x1, provider <- x2, hooks <- x3, volcano <- x4, served <- x5,
        sets <- x6, op <- x7, young <- x8, refusal <- x9, external <- x10

\* Network attachments of two interfaces.
N == INSTANCE RdmaNetworks WITH
        Masters <- {one, two},
        Instances <- {"instance"},
        MaxNetworks <- 3,
        MaxInstalls <- 3,
        MaxExternal <- 2,
        plat <- x1, nads <- x2, inst <- x3, multus <- x4, agents <- x5,
        strangers <- x6, fabric <- x7, op <- x8, count <- x9, installs <- x10,
        young <- x11, external <- x12

\* The device plugin of two nodes, and upgrades that are recorded and not
\* applied.
D == INSTANCE RdmaSelection WITH
        Nodes <- {one, two},
        Resources <- {"nvidia", "metax"},
        MaxExternal <- 2,
        stored <- x1, plugin <- x2, gpus <- x3, labelled <- x4, pods <- x5,
        outside <- x6, op <- x7, young <- x8, external <- x9

\* Installations and removals of a platform with two instances.
R == INSTANCE PlatformRetirement WITH
        Instances <- {one, two},
        MaxApps <- 4,
        MaxCommands <- 5,
        release <- x1, fence <- x2, app <- x3, admitted <- x4, store <- x5,
        claim <- x6, origin <- x7, op <- x8, apps <- x9, commands <- x10,
        result <- x11

\* The download service and two of its consumers.
M == INSTANCE ModelDistribution WITH
        Consumers <- {one, two},
        MaxExternal <- 4,
        daemons <- x1, release <- x2, open <- x3, loose <- x4, proxy <- x5,
        offered <- x6, uses <- x7, ended <- x8, op <- x9, young <- x10,
        external <- x11

\* A shared directory whose claim stays while it is looked up.
S == INSTANCE DirectorySource WITH
        Volumes <- {one, two},
        MaxUid <- 2,
        MaxVersion <- 5,
        StaysDuringLookup <- TRUE,
        claim <- x1, uids <- x2, volume <- x3, data <- x4, aliases <- x5,
        admin <- x6, op <- x7

\* A shared directory whose claim may be deleted at any time.
SR == INSTANCE DirectorySource WITH
        Volumes <- {one, two},
        MaxUid <- 2,
        MaxVersion <- 5,
        StaysDuringLookup <- FALSE,
        claim <- x1, uids <- x2, volume <- x3, data <- x4, aliases <- x5,
        admin <- x6, op <- x7

\* Log collection with two sizes and two paths of its state.
C == INSTANCE LogCollection WITH
        Sizes <- {1, 2},
        Paths <- {"p1", "p2"},
        DefaultPath <- "p1",
        MaxOps <- 6,
        MaxExternal <- 3,
        owner <- x1, size <- x2, state <- x3, target <- x4, op <- x5,
        ops <- x6, external <- x7

\* Every pair of label selectors over two keys.
P == INSTANCE PrometheusSelection WITH
        Keys <- {"name", "team"},
        Values <- {"v", "w"},
        Fixed <- [name |-> "v"],
        Selectors <- LabelSelectors,
        NamespaceSelectors <- NamespaceSelectors,
        NamespaceLabels <- [team |-> "v"],
        candidate <- x1, others <- x2, requested <- x3, result <- x4

\* Monitoring; nobody writes the label while ownership of it is recorded.
O == INSTANCE Monitoring WITH
        Parts <- {one, two},
        MaxOps <- 4,
        MaxExternal <- 2,
        Recorded <- TRUE,
        prometheus <- x1, dcgm <- x2, exporter <- x3, shared <- x4,
        part <- x5, crds <- x6, grant <- x7, marked <- x8, install <- x9,
        remove <- x10, ops <- x11, external <- x12

\* Two exporters on two nodes.
T == INSTANCE ExporterTargets WITH
        Kinds <- {dcgm, mx},
        Nodes <- {one, two},
        Generations <- {0, 1},
        Timeout <- 2,
        MaxExternal <- 4,
        current <- x1, series <- x2, rolling <- x3, targets <- x4,
        pending <- x5, clock <- x6, result <- x7, external <- x8, seen <- x9

\* A deployment, a stop and a deletion, with an edit by another tool.
U == INSTANCE DeploymentSubmission WITH
        Cmds <- {"deploy", "stop", "remove"},
        Kind <- KindOf,
        Suspended <- {},
        Retaining <- {},
        MaxEdits <- 1,
        MaxStatus <- 1,
        inst <- x1, svc <- x2, cache <- x3, holder <- x4, cmd <- x5,
        uids <- x6, env <- x7, claims <- x8

\* Two deployments of one service, one of them suspended, and a benchmark.
UT == INSTANCE DeploymentSubmission WITH
        Cmds <- {"deploy", "other", "bench"},
        Kind <- KindOf,
        Suspended <- {"other"},
        Retaining <- {},
        MaxEdits <- 0,
        MaxStatus <- 0,
        inst <- x1, svc <- x2, cache <- x3, holder <- x4, cmd <- x5,
        uids <- x6, env <- x7, claims <- x8

\* A benchmark that keeps its storage, a deployment and an edit by another tool.
UB == INSTANCE DeploymentSubmission WITH
        Cmds <- {"deploy", "bench"},
        Kind <- KindOf,
        Suspended <- {},
        Retaining <- {"bench"},
        MaxEdits <- 1,
        MaxStatus <- 1,
        inst <- x1, svc <- x2, cache <- x3, holder <- x4, cmd <- x5,
        uids <- x6, env <- x7, claims <- x8

\* The wait for a service that is changed, stopped or deleted.
W == INSTANCE ServiceProgress WITH
        Kinds <- {"ModelService", "FrontendService"},
        MaxGen <- 2,
        kind <- x1, spec <- x2, status <- x3, seen <- x4, did <- x5,
        wait <- x6

\* Two pool revisions that use one model revision, and a third that shares its
\* weights.
K == INSTANCE ModelCache WITH
        Records <- {"a", "b", "c"},
        Revision <- RevisionOf,
        Files <- {"weights", "config"},
        Blob <- BlobOf,
        Prepared <- {"b"},
        MaxCrashes <- 2,
        rec <- x1, job <- x2, result <- x3, serving <- x4, native <- x5,
        snap <- x6, partial <- x7, view <- x8, gc <- x9, crashes <- x10

\* Two revisions that are prepared from an empty cache.
KC == INSTANCE ModelCache WITH
        Records <- {"a", "b"},
        Revision <- RevisionOf,
        Files <- {"weights", "config"},
        Blob <- BlobOf,
        Prepared <- {},
        MaxCrashes <- 1,
        rec <- x1, job <- x2, result <- x3, serving <- x4, native <- x5,
        snap <- x6, partial <- x7, view <- x8, gc <- x9, crashes <- x10

Init == \/ part = "gateway" /\ G!Init /\ x10 = None /\ x11 = None /\ x12 = None
        \/ part = "balancer" /\ B!Init
        \/ part = "workers" /\ L!Init /\ x11 = None /\ x12 = None
        \/ part = "networks" /\ N!Init
        \/ part = "devices" /\ D!Init /\ x10 = None /\ x11 = None /\ x12 = None
        \/ part = "retirement" /\ R!Init /\ x12 = None
        \/ part = "downloads" /\ M!Init /\ x12 = None
        \/ /\ part = "directory" /\ S!Init
           /\ x8 = None /\ x9 = None /\ x10 = None /\ x11 = None /\ x12 = None
        \/ /\ part = "rebound" /\ SR!Init
           /\ x8 = None /\ x9 = None /\ x10 = None /\ x11 = None /\ x12 = None
        \/ /\ part = "logs" /\ C!Init
           /\ x8 = None /\ x9 = None /\ x10 = None /\ x11 = None /\ x12 = None
        \/ /\ part = "selectors" /\ P!Init
           /\ x5 = None /\ x6 = None /\ x7 = None /\ x8 = None /\ x9 = None
           /\ x10 = None /\ x11 = None /\ x12 = None
        \/ part = "monitoring" /\ O!Init
        \/ part = "targets" /\ T!Init /\ x10 = None /\ x11 = None /\ x12 = None
        \/ /\ \/ part = "submission" /\ U!Init
              \/ part = "two" /\ UT!Init
              \/ part = "bench" /\ UB!Init
           /\ x9 = None /\ x10 = None /\ x11 = None /\ x12 = None
        \/ /\ part = "progress" /\ W!Init
           /\ x7 = None /\ x8 = None /\ x9 = None /\ x10 = None /\ x11 = None /\ x12 = None
        \/ /\ \/ part = "cache" /\ K!Init
              \/ part = "cold" /\ KC!Init
           /\ x11 = None /\ x12 = None

Next == \/ part = "gateway" /\ G!Next /\ UNCHANGED <<part, x10, x11, x12>>
        \/ part = "balancer" /\ B!Next /\ UNCHANGED part
        \/ part = "workers" /\ L!Next /\ UNCHANGED <<part, x11, x12>>
        \/ part = "networks" /\ N!Next /\ UNCHANGED part
        \/ part = "devices" /\ D!Next /\ UNCHANGED <<part, x10, x11, x12>>
        \/ part = "retirement" /\ R!Next /\ UNCHANGED <<part, x12>>
        \/ part = "downloads" /\ M!Next /\ UNCHANGED <<part, x12>>
        \/ /\ part = "directory" /\ S!Next
           /\ UNCHANGED <<part, x8, x9, x10, x11, x12>>
        \/ /\ part = "rebound" /\ SR!Next
           /\ UNCHANGED <<part, x8, x9, x10, x11, x12>>
        \/ part = "logs" /\ C!Next /\ UNCHANGED <<part, x8, x9, x10, x11, x12>>
        \/ /\ part = "selectors" /\ P!Next
           /\ UNCHANGED <<part, x5, x6, x7, x8, x9, x10, x11, x12>>
        \/ part = "monitoring" /\ O!Next /\ UNCHANGED part
        \/ part = "targets" /\ T!Next /\ UNCHANGED <<part, x10, x11, x12>>
        \/ part = "submission" /\ U!Next /\ UNCHANGED <<part, x9, x10, x11, x12>>
        \/ part = "two" /\ UT!Next /\ UNCHANGED <<part, x9, x10, x11, x12>>
        \/ part = "bench" /\ UB!Next /\ UNCHANGED <<part, x9, x10, x11, x12>>
        \/ /\ part = "progress" /\ W!Next
           /\ UNCHANGED <<part, x7, x8, x9, x10, x11, x12>>
        \/ part = "cache" /\ K!Next /\ UNCHANGED <<part, x11, x12>>
        \/ part = "cold" /\ KC!Next /\ UNCHANGED <<part, x11, x12>>

Spec == Init /\ [][Next]_all

\* What an installation or a removal has left half done never makes a later
\* command refuse: a controller is refused only for what other owners have in
\* the cluster.
RefusedOnlyForOthers ==
    /\ part = "gateway" => G!RefusedOnlyForOthers
    /\ part = "balancer" => B!RefusedOnlyForOthers
    /\ part = "workers" => L!RefusedOnlyForOthers

\* What is in use stays.  A command takes away a controller, an address pool, the
\* agents of the networks, a device allocation, the platform under running instances, a
\* download address or its daemons, only when whatever still uses it came after the
\* command's look at the cluster; network attachments that an instance once read stay
\* until the platform is uninstalled; and attachments are never without agents, log
\* collectors never without their store, aliases never without their directory.
UsedIsKept ==
    [][/\ part = "networks" => /\ N!AgentsOutliveAttachments'
                               /\ N!AgentsOutlivePods /\ N!SelectionsStayValid
       /\ part = "logs" => C!CollectorsHaveAStore'
       /\ part = "directory" => S!AliasedDirectoriesExist'
       /\ part = "gateway" => G!ControllerOutlivesClasses
       /\ part = "balancer" => B!PoolOutlivesServices
       /\ part = "workers" => L!ControllerOutlivesSets
       /\ part = "devices" => D!PluginStaysForPods
       /\ part = "retirement" => R!DependenciesOutliveInstances
       /\ part = "downloads" => M!ProxyOutlivesConsumers /\ M!DaemonsOutliveConsumers]_all

\* What belongs to others is neither changed nor removed, wherever earlier commands
\* stopped: address pools without our label, daemons and Services of others, releases
\* of log services, objects of exporters, and the label that an administrator has set.
OthersAreKept ==
    [][/\ part = "balancer" => B!UnlabelledIsKept
       /\ part = "downloads" => M!OthersAreKept
       /\ part = "logs" => C!OthersReleasesAreKept
       /\ part = "monitoring" => O!AdministratorsGrantIsKept /\ O!OthersObjectsAreKept]_all

\* What an installation once settled stays through upgrades, interrupted ones too: the
\* requested addresses, one attachment for each interface, the port of the entry point,
\* the provider of gang scheduling, and the size and the location of log storage.
SettingsStay ==
    [][/\ part = "balancer" => B!PoolIsResumable'
       /\ part = "networks" => N!OneAttachmentPerInterface'
       /\ part = "gateway" => G!EntryPointStays
       /\ part = "workers" => L!VolcanoStays
       /\ part = "logs" => C!SizeIsNeverChanged /\ C!StateStaysInPlace]_all

\* Success means success: an uninstallation, also one that finishes what failed attempts
\* began, leaves no claim and no application storage behind; an installation accepts
\* instances, has granted access to its own Prometheus, and has seen the exporter Pod of
\* every node up.
SuccessIsComplete ==
    [][/\ part = "retirement" => (R!NothingIsLeftBehind /\ R!InstalledIsOpen)'
       /\ part = "targets" => T!CollectedMeansSeen'
       /\ part = "monitoring" => O!AccessIsGranted]_all

\* "Native preconditions reject a rebound or concurrently changed source
\* volume": the volume given to namespaces is the one of the claim that was
\* asked for, though claims of that name come and go and volumes are bound to
\* others.
AliasesTheRequestedClaim ==
    [][part = "rebound" => SR!AliasesTheRequestedClaim]_all

\* The chosen Prometheus selects the platform's monitors and its rules, both with the
\* same added labels, which never replace the platform's own; and an instance that is
\* named, ready, trusted and looks at the namespace is refused only when no labels
\* whatever would make it select the resources.
ChosenSelectsTheResources ==
    part = "selectors" => P!ChosenSelectsTheResources /\ P!RefusedOnlyWhenImpossible

\* The command that claimed the instance last has its way.  After stop has succeeded
\* the service stays stopped until a later command resumes it; a deployment that was
\* slow to build never undoes a newer intent or an edit, and one that reports success
\* has left its own configuration in place; a benchmark removes only what it has
\* created and nobody has taken over.
LaterCommandWins ==
    [][/\ part = "submission" => U!StopHolds' /\ U!NoNewerIntentIsLost /\ U!SuccessIsDeployed
       /\ part = "two" => UT!NoNewerIntentIsLost /\ UT!CleanupIsOwn
       /\ part = "bench" => UB!NoNewerIntentIsLost /\ UB!CleanupIsOwn]_all

\* The wait ends well only when the controller has brought about everything that
\* the current generation asks for: a workload of this generation that serves, or
\* the stop, and the alert rules made for it; and only for the awaited deployment.
ConvergedIsReached ==
    [][part = "progress" => W!ConvergedIsReached /\ W!AlertsAreReached]_all

\* The files of a model server stay in the cache for as long as it runs, also when
\* its source has been retired and while other revisions that share their contents
\* are collected; and they hold only bytes that the provider vouches for, though
\* interrupted transfers leave links to blobs that others use.
ServedModelsAreIntact ==
    /\ part = "cache" => K!ServedFilesAreKept /\ K!ServedBytesAreGood
    /\ part = "cold" => KC!ServedFilesAreKept /\ KC!ServedBytesAreGood
=============================================================================
