------------------------- MODULE PlatformRetirement -------------------------
(***************************************************************************)
(* PlatformLifecycle.install and .uninstall beside the deployment manager   *)
(* and the users of the cluster: the retiring fence on the platform's       *)
(* configuration, the deployment instances, the admission store with its    *)
(* claim, and the bootstrapped application storage.  Commands fail between  *)
(* any two steps and are run again; the manager works from what it read;    *)
(* Kubernetes assigns owners and collects garbage in its own time.          *)
(***************************************************************************)
EXTENDS Naturals, FiniteSets

CONSTANTS Instances, MaxApps, MaxCommands, None

VARIABLES
    release,   \* the platform's Helm release exists
    fence,     \* its configuration: None, "open" or "retiring"
    app,       \* app[i]: None or the InferenceDeployment [deleting, final, runs]
    admitted,  \* instances whose reconciliation read an open platform
    store,     \* the admission StatefulSet: None, "running", "stopping", "stopped"
    claim,     \* its PersistentVolumeClaim: None or [controlled, receipt]
    origin,    \* application storage exists
    op, apps, commands,
    result     \* of the last command: None, "installed", "uninstalled"

vars == <<release, fence, app, admitted, store, claim, origin, op, apps, commands, result>>

Idle == [phase |-> "idle"]
At(phase) == op.phase = phase
Goes(phase) == op' = [op EXCEPT !.phase = phase]
Platform == <<release, fence>>
Storage == <<store, claim, origin>>
Users == <<app, admitted, apps>>

Init ==
    /\ release = FALSE /\ fence = None /\ app = [i \in Instances |-> None] /\ admitted = {}
    /\ store = None /\ claim = None /\ origin = FALSE
    /\ op = Idle /\ apps = 0 /\ commands = 0 /\ result = None

\* a command ends with an error, at any step; nothing is rolled back
Fail ==
    /\ ~At("idle") /\ op' = Idle
    /\ UNCHANGED <<Platform, Storage, Users, commands, result>>

Begin(phase) ==
    /\ At("idle") /\ commands < MaxCommands /\ commands' = commands + 1
    /\ op' = [phase |-> phase] /\ result' = None
    /\ UNCHANGED <<Platform, Storage, Users>>

\* PlatformApplicationFiles.prepare, before the chart is installed
PrepareOrigin ==
    /\ At("origin") /\ origin' = TRUE /\ Goes("helm")
    /\ UNCHANGED <<Platform, store, claim, Users, commands, result>>

\* Helm creates what is absent; the annotation of the fence is not the chart's; a
\* claim that an earlier store left is collected before, or bound again
New == [controlled |-> FALSE, receipt |-> FALSE]
CreateConfiguration == fence' = IF fence = None THEN "open" ELSE fence
CreateStore ==
    /\ store' = "running"
    /\ claim' \in IF claim = None THEN {New} ELSE IF store # None THEN {claim}
                  ELSE {New, [claim EXCEPT !.controlled = FALSE]}

HelmInstall ==
    /\ At("helm") /\ release' = TRUE /\ Goes("reopen")
    /\ CreateConfiguration /\ CreateStore /\ origin' = TRUE
    /\ UNCHANGED <<Users, commands, result>>

\* an upgrade that fails has recorded the release and applied a part of the chart
HelmInstallBreaks ==
    /\ At("helm") /\ release' = TRUE /\ op' = Idle
    /\ CreateConfiguration \/ UNCHANGED fence
    /\ CreateStore \/ UNCHANGED <<store, claim>>
    /\ UNCHANGED <<origin, Users, commands, result>>

\* set_platform_retiring(retiring=False), then the installation is ready
Reopen ==
    /\ At("reopen") /\ fence # None /\ fence' = "open" /\ op' = Idle /\ result' = "installed"
    /\ UNCHANGED <<release, Storage, Users, commands>>

\* Mutant of Fence: the platform is not marked as retiring.
FenceMissing ==
    /\ At("fence") /\ UNCHANGED fence
    /\ op' = [phase |-> "list", existed |-> release, origin |-> origin /\ ~release,
              wait |-> claim # None /\ claim.receipt]
    /\ UNCHANGED <<release, Storage, Users, commands, result>>

\* set_platform_retiring(retiring=True), then what is owned is looked up: the
\* storage that no release adopted, and the receipts of an earlier attempt
Fence ==
    /\ At("fence") /\ fence' = (IF fence = None THEN None ELSE "retiring")
    /\ op' = [phase |-> "list", existed |-> release, origin |-> origin /\ ~release,
              wait |-> claim # None /\ claim.receipt]
    /\ UNCHANGED <<release, Storage, Users, commands, result>>

ListDeployments ==
    /\ At("list")
    /\ op' = [phase |-> "retire", existed |-> op.existed, origin |-> op.origin, wait |-> op.wait,
              listed |-> {i \in Instances : app[i] # None}]
    /\ UNCHANGED <<Platform, Storage, Users, commands, result>>

\* deletion of one listed instance: without the manager's finalizer it is gone at
\* once
Deleted(i) == IF app[i].final THEN [app[i] EXCEPT !.deleting = TRUE] ELSE None
RetireOne(i) ==
    /\ At("retire") /\ i \in op.listed /\ app[i] # None /\ ~app[i].deleting
    /\ app' = [app EXCEPT ![i] = Deleted(i)]
    /\ UNCHANGED <<Platform, Storage, admitted, apps, op, commands, result>>

\* wait_deleted for each of them
RetireDeployments ==
    /\ At("retire") /\ \A i \in op.listed : app[i] = None
    /\ Goes("check") /\ UNCHANGED <<Platform, Storage, Users, commands, result>>

\* _platform_service_resources: whatever is left, refuses
CheckRemaining ==
    /\ At("check") /\ \A i \in Instances : app[i] = None
    /\ Goes(IF op.existed /\ store # None THEN "stop" ELSE "remove")
    /\ UNCHANGED <<Platform, Storage, Users, commands, result>>

\* AdmissionStoreRetirement.prepare: scale to zero
StopStore ==
    /\ At("stop") /\ store # None /\ store' = "stopping" /\ Goes("owned")
    /\ UNCHANGED <<Platform, claim, origin, Users, commands, result>>

\* Mutant of RecordClaims: no receipt is left on the claims.
RecordNothing ==
    /\ At("owned") /\ store = "stopped" /\ (claim # None => claim.controlled)
    /\ op' = [op EXCEPT !.phase = "remove", !.wait = claim # None]
    /\ UNCHANGED <<Platform, Storage, Users, commands, result>>

\* the claim belongs to the stopped store, then its receipt is persisted
RecordClaims ==
    /\ At("owned") /\ store = "stopped" /\ (claim # None => claim.controlled)
    /\ claim' = IF claim = None THEN None ELSE [claim EXCEPT !.receipt = TRUE]
    /\ op' = [op EXCEPT !.phase = "remove", !.wait = claim # None]
    /\ UNCHANGED <<Platform, store, origin, Users, commands, result>>

\* helm uninstall, or the removal of the storage that no release adopted
Remove ==
    /\ At("remove") /\ Goes("claims")
    /\ IF op.existed THEN release' = FALSE /\ fence' = None /\ store' = None /\ origin' = FALSE
       ELSE origin' = (origin /\ ~op.origin) /\ UNCHANGED <<release, fence, store>>
    /\ UNCHANGED <<claim, Users, commands, result>>

\* a removal that fails keeps the release, and has deleted a part of it
RemoveBreaks ==
    /\ At("remove") /\ op.existed /\ op' = Idle
    /\ fence' \in {fence, None} /\ store' \in {store, None} /\ origin' \in {origin, FALSE}
    /\ UNCHANGED <<release, claim, Users, commands, result>>

\* wait_deleted for each receipt, then the command reports success
WaitClaims ==
    /\ At("claims") /\ (op.wait => claim = None)
    /\ op' = Idle /\ result' = "uninstalled"
    /\ UNCHANGED <<Platform, Storage, Users, commands>>

\* Kubernetes: the StatefulSet controller stops the Pods and owns the claim, and
\* the claim of a removed store is collected
StoreController ==
    /\ \/ store = "stopping" /\ store' = "stopped" /\ UNCHANGED claim
       \/ /\ store # None /\ claim # None /\ ~claim.controlled
          /\ claim' = [claim EXCEPT !.controlled = TRUE] /\ UNCHANGED store
       \/ store = None /\ claim # None /\ claim.controlled /\ claim' = None /\ UNCHANGED store
    /\ UNCHANGED <<Platform, origin, Users, op, commands, result>>

\* a user creates or deletes an instance at any time
CreateApp(i) ==
    /\ app[i] = None /\ apps < MaxApps /\ apps' = apps + 1
    /\ app' = [app EXCEPT ![i] = [deleting |-> FALSE, final |-> FALSE, runs |-> FALSE]]
    /\ UNCHANGED <<Platform, Storage, admitted, op, commands, result>>

DeleteApp(i) ==
    /\ app[i] # None /\ ~app[i].deleting /\ app' = [app EXCEPT ![i] = Deleted(i)]
    /\ UNCHANGED <<Platform, Storage, admitted, apps, op, commands, result>>

\* the manager runs while the release does.  Reconcile reads the instance and the
\* platform; on its first pass it adds the finalizer to the version it read
ReadPlatform(i) ==
    /\ release /\ app[i] # None /\ ~app[i].deleting /\ fence = "open" /\ i \notin admitted
    /\ IF app[i].final THEN admitted' = admitted \union {i} /\ UNCHANGED app
       ELSE app' = [app EXCEPT ![i].final = TRUE] /\ UNCHANGED admitted
    /\ UNCHANGED <<Platform, Storage, apps, op, commands, result>>

\* selectController and materialize, from the platform that was read
Materialize(i) ==
    /\ release /\ i \in admitted /\ admitted' = admitted \ {i}
    /\ app' = [app EXCEPT ![i].runs = TRUE]
    /\ UNCHANGED <<Platform, Storage, apps, op, commands, result>>

\* retire: services, then the controller, then the finalizer; one reconciliation
\* of an instance at a time
RetireApp(i) ==
    /\ release /\ app[i] # None /\ app[i].deleting /\ i \notin admitted
    /\ app' = [app EXCEPT ![i] = None]
    /\ UNCHANGED <<Platform, Storage, admitted, apps, op, commands, result>>

Command ==
    \/ Begin("origin") \/ PrepareOrigin \/ HelmInstall \/ HelmInstallBreaks \/ Reopen
    \/ Begin("fence") \/ Fence \/ ListDeployments
    \/ \E i \in Instances : RetireOne(i)
    \/ RetireDeployments \/ CheckRemaining \/ StopStore \/ RecordClaims \/ Remove \/ RemoveBreaks \/ WaitClaims
    \/ Fail

Environment ==
    \/ StoreController
    \/ \E i \in Instances :
          CreateApp(i) \/ DeleteApp(i) \/ ReadPlatform(i) \/ Materialize(i) \/ RetireApp(i)

Next == Command \/ Environment

Spec == Init /\ [][Next]_vars

\* "Fence new instances before draining existing ones and removing their platform
\* dependencies": neither the platform that retires instances nor the admission
\* store goes while one runs, however its creation and its reconciliation fall
\* between the steps.
DependenciesOutliveInstances ==
    (release /\ ~release') \/ (store = "running" /\ store' # "running")
        => \A i \in Instances : app[i] = None \/ ~app[i].runs

\* A successful uninstallation, also one that finishes what failed attempts began,
\* leaves no claim and no application storage behind.
NothingIsLeftBehind == result = "uninstalled" => ~release /\ claim = None /\ ~origin

\* A successful installation accepts instances, also over a platform that a failed
\* uninstallation had fenced.
InstalledIsOpen == result = "installed" => fence = "open"
=============================================================================
