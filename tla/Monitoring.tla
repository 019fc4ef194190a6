----------------------------- MODULE Monitoring -----------------------------
(***************************************************************************)
(* MonitoringLifecycle and MetaXExporterLifecycle: Prometheus, the node       *)
(* exporters and the label that lets the namespace of Prometheus scrape model *)
(* servers.  An installation runs Prometheus and the exporters in two         *)
(* threads; commands stop at any step, administrators grant and revoke the    *)
(* label and own releases and exporters of their own.                         *)
(***************************************************************************)
EXTENDS Naturals, FiniteSets

CONSTANTS Parts,        \* the objects of the MetaX exporter's manifest
          MaxOps, MaxExternal, Recorded, None

VARIABLES
    prometheus, dcgm, \* None, "ours", or "foreign": another owner's release of that name
    exporter,         \* another owner runs a DCGM exporter that covers the nodes
    shared,           \* another owner runs a Prometheus that can be used
    part,             \* part[o]: None, "ours" or "foreign"
    crds,             \* the monitoring APIs exist
    grant,            \* the namespace's scraper label: None, "ours" or "user"
    marked,           \* the annotation that says the label is ours
    install, remove,  \* the command's threads and its removal, or None
    ops, external

vars == <<prometheus, dcgm, exporter, shared, part, crds, grant, marked, install, remove, ops, external>>
Cluster == <<prometheus, dcgm, exporter, shared, part, crds, grant, marked>>

Init ==
    /\ prometheus = None /\ dcgm = None /\ exporter \in BOOLEAN /\ shared \in BOOLEAN
    /\ part \in [Parts -> {None, "foreign"}] /\ crds = shared /\ grant \in {None, "user"} /\ marked = FALSE
    /\ install = None /\ remove = None /\ ops = 0 /\ external = 0

Free == install = None /\ remove = None /\ ops < MaxOps /\ ops' = ops + 1 /\ UNCHANGED external
Step == UNCHANGED <<ops, external>>

\* managed_resources, ensure_available
MetaXOwned == {o \in Parts : part[o] = "ours"}
MetaXTaken == \E o \in Parts : part[o] = "foreign"
MetaXReused == \A o \in Parts : part[o] = "foreign"

\* resolve_install: what is installed, reused or refused, before any change
ResolveInstall ==
    /\ Free /\ prometheus # "foreign" /\ dcgm # "foreign" /\ ~(dcgm = "ours" /\ exporter)
    /\ MetaXTaken => MetaXReused
    /\ install' = [prometheus |-> IF prometheus = "ours" \/ ~shared THEN "helm" ELSE "done",
                   exporters |-> "crds", dcgm |-> dcgm = "ours" \/ ~exporter, metax |-> ~MetaXReused]
    /\ UNCHANGED <<Cluster, remove>>

At(thread, phase) == install # None /\ (IF install # None THEN install[thread] = phase ELSE FALSE)
Goto(thread, phase) == install' = [install EXCEPT ![thread] = phase]

\* _install_prometheus; the operator's APIs appear with it
InstallPrometheus ==
    /\ At("prometheus", "helm") /\ prometheus' = "ours" /\ crds' = TRUE /\ Goto("prometheus", "read")
    /\ UNCHANGED <<dcgm, exporter, shared, part, grant, marked, remove>> /\ Step

\* mark_managed_metrics_scraper_namespace: a label that is there is another's grant
ReadLabel ==
    /\ At("prometheus", "read") /\ Goto("prometheus", IF grant # None THEN "done" ELSE "annotate")
    /\ UNCHANGED <<Cluster, remove>> /\ Step

Annotate ==
    /\ At("prometheus", "annotate") /\ marked' = TRUE /\ Goto("prometheus", "label")
    /\ UNCHANGED <<prometheus, dcgm, exporter, shared, part, crds, grant, remove>> /\ Step

Label ==
    /\ At("prometheus", "label") /\ grant' = (IF grant = None THEN "ours" ELSE grant) /\ Goto("prometheus", "done")
    /\ UNCHANGED <<prometheus, dcgm, exporter, shared, part, crds, marked, remove>> /\ Step

\* prepare_exporters: the APIs, then DCGM, then the MetaX exporter
WaitForCrds ==
    /\ At("exporters", "crds") /\ crds /\ Goto("exporters", "dcgm") /\ UNCHANGED <<Cluster, remove>> /\ Step

InstallDcgm ==
    /\ At("exporters", "dcgm") /\ Goto("exporters", IF install.metax THEN "check" ELSE "done")
    /\ dcgm' = IF install.dcgm THEN "ours" ELSE dcgm
    /\ UNCHANGED <<prometheus, exporter, shared, part, crds, grant, marked, remove>> /\ Step

\* the exporter's own check, again, at installation
EnsureAvailable ==
    /\ At("exporters", "check") /\ (IF MetaXTaken THEN install' = None ELSE Goto("exporters", "apply"))
    /\ UNCHANGED <<Cluster, remove>> /\ Step

\* kubectl apply: the objects in any number, all of them when it succeeds
InstallMetaX ==
    /\ At("exporters", "apply")
    /\ \E done \in SUBSET Parts :
          /\ part' = [o \in Parts |-> IF o \in done THEN "ours" ELSE part[o]]
          /\ IF done = Parts THEN Goto("exporters", "done") ELSE install' = None
    /\ UNCHANGED <<prometheus, dcgm, exporter, shared, crds, grant, marked, remove>> /\ Step

Installed ==
    /\ At("prometheus", "done") /\ At("exporters", "done") /\ install' = None
    /\ UNCHANGED <<Cluster, remove>> /\ Step

\* resolve_uninstall
ResolveUninstall ==
    /\ Free /\ UNCHANGED <<Cluster, install>>
    /\ remove' = [phase |-> "dcgm", dcgm |-> dcgm = "ours", prometheus |-> prometheus = "ours",
                  metax |-> MetaXOwned # {}]

On(phase) == remove # None /\ (IF remove # None THEN remove.phase = phase ELSE FALSE)
Then(phase) == remove' = [remove EXCEPT !.phase = phase]

UninstallDcgm ==
    /\ On("dcgm") /\ dcgm' = (IF remove.dcgm THEN None ELSE dcgm) /\ Then("prometheus")
    /\ UNCHANGED <<prometheus, exporter, shared, part, crds, grant, marked, install>> /\ Step

UninstallPrometheus ==
    /\ On("prometheus") /\ UNCHANGED <<dcgm, exporter, shared, part, crds, grant, marked, install>> /\ Step
    /\ IF remove.prometheus THEN prometheus' = None /\ Then("unlabel") ELSE Then("metax") /\ UNCHANGED prometheus

\* Mutant of Unlabel: the label is removed whoever set it.
UnlabelAlways ==
    /\ On("unlabel") /\ grant' = None /\ Then("unmark")
    /\ UNCHANGED <<prometheus, dcgm, exporter, shared, part, crds, marked, install>> /\ Step

\* unmark_managed_metrics_scraper_namespace: a label that is marked as ours
Unlabel ==
    /\ On("unlabel") /\ Then(IF marked THEN "unmark" ELSE "metax")
    /\ grant' = IF marked THEN None ELSE grant
    /\ UNCHANGED <<prometheus, dcgm, exporter, shared, part, crds, marked, install>> /\ Step

Unmark ==
    /\ On("unmark") /\ marked' = FALSE /\ Then("metax")
    /\ UNCHANGED <<prometheus, dcgm, exporter, shared, part, crds, grant, install>> /\ Step

\* uninstall: the objects that are ours, in any number when it fails
UninstallMetaX ==
    /\ On("metax") /\ remove' = None
    /\ \E gone \in SUBSET MetaXOwned :
          part' = IF remove.metax THEN [o \in Parts |-> IF o \in gone THEN None ELSE part[o]] ELSE part
    /\ UNCHANGED <<prometheus, dcgm, exporter, shared, crds, grant, marked, install>> /\ Step

\* a step fails, or the command is interrupted
Fail ==
    /\ (install # None \/ remove # None) /\ install' = None /\ remove' = None
    /\ UNCHANGED Cluster /\ Step

\* administrators; Recorded: they leave the label alone while ours is being recorded
Administer ==
    /\ external < MaxExternal /\ external' = external + 1
    /\ \/ /\ ~Recorded \/ (install = None /\ ~marked)
          /\ grant' = (IF grant = None THEN "user" ELSE None)
          /\ UNCHANGED <<exporter, shared, part, crds>>
       \/ exporter' = ~exporter /\ UNCHANGED <<shared, part, crds, grant>>
       \/ shared' = ~shared /\ crds' = TRUE /\ UNCHANGED <<exporter, part, grant>>
       \/ /\ \E o \in Parts : IF part[o] = None THEN part' = [part EXCEPT ![o] = "foreign"]
                              ELSE part[o] = "foreign" /\ part' = [part EXCEPT ![o] = None]
          /\ ~At("exporters", "apply")   \* kubectl apply has no precondition on ownership
          /\ UNCHANGED <<exporter, shared, crds, grant>>
    /\ UNCHANGED <<prometheus, dcgm, marked, install, remove, ops>>

Next ==
    \/ ResolveInstall \/ InstallPrometheus \/ ReadLabel \/ Annotate \/ Label \/ WaitForCrds \/ InstallDcgm
    \/ EnsureAvailable \/ InstallMetaX \/ Installed \/ ResolveUninstall \/ UninstallDcgm
    \/ UninstallPrometheus \/ Unlabel \/ Unmark \/ UninstallMetaX \/ Fail \/ Administer

Spec == Init /\ [][Next]_vars

\* "Remove metrics access only when the namespace records CLI ownership": a label
\* that an administrator set while no ownership was recorded is never removed,
\* wherever earlier commands stopped.
AdministratorsGrantIsKept ==
    grant = "user" /\ grant' # "user" => external' > external

\* An installation with a Prometheus of its own ends with access granted to its
\* namespace, unless an administrator has revoked it meanwhile.
AccessIsGranted ==
    install # None /\ install' = None /\ At("prometheus", "done") /\ At("exporters", "done")
       /\ prometheus = "ours" /\ Recorded => grant # None

\* "Delete only CLI-owned exporter resources": objects of other owners stay.
OthersObjectsAreKept ==
    \A o \in Parts : part[o] = "foreign" /\ external' = external => part'[o] = "foreign"
=============================================================================
