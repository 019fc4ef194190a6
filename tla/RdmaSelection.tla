---------------------------- MODULE RdmaSelection ---------------------------
(***************************************************************************)
(* The accelerator of an installation, and its use of RDMA: which nodes are *)
(* in scope, whether the platform's own RDMA device plugin runs on them, and*)
(* when it may leave a node.  Helm records the values of an upgrade before  *)
(* it applies them, and the next command starts from the recorded values.   *)
(***************************************************************************)
EXTENDS Naturals, FiniteSets

CONSTANTS Nodes, Resources, MaxExternal, None

VARIABLES
    stored,    \* the values of the newest revision, or None: not installed
    plugin,    \* nodes on which the platform's device plugin runs
    gpus,      \* the accelerator each node offers, or None
    labelled,  \* nodes that the selector "zone" matches; "" matches every node
    pods,      \* nodes on which nonterminal Pods request the plugin's resource
    outside,   \* another owner's allocator: None, "found", or "unreadable"
    op,        \* the command; informed (history): stored names the plugin's nodes
    young, external

vars == <<stored, plugin, gpus, labelled, pods, outside, op, young, external>>

Idle == [phase |-> "idle"]

Init ==
    /\ stored = None /\ plugin = {} /\ pods = {} /\ op = Idle /\ young = {} /\ external = 0
    /\ gpus \in [Nodes -> Resources \union {None}] /\ labelled \in SUBSET Nodes
    /\ outside \in {None, "found", "unreadable"}

Stored(key) == IF stored = None THEN None ELSE stored[key]
Given(now, before) == IF now # None THEN now ELSE before

\* _resolve_runtime: a new selector drops the stored accelerator
Scope(want) ==
    [selector |-> Given(want.selector, Stored("selector")),
     resource |-> Given(want.resource, IF want.selector # None THEN None ELSE Stored("resource"))]

\* _select_runtime: one accelerator within the scope, which must be unambiguous
InScope(scope) == IF scope.selector = "zone" THEN labelled ELSE Nodes
Offered(scope) == {r \in Resources : \E n \in InScope(scope) : gpus[n] = r}
Ambiguous(scope) == scope.resource = None /\ Cardinality(Offered(scope)) > 1
Accelerator(scope) ==
    IF scope.resource # None THEN scope.resource
    ELSE IF Offered(scope) = {} THEN None ELSE CHOOSE r \in Offered(scope) : TRUE
SelectedNodes(scope) ==
    {n \in InScope(scope) : gpus[n] # None /\ gpus[n] = Accelerator(scope)}

\* select_rdma: the plugin is managed where asked for, or where nobody decided and
\* no other owner is found; asked for without nodes or beside others, it is refused
CanManage(nodes) == nodes # {} /\ outside = None
SelectRdma(managed, nodes) == managed # FALSE /\ CanManage(nodes)

\* _resolve_install: the plugin goes, leaves a node, or the scope changes
MustBeUnused(scope, managed, nodes) ==
    /\ stored # None
    /\ ~managed \/ scope.selector # stored.selector \/ stored.nodes \ nodes # {}

\* require_unused_managed_rdma
InUse == plugin # {} /\ pods # {}

BeginInstall(want) ==
    LET scope == Scope(want)
        nodes == SelectedNodes(scope)
        asked == Given(want.managed, Stored("managed"))
        managed == SelectRdma(asked, nodes)
    IN  /\ op = Idle /\ ~Ambiguous(scope) /\ (asked = TRUE => CanManage(nodes))
        /\ MustBeUnused(scope, managed, nodes) => ~InUse
        /\ op' = [phase |-> "install", values |->
                    [selector |-> scope.selector, resource |-> Accelerator(scope),
                     managed |-> managed, nodes |-> IF managed THEN nodes ELSE {}],
                  informed |-> plugin = IF stored = None THEN {} ELSE stored.nodes]
        /\ young' = {}
        /\ UNCHANGED <<stored, plugin, gpus, labelled, pods, outside, external>>

\* install_platform: it fails before Helm, is applied, or fails after Helm has
\* recorded it
Install ==
    /\ op.phase = "install"
    /\ \/ UNCHANGED <<stored, plugin>>
       \/ stored' = op.values /\ plugin' = op.values.nodes
       \/ stored' = op.values /\ UNCHANGED plugin
    /\ op' = Idle /\ UNCHANGED <<gpus, labelled, pods, outside, young, external>>

\* _uninstall
BeginUninstall ==
    /\ op = Idle /\ stored # None /\ ~InUse
    /\ op' = [phase |-> "uninstall", informed |-> TRUE] /\ young' = {}
    /\ UNCHANGED <<stored, plugin, gpus, labelled, pods, outside, external>>

Uninstall ==
    /\ op.phase = "uninstall"
    /\ \/ UNCHANGED <<stored, plugin>>
       \/ stored' = None /\ plugin' = {}
    /\ op' = Idle /\ UNCHANGED <<gpus, labelled, pods, outside, young, external>>

External ==
    /\ external < MaxExternal /\ external' = external + 1
    /\ \/ /\ \E n \in Nodes, r \in Resources \union {None} : gpus' = [gpus EXCEPT ![n] = r]
          /\ UNCHANGED <<labelled, pods, young, outside>>
       \/ labelled' \in SUBSET Nodes /\ UNCHANGED <<gpus, pods, young, outside>>
       \/ /\ \E n \in pods : pods' = pods \ {n}
          /\ UNCHANGED <<gpus, labelled, young, outside>>
       \/ /\ \E n \in plugin \ pods : pods' = pods \union {n} /\ young' = young \union {n}
          /\ UNCHANGED <<gpus, labelled, outside>>
       \/ /\ outside' \in {None, "found", "unreadable"}
          /\ UNCHANGED <<gpus, labelled, pods, young>>
    /\ UNCHANGED <<stored, plugin, op>>

Next ==
    \/ \E want \in [selector : {"", "zone", None}, resource : Resources \union {None},
                    managed : {TRUE, FALSE, None}] : BeginInstall(want)
    \/ Install \/ BeginUninstall \/ Uninstall \/ External

Spec == Init /\ [][Next]_vars

\* "Preserve a managed device allocation while nonterminal Pods still request
\* it": the plugin leaves a node only when no Pod on it, other than those that
\* came during the command, uses the allocation, whatever took the node out.  An
\* installation knows the nodes from the record of the last one, which has to be true.
PluginStaysForPods ==
    op # Idle /\ op.informed => (plugin \ plugin') \intersect pods \subseteq young
=============================================================================
